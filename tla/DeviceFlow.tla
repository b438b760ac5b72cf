----------------------------- MODULE DeviceFlow -----------------------------
(***************************************************************************)
(* The device code login of src/src/oidc.rs (authenticate_device_flow and  *)
(* the requests it makes) against an identity provider and a person with a *)
(* browser.  A login may be tried again after it ended.                    *)
(*                                                                         *)
(* A point in time is kept as the number of seconds left until it.  The    *)
(* provider is not trusted with time: it may go on answering after the     *)
(* device code has expired, and expire it early.                           *)
(***************************************************************************)
EXTENDS Integers

CONSTANTS
  MinInterval,   \* MIN_POLL_INTERVAL_SECS
  SlowBy,        \* seconds added by each slow_down
  HttpTimeout,   \* timeout_global of the HTTP agent
  Intervals,     \* values of interval in the device authorization response
  Lifetimes      \* values of expires_in in it

ASSUME FlowAssumption ==
  /\ MinInterval \in Nat \ {0}
  /\ SlowBy \in Nat
  /\ HttpTimeout \in Nat \ {0}
  /\ Intervals \subseteq Nat
  /\ Lifetimes \subseteq Nat

VARIABLES
  phase,     \* where authenticate_device_flow is
  asked,     \* device_auth.interval
  life,      \* device_auth.expires_in
  interval,  \* interval_secs
  left,      \* seconds until deadline, -1 once it is past
  wait,      \* seconds until the sleep or the request in progress times out
  answer,    \* what the provider has answered to the request in flight
  code,      \* the provider's view of the device code
  result,    \* how the last login ended
  polls,     \* history: requests sent to the token endpoint
  slowed,    \* history: slow_down answers received
  quiet      \* history: seconds since the last answer, up to MaxQuiet

vars == <<phase, asked, life, interval, left, wait, answer, code, result,
          polls, slowed, quiet>>

Phases == {"idle", "display", "sleep", "poll"}
Codes == {"none", "pending", "approved", "denied", "spent"}
Answers == {"none", "token", "authorization_pending", "slow_down",
            "expired_token", "access_denied"}
Results == {"none", "token", "expired", "refused", "http_error"}

(* quiet is compared with the interval only, and need not exceed it. *)
MaxQuiet == interval

AtLeast(x, y) == IF x < y THEN y ELSE x
AtMost(x, y) == IF x < y THEN x ELSE y

Init ==
  /\ phase = "idle" /\ asked = 0 /\ life = 0 /\ interval = MinInterval
  /\ left = 0 /\ wait = 0 /\ answer = "none" /\ code = "none"
  /\ result = "none" /\ polls = 0 /\ slowed = 0 /\ quiet = 0

-----------------------------------------------------------------------------
(* The flow ends, one way or another; what it kept is dropped. *)
Finish(r) ==
  /\ phase' = "idle" /\ asked' = 0 /\ life' = 0 /\ interval' = MinInterval
  /\ left' = 0 /\ wait' = 0 /\ answer' = "none" /\ code' = "none"
  /\ result' = r /\ polls' = 0 /\ slowed' = 0 /\ quiet' = 0

(* Sleep for the interval before the next poll. *)
Sleep(i) ==
  /\ phase' = "sleep"
  /\ interval' = i
  /\ wait' = i
  /\ quiet' = 0

(* request_device_code. *)
RequestFails ==
  /\ phase = "idle"
  /\ Finish("http_error")

Request(i, l) ==
  /\ phase = "idle"
  /\ phase' = "display"
  /\ asked' = i
  /\ life' = l
  /\ code' = "pending"
  /\ result' = "none"
  /\ UNCHANGED <<interval, left, wait, answer, polls, slowed, quiet>>

(* Mutant of Displayed: the provider's interval is taken as it is. *)
DisplayedUnclamped ==
  /\ phase = "display"
  /\ left' = life
  /\ Sleep(asked)
  /\ UNCHANGED <<asked, life, answer, code, result, polls, slowed>>

(* display_fn returned.  The deadline is counted from here, not from when  *)
(* the provider issued the code.                                           *)
Displayed ==
  /\ phase = "display"
  /\ left' = life
  /\ Sleep(AtLeast(asked, MinInterval))
  /\ UNCHANGED <<asked, life, answer, code, result, polls, slowed>>

(* Mutant of WakeUp: a poll is still sent at the deadline itself. *)
WakeUpLate ==
  /\ phase = "sleep" /\ wait = 0
  /\ IF left < 0
       THEN Finish("expired")
       ELSE /\ phase' = "poll"
            /\ wait' = HttpTimeout
            /\ polls' = polls + 1
            /\ UNCHANGED <<asked, life, interval, left, answer, code, result, slowed, quiet>>

(* Mutant of WakeUp: the expiry is noticed but the loop goes on. *)
WakeUpLoops ==
  /\ phase = "sleep" /\ wait = 0
  /\ IF left <= 0
       THEN /\ Sleep(interval)
            /\ UNCHANGED <<asked, life, left, answer, code, result, polls, slowed>>
       ELSE /\ phase' = "poll"
            /\ wait' = HttpTimeout
            /\ polls' = polls + 1
            /\ UNCHANGED <<asked, life, interval, left, answer, code, result, slowed, quiet>>

(* The sleep is over: give up at the deadline, else send the poll. *)
WakeUp ==
  /\ phase = "sleep" /\ wait = 0
  /\ IF left <= 0
       THEN Finish("expired")
       ELSE /\ phase' = "poll"
            /\ wait' = HttpTimeout
            /\ polls' = polls + 1
            /\ UNCHANGED <<asked, life, interval, left, answer, code, result, slowed, quiet>>

(* Mutant of PollReturns: the deadline is checked when the answer is there.*)
PollReturnsChecked ==
  /\ phase = "poll" /\ answer # "none"
  /\ \/ left <= 0 /\ Finish("expired")
     \/ left > 0 /\ answer = "token" /\ Finish("token")
     \/ left > 0 /\ answer = "expired_token" /\ Finish("expired")
     \/ left > 0 /\ answer = "access_denied" /\ Finish("refused")
     \/ /\ left > 0 /\ answer \in {"authorization_pending", "slow_down"}
        /\ Sleep(IF answer = "slow_down" THEN interval + SlowBy ELSE interval)
        /\ answer' = "none"
        /\ slowed' = IF answer = "slow_down" THEN slowed + 1 ELSE slowed
        /\ UNCHANGED <<asked, life, left, code, result, polls>>

(* Mutant of PollReturns: the longer interval is used once and forgotten.  *)
PollReturnsForgetful ==
  /\ phase = "poll" /\ answer # "none"
  /\ \/ answer = "token" /\ Finish("token")
     \/ answer = "expired_token" /\ Finish("expired")
     \/ answer = "access_denied" /\ Finish("refused")
     \/ /\ answer \in {"authorization_pending", "slow_down"}
        /\ Sleep(AtLeast(asked, MinInterval) + (IF answer = "slow_down" THEN SlowBy ELSE 0))
        /\ answer' = "none"
        /\ slowed' = IF answer = "slow_down" THEN slowed + 1 ELSE slowed
        /\ UNCHANGED <<asked, life, left, code, result, polls>>

(* The answer to the poll arrives.  A slow_down lengthens the interval for *)
(* the rest of the flow.                                                   *)
PollReturns ==
  /\ phase = "poll" /\ answer # "none"
  /\ \/ answer = "token" /\ Finish("token")
     \/ answer = "expired_token" /\ Finish("expired")
     \/ answer = "access_denied" /\ Finish("refused")
     \/ /\ answer \in {"authorization_pending", "slow_down"}
        /\ Sleep(IF answer = "slow_down" THEN interval + SlowBy ELSE interval)
        /\ answer' = "none"
        /\ slowed' = IF answer = "slow_down" THEN slowed + 1 ELSE slowed
        /\ UNCHANGED <<asked, life, left, code, result, polls>>

(* The request fails or times out, before or after the provider handled it:*)
(* the login fails.                                                        *)
PollFails ==
  /\ phase = "poll"
  /\ Finish("http_error")

-----------------------------------------------------------------------------
(* The outside world. *)

(* The person approves or refuses in the browser. *)
Decide(d) ==
  /\ code = "pending"
  /\ code' = d
  /\ UNCHANGED <<phase, asked, life, interval, left, wait, answer, result,
                 polls, slowed, quiet>>

(* The provider handles the poll.  It hands out the token once, and may    *)
(* call the code expired or ask to slow down whenever it likes.            *)
Answer ==
  /\ phase = "poll" /\ answer = "none"
  /\ \/ code = "approved" /\ answer' = "token" /\ code' = "spent"
     \/ code = "denied" /\ answer' = "access_denied" /\ code' = code
     \/ /\ code = "pending"
        /\ answer' \in {"authorization_pending", "slow_down"}
        /\ code' = code
     \/ answer' = "expired_token" /\ code' = code
  /\ UNCHANGED <<phase, asked, life, interval, left, wait, result, polls,
                 slowed, quiet>>

(* A second passes.  A sleep may last longer than asked for, a request not *)
(* longer than its timeout.                                                *)
Tick ==
  /\ phase = "poll" => wait > 0
  /\ left' = IF phase \in {"sleep", "poll"} THEN AtLeast(left - 1, -1) ELSE left
  /\ wait' = AtLeast(wait - 1, 0)
  /\ quiet' = IF phase = "sleep" THEN AtMost(quiet + 1, MaxQuiet) ELSE quiet
  /\ UNCHANGED <<phase, asked, life, interval, answer, code, result, polls, slowed>>

Flow == Displayed \/ WakeUp \/ PollReturns \/ PollFails

Next ==
  \/ RequestFails
  \/ \E i \in Intervals, l \in Lifetimes : Request(i, l)
  \/ Flow
  \/ \E d \in {"approved", "denied"} : Decide(d)
  \/ Answer
  \/ Tick

Spec == Init /\ [][Next]_vars

-----------------------------------------------------------------------------

TypeOK ==
  /\ phase \in Phases /\ code \in Codes /\ answer \in Answers
  /\ result \in Results
  /\ asked \in Nat /\ life \in Nat /\ interval \in Nat
  /\ interval >= MinInterval
  /\ left \in Int /\ left >= -1 /\ wait \in Nat
  /\ polls \in Nat /\ slowed \in Nat /\ quiet \in Nat

(* The token endpoint is asked fewer than expires_in / 5 times, so never   *)
(* at or after the deadline, whatever interval the provider sends and      *)
(* however it answers (oidc.rs, MIN_POLL_INTERVAL_SECS and deadline).      *)
PollBudget == polls > 0 => MinInterval * polls < life

(* A poll is sent only after a silence of the interval the provider asked  *)
(* for plus five seconds for every slow_down of this login, not only for   *)
(* the last one (oidc.rs, "persistently increase the interval").           *)
PollSpacing ==
  [][phase = "sleep" /\ phase' = "poll" => quiet >= asked + SlowBy * slowed]_vars

(* Once the provider has handed out the token, the login does not end as   *)
(* expired: an answer that arrives after the deadline still counts         *)
(* (oidc.rs, the order of deadline check and poll).                        *)
TokenNotDropped ==
  [][phase # "idle" /\ result' = "expired" => code # "spent"]_vars
=============================================================================
