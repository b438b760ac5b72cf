-------------------------- MODULE DeviceFlowProofs --------------------------
(***************************************************************************)
(* Proofs about DeviceFlow for every interval, lifetime and timeout.       *)
(***************************************************************************)
EXTENDS DeviceFlow, TLAPS

(* The interval never falls behind what the provider asked for. *)
IntervalInv ==
  phase \in {"sleep", "poll"} => interval >= asked + SlowBy * slowed

(* The part of a sleep that is over and the part that is left. *)
SleepInv == phase = "sleep" => wait <= interval /\ quiet + wait >= interval

(* Before the deadline, the time since display_fn returned covers the      *)
(* minimal interval of every poll sent and the present sleep so far.       *)
BudgetInv ==
  left > 0 =>
    /\ phase = "sleep" => life - left >= MinInterval * polls + (interval - wait)
    /\ phase = "poll" => life - left >= MinInterval * polls

(* What each phase knows; once the token has been handed out, its answer   *)
(* is on its way.                                                          *)
SpentInv ==
  /\ phase # "poll" => answer = "none"
  /\ phase \in {"idle", "display"} => polls = 0 /\ slowed = 0
  /\ phase # "idle" => result = "none"
  /\ code = "spent" => phase = "poll" /\ answer = "token"

Inv == TypeOK /\ IntervalInv /\ SleepInv /\ BudgetInv /\ SpentInv /\ PollBudget

LEMMA Products ==
  ASSUME NEW m \in Nat, NEW n \in Nat
  PROVE  m * n \in Nat /\ m * (n + 1) = m * n + m /\ m * 0 = 0
  OBVIOUS

LEMMA InitInv == Init => Inv
  BY FlowAssumption, Products
     DEF Init, Inv, TypeOK, IntervalInv, SleepInv, BudgetInv, SpentInv, PollBudget,
         Phases, Codes, Answers, Results

LEMMA FinishInv ==
  ASSUME NEW r \in Results, Finish(r) PROVE Inv'
  BY FlowAssumption, Products
     DEF Finish, Inv, TypeOK, IntervalInv, SleepInv, BudgetInv, SpentInv, PollBudget,
         Phases, Codes, Answers, Results

LEMMA NextInv == ASSUME Inv, [Next]_vars PROVE Inv'
<1> USE FlowAssumption DEF Phases, Codes, Answers, Results
<1>0. {"token", "expired", "refused", "http_error"} \subseteq Results
  OBVIOUS
<1>1. CASE RequestFails \/ PollFails
  BY <1>0, <1>1, FinishInv DEF RequestFails, PollFails
<1>2. ASSUME NEW i \in Intervals, NEW l \in Lifetimes, Request(i, l) PROVE Inv'
  BY <1>2 DEF Request, Inv, TypeOK, IntervalInv, SleepInv, BudgetInv, SpentInv, PollBudget
<1>3. CASE Displayed
  <2>1. TypeOK' /\ SleepInv' /\ SpentInv' /\ PollBudget'
    BY <1>3 DEF Displayed, Sleep, AtLeast, Inv, TypeOK, SleepInv, SpentInv, PollBudget
  <2>2. MinInterval * 0 = 0 /\ SlowBy * 0 = 0
    BY Products
  <2>3. IntervalInv' /\ BudgetInv'
    BY <1>3, <2>2 DEF Displayed, Sleep, AtLeast, Inv, TypeOK, SpentInv, IntervalInv, BudgetInv
  <2> QED BY <2>1, <2>3 DEF Inv
<1>4. CASE WakeUp
  <2>1. CASE left <= 0
    BY <1>0, <1>4, <2>1, FinishInv DEF WakeUp
  <2>2. CASE ~(left <= 0)
    <3> DEFINE p == MinInterval * polls
               q == MinInterval * (polls + 1)
    <3>1. p \in Nat /\ q = p + MinInterval
      BY Products DEF Inv, TypeOK
    <3>2. life - left >= p + interval /\ left > 0
      BY <1>4, <2>2, <3>1 DEF WakeUp, Inv, TypeOK, BudgetInv
    <3> HIDE DEF p, q
    <3>3. life - left >= q /\ q < life
      BY <3>1, <3>2 DEF Inv, TypeOK
    <3>4. TypeOK' /\ IntervalInv' /\ SleepInv' /\ SpentInv'
      BY <1>4, <2>2 DEF WakeUp, Inv, TypeOK, IntervalInv, SleepInv, SpentInv
    <3>5. BudgetInv' /\ PollBudget'
      BY <1>4, <2>2, <3>3 DEF WakeUp, q, Inv, TypeOK, BudgetInv, PollBudget
    <3> QED BY <3>4, <3>5 DEF Inv
  <2> QED BY <2>1, <2>2
<1>5. CASE PollReturns
  <2>1. CASE answer \in {"token", "expired_token", "access_denied"}
    BY <1>0, <1>5, <2>1, FinishInv DEF PollReturns
  <2>2. CASE answer \in {"authorization_pending", "slow_down"}
    <3> DEFINE p == MinInterval * polls
               a == SlowBy * slowed
    <3>1. p \in Nat /\ a \in Nat /\ SlowBy * (slowed + 1) = a + SlowBy
      BY Products DEF Inv, TypeOK
    <3>2. TypeOK' /\ SleepInv' /\ SpentInv' /\ PollBudget'
      BY <1>5, <2>2 DEF PollReturns, Sleep, Inv, TypeOK, SleepInv, SpentInv, PollBudget
    <3>3. interval >= asked + a /\ (left > 0 => life - left >= p)
      BY <1>5 DEF PollReturns, Inv, IntervalInv, BudgetInv
    <3>4. BudgetInv'
      BY <1>5, <2>2, <3>1, <3>3 DEF PollReturns, Sleep, Inv, TypeOK, BudgetInv
    <3>5. IntervalInv'
      BY <1>5, <2>2, <3>1, <3>3 DEF PollReturns, Sleep, Inv, TypeOK, IntervalInv
    <3> QED BY <3>2, <3>4, <3>5 DEF Inv
  <2> QED BY <1>5, <2>1, <2>2 DEF PollReturns, Inv, TypeOK
<1>6. ASSUME NEW d \in {"approved", "denied"}, Decide(d) PROVE Inv'
  BY <1>6 DEF Decide, Inv, TypeOK, IntervalInv, SleepInv, BudgetInv, SpentInv, PollBudget
<1>7. CASE Answer
  BY <1>7 DEF Answer, Inv, TypeOK, IntervalInv, SleepInv, BudgetInv, SpentInv, PollBudget
<1>8. CASE Tick
  <2> DEFINE p == MinInterval * polls
  <2>1. p \in Nat
    BY Products DEF Inv, TypeOK
  <2>2. TypeOK' /\ IntervalInv' /\ SleepInv' /\ SpentInv' /\ PollBudget'
    BY <1>8 DEF Tick, AtLeast, AtMost, MaxQuiet, Inv, TypeOK, IntervalInv, SleepInv,
                SpentInv, PollBudget
  <2>3. BudgetInv'
    BY <1>8, <2>1 DEF Tick, AtLeast, Inv, TypeOK, SleepInv, BudgetInv
  <2> QED BY <2>2, <2>3 DEF Inv
<1>9. CASE UNCHANGED vars
  BY <1>9 DEF vars, Inv, TypeOK, IntervalInv, SleepInv, BudgetInv, SpentInv, PollBudget
<1> QED BY <1>1, <1>2, <1>3, <1>4, <1>5, <1>6, <1>7, <1>8, <1>9 DEF Next, Flow

LEMMA InvAlways == Spec => []Inv
  BY InitInv, NextInv, PTL DEF Spec

(* The flow keeps its types, and its interval never drops below the        *)
(* minimum of MIN_POLL_INTERVAL_SECS.                                      *)
THEOREM FlowTypeCorrect == Spec => []TypeOK
  BY InvAlways, PTL DEF Inv

(* Whatever the provider sends, fewer than expires_in / MinInterval polls  *)
(* are made in one login.                                                  *)
THEOREM FlowPollBudget == Spec => []PollBudget
  BY InvAlways, PTL DEF Inv

(* Every poll waits out the interval asked for and all slow_downs so far.  *)
THEOREM FlowPollSpacing == Spec => PollSpacing
<1>1. Inv /\ [Next]_vars
        => [phase = "sleep" /\ phase' = "poll" => quiet >= asked + SlowBy * slowed]_vars
  <2> SUFFICES ASSUME Inv, Next, phase = "sleep", phase' = "poll"
               PROVE  quiet >= asked + SlowBy * slowed
    OBVIOUS
  <2>1. WakeUp
    BY DEF Next, Flow, RequestFails, Request, Displayed, Sleep, PollReturns, PollFails,
           Decide, Answer, Tick, Finish
  <2>2. wait = 0 /\ quiet >= interval /\ interval >= asked + SlowBy * slowed
    BY <2>1 DEF WakeUp, Inv, TypeOK, SleepInv, IntervalInv
  <2>3. SlowBy * slowed \in Nat
    BY FlowAssumption, Products DEF Inv, TypeOK
  <2> QED BY <2>2, <2>3 DEF Inv, TypeOK
<1> QED BY <1>1, InvAlways, PTL DEF Spec, PollSpacing

(* A token that was handed out is not thrown away by the deadline.         *)
THEOREM FlowTokenNotDropped == Spec => TokenNotDropped
<1>1. Inv /\ [Next]_vars
        => [phase # "idle" /\ result' = "expired" => code # "spent"]_vars
  <2> SUFFICES ASSUME Inv, Next, phase # "idle", result' = "expired", code = "spent"
               PROVE  FALSE
    OBVIOUS
  <2>1. phase = "poll" /\ answer = "token"
    BY DEF Inv, SpentInv
  <2>2. result = "none"
    BY DEF Inv, SpentInv
  <2> QED BY <2>1, <2>2 DEF Next, Flow, RequestFails, Request, Displayed, Sleep, WakeUp,
                            PollReturns, PollFails, Decide, Answer, Tick, Finish
<1> QED BY <1>1, InvAlways, PTL DEF Spec, TokenNotDropped
=============================================================================
