--------------------------- MODULE PamLoginProofs ---------------------------
(***************************************************************************)
(* Proofs about PamLogin: its device flow is the one of DeviceFlow, and a  *)
(* successful authentication goes back to an approval of its own code.     *)
(***************************************************************************)
EXTENDS PamLogin, DeviceFlowProofs

(* Every step of the PAM module is a step of the device flow or leaves it  *)
(* alone, so what holds of every flow holds of every PAM login.            *)
LEMMA PamStepIsFlowStep == [PamNext]_allVars => [Next]_vars
<1> SUFFICES ASSUME [PamNext]_allVars PROVE [Next]_vars
  OBVIOUS
<1>1. CASE Work
  <2>1. CASE FlowStep
    BY <2>1 DEF FlowStep, Next
  <2>2. CASE IdTokenRejected \/ IdTokenValid
    BY <2>2 DEF IdTokenRejected, IdTokenValid
  <2>3. ASSUME NEW x, LookedUp(x) \/ AccountChecked(x) PROVE [Next]_vars
    BY <2>3 DEF LookedUp, AccountChecked
  <2> QED BY <1>1, <2>1, <2>2, <2>3 DEF Work
<1>2. ASSUME NEW x, NoUser(x) \/ Authenticate(x) \/ AcctMgmt(x) \/ ChAuthTok
      PROVE  [Next]_vars
  BY <1>2 DEF NoUser, Authenticate, AcctMgmt, ChAuthTok
<1>3. ASSUME NEW s \in Subjects, Approve(s) PROVE [Next]_vars
  BY <1>3 DEF Approve, Next
<1>4. CASE Refuse \/ ProviderAnswers \/ TimePasses
  BY <1>4 DEF Refuse, ProviderAnswers, TimePasses, Next
<1>5. CASE UNCHANGED allVars
  BY <1>5 DEF allVars
<1> QED BY <1>1, <1>2, <1>3, <1>4, <1>5 DEF PamNext

(* The PAM module implements the device flow. *)
THEOREM PamImplementsFlow == PamSpec => Spec
<1>1. PamInit => Init
  BY DEF PamInit
<1> QED BY <1>1, PamStepIsFlowStep, PTL DEF PamSpec, Spec

-----------------------------------------------------------------------------

(* Where the token comes from: an approved code has an approver, the token *)
(* on its way is made out to the approver, and so is the one received.     *)
TokenInv ==
  /\ phase = "idle" => code = "none"
  /\ code \in {"approved", "spent"} => approver \in Subjects
  /\ answer = "token" => code = "spent" /\ token = approver
  /\ pam \in {"id_token", "lookup"} => token = approver

PamInv == PamTypeOK /\ TokenInv

LEMMA PamInvInit == PamInit => PamInv
  BY PamAssumption DEF PamInit, Init, PamInv, PamTypeOK, TokenInv, Once

(* How a step of the flow can end it. *)
LEMMA FlowOutcome ==
  ASSUME TypeOK, SpentInv, RequestFails \/ Flow \/ \E i \in Intervals, l \in Lifetimes : Request(i, l)
  PROVE  \/ /\ phase' # "idle" /\ answer' # "token" /\ code' \in {code, "pending"}
            /\ phase' \in {"display", "sleep", "poll"}
         \/ /\ phase' = "idle" /\ code' = "none" /\ answer' = "none"
            /\ result' = "token" => answer = "token"
<1> USE DEF Finish, Sleep, SpentInv
<1>1. CASE RequestFails
  BY <1>1 DEF RequestFails
<1>2. ASSUME NEW i \in Intervals, NEW l \in Lifetimes, Request(i, l)
      PROVE  phase' = "display" /\ answer' # "token" /\ code' = "pending"
  BY <1>2 DEF Request
<1>3. CASE Displayed
  BY <1>3 DEF Displayed
<1>4. CASE WakeUp
  BY <1>4 DEF WakeUp
<1>5. CASE PollReturns
  BY <1>5 DEF PollReturns
<1>6. CASE PollFails
  BY <1>6 DEF PollFails
<1> QED BY <1>1, <1>2, <1>3, <1>4, <1>5, <1>6 DEF Flow

LEMMA PamInvNext ==
  ASSUME Inv, PamInv, [PamNext]_allVars PROVE PamInv'
<1> USE PamAssumption DEF PamInv, PamTypeOK, TokenInv, Return, GoOn, Once
<1>1. CASE FlowStep
  <2>1. \/ /\ phase' # "idle" /\ answer' # "token" /\ code' \in {code, "pending"}
           /\ phase' \in {"display", "sleep", "poll"}
        \/ /\ phase' = "idle" /\ code' = "none" /\ answer' = "none"
           /\ result' = "token" => answer = "token"
    BY <1>1, FlowOutcome DEF FlowStep, Inv
  <2>2. CASE phase' # "idle"
    BY <1>1, <2>1, <2>2 DEF FlowStep
  <2>3. CASE phase' = "idle" /\ result' = "token"
    BY <1>1, <2>1, <2>3 DEF FlowStep
  <2>4. CASE phase' = "idle" /\ result' # "token"
    BY <1>1, <2>1, <2>4 DEF FlowStep
  <2> QED BY <2>2, <2>3, <2>4
<1>2. CASE IdTokenRejected
  BY <1>2 DEF IdTokenRejected, vars
<1>3. CASE IdTokenValid
  BY <1>3 DEF IdTokenValid, vars, get_or_init, get_oidc_client, get_service, Discovery
<1>4. ASSUME NEW id, LookedUp(id) PROVE PamInv'
  BY <1>4 DEF LookedUp, vars
<1>5. ASSUME NEW status, AccountChecked(status) PROVE PamInv'
  BY <1>5 DEF AccountChecked, vars
<1>6. ASSUME NEW fn, NoUser(fn) PROVE PamInv'
  BY <1>6 DEF NoUser, vars
<1>7. ASSUME NEW u \in Logins, Authenticate(u) PROVE PamInv'
  <2>1. phase = "idle" /\ code = "none" /\ answer # "token"
    BY <1>7 DEF Authenticate
  <2> QED BY <1>7, <2>1 DEF Authenticate, vars, get_or_init, get_oidc_client, get_service, Discovery
<1>8. ASSUME NEW u \in Logins, AcctMgmt(u) PROVE PamInv'
  BY <1>8 DEF AcctMgmt, vars, get_or_init, get_oidc_client, get_service, Discovery
<1>9. CASE ChAuthTok
  BY <1>9 DEF ChAuthTok, vars, get_or_init, get_oidc_client, get_service, Discovery
<1>10. ASSUME NEW s \in Subjects, Approve(s) PROVE PamInv'
  <2>1. code = "pending" /\ phase # "idle" /\ answer # "token" /\ pam = "flow"
    BY <1>10 DEF Approve, Decide
  <2> QED BY <1>10, <2>1 DEF Approve, Decide
<1>11. CASE Refuse
  BY <1>11 DEF Refuse, Decide
<1>12. CASE ProviderAnswers
  <2>1. pam = "flow" /\ phase' = phase /\ phase # "idle"
    BY <1>12 DEF ProviderAnswers, Answer
  <2>2. \/ answer' = "token" /\ code = "approved" /\ code' = "spent"
        \/ answer' # "token" /\ code' = code
    BY <1>12 DEF ProviderAnswers, Answer
  <2> QED BY <1>12, <2>1, <2>2 DEF ProviderAnswers
<1>13. CASE TimePasses
  BY <1>13 DEF TimePasses, Tick
<1>14. CASE UNCHANGED allVars
  BY <1>14 DEF allVars, pamVars, vars
<1> QED BY <1>1, <1>2, <1>3, <1>4, <1>5, <1>6, <1>7, <1>8, <1>9, <1>10, <1>11, <1>12,
           <1>13, <1>14 DEF PamNext, Work

LEMMA PamInvAlways == PamSpec => [](Inv /\ PamInv)
<1>1. PamSpec => []Inv
  BY PamImplementsFlow, InvAlways, PTL
<1> QED BY <1>1, PamInvInit, PamInvNext, PTL DEF PamSpec

(* The process state keeps its types, and a call that has a token to check *)
(* has one made out to somebody.                                           *)
THEOREM PamTypeCorrect == PamSpec => []PamTypeOK
  BY PamInvAlways, PTL DEF PamInv

(* The polling limits of the device flow hold in every PAM process. *)
THEOREM PamPollBudget == PamSpec => []PollBudget
  BY PamImplementsFlow, FlowPollBudget, PTL

(* No success without an approval of the code of this login, by the right  *)
(* person.                                                                 *)
THEOREM PamSuccessNeedsApproval == PamSpec => SuccessNeedsApproval
<1> DEFINE Proven == returned'.fn = "authenticate" /\ returned'.status = "PAM_SUCCESS"
                       => approver # Nobody /\ approver \in {user, returned'.id}
<1>1. ASSUME PamInv, PamNext PROVE Proven
  <2> USE PamAssumption DEF PamInv, PamTypeOK, TokenInv, Return, GoOn, Nothing
  <2>1. CASE FlowStep
    BY <2>1 DEF FlowStep
  <2>2. CASE IdTokenRejected
    BY <2>2 DEF IdTokenRejected
  <2>3. CASE IdTokenValid
    <3>1. token = approver /\ token # Nobody
      BY <1>1, <2>3 DEF IdTokenValid
    <3>2. \/ token = user
          \/ returned'.status # "PAM_SUCCESS"
      BY <2>3 DEF IdTokenValid
    <3> QED BY <3>1, <3>2
  <2>6. ASSUME NEW id, LookedUp(id) PROVE Proven
    <3>1. token = approver /\ token # Nobody
      BY <1>1, <2>6 DEF LookedUp
    <3>2. returned'.id = id /\ (returned'.status = "PAM_SUCCESS" => id = token)
      BY <2>6 DEF LookedUp
    <3> QED BY <3>1, <3>2
  <2>4. ASSUME NEW x, AccountChecked(x) \/ NoUser(x) \/ Authenticate(x) \/ AcctMgmt(x) \/ ChAuthTok
        PROVE  Proven
    BY <2>4 DEF AccountChecked, NoUser, Authenticate, AcctMgmt, ChAuthTok
  <2>5. ASSUME NEW s, Approve(s) \/ Refuse \/ ProviderAnswers \/ TimePasses PROVE Proven
    BY <2>5 DEF Approve, Refuse, ProviderAnswers, TimePasses
  <2> QED BY <1>1, <2>1, <2>2, <2>3, <2>4, <2>5, <2>6 DEF PamNext, Work
<1>2. PamInv /\ [PamNext]_allVars => [Proven]_allVars
  BY <1>1
<1> QED BY <1>2, PamInvAlways, PTL DEF PamSpec, SuccessNeedsApproval

-----------------------------------------------------------------------------
(* How a call gets to its end. *)

(* The steps that a flow with a device code can take still, apart from the *)
(* passing of time: a sleep and a poll for every poll that expires_in      *)
(* allows.                                                                 *)
StepsLeft == 2 * (life - polls) + (IF phase = "sleep" THEN 0 ELSE 1)

Stage == CASE pam = "flow" -> 3 [] pam = "id_token" -> 2 [] pam = "lookup" -> 1
           [] pam = "account" -> 1 [] pam = "idle" -> 0

(* A step of the call ends it, gets to a later part of it, gets a device   *)
(* code, or leaves fewer steps of the flow to take.                        *)
CloserToEnd ==
  \/ Stage' < Stage
  \/ pam = "flow" /\ pam' = "flow" /\ phase = "idle" /\ phase' = "display"
  \/ /\ pam = "flow" /\ pam' = "flow" /\ phase # "idle" /\ phase' # "idle"
     /\ StepsLeft' < StepsLeft

LEMMA StepsLeftNat == ASSUME Inv PROVE StepsLeft \in Int /\ (phase # "idle" => StepsLeft \in Nat)
<1>1. life \in Nat /\ polls \in Nat /\ MinInterval \in Nat \ {0}
  BY FlowAssumption DEF Inv, TypeOK
<1>2. polls > 0 => MinInterval * polls < life
  BY DEF Inv, PollBudget
<1>3. MinInterval * polls >= polls
  <2>1. \A m \in Nat \ {0}, n \in Nat : m * n >= n
    BY Z3
  <2> QED BY <1>1, <2>1
<1>4. polls <= life
  <2>1. MinInterval * polls \in Nat
    BY <1>1, Products
  <2> HIDE DEF Inv
  <2> DEFINE p == MinInterval * polls
  <2>2. p \in Nat /\ p >= polls /\ (polls > 0 => p < life)
    BY <1>2, <1>3, <2>1
  <2> HIDE DEF p
  <2> QED BY <1>1, <2>2
<1> QED BY <1>1, <1>4 DEF StepsLeft

LEMMA FlowCloser ==
  ASSUME Inv, PamInv, FlowStep PROVE CloserToEnd
<1>1. life \in Nat /\ polls \in Nat /\ pam = "flow" /\ phase \in Phases
  BY DEF Inv, TypeOK, FlowStep
<1>2. CASE phase' = "idle"
  <2>1. pam' \in {"idle", "id_token"}
    BY <1>2 DEF FlowStep, GoOn, Return
  <2> QED BY <1>1, <2>1 DEF CloserToEnd, Stage
<1>3. CASE phase' # "idle"
  <2>1. pam' = "flow"
    BY <1>3 DEF FlowStep, GoOn
  <2>2. ASSUME NEW i, NEW l, Request(i, l) PROVE CloserToEnd
    BY <1>1, <2>1, <2>2 DEF Request, CloserToEnd
  <2>3. CASE Displayed
    BY <1>1, <2>1, <2>3 DEF Displayed, Sleep, CloserToEnd, StepsLeft
  <2>4. CASE WakeUp
    <3>1. /\ phase = "sleep" /\ phase' = "poll" /\ polls' = polls + 1 /\ life' = life
      BY <1>3, <2>4 DEF WakeUp, Finish
    <3> QED BY <1>1, <2>1, <3>1 DEF CloserToEnd, StepsLeft
  <2>5. CASE PollReturns
    <3>1. /\ phase = "poll" /\ phase' = "sleep" /\ polls' = polls /\ life' = life
      BY <1>3, <2>5 DEF PollReturns, Finish, Sleep
    <3> QED BY <1>1, <2>1, <3>1 DEF CloserToEnd, StepsLeft
  <2>6. ~RequestFails /\ ~PollFails
    BY <1>3 DEF RequestFails, PollFails, Finish
  <2> QED BY <2>2, <2>3, <2>4, <2>5, <2>6 DEF FlowStep, Flow
<1> QED BY <1>2, <1>3

LEMMA WorkCloser == ASSUME Inv, PamInv, Work PROVE CloserToEnd
<1>1. CASE FlowStep
  BY <1>1, FlowCloser
<1>2. CASE IdTokenRejected
  BY <1>2 DEF IdTokenRejected, Return, CloserToEnd, Stage
<1>3. CASE IdTokenValid
  BY <1>3 DEF IdTokenValid, Return, GoOn, CloserToEnd, Stage
<1>4. ASSUME NEW id, LookedUp(id) PROVE CloserToEnd
  BY <1>4 DEF LookedUp, Return, CloserToEnd, Stage
<1>5. ASSUME NEW status, AccountChecked(status) PROVE CloserToEnd
  BY <1>5 DEF AccountChecked, Return, CloserToEnd, Stage
<1> QED BY <1>1, <1>2, <1>3, <1>4, <1>5 DEF Work

(* What the person, the provider and the clock do sets no call back. *)
LEMMA OutsideKeeps ==
  ASSUME pam # "idle", PamNext, ~Work PROVE UNCHANGED <<pam, phase, life, polls>>
<1>1. ASSUME NEW x, NoUser(x) \/ Authenticate(x) \/ AcctMgmt(x) \/ ChAuthTok PROVE FALSE
  BY <1>1 DEF NoUser, Authenticate, AcctMgmt, ChAuthTok
<1>2. ASSUME NEW s, Approve(s) PROVE UNCHANGED <<pam, phase, life, polls>>
  BY <1>2 DEF Approve, Decide
<1>3. CASE Refuse \/ ProviderAnswers \/ TimePasses
  BY <1>3 DEF Refuse, Decide, ProviderAnswers, Answer, TimePasses, Tick
<1> QED BY <1>1, <1>2, <1>3 DEF PamNext

(* However the provider answers and whatever interval it sends, every step *)
(* of a PAM call brings the call closer to its end, and nothing that       *)
(* happens outside of it sets it back: a login makes finitely many steps,  *)
(* and PamCallEnds needs only that sleeps end and requests time out (pam   *)
(* ffi.rs, authenticate_impl; oidc.rs, the loop of                         *)
(* authenticate_device_flow).                                              *)
THEOREM PamStepsRunOut ==
  PamSpec => /\ [](phase # "idle" => StepsLeft \in Nat)
             /\ [][pam # "idle" => CloserToEnd \/ UNCHANGED <<pam, phase, life, polls>>]_allVars
<1> DEFINE Bounded == phase # "idle" => StepsLeft \in Nat
           Step == pam # "idle" => CloserToEnd \/ UNCHANGED <<pam, phase, life, polls>>
<1>1. Inv => Bounded
  BY StepsLeftNat
<1>2. Inv /\ PamInv /\ [PamNext]_allVars => [Step]_allVars
  BY WorkCloser, OutsideKeeps
<1> HIDE DEF Bounded, Step
<1>3. PamSpec => []Bounded
  BY <1>1, PamInvAlways, PTL
<1>4. PamSpec => [][Step]_allVars
  BY <1>2, PamInvAlways, PTL DEF PamSpec
<1> QED BY <1>3, <1>4, PTL DEF Bounded, Step
=============================================================================
