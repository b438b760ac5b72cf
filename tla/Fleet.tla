------------------------------- MODULE Fleet -------------------------------
(***************************************************************************)
(* Two servers configured with the same ranges and the same directory, each*)
(* with a cache database of its own and no channel between them.  The      *)
(* README promises that both answer the same UID for the same user.        *)
(***************************************************************************)
EXTENDS IdMapping

CONSTANTS Ids, Hash, RangeMin, RangeSize

VARIABLES
  held_a,   \* the assignments of server A's cache
  held_b    \* the assignments of server B's cache

vars == <<held_a, held_b>>

A == INSTANCE UidAllocator WITH held <- held_a
B == INSTANCE UidAllocator WITH held <- held_b

Init == A!Init /\ B!Init

StepA == A!Next /\ UNCHANGED held_b
StepB == B!Next /\ UNCHANGED held_a

Next == StepA \/ StepB

Spec == Init /\ [][Next]_vars

(* "Every server with the same range config produces identical UIDs - no   *)
(* coordination database required" (README): a user known to both servers  *)
(* has one UID.                                                            *)
SameUidEverywhere ==
  \A i \in DOMAIN held_a \cap DOMAIN held_b : held_a[i] = held_b[i]
=============================================================================
