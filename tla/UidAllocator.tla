---------------------------- MODULE UidAllocator ----------------------------
(***************************************************************************)
(* What identifier resolution amounts to when nobody interferes: each      *)
(* external identifier holds at most one slot of the range, is (re)assigned*)
(* in one atomic step with resolve_id, and loses its slot only when the    *)
(* cache purges its row.  This is the promise of Cache::resolve_uid        *)
(* followed by Cache::store_user; module Service shows which deployments   *)
(* of the real, multi-statement code keep it.                              *)
(***************************************************************************)
EXTENDS IdMapping

CONSTANTS
  Ids,        \* external identifiers
  Hash,       \* murmur3 of each identifier
  RangeMin,   \* uid_range_min
  RangeSize   \* uid_range_size

ASSUME AllocatorAssumption ==
  /\ RangeMin \in Nat
  /\ RangeSize \in Nat \ {0}
  /\ RangeMin + RangeSize <= Word
  /\ 2 * RangeSize <= Word + 1
  /\ Hash \in [Ids -> Nat]

VARIABLE held   \* the slot of each identifier that has one

Slots == RangeMin..(RangeMin + RangeSize - 1)

(* The slot an identifier has when nothing collides with it. *)
Home(id) == id_to_uid(Hash[id], RangeMin, RangeSize)

(* The slot probed at distance off from home. *)
Probe(id, off) == Candidate(Hash[id], RangeMin, RangeSize, off)

HeldByOthers(id) == {held[i] : i \in DOMAIN held \ {id}}

Resolved(id) == resolve_id(Hash[id], RangeMin, RangeSize, HeldByOthers(id))

Init == held = [i \in {} |-> RangeMin]

(* Resolve the identifier and record the outcome. *)
Assign(id) ==
  /\ Resolved(id) # Exhausted
  /\ held' = [i \in DOMAIN held \cup {id} |->
                IF i = id THEN Resolved(id) ELSE held[i]]

(* Drop the slots of a set of identifiers. *)
Forget(S) ==
  /\ S # {}
  /\ held' = [i \in DOMAIN held \ S |-> held[i]]

Next ==
  \/ \E id \in Ids : Assign(id)
  \/ \E S \in SUBSET (DOMAIN held) : Forget(S)

Spec == Init /\ [][Next]_held

-----------------------------------------------------------------------------

TypeOK ==
  /\ DOMAIN held \subseteq Ids
  /\ held \in [DOMAIN held -> Slots]

(* No two identifiers hold the same slot, whatever collides and whatever   *)
(* is forgotten in between (Cache::resolve_uid, "collision-free UID").     *)
HeldUnique ==
  \A i, j \in DOMAIN held : held[i] = held[j] => i = j

(* How far an identifier sits from its home slot. *)
Distance(id, slot) == (slot - Home(id)) % RangeSize

(* Resolution returns the nearest slot, going up cyclically from home, that*)
(* the others do not hold, and fails only if they hold them all (mapping.rs*)
(* resolve_id and IdRangeExhausted).                                       *)
ResolvesToNearestSlot ==
  \A id \in Ids :
    LET free == Slots \ HeldByOthers(id)
    IN  IF Resolved(id) = Exhausted
          THEN free = {}
          ELSE /\ Resolved(id) \in free
               /\ \A s \in free : Distance(id, Resolved(id)) <= Distance(id, s)

(* Resolving an identifier again never moves it away from its home slot:   *)
(* a purge can leave a hole that it falls into, but each move is strictly  *)
(* towards home, so an identifier that is not forgotten moves only         *)
(* finitely often (mapping.rs, resolve_id).                                *)
MovesTowardsHome ==
  [][\A i \in DOMAIN held \cap DOMAIN held' :
       held'[i] # held[i] => Distance(i, held'[i]) < Distance(i, held[i])]_held

(* No two identifiers share a home slot: there is no collision to resolve. *)
HomesDistinct == \A i, j \in Ids : Home(i) = Home(j) => i = j

(* Every identifier that holds a slot holds its home slot. *)
AtHome == \A i \in DOMAIN held : held[i] = Home(i)
=============================================================================
