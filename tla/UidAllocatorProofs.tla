------------------------- MODULE UidAllocatorProofs -------------------------
(***************************************************************************)
(* Proofs about UidAllocator for every set of identifiers, every hash and  *)
(* every range that fits the word.                                         *)
(***************************************************************************)
EXTENDS UidAllocator, IdMappingProofs

LEMMA RangeFits == FitsWord(RangeMin, RangeSize) /\ \A i \in Ids : Hash[i] \in Nat
  BY AllocatorAssumption DEF FitsWord

(* Resolution returns the first probed slot that others do not hold. *)
LEMMA ResolvedIsFirstStop ==
  ASSUME NEW id \in Ids, Resolved(id) # Exhausted
  PROVE  \E off \in 0..(RangeSize - 1) :
           /\ Resolved(id) = Probe(id, off)
           /\ Probe(id, off) \notin HeldByOthers(id)
           /\ \A p \in 0..(off - 1) : Probe(id, p) \in HeldByOthers(id)
  BY RangeFits, ResolveIdIsFirstStop DEF Resolved, Probe

LEMMA ProbeInSlots ==
  ASSUME NEW id \in Ids, NEW off \in 0..(RangeSize - 1)
  PROVE  Probe(id, off) \in Slots
  BY RangeFits, CandidateInRange DEF Probe, Slots

(* Types and uniqueness go together: a new slot is a slot of the range that*)
(* the others do not hold.                                                 *)
Inv == TypeOK /\ HeldUnique

LEMMA InvInit == Init => Inv
  BY DEF Init, Inv, TypeOK, HeldUnique

LEMMA InvNext == Inv /\ [Next]_held => Inv'
<1> SUFFICES ASSUME Inv, [Next]_held PROVE Inv'
  OBVIOUS
<1> USE DEF Inv, TypeOK, HeldUnique
<1>1. ASSUME NEW id \in Ids, Assign(id) PROVE Inv'
  <2>1. Resolved(id) \in Slots /\ Resolved(id) \notin HeldByOthers(id)
    BY <1>1, ResolvedIsFirstStop, ProbeInSlots DEF Assign
  <2>2. DOMAIN held' = DOMAIN held \cup {id} /\ DOMAIN held' \subseteq Ids
    BY <1>1 DEF Assign
  <2>3. \A i \in DOMAIN held' : held'[i] = IF i = id THEN Resolved(id) ELSE held[i]
    BY <1>1 DEF Assign
  <2>4. held' \in [DOMAIN held' -> Slots]
    BY <1>1, <2>1 DEF Assign
  <2>5. \A i \in DOMAIN held : i # id => held[i] # Resolved(id)
    BY <2>1 DEF HeldByOthers
  <2>6. HeldUnique'
    BY <2>2, <2>3, <2>5
  <2> QED BY <2>2, <2>4, <2>6
<1>2. ASSUME NEW S \in SUBSET (DOMAIN held), Forget(S) PROVE Inv'
  <2>1. DOMAIN held' = DOMAIN held \ S /\ \A i \in DOMAIN held' : held'[i] = held[i]
    BY <1>2 DEF Forget
  <2>2. held' \in [DOMAIN held' -> Slots]
    BY <1>2 DEF Forget
  <2> QED BY <2>1, <2>2
<1>3. CASE UNCHANGED held
  BY <1>3
<1> QED BY <1>1, <1>2, <1>3 DEF Next

(* Every slot handed out lies in the configured range.                     *)
THEOREM AllocatorTypeCorrect == Spec => []TypeOK
  BY InvInit, InvNext, PTL DEF Spec, Inv

(* No two identifiers ever hold the same slot.                             *)
THEOREM AllocatorUnique == Spec => []HeldUnique
  BY InvInit, InvNext, PTL DEF Spec, Inv

-----------------------------------------------------------------------------
(* Distances. *)

LEMMA DistanceOfProbe ==
  ASSUME NEW id \in Ids, NEW off \in 0..(RangeSize - 1)
  PROVE  Distance(id, Probe(id, off)) = off
<1>1. RangeMin \in Nat /\ RangeSize \in Nat \ {0} /\ Hash[id] \in Nat /\ Hash[id] \in Int
  BY AllocatorAssumption
<1> DEFINE r == Hash[id] % RangeSize
           q == (r + off) % RangeSize
<1>2. r \in 0..(RangeSize - 1)
  BY <1>1, ModRange
<1>3. Home(id) = RangeMin + r /\ Probe(id, off) = RangeMin + q
  BY <1>1, RangeFits, CandidateExact DEF Home, Probe
<1> HIDE DEF r
<1>4. q \in 0..(RangeSize - 1)
  <2>1. r + off \in Int
    BY <1>1, <1>2
  <2> QED BY <2>1, <1>1, ModRange
<1>5. CASE r + off < RangeSize
  <2>1. q = r + off
    BY <1>1, <1>2, <1>5, ModSmall
  <2>2. (RangeMin + q) - (RangeMin + r) = off
    BY <1>1, <1>2, <2>1
  <2> QED BY <1>1, <1>3, <2>2, ModSmall DEF Distance
<1>6. CASE r + off >= RangeSize
  <2>1. r + off - RangeSize \in 0..(RangeSize - 1)
    BY <1>1, <1>2, <1>6
  <2>2. q = r + off - RangeSize
    <3>1. (r + off - RangeSize + RangeSize) % RangeSize = r + off - RangeSize
      BY <1>1, <1>2, <2>1, Z3
    <3>2. r + off - RangeSize + RangeSize = r + off
      BY <1>1, <1>2
    <3> QED BY <3>1, <3>2
  <2>3. (RangeMin + q) - (RangeMin + r) = off - RangeSize
    BY <1>1, <1>2, <2>2
  <2>4. (off - RangeSize) % RangeSize = off
    BY <1>1, Z3
  <2> QED BY <1>3, <2>3, <2>4 DEF Distance
<1> QED BY <1>1, <1>2, <1>5, <1>6

(* A step that changes the slot of an identifier moves it strictly towards *)
(* its home slot: resolving again stops at the old slot at the latest.     *)
LEMMA MoveStep ==
  ASSUME Inv, [Next]_held, NEW i \in DOMAIN held \cap DOMAIN held', held'[i] # held[i]
  PROVE  Distance(i, held'[i]) < Distance(i, held[i])
<1> USE DEF Inv, TypeOK, HeldUnique
<1>1. i \in Ids /\ held[i] \in Slots
  OBVIOUS
<1>2. Assign(i)
  <2>1. ASSUME NEW id \in Ids, Assign(id) PROVE id = i
    BY <2>1 DEF Assign
  <2>2. ASSUME NEW S \in SUBSET (DOMAIN held), Forget(S) PROVE FALSE
    BY <2>2 DEF Forget
  <2> QED BY <2>1, <2>2 DEF Next
<1>3. held'[i] = Resolved(i) /\ Resolved(i) # Exhausted
  BY <1>2 DEF Assign
<1>4. PICK new \in 0..(RangeSize - 1) :
        /\ Resolved(i) = Probe(i, new)
        /\ \A p \in 0..(new - 1) : Probe(i, p) \in HeldByOthers(i)
  BY <1>1, <1>3, ResolvedIsFirstStop
<1>5. PICK old \in 0..(RangeSize - 1) : held[i] = Probe(i, old)
  BY <1>1, RangeFits, ProbeVisitsEverySlot DEF Slots, Probe
<1>6. held[i] \notin HeldByOthers(i)
  BY DEF HeldByOthers
<1>7. RangeSize \in Nat
  BY AllocatorAssumption
<1>8. ~(old < new)
  BY <1>4, <1>5, <1>6, <1>7
<1>9. new # old
  BY <1>3, <1>4, <1>5
<1>10. Distance(i, held'[i]) = new /\ Distance(i, held[i]) = old
  BY <1>1, <1>3, <1>4, <1>5, DistanceOfProbe
<1> QED BY <1>7, <1>8, <1>9, <1>10

(* Identifiers only ever move towards their home slot.                     *)
THEOREM AllocatorMovesTowardsHome == Spec => MovesTowardsHome
<1> DEFINE Moved == \A i \in DOMAIN held \cap DOMAIN held' :
             held'[i] # held[i] => Distance(i, held'[i]) < Distance(i, held[i])
<1>1. Inv /\ [Next]_held => [Moved]_held
  BY MoveStep
<1> QED BY <1>1, InvInit, InvNext, PTL DEF Spec, MovesTowardsHome

(* Resolution returns the free slot nearest to home, and none only if      *)
(* there is none.                                                          *)
THEOREM AllocatorNearestSlot == Spec => []ResolvesToNearestSlot
<1>1. ASSUME NEW id \in Ids, Resolved(id) = Exhausted
      PROVE  Slots \subseteq HeldByOthers(id)
  BY <1>1, RangeFits, ExhaustedMeansAllTaken DEF Resolved, Slots
<1>2. ASSUME NEW id \in Ids, Resolved(id) # Exhausted
      PROVE  /\ Resolved(id) \in Slots \ HeldByOthers(id)
             /\ \A s \in Slots \ HeldByOthers(id) : Distance(id, Resolved(id)) <= Distance(id, s)
  <2>1. PICK off \in 0..(RangeSize - 1) :
          /\ Resolved(id) = Probe(id, off)
          /\ Probe(id, off) \notin HeldByOthers(id)
          /\ \A p \in 0..(off - 1) : Probe(id, p) \in HeldByOthers(id)
    BY <1>2, ResolvedIsFirstStop
  <2>2. ASSUME NEW s \in Slots \ HeldByOthers(id)
        PROVE  Distance(id, Resolved(id)) <= Distance(id, s)
    <3>1. PICK d \in 0..(RangeSize - 1) : s = Probe(id, d)
      BY RangeFits, ProbeVisitsEverySlot DEF Slots, Probe
    <3>2. ~(d < off)
      BY <2>1, <2>2, <3>1, AllocatorAssumption
    <3>3. Distance(id, Resolved(id)) = off /\ Distance(id, s) = d
      BY <2>1, <3>1, DistanceOfProbe
    <3> QED BY <3>2, <3>3, AllocatorAssumption
  <2> QED BY <2>1, <2>2, ProbeInSlots
<1>3. ResolvesToNearestSlot
  BY <1>1, <1>2 DEF ResolvesToNearestSlot
<1> QED BY <1>3, PTL

-----------------------------------------------------------------------------
(* Identifiers with distinct home slots stay at home. *)

LEMMA AtHomeNext ==
  ASSUME HomesDistinct, TypeOK, AtHome, [Next]_held
  PROVE  AtHome'
<1> USE DEF TypeOK
<1>1. ASSUME NEW id \in Ids, Assign(id) PROVE AtHome'
  <2>1. PICK off \in 0..(RangeSize - 1) :
          /\ Resolved(id) = Probe(id, off)
          /\ \A p \in 0..(off - 1) : Probe(id, p) \in HeldByOthers(id)
    BY <1>1, ResolvedIsFirstStop DEF Assign
  <2>2. Probe(id, 0) = Home(id)
    BY RangeFits, ProbeStartsAtHome DEF Probe, Home
  <2>3. Home(id) \notin HeldByOthers(id)
    BY DEF HeldByOthers, AtHome, HomesDistinct
  <2>4. off = 0
    BY <2>1, <2>2, <2>3, AllocatorAssumption
  <2>5. Resolved(id) = Home(id)
    BY <2>1, <2>2, <2>4
  <2> QED BY <1>1, <2>5 DEF Assign, AtHome
<1>2. ASSUME NEW S \in SUBSET (DOMAIN held), Forget(S) PROVE AtHome'
  BY <1>2 DEF Forget, AtHome, Home
<1>3. CASE UNCHANGED held
  BY <1>3 DEF AtHome, Home
<1> QED BY <1>1, <1>2, <1>3 DEF Next

(* Without a collision in the range every identifier is at its home slot,  *)
(* whatever was assigned or forgotten before: the slot is a function of the*)
(* identifier alone.                                                       *)
THEOREM AllocatorAtHome == ASSUME HomesDistinct PROVE Spec => []AtHome
<1>1. Init => AtHome
  BY DEF Init, AtHome
<1>2. TypeOK /\ AtHome /\ [Next]_held => AtHome'
  BY AtHomeNext
<1> QED BY <1>1, <1>2, AllocatorTypeCorrect, PTL DEF Spec
=============================================================================
