--------------------------- MODULE IdMappingProofs ---------------------------
(***************************************************************************)
(* Facts about the probe sequence of mapping.rs for every word size and    *)
(* every range that fits the word (FitsWord).                              *)
(***************************************************************************)
EXTENDS IdMapping, WellFoundedInduction, TLAPS

(* The range lies inside the word and a home slot plus any offset cannot   *)
(* overflow it.                                                            *)
FitsWord(min, size) ==
  /\ min \in Nat /\ size \in Nat \ {0}
  /\ min + size <= Word
  /\ 2 * size <= Word + 1

(* The remainder of an integer by a positive divisor. *)
LEMMA ModRange ==
  ASSUME NEW a \in Int, NEW b \in Nat \ {0}
  PROVE  a % b \in 0..(b - 1)
  BY Z3

LEMMA ModSmall ==
  ASSUME NEW b \in Nat \ {0}, NEW a \in 0..(b - 1)
  PROVE  a % b = a
  BY Z3

(* A nonempty set of naturals has a least element. *)
LEMMA LeastNatural ==
  ASSUME NEW S, S \subseteq Nat, S # {}
  PROVE  \E m \in S : \A p \in S : m <= p
<1> DEFINE Rel == OpToRel(<, Nat)
<1>1. PICK m \in S : \A p \in S : ~(<<p, m>> \in Rel)
  BY NatLessThanWellFounded, WFMin
<1>2. ASSUME NEW p \in Nat, NEW q \in Nat, p < q PROVE <<p, q>> \in Rel
  BY <1>2 DEF OpToRel
<1>3. \A p \in S : ~(p < m)
  BY <1>1, <1>2
<1> QED BY <1>3

(* Under FitsWord the wrapping sums of the code are exact sums: the home   *)
(* slot and the candidates are offsets into the range, taken modulo size.  *)
LEMMA CandidateExact ==
  ASSUME NEW h \in Nat, NEW min, NEW size, FitsWord(min, size),
         NEW off \in 0..(size - 1)
  PROVE  /\ id_to_uid(h, min, size) = min + (h % size)
         /\ Candidate(h, min, size, off) = min + (((h % size) + off) % size)
<1>1. min \in Nat /\ size \in Nat \ {0} /\ Word \in Nat \ {0} /\ h \in Int
  BY WordAssumption DEF FitsWord
<1> DEFINE r == h % size
<1>2. r \in 0..(size - 1)
  BY <1>1, ModRange
<1> HIDE DEF r
<1>3. min + r \in 0..(Word - 1)
  BY <1>1, <1>2 DEF FitsWord
<1>4. (min + r) % Word = min + r
  BY <1>1, <1>3, ModSmall
<1>5. id_to_uid(h, min, size) = min + r
  BY <1>4 DEF id_to_uid, r
<1>6. (min + r) - min + off = r + off
  BY <1>1, <1>2
<1>7. r + off \in 0..(Word - 1)
  BY <1>1, <1>2 DEF FitsWord
<1>8. (r + off) % Word = r + off
  BY <1>1, <1>7, ModSmall
<1> DEFINE q == (r + off) % size
<1>9. q \in 0..(size - 1)
  <2>1. r + off \in Int
    BY <1>7, <1>1
  <2> QED BY <2>1, <1>1, ModRange
<1> HIDE DEF q
<1>10. min + q \in 0..(Word - 1)
  BY <1>1, <1>9 DEF FitsWord
<1>11. (min + q) % Word = min + q
  BY <1>1, <1>10, ModSmall
<1>12. Candidate(h, min, size, off) = min + q
  BY <1>5, <1>6, <1>8, <1>11 DEF Candidate, q
<1> QED BY <1>5, <1>12 DEF r, q

(* Every candidate is a slot of the configured range (mapping.rs: "within  *)
(* [range_min, range_min + range_size)").                                  *)
THEOREM CandidateInRange ==
  ASSUME NEW h \in Nat, NEW min, NEW size, FitsWord(min, size),
         NEW off \in 0..(size - 1)
  PROVE  Candidate(h, min, size, off) \in min..(min + size - 1)
<1>1. min \in Nat /\ size \in Nat \ {0} /\ h \in Int
  BY DEF FitsWord
<1>2. h % size \in 0..(size - 1)
  BY <1>1, ModRange
<1>3. (h % size) + off \in Int
  BY <1>1, <1>2
<1>4. ((h % size) + off) % size \in 0..(size - 1)
  BY <1>1, <1>3, ModRange
<1>5. Candidate(h, min, size, off) = min + (((h % size) + off) % size)
  BY CandidateExact
<1> QED BY <1>1, <1>4, <1>5

(* The probe starts at the home slot. *)
THEOREM ProbeStartsAtHome ==
  ASSUME NEW h \in Nat, NEW min, NEW size, FitsWord(min, size)
  PROVE  Candidate(h, min, size, 0) = id_to_uid(h, min, size)
<1>1. min \in Nat /\ size \in Nat \ {0} /\ h \in Int /\ 0 \in 0..(size - 1)
  BY DEF FitsWord
<1>2. h % size \in 0..(size - 1)
  BY <1>1, ModRange
<1>3. ((h % size) + 0) % size = h % size
  <2>1. (h % size) + 0 = h % size
    BY <1>2, <1>1
  <2> QED BY <2>1, <1>1, <1>2, ModSmall
<1> QED BY <1>1, <1>3, CandidateExact

(* The probe visits every slot of the range: a slot missing from it would  *)
(* make resolve_id report exhaustion with that slot free.                  *)
THEOREM ProbeVisitsEverySlot ==
  ASSUME NEW h \in Nat, NEW min, NEW size, FitsWord(min, size),
         NEW s \in min..(min + size - 1)
  PROVE  \E off \in 0..(size - 1) : Candidate(h, min, size, off) = s
<1>1. min \in Nat /\ size \in Nat \ {0} /\ h \in Int
  BY DEF FitsWord
<1> DEFINE r == h % size
           d == s - min
<1>2. r \in 0..(size - 1) /\ d \in 0..(size - 1)
  <2>1. r \in 0..(size - 1)
    BY <1>1, ModRange
  <2>2. d \in 0..(size - 1)
    BY <1>1
  <2> QED BY <2>1, <2>2
<1>3. CASE d >= r
  <2>1. d - r \in 0..(size - 1) /\ r + (d - r) = d
    BY <1>1, <1>2, <1>3
  <2>2. (r + (d - r)) % size = d
    BY <2>1, <1>1, <1>2, ModSmall
  <2>3. Candidate(h, min, size, d - r) = min + d
    BY <2>1, <2>2, CandidateExact
  <2>4. min + d = s
    BY <1>1
  <2> QED BY <2>1, <2>3, <2>4
<1>4. CASE d < r
  <2>1. d - r + size \in 0..(size - 1) /\ r + (d - r + size) = d + size
    BY <1>1, <1>2, <1>4
  <2>2. (d + size) % size = d
    BY <1>1, <1>2, Z3
  <2>3. Candidate(h, min, size, d - r + size) = min + d
    BY <2>1, <2>2, CandidateExact
  <2>4. min + d = s
    BY <1>1
  <2> QED BY <2>1, <2>3, <2>4
<1> QED BY <1>2, <1>3, <1>4

(* What resolve_id returns: the candidate of some iteration that is not    *)
(* another's, with all earlier candidates held by others.                  *)
THEOREM ResolveIdIsFirstStop ==
  ASSUME NEW h \in Nat, NEW min, NEW size, FitsWord(min, size), NEW other,
         resolve_id(h, min, size, other) # Exhausted
  PROVE  \E off \in 0..(size - 1) :
           /\ resolve_id(h, min, size, other) = Candidate(h, min, size, off)
           /\ Candidate(h, min, size, off) \notin other
           /\ \A p \in 0..(off - 1) : Candidate(h, min, size, p) \in other
<1> DEFINE S == Stops(h, min, size, other)
<1>1. size \in Nat \ {0} /\ S \subseteq Nat /\ S # {}
  BY DEF FitsWord, Stops, resolve_id
<1>3. \E o \in S : \A p \in S : o <= p
  BY <1>1, LeastNatural
<1> DEFINE m == CHOOSE x \in S : \A p \in S : x <= p
<1>4. m \in S /\ \A p \in S : m <= p
  BY <1>3
<1>5. resolve_id(h, min, size, other) = Candidate(h, min, size, m)
  BY <1>1 DEF resolve_id
<1> HIDE DEF m
<1>6. m \in 0..(size - 1) /\ Candidate(h, min, size, m) \notin other
  BY <1>4 DEF Stops
<1>7. \A p \in 0..(m - 1) : Candidate(h, min, size, p) \in other
  BY <1>1, <1>4, <1>6 DEF Stops
<1> QED BY <1>5, <1>6, <1>7

(* resolve_id fails only when every slot of the range is another's.        *)
THEOREM ExhaustedMeansAllTaken ==
  ASSUME NEW h \in Nat, NEW min, NEW size, FitsWord(min, size), NEW other,
         resolve_id(h, min, size, other) = Exhausted
  PROVE  min..(min + size - 1) \subseteq other
<1>1. min \in Nat /\ size \in Nat \ {0}
  BY DEF FitsWord
<1>2. \A off \in 0..(size - 1) : Candidate(h, min, size, off) \in min..(min + size - 1)
  BY CandidateInRange
<1>3. ASSUME Stops(h, min, size, other) # {} PROVE FALSE
  <2> DEFINE S == Stops(h, min, size, other)
  <2>1. S \subseteq Nat /\ S # {}
    BY <1>1, <1>3 DEF Stops
  <2>3. \E o \in S : \A p \in S : o <= p
    BY <2>1, LeastNatural
  <2> DEFINE m == CHOOSE x \in S : \A p \in S : x <= p
  <2>4. m \in S
    BY <2>3
  <2>5. Exhausted = Candidate(h, min, size, m)
    BY <1>3 DEF resolve_id
  <2> HIDE DEF m
  <2>6. m \in 0..(size - 1)
    BY <2>4 DEF Stops
  <2> QED BY <1>1, <1>2, <2>5, <2>6 DEF Exhausted
<1>4. \A off \in 0..(size - 1) : Candidate(h, min, size, off) \in other
  BY <1>3 DEF Stops
<1> QED BY <1>4, ProbeVisitsEverySlot
=============================================================================
