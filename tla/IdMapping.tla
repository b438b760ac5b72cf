------------------------------ MODULE IdMapping ------------------------------
(***************************************************************************)
(* The identifier mapping of src/src/mapping.rs.  An external (SCIM)       *)
(* identifier is hashed with murmur3 and reduced into the configured range *)
(* [min, min + size); collisions are resolved by linear probing.           *)
(*                                                                         *)
(* The hash itself is a parameter h of every operator: murmur3 is a        *)
(* library and any value of a 32-bit word is possible.  All sums are u32   *)
(* sums of a release build, so they wrap at Word.                          *)
(***************************************************************************)
EXTENDS Integers

CONSTANT
  Word    \* number of values of a u32: 2^32 in the code, smaller in the models

ASSUME WordAssumption == Word \in Nat \ {0}

(* The error value IdRangeExhausted; no identifier is negative. *)
Exhausted == -1

(* The slot a hash falls into when there is no collision. *)
id_to_uid(h, min, size) == (min + (h % size)) % Word

(* Mutant of Candidate: the probe runs over the end of the range. *)
CandidateNoWrap(h, min, size, off) == (id_to_uid(h, min, size) + off) % Word

(* The candidate of loop iteration off of resolve_id. *)
Candidate(h, min, size, off) ==
  (min + (((id_to_uid(h, min, size) - min + off) % Word) % size)) % Word

(* Mutant of Stops: the loop ends one slot early. *)
StopsShort(h, min, size, other) ==
  {off \in 0..(size - 2) : Candidate(h, min, size, off) \notin other}

(* The loop iterations at which resolve_id would return, when the slots in *)
(* other are held by a different external identifier.                      *)
Stops(h, min, size, other) ==
  {off \in 0..(size - 1) : Candidate(h, min, size, off) \notin other}

(* Mutants of resolve_id: the table is not consulted; the last iteration   *)
(* that could stop wins.                                                   *)
resolve_id_blind(h, min, size, other) == id_to_uid(h, min, size)
resolve_id_last(h, min, size, other) ==
  LET stops == Stops(h, min, size, other)
  IN  IF stops = {}
        THEN Exhausted
        ELSE Candidate(h, min, size,
                       CHOOSE o \in stops : \A p \in stops : p <= o)

(* resolve_id evaluated against one unchanging table: the candidate of the *)
(* first iteration that finds a free slot or our own.                      *)
resolve_id(h, min, size, other) ==
  LET stops == Stops(h, min, size, other)
  IN  IF stops = {}
        THEN Exhausted
        ELSE Candidate(h, min, size,
                       CHOOSE o \in stops : \A p \in stops : o <= p)
=============================================================================
