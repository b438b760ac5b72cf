---------------------------- MODULE MCAllocator ----------------------------
(***************************************************************************)
(* An instance of UidAllocator for TLC: one identifier more than slots, so *)
(* that the range runs full, and homes at the end of the range.            *)
(***************************************************************************)
EXTENDS UidAllocator

MCIds == {"u1", "u2", "u3", "u4", "u5"}

(* u1, u2 and u3 share the last slot of the range as home, u4 the slot     *)
(* that their probes wrap around to.                                       *)
HashColliding == [u1 |-> 3, u2 |-> 3, u3 |-> 7, u4 |-> 0, u5 |-> 6]
=============================================================================
