------------------------------ MODULE MCFleet ------------------------------
(***************************************************************************)
(* An instance of Fleet for TLC with one hash collision.                   *)
(***************************************************************************)
EXTENDS Fleet

MCIds == {"u1", "u2", "u3", "u4"}

(* u1 and u2 hash to the same slot. *)
HashColliding == [u1 |-> 4, u2 |-> 9, u3 |-> 11, u4 |-> 3]
=============================================================================
