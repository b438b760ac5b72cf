----------------------------- MODULE MCPamLogin -----------------------------
(***************************************************************************)
(* PamLogin for TLC with the code's own 5 and 10 seconds.  The intervals   *)
(* lie below and above the minimum; the lifetimes are zero, a multiple of  *)
(* the interval, and long enough for two slow_downs.  A subject may be the *)
(* user name, the identifier of its account, or somebody else's.           *)
(***************************************************************************)
EXTENDS PamLogin

MCIntervals == {0, 7}
MCLifetimes == {0, 15, 32}
=============================================================================
