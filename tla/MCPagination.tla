---------------------------- MODULE MCPagination ----------------------------
(* Pagination for TLC: up to four entries, pages of two, a limit of three. *)
EXTENDS Pagination, TLC

EntrySymmetry == Permutations(Entries)
=============================================================================
