------------------------------ MODULE MCPaging ------------------------------
(***************************************************************************)
(* Small instances of Paging: three pages compete for one or two frames,   *)
(* so pages are evicted, paged in and evicted again.                       *)
(***************************************************************************)
EXTENDS Paging, TLC

\* Pages are interchangeable: no guard of the model compares two of them.
Symmetry == Permutations(Page)
=============================================================================
