----------------------------- MODULE MCFastSlim -----------------------------
(***************************************************************************)
(* Instances of FastSlim: buffers smaller than, as large as and larger     *)
(* than the set of pages, and the two values that never fill.              *)
(***************************************************************************)
EXTENDS FastSlim

SomeSizes == {-1, 0, 1, 2, 3, 4}

\* No page is unlike another: they are only compared.
PageSymmetry == Permutations(Page)
=============================================================================
