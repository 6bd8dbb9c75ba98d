--------------------------- MODULE MCFirstEviction --------------------------
(***************************************************************************)
(* An instance of FirstEviction: four pages in three frames.               *)
(***************************************************************************)
EXTENDS FirstEviction
=============================================================================
