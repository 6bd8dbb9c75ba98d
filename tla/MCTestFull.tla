----------------------------- MODULE MCTestFull -----------------------------
(***************************************************************************)
(* An instance of TestFull: root, nobody and one other user.               *)
(***************************************************************************)
EXTENDS TestFull

CONSTANT bystander

ThreeOwners == [p \in Proc |-> CASE p \in Root -> 0 [] p \in Guests -> 1 [] OTHER -> 2]
=============================================================================
