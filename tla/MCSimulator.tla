---------------------------- MODULE MCSimulator -----------------------------
(***************************************************************************)
(* An instance of Simulator: four pages in three frames, so that fifo's    *)
(* index and clock's hand wrap.                                            *)
(***************************************************************************)
EXTENDS Simulator
=============================================================================
