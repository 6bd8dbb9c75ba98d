--------------------------- MODULE MCInterceptor ----------------------------
(***************************************************************************)
(* Instances of Interceptor with two processes.                            *)
(***************************************************************************)
EXTENDS Interceptor

CONSTANTS p1, p2

\* root's uid is 0; whoever is not root is one other user.
Uids == [p \in Proc |-> IF p \in Root THEN 0 ELSE 1]
=============================================================================
