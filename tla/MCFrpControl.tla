---------------------------- MODULE MCFrpControl ----------------------------
(* Instances of FrpControl: r1 and r2 are two processes set up with one     *)
(* client id.                                                               *)
EXTENDS FrpControl, TLC

CONSTANTS r1, r2, r3, k1, k2, n1

MCClientOf == (r1 :> k1) @@ (r2 :> k1) @@ (r3 :> k2)

\* One name, for a given port and for any.
MCRequests == {<<n1, 1>>, <<n1, AnyPort>>}
=============================================================================
