---------------------------- MODULE MCFlowDeploy ----------------------------
(* Two flows that share a subflow which uses another one, and a flow that    *)
(* uses none.                                                                *)
EXTENDS FlowDeploy, TLC

CONSTANTS f1, f2, f3, s1, s2

MCRefs == (f1 :> {s1}) @@ (f2 :> {s1, s2}) @@ (f3 :> {}) @@ (s1 :> {s2}) @@ (s2 :> {})
=============================================================================
