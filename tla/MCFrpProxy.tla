----------------------------- MODULE MCFrpProxy -----------------------------
(* Instances of FrpProxy: the troubles a proxy gets over together, and two   *)
(* that it does not.                                                        *)
EXTENDS FrpProxy

MCBenign == {{"late", "link"}, {"taken", "local", "link"},
             {"health", "local", "reload", "link"}}
MCLateAndTaken == {{"late", "taken"}}
=============================================================================
