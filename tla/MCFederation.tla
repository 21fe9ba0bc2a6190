---------------------------- MODULE MCFederation -----------------------------
(* Small instances of Federation. *)
EXTENDS Federation
MCMsgKinds == {{"ls", "rs"}, {"rp"}}
MCMsgKindsMixed == {{"ls", "rs", "rp"}}
==============================================================================
