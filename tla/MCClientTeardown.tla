-------------------------- MODULE MCClientTeardown --------------------------
(* One connection; the configurations choose versions and channel sizes.     *)
EXTENDS ClientTeardown
=============================================================================
