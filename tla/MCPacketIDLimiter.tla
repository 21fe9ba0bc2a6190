-------------------------- MODULE MCPacketIDLimiter --------------------------
(* The limiter with four identifiers, so that the search wraps around.      *)
EXTENDS PacketIDLimiter
=============================================================================
