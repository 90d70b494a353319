--------------------------- MODULE MCPacketManager ---------------------------
(* PacketManager for TLC: the bounds are in MCPacketManager.cfg. *)
EXTENDS PacketManager
=============================================================================
