------------------------------ MODULE MCPacket ------------------------------
(* Packets through buffers of a few bytes. *)
EXTENDS PacketReader
=============================================================================
