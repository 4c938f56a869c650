------------------------- MODULE MCPacketAdmission -------------------------
(* Two readers and the consumer; a small instance of PacketAdmission.      *)
EXTENDS PacketAdmission, TLC

CONSTANTS if1, if2
=============================================================================
