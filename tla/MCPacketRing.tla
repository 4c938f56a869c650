---------------------------- MODULE MCPacketRing ----------------------------
(* Small instances of PacketRing.                                          *)
EXTENDS PacketRing, TLC

CONSTANT if1

SevenBlocks == [i \in Interfaces |-> 7]
=============================================================================
