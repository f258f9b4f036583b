---------------------------- MODULE MCConnection ----------------------------
(* Instances of Connection for TLC: packets of no, one and two bytes.      *)
EXTENDS Connection

CONSTANTS p1, p2, p3, p4

MCPacket == {p1, p2, p3, p4}
MCBody == [p \in MCPacket |-> CASE p = p1 -> <<>> [] p = p2 -> <<2, 0>> [] OTHER -> <<1>>]
==============================================================================
