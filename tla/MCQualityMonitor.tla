-------------------------- MODULE MCQualityMonitor --------------------------
(* Two ports and a legacy node.  One packet goes from port to port, one is  *)
(* broadcast by a port, one comes from the legacy node and may reach its    *)
(* port by way of the other.                                                *)
EXTENDS QualityMonitor

CONSTANTS x, y, z, uni, bro, leg

MCSrc == [p \in Pkt |-> IF p = leg THEN z ELSE x]
MCDst == [p \in Pkt |-> IF p = bro THEN Broadcast ELSE y]
=============================================================================
