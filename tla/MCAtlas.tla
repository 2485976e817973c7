------------------------------- MODULE MCAtlas -------------------------------
(* Switch 1 (ports a1 and a2), switch 2 (port b) and a legacy node l that   *)
(* both can hear.  Between any two of them there are two ways, one of them  *)
(* through both ports of switch 1.  Flow f1 goes to switch 2 and takes part *)
(* in periodic recalculation; f2 goes to the legacy node and does not.      *)
EXTENDS Atlas

CONSTANTS a1, a2, b, l, f1, f2

MCV    == {a1, a2, b, l}
MCSw   == {1, 2}
MCdpOf == [v \in MCV |-> CASE v \in {a1, a2} -> 1 [] v = b -> 2 [] OTHER -> None]
MCFirstPort == <<a1, b>>
MCNear == {{a1, l}, {a2, b}, {b, l}}

MCDst  == [f \in Flow |-> IF f = f1 THEN b ELSE l]
MCPrio == [f \in Flow |-> IF f = f1 THEN 1 ELSE 2]
=============================================================================
