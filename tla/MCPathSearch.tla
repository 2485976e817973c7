---------------------------- MODULE MCPathSearch ----------------------------
(* Switch 1 with ports a1 and a2, switch 2 with ports b1 and b2, and a       *)
(* legacy node l.  The link a1 - l is stable to l and weak to the other      *)
(* side; the ways over switch 2 are better in one metric and worse in        *)
(* another.                                                                  *)
EXTENDS PathSearch

CONSTANTS a1, a2, b1, b2, l

MCV    == {a1, a2, b1, b2, l}
MCdpOf == [u \in MCV |-> CASE u \in {a1, a2} -> 1 [] u \in {b1, b2} -> 2 [] OTHER -> 0]
MCNear == {{a1, a2}, {b1, b2}, {a1, l}, {a1, b1}, {a2, b1}, {a2, b2}, {b1, l}, {b2, l}}

MCInstability == [u \in MCV |-> [w \in MCV |-> IF {u, w} \in {{a1, b1}, {b1, b2}} THEN 4 ELSE 1]]
MCBreakProb   == [u \in MCV |-> [w \in MCV |-> IF u = a1 /\ w = l THEN 2 ELSE 0]]
MCBusy        == [u \in MCV |-> IF u = a2 THEN 1 ELSE 0]
MCRI          == [u \in MCV |-> IF u \in {b1, l} THEN 1 ELSE 0]
MCTechCost    == [u \in MCV |-> IF u = l THEN 2 ELSE 1]
=============================================================================
