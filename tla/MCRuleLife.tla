----------------------------- MODULE MCRuleLife -----------------------------
(* t1 is heard on the first port of the switch; t2 on another one.         *)
EXTENDS RuleLife, TLC

CONSTANTS t1, t2, p1, p2

TwoPorts == t1 :> p1 @@ t2 :> p2
=============================================================================
