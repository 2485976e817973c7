--------------------------- MODULE MCRateLimiter ---------------------------
(* Switch A has the ports a1 and a2, switch B the port b1; y is legacy and  *)
(* the destination of all flows.                                            *)
EXTENDS RateLimiter, TLC

CONSTANTS A, B, a1, a2, b1, x, y, f1, f2

MC_dpOf == a1 :> A @@ a2 :> A @@ b1 :> B @@ x :> None @@ y :> None
MC_og_bw == f1 :> 20 @@ f2 :> 10
MC_og_bw_more == f1 :> 10 @@ f2 :> 100
MC_Prio == f1 :> 1 @@ f2 :> 5
MC_Trans == f1 :> x @@ f2 :> b1
MC_max_C == [v \in V |-> 20]

(* All paths go through A; one leaves it by the other port. *)
MC_Paths == f1 :> {<<a1, a2, b1, y>>} @@ f2 :> {<<a1>>, <<a1, y>>}
=============================================================================
