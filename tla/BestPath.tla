------------------------------ MODULE BestPath ------------------------------
(***************************************************************************)
(* What a path search promises to the routing code: one answer, and the    *)
(* answer is one that get_best_path may give for the graph it was called   *)
(* with.                                                                   *)
(***************************************************************************)
CONSTANTS
  V,        \* the vertices
  Pairs,    \* the edges a graph may have
  get_best_path(_, _, _)   \* the answers allowed for edges, source and target

VARIABLES
  links,    \* the edges of the graph, which the search does not change
  source, target,
  path      \* the answer, <<>> before there is one

vars == <<links, source, target, path>>

Init ==
  /\ links \in SUBSET Pairs
  /\ source \in V
  /\ target \in V
  /\ path = <<>>

Answer ==
  /\ path = <<>>
  /\ path' \in get_best_path(links, source, target)
  /\ UNCHANGED <<links, source, target>>

Spec == Init /\ [][Answer]_vars
=============================================================================
