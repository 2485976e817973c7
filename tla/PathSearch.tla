----------------------------- MODULE PathSearch -----------------------------
(***************************************************************************)
(* multi_variable_v2 (Path_Calculator/path_calculation.py), called by      *)
(* get_best_path: a Dijkstra search whose labels carry six metrics instead *)
(* of one length.  Three metrics of a path are those of its worst edge,    *)
(* three are sums over its edges.                                          *)
(*                                                                         *)
(* One iteration of either loop of the code is one action; the order in    *)
(* which the neighbours of a vertex are visited (that of the graph's       *)
(* dictionaries) is left open.  Metrics are natural numbers that include   *)
(* the weight of their service and grow with the badness of the edge: 60   *)
(* minus the ticks of link_stability, the unused share of the band for     *)
(* AvBw; max_edges counts hops, 1 / maxTTL each.  exclude, pred and cutoff *)
(* have their default values in every call that is reached.                *)
(***************************************************************************)
EXTENDS GraphPaths

CONSTANTS
  dpOf,       \* attribute datapath_id of each vertex
  Near,       \* edges the graph may have
  Instability, BreakProb,   \* metrics of going from one vertex to another
  Busy, RI, TechCost,       \* metrics of the vertex gone to
  HopCost,    \* what one hop costs
  maxTTL      \* hops a label may count

ASSUME PathSearchAssumption ==
  /\ IsFiniteSet(V)
  /\ Near \subseteq Pairs
  /\ Instability \in [V -> [V -> Nat]] /\ BreakProb \in [V -> [V -> Nat]]
  /\ Busy \in [V -> Nat] /\ RI \in [V -> Nat] /\ TechCost \in [V -> Nat]
  /\ HopCost \in Nat
  /\ maxTTL \in Nat

VARIABLES
  links, source, target,   \* the call's arguments
  fringe,    \* the heap: labels to be looked at
  c,         \* labels pushed so far, the tie breaker of the heap
  dist,      \* final distances
  seen,      \* distances of pushed labels
  paths,     \* the path behind the newest label of a vertex
  v,         \* the vertex whose neighbours are visited
  path_n_1,  \* its label
  aliased,   \* path_n and path_n_1 are one dictionary
  todo,      \* neighbours of v still to visit
  status, path   \* how the call ends, and what it returns

graph == <<links, source, target>>
tables == <<fringe, c, dist, seen, paths>>
loop == <<v, path_n_1, aliased, todo>>
vars == <<graph, tables, loop, status, path>>

-----------------------------------------------------------------------------
Worse(a, b) == IF a <= b THEN b ELSE a

init == [link_stability |-> 0, break_prob |-> 0, AvBw |-> 0,
         max_edges |-> 0, RI |-> 0, TechCost |-> 0]

(* The label of a path prolonged from w to u, ports of two devices. *)
Prolonged(x, w, u) ==
  [link_stability |-> Worse(x.link_stability, Instability[w][u]),
   break_prob     |-> Worse(x.break_prob, BreakProb[w][u]),
   AvBw           |-> Worse(x.AvBw, Busy[u]),
   max_edges      |-> x.max_edges + 1,
   RI             |-> x.RI + RI[u],
   TechCost       |-> x.TechCost + TechCost[u]]

(* get_edge_cost_v2, without its assertion on max_edges. *)
get_edge_cost_v2(x) ==
  x.link_stability + x.break_prob + x.AvBw + HopCost * x.max_edges + x.RI + x.TechCost

(* Going from one port of a switch to another costs nothing. *)
Step(x, w, u) == IF dpOf[u] = dpOf[w] THEN x ELSE Prolonged(x, w, u)

With(f, x, y) == [z \in DOMAIN f \cup {x} |-> IF z = x THEN y ELSE f[z]]

Neighbours(w) == {u \in V : {w, u} \in links}

(* Mutant: the counter comes first in the tuple. *)
Precedes_age(l, m) == l.c <= m.c

(* The order of the heap: by distance, then by age. *)
Precedes(l, m) == l.d < m.d \/ (l.d = m.d /\ l.c <= m.c)
First(l) == l \in fringe /\ \A m \in fringe : Precedes(l, m)

-----------------------------------------------------------------------------
Init ==
  /\ links \in SUBSET Near
  /\ source \in V
  /\ target \in V
  /\ fringe = {} /\ c = 0
  /\ dist = <<>> /\ seen = <<>>
  /\ paths = [u \in {source} |-> <<source>>]
  /\ v = source /\ path_n_1 = init /\ aliased = FALSE /\ todo = {}
  /\ status = "start" /\ path = <<>>

Return(p) == status' = "returned" /\ path' = p
Raise(error) == status' = error /\ path' = path

(* Mutant: the edge is returned in the place of its vertices. *)
DirectPath_edge ==
  /\ status = "start"
  /\ {source, target} \in links
  /\ Return(<<{source, target}>>)
  /\ UNCHANGED <<graph, tables, loop>>

(* Two neighbours are joined by their edge, whatever it costs. *)
DirectPath ==
  /\ status = "start"
  /\ {source, target} \in links
  /\ Return(<<source, target>>)
  /\ UNCHANGED <<graph, tables, loop>>

Start ==
  /\ status = "start"
  /\ {source, target} \notin links
  /\ seen' = With(seen, source, 0)
  /\ fringe' = {[d |-> 0, c |-> c, v |-> source, var |-> init]}
  /\ c' = c + 1
  /\ status' = "search"
  /\ UNCHANGED <<graph, dist, paths, loop, path>>

(* Mutant: the old label is looked at but stays on the heap. *)
PopOld_peek ==
  /\ status = "search" /\ todo = {}
  /\ \E l \in fringe : First(l) /\ l.v \in DOMAIN dist
  /\ UNCHANGED vars

(* The next label, of a vertex that already has its distance. *)
PopOld ==
  /\ status = "search" /\ todo = {}
  /\ \E l \in fringe :
       /\ First(l)
       /\ l.v \in DOMAIN dist
       /\ fringe' = fringe \ {l}
  /\ UNCHANGED <<graph, c, dist, seen, paths, loop, status, path>>

(* The next label gives its vertex its distance: the neighbours are next,   *)
(* or the search is over.                                                   *)
Pop ==
  /\ status = "search" /\ todo = {}
  /\ \E l \in fringe :
       /\ First(l)
       /\ l.v \notin DOMAIN dist
       /\ fringe' = fringe \ {l}
       /\ dist' = With(dist, l.v, l.d)
       /\ v' = l.v /\ path_n_1' = l.var /\ aliased' = FALSE
       /\ IF l.v = target
          THEN todo' = {} /\ Return(paths[target])
          ELSE todo' = Neighbours(l.v) /\ UNCHANGED <<status, path>>
  /\ UNCHANGED <<graph, c, seen, paths>>

(* get_best_path turns NetworkXNoPath into the source alone. *)
NoPath ==
  /\ status = "search" /\ todo = {} /\ fringe = {}
  /\ Return(<<source>>)
  /\ UNCHANGED <<graph, tables, loop>>

(* One neighbour.  A port of v's own switch takes over v's label, not a     *)
(* copy of it; from then on the labels of the other neighbours are written  *)
(* over v's own.                                                            *)
path_n(u) == Step(path_n_1, v, u)
shared(u) == aliased \/ dpOf[u] = dpOf[v]
vu_dist(u) == get_edge_cost_v2(path_n(u))

Visit(u) ==
  /\ status = "search" /\ u \in todo
  /\ todo' = todo \ {u}
  /\ aliased' = shared(u)
  /\ path_n_1' = IF shared(u) THEN path_n(u) ELSE path_n_1
  /\ UNCHANGED <<graph, v, dist>>

tooLong(u) == path_n(u).max_edges > maxTTL

(* Mutant: a path is replaced without comparing the distances. *)
improves_any(u) == u \notin DOMAIN dist

improves(u) == u \notin DOMAIN dist /\ (u \in DOMAIN seen => vu_dist(u) < seen[u])
contradicts(u) == u \in DOMAIN dist /\ vu_dist(u) < dist[u]
fails(u) == tooLong(u) \/ contradicts(u)

(* The two exceptions end the process: get_best_path calls exit(-1). *)
Fail(u) ==
  /\ Visit(u)
  /\ fails(u)
  /\ Raise(IF tooLong(u) THEN "AssertionError" ELSE "ValueError")
  /\ UNCHANGED <<fringe, c, seen, paths>>

(* Mutant: the path of a vertex is only its last edge. *)
Push_edge(u) ==
  /\ Visit(u)
  /\ ~fails(u) /\ improves(u)
  /\ seen' = With(seen, u, vu_dist(u))
  /\ fringe' = fringe \cup {[d |-> vu_dist(u), c |-> c, v |-> u, var |-> path_n(u)]}
  /\ c' = c + 1
  /\ paths' = With(paths, u, <<v, u>>)
  /\ UNCHANGED <<status, path>>

Push(u) ==
  /\ Visit(u)
  /\ ~fails(u) /\ improves(u)
  /\ seen' = With(seen, u, vu_dist(u))
  /\ fringe' = fringe \cup {[d |-> vu_dist(u), c |-> c, v |-> u, var |-> path_n(u)]}
  /\ c' = c + 1
  /\ paths' = With(paths, u, Append(paths[v], u))
  /\ UNCHANGED <<status, path>>

Pass(u) ==
  /\ Visit(u)
  /\ ~fails(u) /\ ~improves(u)
  /\ UNCHANGED <<fringe, c, seen, paths, status, path>>

Next ==
  \/ DirectPath \/ Start \/ PopOld \/ Pop \/ NoPath
  \/ \E u \in V : Fail(u) \/ Push(u) \/ Pass(u)

Spec == Init /\ [][Next]_vars /\ WF_vars(Next)
-----------------------------------------------------------------------------
Label == [link_stability : Nat, break_prob : Nat, AvBw : Nat,
          max_edges : Nat, RI : Nat, TechCost : Nat]

Outcomes == {"returned", "AssertionError", "ValueError"}

(* The variables of multi_variable_v2 hold what the code writes to them. *)
TypeOK ==
  /\ links \in SUBSET Near /\ source \in V /\ target \in V
  /\ fringe \subseteq [d : Nat, c : Nat, v : V, var : Label]
  /\ c \in Nat
  /\ DOMAIN dist \subseteq V /\ DOMAIN seen \subseteq V /\ DOMAIN paths \subseteq V
  /\ dist \in [DOMAIN dist -> Nat]
  /\ seen \in [DOMAIN seen -> Nat]
  /\ paths \in [DOMAIN paths -> Seq(V)]
  /\ v \in V /\ path_n_1 \in Label /\ aliased \in BOOLEAN /\ todo \subseteq V
  /\ status \in {"start", "search"} \cup Outcomes
  /\ path \in Seq(V)

(* The exception "Contradictory paths found" is never raised: although the  *)
(* label of a vertex changes while its neighbours are visited, no neighbour *)
(* is offered a distance below the one it was given before.                 *)
NoContradiction == status # "ValueError"

(* multi_variable_v2 implements what Atlas takes get_best_path for: its one *)
(* answer is a simple path of the graph between the two vertices, the edge  *)
(* itself when there is one, and the source alone only if there is no path. *)
Promise == INSTANCE BestPath WITH V <- V, Pairs <- Pairs, get_best_path <- get_best_path
IsBestPath == Promise!Spec

(* The loop over the heap ends. *)
SearchEnds == <>(status \in Outcomes)

(* The label and the length of a path, by the metrics of the search. *)
label_of(p) ==
  LET label[i \in 1 .. Len(p)] ==
        IF i = 1 THEN init ELSE Step(label[i - 1], p[i - 1], p[i])
  IN label[Len(p)]

Length(p) == get_edge_cost_v2(label_of(p))

searched == status = "returned" /\ target \in DOMAIN dist

(* No link joins two ports of a switch. *)
PlainGraph == \A u, w \in V : {u, w} \in links => dpOf[u] # dpOf[w]

(* "Find shortest weighted paths and lengths": in a plain graph the length  *)
(* of the target is the length of the path that is returned.  Otherwise     *)
(* labels are shared, and a length can hold costs of edges of other paths.  *)
LengthIsCost == searched /\ PlainGraph => dist[target] = Length(path)

=============================================================================
