-------------------------- MODULE PathSearchProofs --------------------------
(***************************************************************************)
(* Proofs about PathSearch, for any graph, any metrics and any hop limit.  *)
(*                                                                         *)
(* Ordered is what makes the search Dijkstra's although labels are shared: *)
(* a label only ever grows, so no vertex is offered less than the distance *)
(* of the vertex being visited, and that is the largest given so far.      *)
(* PathsFollow keeps the recorded paths simple: all but the last vertex of *)
(* one have their distance.  Frontier is the cut that shows, when the heap *)
(* is empty, that the target cannot be reached.                            *)
(***************************************************************************)
EXTENDS PathSearch, FiniteSetTheorems, SequenceTheorems, WellFoundedInduction, TLAPS

Ordered ==
  /\ \A l \in fringe : l.d = get_edge_cost_v2(l.var)
  /\ \A u \in DOMAIN dist : \A l \in fringe : dist[u] <= l.d
  /\ todo # {} => /\ v \in DOMAIN dist
                  /\ \A u \in DOMAIN dist : dist[u] <= dist[v]
                  /\ dist[v] <= get_edge_cost_v2(path_n_1)

PathTo(p, u) ==
  /\ p \in Seq(V) /\ Len(p) >= 1
  /\ p[1] = source /\ p[Len(p)] = u
  /\ \A i \in 1 .. Len(p) - 1 : {p[i], p[i + 1]} \in links /\ p[i] \in DOMAIN dist
  /\ \A i, j \in 1 .. Len(p) : p[i] = p[j] => i = j

PathsFollow ==
  /\ \A u \in DOMAIN paths : PathTo(paths[u], u)
  /\ source \in DOMAIN paths
  /\ DOMAIN dist \subseteq DOMAIN paths
  /\ \A l \in fringe : l.v \in DOMAIN paths
  /\ todo \subseteq Neighbours(v)

Frontier ==
  /\ status = "start" => DOMAIN dist = {} /\ DOMAIN seen = {} /\ fringe = {} /\ todo = {}
  /\ status = "search" =>
       /\ {source, target} \notin links
       /\ source \in DOMAIN seen
       /\ target \notin DOMAIN dist
       /\ DOMAIN dist \subseteq DOMAIN seen
       /\ \A l \in fringe : l.v \in DOMAIN seen
       /\ \A u \in DOMAIN seen : u \in DOMAIN dist \/ \E l \in fringe : l.v = u
       /\ \A w \in DOMAIN dist : \A u \in Neighbours(w) :
            u \in DOMAIN seen \/ (w = v /\ u \in todo)

Unanswered == status \in {"start", "search"} => path = <<>>

IInv == TypeOK /\ NoContradiction /\ Ordered /\ PathsFollow /\ Frontier /\ Unanswered

-----------------------------------------------------------------------------
(* Well-ordering of the naturals. *)
LEMMA Least ==
  ASSUME NEW T, T \subseteq Nat, T # {}
  PROVE  \E x \in T : \A y \in T : x <= y
PROOF
  <1> DEFINE R == OpToRel(<, Nat)
  <1>1. IsWellFoundedOn(R, Nat)
    BY NatLessThanWellFounded
  <1>2. \A i, j \in Nat : i < j => <<i, j>> \in R
    BY DEF OpToRel
  <1> HIDE DEF R
  <1>3. PICK x \in T : \A y \in T : ~ (<<y, x>> \in R)
    BY <1>1, WFMin
  <1>4. ASSUME NEW y \in T PROVE x <= y
    <2>1. x \in Nat /\ y \in Nat
      OBVIOUS
    <2>2. ~(y < x)
      BY <1>2, <1>3, <2>1
    <2>3. QED
      BY <2>1, <2>2
  <1>5. QED
    BY <1>4

(* A path that starts in a set no edge leaves ends in it. *)
LEMMA Cut ==
  ASSUME NEW C, NEW E, NEW p, NEW n \in Nat \ {0}, p[1] \in C,
         \A i \in 1 .. n - 1 : {p[i], p[i + 1]} \in E,
         \A w \in C : \A u : {w, u} \in E => u \in C
  PROVE  p[n] \in C
PROOF
  <1> DEFINE B == {i \in 1 .. n : p[i] \notin C}
  <1>1. SUFFICES ASSUME p[n] \notin C PROVE FALSE
    OBVIOUS
  <1>2. B \subseteq Nat /\ n \in B
    BY <1>1
  <1>3. PICK x \in B : \A y \in B : x <= y
    BY <1>2, Least
  <1>4. x \in 1 .. n /\ p[x] \notin C /\ x # 1
    OBVIOUS
  <1>5. x - 1 \in 1 .. n - 1 /\ (x - 1) + 1 = x
    BY <1>4
  <1>6. x - 1 \notin B
    BY <1>3, <1>4
  <1>7. p[x - 1] \in C
    BY <1>5, <1>6
  <1>8. {p[x - 1], p[x]} \in E
    BY <1>5
  <1>9. QED
    BY <1>4, <1>7, <1>8

(* A simple path is a Route. *)
LEMMA SimpleIsRoute ==
  ASSUME NEW p \in Seq(V), Len(p) >= 1, \A i, j \in 1 .. Len(p) : p[i] = p[j] => i = j
  PROVE  p \in Route
PROOF
  <1>1. p \in [1 .. Len(p) -> V] /\ Len(p) \in Nat
    OBVIOUS
  <1>2. p \in Injection(1 .. Len(p), V)
    BY <1>1 DEF Injection, IsInjective
  <1>3. Cardinality(1 .. Len(p)) <= Cardinality(V)
    BY <1>2, FS_Injection, PathSearchAssumption
  <1>4. Cardinality(1 .. Len(p)) = Len(p)
    BY <1>1, FS_Interval
  <1>5. Cardinality(V) \in Nat
    BY FS_CardinalityType, PathSearchAssumption
  <1>6. Len(p) \in 1 .. Cardinality(V)
    BY <1>1, <1>3, <1>4, <1>5
  <1>7. QED
    BY <1>1, <1>6 DEF Route

-----------------------------------------------------------------------------
(* A label costs a natural number, and a longer path never less. *)
LEMMA CostType == ASSUME NEW x \in Label PROVE get_edge_cost_v2(x) \in Nat
PROOF
  <1>1. HopCost * x.max_edges \in Nat
    BY PathSearchAssumption DEF Label
  <1>2. QED
    BY <1>1 DEF Label, get_edge_cost_v2

LEMMA StepGrows ==
  ASSUME NEW x \in Label, NEW w \in V, NEW u \in V
  PROVE  /\ Step(x, w, u) \in Label
         /\ get_edge_cost_v2(x) <= get_edge_cost_v2(Step(x, w, u))
PROOF
  <1>1. CASE dpOf[u] = dpOf[w]
    BY <1>1, CostType DEF Step
  <1>2. CASE dpOf[u] # dpOf[w]
    <2> DEFINE y == Prolonged(x, w, u)
    <2>1. /\ Instability[w][u] \in Nat /\ BreakProb[w][u] \in Nat
          /\ Busy[u] \in Nat /\ RI[u] \in Nat /\ TechCost[u] \in Nat
      BY PathSearchAssumption
    <2>2. /\ x.link_stability \in Nat /\ x.break_prob \in Nat /\ x.AvBw \in Nat
          /\ x.max_edges \in Nat /\ x.RI \in Nat /\ x.TechCost \in Nat
      BY DEF Label
    <2>3. /\ y.link_stability \in Nat /\ x.link_stability <= y.link_stability
          /\ y.break_prob \in Nat /\ x.break_prob <= y.break_prob
          /\ y.AvBw \in Nat /\ x.AvBw <= y.AvBw
      BY <2>1, <2>2 DEF Prolonged, Worse
    <2>4. /\ y.max_edges = x.max_edges + 1
          /\ y.RI \in Nat /\ x.RI <= y.RI
          /\ y.TechCost \in Nat /\ x.TechCost <= y.TechCost
      BY <2>1, <2>2 DEF Prolonged
    <2>5. y \in Label
      BY <2>1, <2>2 DEF Prolonged, Worse, Label
    <2> HIDE DEF y
    <2>6. /\ HopCost * x.max_edges \in Nat /\ HopCost * y.max_edges \in Nat
          /\ HopCost * x.max_edges <= HopCost * y.max_edges
      <3>1. HopCost * (x.max_edges + 1) = HopCost * x.max_edges + HopCost
        BY <2>2, PathSearchAssumption
      <3>2. HopCost * x.max_edges \in Nat /\ HopCost \in Nat
        BY <2>2, PathSearchAssumption
      <3>3. QED
        BY <2>4, <3>1, <3>2
    <2>7. get_edge_cost_v2(x) <= get_edge_cost_v2(y)
      BY <2>2, <2>3, <2>4, <2>6 DEF get_edge_cost_v2
    <2>8. QED
      BY <1>2, <2>5, <2>7 DEF Step, y
  <1>3. QED
    BY <1>1, <1>2

LEMMA WithType ==
  ASSUME NEW f, NEW x, NEW y, NEW S, f \in [DOMAIN f -> S], y \in S
  PROVE  /\ DOMAIN With(f, x, y) = DOMAIN f \cup {x}
         /\ With(f, x, y) \in [DOMAIN With(f, x, y) -> S]
         /\ With(f, x, y)[x] = y
         /\ \A z \in DOMAIN f : z # x => With(f, x, y)[z] = f[z]
  BY DEF With

-----------------------------------------------------------------------------
(* What the two loops leave behind, one lemma for each. *)

LEMMA InitOK == Init => IInv
PROOF
  <1>1. SUFFICES ASSUME Init PROVE IInv
    OBVIOUS
  <1>2. init \in Label
    BY DEF init, Label
  <1>3. /\ DOMAIN dist = {} /\ DOMAIN seen = {} /\ DOMAIN paths = {source}
        /\ dist \in [DOMAIN dist -> Nat] /\ seen \in [DOMAIN seen -> Nat]
        /\ paths[source] = <<source>> /\ <<source>> \in Seq(V)
        /\ paths \in [DOMAIN paths -> Seq(V)]
        /\ source \in V
    BY <1>1 DEF Init
  <1>4. TypeOK
    <2>1. fringe \subseteq [d : Nat, c : Nat, v : V, var : Label] /\ c \in Nat /\ todo \subseteq V
      BY <1>1 DEF Init
    <2>2. aliased \in BOOLEAN
      BY <1>1 DEF Init
    <2>3. path \in Seq(V) /\ status \in {"start", "search"} \cup Outcomes
      BY <1>1 DEF Init
    <2>4. links \in SUBSET Near /\ target \in V /\ v \in V /\ path_n_1 \in Label
      BY <1>1, <1>2 DEF Init
    <2>5. DOMAIN dist \subseteq V /\ DOMAIN seen \subseteq V /\ DOMAIN paths \subseteq V
      BY <1>3
    <2>6. QED
      BY <1>3, <2>1, <2>2, <2>3, <2>4, <2>5 DEF TypeOK
  <1>5. PathTo(<<source>>, source)
    BY <1>3 DEF PathTo
  <1>6. PathsFollow
    BY <1>1, <1>3, <1>5 DEF Init, PathsFollow
  <1>7. QED
    BY <1>1, <1>3, <1>4, <1>6 DEF Init, IInv, NoContradiction, Ordered, Frontier, Unanswered

(* The label of v and the paths survive a visit of a neighbour. *)
LEMMA VisitOK ==
  ASSUME IInv, NEW u \in V, Visit(u)
  PROVE  /\ path_n(u) \in Label /\ vu_dist(u) \in Nat
         /\ path_n_1' \in Label /\ aliased' \in BOOLEAN /\ todo' \subseteq V
         /\ v' = v /\ v \in DOMAIN dist /\ todo' \subseteq Neighbours(v)
         /\ {v, u} \in links
         /\ \A w \in DOMAIN dist : dist[w] <= dist[v]
         /\ dist[v] <= vu_dist(u)
         /\ dist[v] <= get_edge_cost_v2(path_n_1')
         /\ ~contradicts(u)
PROOF
  <1>1. /\ path_n_1 \in Label /\ v \in V /\ todo \subseteq V /\ aliased \in BOOLEAN
        /\ dist \in [DOMAIN dist -> Nat]
    BY DEF IInv, TypeOK
  <1>2. /\ u \in todo /\ todo' = todo \ {u} /\ v' = v
        /\ aliased' = shared(u)
        /\ path_n_1' = IF shared(u) THEN path_n(u) ELSE path_n_1
    BY DEF Visit
  <1>3. /\ v \in DOMAIN dist
        /\ \A w \in DOMAIN dist : dist[w] <= dist[v]
        /\ dist[v] <= get_edge_cost_v2(path_n_1)
    BY <1>2 DEF IInv, Ordered
  <1>4. /\ path_n(u) \in Label
        /\ get_edge_cost_v2(path_n_1) <= vu_dist(u)
    BY <1>1, StepGrows DEF path_n, vu_dist
  <1>5. /\ vu_dist(u) \in Nat /\ get_edge_cost_v2(path_n_1) \in Nat /\ dist[v] \in Nat
    BY <1>1, <1>3, <1>4, CostType DEF vu_dist
  <1>6. dist[v] <= vu_dist(u)
    BY <1>3, <1>4, <1>5
  <1>7. dist[v] <= get_edge_cost_v2(path_n_1') /\ path_n_1' \in Label
    BY <1>1, <1>2, <1>3, <1>4, <1>6 DEF vu_dist
  <1>8. ~contradicts(u)
    <2>1. SUFFICES ASSUME u \in DOMAIN dist PROVE ~(vu_dist(u) < dist[u])
      BY DEF contradicts
    <2>2. dist[u] <= dist[v] /\ dist[u] \in Nat
      BY <1>1, <1>3, <2>1
    <2>3. QED
      BY <1>5, <1>6, <2>2
  <1>9. todo \subseteq Neighbours(v)
    BY DEF IInv, PathsFollow
  <1>10. {v, u} \in links
    BY <1>2, <1>9 DEF Neighbours
  <1>11. aliased' \in BOOLEAN
    BY <1>1, <1>2 DEF shared
  <1>12. QED
    BY <1>1, <1>2, <1>3, <1>4, <1>5, <1>6, <1>7, <1>8, <1>9, <1>10, <1>11

(* Prolonging a path to a vertex without distance. *)
LEMMA Prolong ==
  ASSUME NEW p, NEW w \in V, NEW u \in V, PathTo(p, w), w \in DOMAIN dist, u \notin DOMAIN dist,
         {w, u} \in links
  PROVE  PathTo(Append(p, u), u)
PROOF
  <1> DEFINE q == Append(p, u)
             n == Len(p)
  <1>1. /\ p \in Seq(V) /\ n \in Nat /\ n >= 1
        /\ p[1] = source /\ p[n] = w
        /\ \A i \in 1 .. n - 1 : {p[i], p[i + 1]} \in links /\ p[i] \in DOMAIN dist
        /\ \A i, j \in 1 .. n : p[i] = p[j] => i = j
    BY DEF PathTo
  <1>2. q \in Seq(V) /\ Len(q) = n + 1 /\ q[n + 1] = u /\ \A i \in 1 .. n : q[i] = p[i]
    BY <1>1
  <1> HIDE DEF q, n
  <1>3. \A i \in 1 .. n : q[i] \in DOMAIN dist
    <2>1. SUFFICES ASSUME NEW i \in 1 .. n PROVE p[i] \in DOMAIN dist
      BY <1>2
    <2>2. i = n \/ i \in 1 .. n - 1
      BY <1>1
    <2>3. QED
      BY <1>1, <2>2
  <1>4. \A i \in 1 .. n : {q[i], q[i + 1]} \in links
    <2>1. SUFFICES ASSUME NEW i \in 1 .. n PROVE {q[i], q[i + 1]} \in links
      OBVIOUS
    <2>2. CASE i = n
      BY <1>1, <1>2, <2>2
    <2>3. CASE i # n
      <3>1. i \in 1 .. n - 1 /\ i + 1 \in 1 .. n
        BY <1>1, <2>3
      <3>2. QED
        BY <1>1, <1>2, <3>1
    <2>4. QED
      BY <2>2, <2>3
  <1>5. \A i, j \in 1 .. n + 1 : q[i] = q[j] => i = j
    <2>1. SUFFICES ASSUME NEW i \in 1 .. n + 1, NEW j \in 1 .. n + 1, q[i] = q[j] PROVE i = j
      OBVIOUS
    <2>2. CASE i \in 1 .. n /\ j \in 1 .. n
      BY <1>1, <1>2, <2>1, <2>2
    <2>3. CASE i = n + 1 /\ j = n + 1
      BY <2>3
    <2>4. CASE i \in 1 .. n /\ j = n + 1
      BY <1>2, <1>3, <2>1, <2>4
    <2>5. CASE i = n + 1 /\ j \in 1 .. n
      BY <1>2, <1>3, <2>1, <2>5
    <2>6. (i \in 1 .. n \/ i = n + 1) /\ (j \in 1 .. n \/ j = n + 1)
      BY <1>1
    <2>7. QED
      BY <2>2, <2>3, <2>4, <2>5, <2>6
  <1>6. q[1] = source /\ Len(q) - 1 = n /\ Len(q) >= 1 /\ q[Len(q)] = u
    BY <1>1, <1>2
  <1>7. PathTo(q, u)
    BY <1>2, <1>3, <1>4, <1>5, <1>6 DEF PathTo
  <1>8. QED
    BY <1>7 DEF q

-----------------------------------------------------------------------------
(* Every action keeps IInv. *)

(* PathTo depends on the arguments of the call and on the set of vertices   *)
(* with a distance, which only grows.                                       *)
LEMMA PathToKept ==
  ASSUME NEW p, NEW u, PathTo(p, u), UNCHANGED graph, DOMAIN dist \subseteq DOMAIN dist'
  PROVE  PathTo(p, u)'
  BY DEF PathTo, graph

LEMMA StartOK == IInv /\ Start => IInv'
PROOF
  <1>1. SUFFICES ASSUME IInv, Start PROVE IInv'
    OBVIOUS
  <1> DEFINE l == [d |-> 0, c |-> c, v |-> source, var |-> init]
  <1>2. /\ UNCHANGED <<graph, dist, paths, loop, path>>
        /\ seen' = With(seen, source, 0) /\ fringe' = {l}
        /\ c' = c + 1 /\ status = "start" /\ status' = "search"
        /\ {source, target} \notin links
    BY <1>1 DEF Start
  <1>3. /\ DOMAIN dist = {} /\ todo = {} /\ source \in V /\ c \in Nat
        /\ DOMAIN seen \subseteq V /\ seen \in [DOMAIN seen -> Nat]
    BY <1>1, <1>2 DEF IInv, Frontier, TypeOK
  <1>4. init \in Label /\ get_edge_cost_v2(init) = 0
    BY PathSearchAssumption DEF init, Label, get_edge_cost_v2
  <1>5. l \in [d : Nat, c : Nat, v : V, var : Label]
    BY <1>3, <1>4
  <1>6. seen' \in [DOMAIN seen' -> Nat] /\ DOMAIN seen' = DOMAIN seen \cup {source}
    BY <1>2, <1>3, WithType
  <1>7. TypeOK'
    <2>1. fringe' \subseteq [d : Nat, c : Nat, v : V, var : Label] /\ c' \in Nat
      BY <1>2, <1>3, <1>5
    <2>2. DOMAIN seen' \subseteq V
      BY <1>3, <1>6
    <2>3. status' \in {"start", "search"} \cup Outcomes
      BY <1>2
    <2>4. QED
      BY <1>1, <1>2, <1>6, <2>1, <2>2, <2>3 DEF IInv, TypeOK, graph, loop
  <1>8. Ordered'
    BY <1>2, <1>3, <1>4 DEF Ordered, loop
  <1>9. PathsFollow'
    <2>1. \A u \in DOMAIN paths' : PathTo(paths[u], u)'
      BY <1>1, <1>2, PathToKept DEF IInv, PathsFollow
    <2>2. l.v = source
      OBVIOUS
    <2>3. QED
      BY <1>1, <1>2, <1>3, <2>1, <2>2 DEF IInv, PathsFollow, graph, loop
  <1>10. Frontier' /\ Unanswered' /\ NoContradiction'
    <2>1. DOMAIN seen \subseteq {source}
      BY <1>1, <1>2 DEF IInv, Frontier
    <2>2. QED
      BY <1>1, <1>2, <1>3, <1>6, <2>1
         DEF IInv, Frontier, Unanswered, NoContradiction, graph, loop
  <1>11. QED
    BY <1>7, <1>8, <1>9, <1>10 DEF IInv

(* Ending the call: nothing else changes. *)
LEMMA ReturnOK ==
  ASSUME IInv, NEW p, Return(p), p \in Seq(V), UNCHANGED <<graph, tables, loop>>
  PROVE  IInv'
PROOF
  <1>1. /\ status' = "returned" /\ path' = p
    BY DEF Return
  <1>2. TypeOK'
    BY <1>1 DEF IInv, TypeOK, Outcomes, graph, tables, loop
  <1>3. Ordered'
    BY DEF IInv, Ordered, tables, loop
  <1>4. PathsFollow'
    <2>1. \A u \in DOMAIN paths' : PathTo(paths[u], u)'
      BY PathToKept DEF IInv, PathsFollow, tables
    <2>2. QED
      BY <2>1 DEF IInv, PathsFollow, graph, tables, loop, Neighbours
  <1>5. QED
    BY <1>1, <1>2, <1>3, <1>4 DEF IInv, NoContradiction, Frontier, Unanswered

LEMMA PopOldOK == IInv /\ PopOld => IInv'
PROOF
  <1>1. SUFFICES ASSUME IInv, PopOld PROVE IInv'
    OBVIOUS
  <1>2. PICK l \in fringe : l.v \in DOMAIN dist /\ fringe' = fringe \ {l}
    BY <1>1 DEF PopOld
  <1>3. UNCHANGED <<graph, c, dist, seen, paths, loop, status, path>>
    BY <1>1 DEF PopOld
  <1>4. TypeOK'
    BY <1>1, <1>2, <1>3 DEF IInv, TypeOK, graph, loop
  <1>5. Ordered'
    BY <1>1, <1>2, <1>3 DEF IInv, Ordered, loop
  <1>6. PathsFollow'
    <2>1. \A u \in DOMAIN paths' : PathTo(paths[u], u)'
      BY <1>1, <1>3, PathToKept DEF IInv, PathsFollow
    <2>2. QED
      BY <1>1, <1>2, <1>3, <2>1 DEF IInv, PathsFollow, graph, loop, Neighbours
  <1>7. Frontier'
    <2>1. \A u \in DOMAIN seen : u \notin DOMAIN dist =>
            \A m \in fringe : m.v = u => m \in fringe'
      BY <1>2
    <2>2. QED
      BY <1>1, <1>2, <1>3, <2>1 DEF IInv, Frontier, graph, loop, Neighbours
  <1>8. QED
    BY <1>1, <1>3, <1>4, <1>5, <1>6, <1>7 DEF IInv, NoContradiction, Unanswered

LEMMA PopOK == IInv /\ Pop => IInv'
PROOF
  <1>1. SUFFICES ASSUME IInv, Pop PROVE IInv'
    OBVIOUS
  <1>2. PICK l \in fringe :
          /\ First(l) /\ l.v \notin DOMAIN dist /\ fringe' = fringe \ {l}
          /\ dist' = With(dist, l.v, l.d)
          /\ v' = l.v /\ path_n_1' = l.var /\ aliased' = FALSE
          /\ IF l.v = target
             THEN todo' = {} /\ Return(paths[target])
             ELSE todo' = Neighbours(l.v) /\ UNCHANGED <<status, path>>
    BY <1>1 DEF Pop
  <1>3. UNCHANGED <<graph, c, seen, paths>> /\ status = "search" /\ todo = {}
    BY <1>1 DEF Pop
  <1>4. /\ l.d \in Nat /\ l.v \in V /\ l.var \in Label
        /\ dist \in [DOMAIN dist -> Nat] /\ DOMAIN dist \subseteq V
        /\ \A m \in fringe : m.d \in Nat /\ m.c \in Nat
    BY <1>1 DEF IInv, TypeOK
  <1>5. /\ DOMAIN dist' = DOMAIN dist \cup {l.v}
        /\ dist' \in [DOMAIN dist' -> Nat]
        /\ dist'[l.v] = l.d
        /\ \A u \in DOMAIN dist : dist'[u] = dist[u]
    <2> DEFINE g == With(dist, l.v, l.d)
    <2>1. /\ DOMAIN g = DOMAIN dist \cup {l.v} /\ g \in [DOMAIN g -> Nat] /\ g[l.v] = l.d
          /\ \A z \in DOMAIN dist : z # l.v => g[z] = dist[z]
      BY <1>4 DEF With
    <2> HIDE DEF g
    <2>2. dist' = g
      BY <1>2 DEF g
    <2>3. QED
      BY <1>2, <2>1, <2>2
  <1>6. l.v \in DOMAIN paths
    BY <1>1 DEF IInv, PathsFollow
  <1>7. TypeOK'
    <2>1. aliased' \in BOOLEAN
      BY <1>2
    <2>2. fringe' \subseteq [d : Nat, c : Nat, v : V, var : Label]
      BY <1>1, <1>2 DEF IInv, TypeOK
    <2>3. todo' \subseteq V
      BY <1>2 DEF Neighbours
    <2>4. path' \in Seq(V) /\ status' \in {"start", "search"} \cup Outcomes
      <3>1. paths \in [DOMAIN paths -> Seq(V)] /\ path \in Seq(V)
        BY <1>1 DEF IInv, TypeOK
      <3>2. CASE l.v = target
        BY <1>2, <1>6, <3>1, <3>2 DEF Return, Outcomes
      <3>3. CASE l.v # target
        BY <1>2, <1>3, <3>1, <3>3
      <3>4. QED
        BY <3>2, <3>3
    <2>5. v' \in V /\ path_n_1' \in Label /\ DOMAIN dist' \subseteq V
      BY <1>2, <1>4, <1>5
    <2>6. QED
      BY <1>1, <1>3, <1>5, <2>1, <2>2, <2>3, <2>4, <2>5 DEF IInv, TypeOK, graph
  <1>8. Ordered'
    <2>1. \A m \in fringe : l.d <= m.d
      BY <1>2, <1>4 DEF First, Precedes
    <2>2. \A u \in DOMAIN dist : \A m \in fringe : dist[u] <= m.d
      BY <1>1 DEF IInv, Ordered
    <2>3. \A m \in fringe : m.d = get_edge_cost_v2(m.var)
      BY <1>1 DEF IInv, Ordered
    <2>4. \A u \in DOMAIN dist' : \A m \in fringe' : dist'[u] <= m.d
      BY <1>2, <1>5, <2>1, <2>2
    <2>5. \A u \in DOMAIN dist' : dist'[u] <= dist'[l.v]
      BY <1>4, <1>5, <2>2
    <2>6. dist'[l.v] <= get_edge_cost_v2(l.var)
      BY <1>4, <1>5, <2>3
    <2>7. QED
      BY <1>2, <1>5, <2>3, <2>4, <2>5, <2>6 DEF Ordered
  <1>9. PathsFollow'
    <2>1. DOMAIN dist \subseteq DOMAIN dist' /\ UNCHANGED graph
      BY <1>3, <1>5
    <2>2. \A u \in DOMAIN paths' : PathTo(paths[u], u)'
      BY <1>1, <1>3, <2>1, PathToKept DEF IInv, PathsFollow
    <2>3. todo' \subseteq Neighbours(v)'
      BY <1>2, <1>3 DEF Neighbours, graph
    <2>4. QED
      BY <1>1, <1>2, <1>3, <1>5, <1>6, <2>2, <2>3 DEF IInv, PathsFollow, graph
  <1>10. Frontier'
    <2>1. CASE l.v = target
      BY <1>2, <2>1 DEF Frontier, Return
    <2>2. CASE l.v # target
      <3>1. status' = "search" /\ todo' = Neighbours(l.v)
        BY <1>2, <1>3, <2>2
      <3>2. \A u \in DOMAIN seen : u \in DOMAIN dist' \/ \E m \in fringe' : m.v = u
        <4>1. SUFFICES ASSUME NEW u \in DOMAIN seen, u \notin DOMAIN dist'
                       PROVE  \E m \in fringe' : m.v = u
          OBVIOUS
        <4>2. PICK m \in fringe : m.v = u
          BY <1>1, <1>3, <1>5, <4>1 DEF IInv, Frontier
        <4>3. m # l
          BY <1>5, <4>1, <4>2
        <4>4. QED
          BY <1>2, <4>2, <4>3
      <3>3. \A w \in DOMAIN dist : Neighbours(w) \subseteq DOMAIN seen
        BY <1>1, <1>3 DEF IInv, Frontier
      <3>4. \A w : Neighbours(w)' = Neighbours(w)
        BY <1>3 DEF Neighbours, graph
      <3>5. \A w \in DOMAIN dist' : \A u \in Neighbours(w)' :
              u \in DOMAIN seen' \/ (w = v' /\ u \in todo')
        BY <1>2, <1>3, <1>5, <3>1, <3>3, <3>4
      <3>6. /\ {source, target} \notin links /\ source \in DOMAIN seen
            /\ target \notin DOMAIN dist' /\ DOMAIN dist' \subseteq DOMAIN seen
            /\ \A m \in fringe' : m.v \in DOMAIN seen
        BY <1>1, <1>2, <1>3, <1>5, <2>2 DEF IInv, Frontier
      <3>7. QED
        BY <1>3, <3>1, <3>2, <3>5, <3>6 DEF Frontier, graph
    <2>3. QED
      BY <2>1, <2>2
  <1>11. NoContradiction' /\ Unanswered'
    BY <1>1, <1>2, <1>3 DEF IInv, NoContradiction, Unanswered, Return
  <1>12. QED
    BY <1>7, <1>8, <1>9, <1>10, <1>11 DEF IInv

(* What a visit that does not touch the tables keeps. *)
LEMMA VisitKeeps ==
  ASSUME IInv, NEW u \in V, Visit(u), UNCHANGED <<fringe, c, seen, paths>>, path' = path
  PROVE  Ordered' /\ PathsFollow' /\ (status' \in {"start", "search"} \cup Outcomes => TypeOK')
PROOF
  <1>1. UNCHANGED <<graph, v, dist>>
    BY DEF Visit
  <1>2. status' \in {"start", "search"} \cup Outcomes => TypeOK'
    BY <1>1, VisitOK DEF IInv, TypeOK, graph
  <1>3. Ordered'
    BY <1>1, VisitOK DEF IInv, Ordered
  <1>4. PathsFollow'
    <2>1. \A w \in DOMAIN paths' : PathTo(paths[w], w)'
      BY <1>1, PathToKept DEF IInv, PathsFollow
    <2>2. todo' \subseteq Neighbours(v)'
      BY <1>1, VisitOK DEF Neighbours, graph
    <2>3. QED
      BY <1>1, <2>1, <2>2 DEF IInv, PathsFollow, graph
  <1>5. QED
    BY <1>2, <1>3, <1>4

LEMMA FailOK == ASSUME IInv, NEW u \in V, Fail(u) PROVE IInv'
PROOF
  <1>1. /\ Visit(u) /\ fails(u) /\ UNCHANGED <<fringe, c, seen, paths>>
        /\ status' = IF tooLong(u) THEN "AssertionError" ELSE "ValueError"
        /\ path' = path
    BY DEF Fail, Raise
  <1>2. tooLong(u)
    BY <1>1, VisitOK DEF fails
  <1>3. QED
    BY <1>1, <1>2, VisitKeeps DEF IInv, Outcomes, NoContradiction, Frontier, Unanswered

LEMMA PassOK == ASSUME IInv, NEW u \in V, Pass(u) PROVE IInv'
PROOF
  <1>1. /\ Visit(u) /\ ~improves(u) /\ ~contradicts(u)
        /\ UNCHANGED <<fringe, c, seen, paths, status, path>>
    BY DEF Pass, fails
  <1>2. status = "search" /\ UNCHANGED <<graph, v, dist>> /\ todo' = todo \ {u}
    BY <1>1 DEF Visit
  <1>3. u \in DOMAIN seen \/ u \in DOMAIN dist
    BY <1>1 DEF improves
  <1>4. u \in DOMAIN seen
    BY <1>2, <1>3 DEF IInv, Frontier
  <1>5. Frontier'
    BY <1>1, <1>2, <1>4 DEF IInv, Frontier, Neighbours, graph
  <1>6. QED
    BY <1>1, <1>2, <1>5, VisitKeeps DEF IInv, NoContradiction, Unanswered

LEMMA PushOK == ASSUME IInv, NEW u \in V, Push(u) PROVE IInv'
PROOF
  <1> DEFINE m == [d |-> vu_dist(u), c |-> c, v |-> u, var |-> path_n(u)]
  <1>1. /\ Visit(u) /\ improves(u)
        /\ seen' = With(seen, u, vu_dist(u))
        /\ fringe' = fringe \cup {m} /\ c' = c + 1
        /\ paths' = With(paths, u, Append(paths[v], u))
        /\ UNCHANGED <<status, path>>
    BY DEF Push
  <1>2. status = "search" /\ UNCHANGED <<graph, v, dist>> /\ todo' = todo \ {u}
    BY <1>1 DEF Visit
  <1>3. /\ path_n(u) \in Label /\ vu_dist(u) \in Nat
        /\ v \in DOMAIN dist /\ {v, u} \in links
        /\ \A w \in DOMAIN dist : dist[w] <= dist[v]
        /\ dist[v] <= vu_dist(u)
    BY <1>1, VisitOK
  <1>4. u \notin DOMAIN dist
    BY <1>1 DEF improves
  <1>5. /\ m.d = vu_dist(u) /\ m.v = u /\ m.var = path_n(u)
        /\ m \in [d : Nat, c : Nat, v : V, var : Label]
    BY <1>3 DEF IInv, TypeOK
  <1> HIDE DEF m
  <1>6. DOMAIN seen' = DOMAIN seen \cup {u} /\ seen' \in [DOMAIN seen' -> Nat]
    <2>1. seen \in [DOMAIN seen -> Nat]
      BY DEF IInv, TypeOK
    <2>2. QED
      BY <1>1, <1>3, <2>1, WithType
  <1>7. /\ DOMAIN paths' = DOMAIN paths \cup {u} /\ paths' \in [DOMAIN paths' -> Seq(V)]
        /\ paths'[u] = Append(paths[v], u)
        /\ \A z \in DOMAIN paths : z # u => paths'[z] = paths[z]
    <2> DEFINE q == Append(paths[v], u)
               g == With(paths, u, q)
    <2>1. paths \in [DOMAIN paths -> Seq(V)] /\ v \in DOMAIN paths
      BY <1>3 DEF IInv, TypeOK, PathsFollow
    <2>2. q \in Seq(V)
      BY <2>1
    <2> HIDE DEF q
    <2>3. /\ DOMAIN g = DOMAIN paths \cup {u} /\ g \in [DOMAIN g -> Seq(V)] /\ g[u] = q
          /\ \A z \in DOMAIN paths : z # u => g[z] = paths[z]
      BY <2>1, <2>2 DEF With
    <2> HIDE DEF g
    <2>4. paths' = g
      BY <1>1 DEF g, q
    <2>5. QED
      BY <2>3, <2>4 DEF q
  <1>8. TypeOK'
    <2>1. fringe' \subseteq [d : Nat, c : Nat, v : V, var : Label] /\ c' \in Nat
      BY <1>1, <1>5 DEF IInv, TypeOK
    <2>2. DOMAIN seen' \subseteq V /\ DOMAIN paths' \subseteq V
      BY <1>6, <1>7 DEF IInv, TypeOK
    <2>3. path_n_1' \in Label /\ aliased' \in BOOLEAN /\ todo' \subseteq V
      BY <1>1, VisitOK
    <2>4. QED
      BY <1>1, <1>2, <1>6, <1>7, <2>1, <2>2, <2>3 DEF IInv, TypeOK, graph
  <1>9. Ordered'
    <2>1. \A l \in fringe' : l.d = get_edge_cost_v2(l.var)
      BY <1>1, <1>5 DEF IInv, Ordered, vu_dist
    <2>2. \A w \in DOMAIN dist : dist[w] <= m.d
      <3>1. \A w \in DOMAIN dist : dist[w] \in Nat
        BY DEF IInv, TypeOK
      <3>2. QED
        BY <1>3, <1>5, <3>1
    <2>3. \A w \in DOMAIN dist' : \A l \in fringe' : dist'[w] <= l.d
      BY <1>1, <1>2, <2>2 DEF IInv, Ordered
    <2>4. /\ v' \in DOMAIN dist' /\ \A w \in DOMAIN dist' : dist'[w] <= dist'[v']
          /\ dist'[v'] <= get_edge_cost_v2(path_n_1')
      BY <1>1, <1>2, VisitOK
    <2>5. QED
      BY <2>1, <2>3, <2>4 DEF Ordered
  <1>10. PathsFollow'
    <2>1. v \in DOMAIN paths /\ v \in V /\ \A w \in DOMAIN paths : PathTo(paths[w], w)
      BY <1>3 DEF IInv, PathsFollow, TypeOK
    <2>2. PathTo(Append(paths[v], u), u)
      BY <1>3, <1>4, <2>1, Prolong
    <2>3. \A w \in DOMAIN paths' : PathTo(paths'[w], w)
      BY <1>7, <2>1, <2>2
    <2>4. \A w \in DOMAIN paths' : PathTo(paths[w], w)'
      BY <1>2, <2>3 DEF PathTo, graph
    <2>5. todo' \subseteq Neighbours(v)'
      BY <1>1, <1>2, VisitOK DEF Neighbours, graph
    <2>6. QED
      BY <1>1, <1>2, <1>5, <1>7, <2>4, <2>5 DEF IInv, PathsFollow, graph
  <1>11. Frontier'
    <2>1. \A w : Neighbours(w)' = Neighbours(w)
      BY <1>2 DEF Neighbours, graph
    <2>2. \A w \in DOMAIN seen' : w \in DOMAIN dist \/ \E l \in fringe' : l.v = w
      BY <1>1, <1>2, <1>5, <1>6 DEF IInv, Frontier
    <2>3. \A w \in DOMAIN dist : \A z \in Neighbours(w) :
            z \in DOMAIN seen' \/ (w = v /\ z \in todo')
      BY <1>2, <1>6 DEF IInv, Frontier
    <2>4. \A l \in fringe' : l.v \in DOMAIN seen'
      BY <1>1, <1>2, <1>5, <1>6 DEF IInv, Frontier
    <2>5. QED
      BY <1>1, <1>2, <1>6, <2>1, <2>2, <2>3, <2>4 DEF IInv, Frontier, graph
  <1>12. QED
    BY <1>1, <1>8, <1>9, <1>10, <1>11 DEF IInv, NoContradiction, Unanswered

-----------------------------------------------------------------------------
(* The answers. *)

(* A recorded path to the target is one get_best_path may return. *)
LEMMA RecordedIsBest ==
  ASSUME IInv, {source, target} \notin links, target \in DOMAIN paths
  PROVE  paths[target] \in get_best_path(links, source, target)
PROOF
  <1> DEFINE p == paths[target]
  <1>1. PathTo(p, target)
    BY DEF IInv, PathsFollow
  <1>2. p \in Route
    BY <1>1, SimpleIsRoute DEF PathTo
  <1>3. p[1] = source /\ p[Len(p)] = target /\ Edges(p) \subseteq links
    BY <1>1 DEF PathTo, Edges
  <1> HIDE DEF p
  <1>4. QED
    BY <1>2, <1>3 DEF get_best_path, p

(* With an empty heap the target is out of reach. *)
LEMMA NoPathIsBest ==
  ASSUME IInv, status = "search", todo = {}, fringe = {}
  PROVE  <<source>> \in get_best_path(links, source, target)
PROOF
  <1> DEFINE C == DOMAIN dist
             found == {p \in Route : p[1] = source /\ p[Len(p)] = target /\ Edges(p) \subseteq links}
  <1>1. /\ source \in C /\ target \notin C /\ {source, target} \notin links
        /\ \A w \in C : Neighbours(w) \subseteq C
    BY DEF IInv, Frontier
  <1>2. links \subseteq Pairs
    BY PathSearchAssumption DEF IInv, TypeOK
  <1>3. \A w \in C : \A u : {w, u} \in links => u \in C
    BY <1>1, <1>2 DEF Neighbours, Pairs
  <1>4. found = {}
    <2>1. SUFFICES ASSUME NEW p \in Route, p[1] = source, p[Len(p)] = target,
                          Edges(p) \subseteq links
                   PROVE  FALSE
      OBVIOUS
    <2>2. PICK n \in 1 .. Cardinality(V) : p \in [1 .. n -> V]
      BY DEF Route
    <2>3. Cardinality(V) \in Nat
      BY PathSearchAssumption, FS_CardinalityType
    <2>4. n \in Nat \ {0} /\ Len(p) = n
      BY <2>2, <2>3
    <2>5. \A i \in 1 .. n - 1 : {p[i], p[i + 1]} \in links
      BY <2>1, <2>4 DEF Edges
    <2>6. p[n] \in C
      <3> HIDE DEF C
      <3>1. QED
        BY <1>1, <1>3, <2>1, <2>4, <2>5, Cut
    <2>7. QED
      BY <1>1, <2>1, <2>4, <2>6
  <1>5. QED
    BY <1>1, <1>4 DEF get_best_path

-----------------------------------------------------------------------------
LEMMA Inductive == IInv /\ [Next]_vars => IInv'
PROOF
  <1>1. SUFFICES ASSUME IInv, [Next]_vars PROVE IInv'
    OBVIOUS
  <1>2. CASE DirectPath
    <2>1. <<source, target>> \in Seq(V)
      BY <1>1 DEF IInv, TypeOK
    <2>2. QED
      BY <1>1, <1>2, <2>1, ReturnOK DEF DirectPath
  <1>3. CASE Start
    BY <1>1, <1>3, StartOK
  <1>4. CASE PopOld
    BY <1>1, <1>4, PopOldOK
  <1>5. CASE Pop
    BY <1>1, <1>5, PopOK
  <1>6. CASE NoPath
    <2>1. <<source>> \in Seq(V)
      BY <1>1 DEF IInv, TypeOK
    <2>2. QED
      BY <1>1, <1>6, <2>1, ReturnOK DEF NoPath
  <1>7. CASE \E u \in V : Fail(u) \/ Push(u) \/ Pass(u)
    BY <1>1, <1>7, FailOK, PushOK, PassOK
  <1>8. CASE UNCHANGED vars
    BY <1>1, <1>8
       DEF IInv, TypeOK, NoContradiction, Ordered, PathsFollow, PathTo, Frontier, Unanswered,
           vars, graph, tables, loop, Neighbours
  <1>9. QED
    BY <1>1, <1>2, <1>3, <1>4, <1>5, <1>6, <1>7, <1>8 DEF Next

THEOREM IInvHolds == Spec => []IInv
PROOF
  <1>1. QED
    BY InitOK, Inductive, PTL DEF Spec

(* The variables of multi_variable_v2 keep their types. *)
THEOREM TypeCorrect == Spec => []TypeOK
PROOF
  <1>1. IInv => TypeOK
    BY DEF IInv
  <1>2. QED
    BY <1>1, IInvHolds, PTL

(* "Contradictory paths found" is never raised, whatever the metrics and in *)
(* whatever order neighbours are visited, although visiting a port of the   *)
(* same switch makes the loop write over the label it reads.                *)
THEOREM NoContradictionHolds == Spec => []NoContradiction
PROOF
  <1>1. IInv => NoContradiction
    BY DEF IInv
  <1>2. QED
    BY <1>1, IInvHolds, PTL

LEMMA ImplementsStep == IInv /\ [Next]_vars => [Promise!Answer]_(Promise!vars)
PROOF
  <1>1. SUFFICES ASSUME IInv, [Next]_vars
                 PROVE  Promise!Answer \/ UNCHANGED <<links, source, target, path>>
    BY DEF Promise!vars
  <1>2. ASSUME status \in {"start", "search"}, UNCHANGED graph,
               path' \in get_best_path(links, source, target)
        PROVE  Promise!Answer
    BY <1>1, <1>2 DEF Promise!Answer, IInv, Unanswered, graph
  <1>3. CASE DirectPath
    BY <1>2, <1>3 DEF DirectPath, Return, get_best_path
  <1>4. CASE Start
    BY <1>4 DEF Start, graph
  <1>5. CASE PopOld
    BY <1>5 DEF PopOld, graph
  <1>6. CASE Pop
    <2>1. PICK l \in fringe :
            IF l.v = target THEN Return(paths[target]) ELSE UNCHANGED <<status, path>>
      BY <1>6 DEF Pop
    <2>2. UNCHANGED graph /\ status = "search"
      BY <1>6 DEF Pop
    <2>3. CASE l.v # target
      BY <2>1, <2>2, <2>3 DEF graph
    <2>4. CASE l.v = target
      <3>1. path' = paths[target] /\ target \in DOMAIN paths /\ {source, target} \notin links
        BY <1>1, <2>1, <2>2, <2>4 DEF Return, IInv, PathsFollow, Frontier
      <3>2. QED
        BY <1>1, <1>2, <2>2, <3>1, RecordedIsBest
    <2>5. QED
      BY <2>3, <2>4
  <1>7. CASE NoPath
    BY <1>1, <1>2, <1>7, NoPathIsBest DEF NoPath, Return
  <1>8. CASE \E u \in V : Fail(u) \/ Push(u) \/ Pass(u)
    BY <1>8 DEF Fail, Push, Pass, Raise, Visit, graph
  <1>9. CASE UNCHANGED vars
    BY <1>9 DEF vars, graph
  <1>10. QED
    BY <1>1, <1>3, <1>4, <1>5, <1>6, <1>7, <1>8, <1>9 DEF Next

(* The search implements BestPath: for any graph and any metrics its one    *)
(* answer is a simple path of the graph from source to target, the edge     *)
(* between them if there is one, and the source alone only if there is no   *)
(* path at all.                                                             *)
THEOREM SearchImplements == Spec => IsBestPath
PROOF
  <1>1. Init => Promise!Init
    BY PathSearchAssumption DEF Init, Promise!Init
  <1>2. QED
    BY <1>1, IInvHolds, ImplementsStep, PTL DEF Spec, IsBestPath, Promise!Spec

-----------------------------------------------------------------------------
(* Lengths.  In a graph without links inside a switch no label is shared.   *)
(* Then the newest label of a vertex is the label of the path recorded for  *)
(* it, and seen, the least distance on the heap, says which one is newest.  *)
NewestIsRecorded ==
  /\ \A l \in fringe : l.v \notin DOMAIN dist =>
       /\ seen[l.v] <= l.d
       /\ l.d = seen[l.v] => l.var = label_of(paths[l.v])
  /\ \A u \in DOMAIN seen \ DOMAIN dist : \E l \in fringe : l.v = u /\ l.d = seen[u]

LengthsTrue ==
  /\ \A u \in DOMAIN dist : dist[u] = Length(paths[u])
  /\ todo # {} => ~aliased /\ path_n_1 = label_of(paths[v])
  /\ searched => path = paths[target]

Lengths ==
  PlainGraph => (status \in {"start", "search"} => NewestIsRecorded) /\ LengthsTrue

(* The recursive function inside label_of. *)
LabelBody(f, p, i) == IF i = 1 THEN init ELSE Step(f[i - 1], p[i - 1], p[i])
Labels(f, p, n) == f = [i \in 1 .. n |-> LabelBody(f, p, i)]

(* There is such a function. *)
LEMMA Labelling ==
  ASSUME NEW p, NEW n \in Nat
  PROVE  \E f : Labels(f, p, n)
PROOF
  <1> DEFINE B == {m \in Nat : ~ \E f : Labels(f, p, m)}
  <1>1. SUFFICES ASSUME B # {} PROVE FALSE
    OBVIOUS
  <1>2. PICK x \in B : \A y \in B : x <= y
    BY <1>1, Least
  <1>3. x # 0
    <2>1. Labels([m \in 1 .. 0 |-> init], p, 0)
      BY DEF Labels
    <2>2. QED
      BY <2>1
  <1>4. x - 1 \in Nat /\ x - 1 \notin B
    BY <1>2, <1>3
  <1>5. PICK f : Labels(f, p, x - 1)
    BY <1>4
  <1> DEFINE g == [m \in 1 .. x |-> IF m = x THEN LabelBody(f, p, x) ELSE f[m]]
  <1>6. ASSUME NEW m \in 1 .. x PROVE g[m] = LabelBody(g, p, m)
    <2>1. g[m] = LabelBody(f, p, m)
      <3>1. m # x => m \in 1 .. x - 1
        BY <1>4
      <3>2. QED
        BY <1>5, <3>1 DEF Labels
    <2>2. m # 1 => g[m - 1] = f[m - 1]
      <3>1. m # 1 => m - 1 \in 1 .. x /\ m - 1 # x
        BY <1>4
      <3>2. QED
        BY <3>1
    <2> HIDE DEF g
    <2>3. QED
      BY <2>1, <2>2 DEF LabelBody
  <1>7. Labels(g, p, x)
    BY <1>6 DEF Labels
  <1>8. QED
    BY <1>7

(* label_of is its last value. *)
LEMMA LabelIs ==
  ASSUME NEW p, Len(p) \in Nat
  PROVE  \E f : Labels(f, p, Len(p)) /\ label_of(p) = f[Len(p)]
PROOF
  <1> DEFINE f == CHOOSE f : Labels(f, p, Len(p))
  <1>1. Labels(f, p, Len(p))
    BY Labelling
  <1>2. label_of(p) = f[Len(p)]
    BY DEF label_of, Labels, LabelBody
  <1>3. QED
    BY <1>1, <1>2

(* The label of a vertex alone. *)
LEMMA LabelOfOne ==
  ASSUME NEW u PROVE label_of(<<u>>) = init
PROOF
  <1>1. Len(<<u>>) = 1
    OBVIOUS
  <1>2. PICK f : Labels(f, <<u>>, 1) /\ label_of(<<u>>) = f[1]
    BY <1>1, LabelIs
  <1>3. QED
    BY <1>2 DEF Labels, LabelBody

(* The label of a prolonged path is one step from that of the path. *)
LEMMA LabelOfProlonged ==
  ASSUME NEW p \in Seq(V), Len(p) >= 1, NEW u \in V
  PROVE  label_of(Append(p, u)) = Step(label_of(p), p[Len(p)], u)
PROOF
  <1>1. PICK n \in Nat : n = Len(p) /\ n >= 1
    BY LenProperties
  <1>2. PICK q : q = Append(p, u)
    OBVIOUS
  <1>3. q \in Seq(V) /\ Len(q) = n + 1 /\ q[n + 1] = u /\ \A i \in 1 .. n : q[i] = p[i]
    BY <1>1, <1>2
  <1>4. PICK f : Labels(f, p, n) /\ label_of(p) = f[n]
    BY <1>1, LabelIs
  <1>5. PICK g : Labels(g, q, n + 1) /\ label_of(q) = g[n + 1]
    BY <1>1, <1>3, LabelIs
  <1> DEFINE B == {i \in 1 .. n : g[i] # f[i]}
  <1>6. B = {}
    <2>1. SUFFICES ASSUME B # {} PROVE FALSE
      OBVIOUS
    <2>2. PICK x \in B : \A y \in B : x <= y
      <3>1. B \subseteq Nat
        OBVIOUS
      <3> HIDE DEF B
      <3>2. QED
        BY <2>1, <3>1, Least
    <2>3. x \in 1 .. n /\ x \in 1 .. n + 1 /\ (x # 1 => x - 1 \in 1 .. n /\ ~(x <= x - 1))
      BY <2>2
    <2>4. x # 1 => g[x - 1] = f[x - 1]
      BY <2>2, <2>3
    <2>5. f[x] = LabelBody(f, p, x) /\ g[x] = LabelBody(g, q, x)
      BY <1>4, <1>5, <2>3 DEF Labels
    <2>6. x # 1 => q[x - 1] = p[x - 1] /\ q[x] = p[x]
      BY <1>3, <2>3
    <2>7. g[x] = f[x]
      BY <2>4, <2>5, <2>6 DEF LabelBody
    <2>8. QED
      BY <2>2, <2>7
  <1>7. n \in 1 .. n /\ n + 1 \in 1 .. n + 1 /\ n + 1 # 1 /\ (n + 1) - 1 = n
    BY <1>1
  <1>8. g[n] = f[n] /\ q[n] = p[n]
    BY <1>3, <1>6, <1>7
  <1>9. g[n + 1] = LabelBody(g, q, n + 1)
    BY <1>5, <1>7 DEF Labels
  <1>10. g[n + 1] = Step(g[n], q[n], q[n + 1])
    BY <1>7, <1>9 DEF LabelBody
  <1>11. QED
    BY <1>1, <1>2, <1>3, <1>4, <1>5, <1>8, <1>10

-----------------------------------------------------------------------------
LEMMA LengthsInit == Init => Lengths
PROOF
  <1>1. SUFFICES ASSUME Init PROVE Lengths
    OBVIOUS
  <1>2. fringe = {} /\ DOMAIN dist = {} /\ DOMAIN seen = {} /\ todo = {} /\ status = "start"
    BY <1>1 DEF Init
  <1>3. QED
    BY <1>2 DEF Lengths, NewestIsRecorded, LengthsTrue, searched

LEMMA LengthsStart == IInv /\ Start => Lengths'
PROOF
  <1>1. SUFFICES ASSUME IInv, Start PROVE Lengths'
    OBVIOUS
  <1> DEFINE l == [d |-> 0, c |-> c, v |-> source, var |-> init]
  <1>2. /\ UNCHANGED <<graph, dist, paths, loop, path>>
        /\ seen' = With(seen, source, 0) /\ fringe' = {l}
        /\ status = "start" /\ status' = "search"
    BY <1>1 DEF Start
  <1>3. DOMAIN dist = {} /\ DOMAIN seen = {} /\ todo = {}
    BY <1>1, <1>2 DEF IInv, Frontier
  <1>4. DOMAIN seen' = {source} /\ seen'[source] = 0
    BY <1>2, <1>3 DEF With
  <1>5. paths[source] = <<source>>
    <2>1. source \in DOMAIN paths /\ PathTo(paths[source], source)
      BY <1>1 DEF IInv, PathsFollow
    <2>2. PICK p \in Seq(V) : p = paths[source] /\ Len(p) \in Nat
      BY <2>1, LenProperties DEF PathTo
    <2>3. Len(p) >= 1 /\ p[1] = source /\ p[Len(p)] = source
          /\ \A i, j \in 1 .. Len(p) : p[i] = p[j] => i = j
      BY <2>1, <2>2 DEF PathTo
    <2>4. Len(p) = 1
      <3>1. 1 \in 1 .. Len(p) /\ Len(p) \in 1 .. Len(p)
        BY <2>2, <2>3
      <3>2. QED
        BY <2>3, <3>1
    <2>5. p = <<source>>
      BY <2>3, <2>4
    <2>6. QED
      BY <2>2, <2>5
  <1>6. label_of(paths'[source]) = init
    BY <1>2, <1>5, LabelOfOne
  <1>7. NewestIsRecorded'
    <2>1. l.v = source /\ l.d = 0 /\ l.var = init
      OBVIOUS
    <2> HIDE DEF l
    <2>2. QED
      BY <1>2, <1>4, <1>6, <2>1 DEF NewestIsRecorded
  <1>8. LengthsTrue'
    BY <1>2, <1>3 DEF LengthsTrue, searched, loop
  <1>9. QED
    BY <1>7, <1>8 DEF Lengths

(* PlainGraph is about the arguments of the call. *)
LEMMA PlainKept == UNCHANGED graph => (PlainGraph' <=> PlainGraph)
  BY DEF PlainGraph, graph

(* An answer without search leaves the target without distance. *)
LEMMA LengthsReturn ==
  ASSUME Lengths, target \notin DOMAIN dist, NEW p, Return(p), UNCHANGED <<graph, tables, loop>>
  PROVE  Lengths'
PROOF
  <1>1. status' = "returned" /\ UNCHANGED <<fringe, dist, seen, paths, v, path_n_1, aliased, todo, target>>
    BY DEF Return, tables, loop, graph
  <1>2. PlainGraph' => PlainGraph
    BY PlainKept
  <1>3. ASSUME PlainGraph' PROVE LengthsTrue'
    BY <1>1, <1>2, <1>3 DEF Lengths, LengthsTrue, searched
  <1>4. QED
    BY <1>1, <1>3 DEF Lengths

LEMMA LengthsPopOld == IInv /\ Lengths /\ PopOld => Lengths'
PROOF
  <1>1. SUFFICES ASSUME IInv, Lengths, PopOld, PlainGraph' PROVE NewestIsRecorded' /\ LengthsTrue'
    BY DEF Lengths
  <1>2. PICK l \in fringe : l.v \in DOMAIN dist /\ fringe' = fringe \ {l}
    BY <1>1 DEF PopOld
  <1>3. UNCHANGED <<graph, dist, seen, paths, loop, status, path>> /\ status = "search"
    BY <1>1 DEF PopOld
  <1>4. NewestIsRecorded /\ LengthsTrue
    BY <1>1, <1>3, PlainKept DEF Lengths
  <1>5. NewestIsRecorded'
    BY <1>2, <1>3, <1>4 DEF NewestIsRecorded
  <1>6. LengthsTrue'
    BY <1>3, <1>4 DEF LengthsTrue, searched, loop, graph
  <1>7. QED
    BY <1>5, <1>6

(* The first label of a vertex without distance is its newest. *)
LEMMA LengthsPop == IInv /\ Lengths /\ Pop => Lengths'
PROOF
  <1>1. SUFFICES ASSUME IInv, Lengths, Pop, PlainGraph' PROVE NewestIsRecorded' /\ LengthsTrue'
    BY DEF Lengths
  <1>2. PICK l \in fringe :
          /\ First(l) /\ l.v \notin DOMAIN dist /\ fringe' = fringe \ {l}
          /\ dist' = With(dist, l.v, l.d)
          /\ v' = l.v /\ path_n_1' = l.var /\ aliased' = FALSE
          /\ IF l.v = target
             THEN todo' = {} /\ Return(paths[target])
             ELSE todo' = Neighbours(l.v) /\ UNCHANGED <<status, path>>
    BY <1>1 DEF Pop
  <1>3. UNCHANGED <<graph, seen, paths>> /\ status = "search" /\ todo = {}
    BY <1>1 DEF Pop
  <1>4. NewestIsRecorded /\ LengthsTrue
    BY <1>1, <1>3, PlainKept DEF Lengths
  <1>5. /\ DOMAIN dist' = DOMAIN dist \cup {l.v} /\ dist'[l.v] = l.d
        /\ \A u \in DOMAIN dist : dist'[u] = dist[u]
    BY <1>2 DEF With
  <1>6. l.v \in DOMAIN seen \ DOMAIN dist
    BY <1>1, <1>2, <1>3 DEF IInv, Frontier
  <1>7. l.d = seen[l.v]
    <2>1. PICK m \in fringe : m.v = l.v /\ m.d = seen[l.v]
      BY <1>4, <1>6 DEF NewestIsRecorded
    <2>2. l.d \in Nat /\ m.d \in Nat
      BY <1>1 DEF IInv, TypeOK
    <2>3. l.d <= m.d
      BY <1>2, <2>1, <2>2 DEF First, Precedes
    <2>4. m.d <= l.d
      BY <1>2, <1>4, <2>1 DEF NewestIsRecorded
    <2>5. QED
      BY <2>1, <2>2, <2>3, <2>4
  <1>8. l.var = label_of(paths[l.v]) /\ l.d = Length(paths[l.v])
    <2>1. l.var = label_of(paths[l.v])
      BY <1>2, <1>4, <1>7 DEF NewestIsRecorded
    <2>2. l.d = get_edge_cost_v2(l.var)
      BY <1>1 DEF IInv, Ordered
    <2>3. QED
      BY <2>1, <2>2 DEF Length
  <1>9. NewestIsRecorded'
    <2>1. \A m \in fringe' : m \in fringe /\ (m.v \notin DOMAIN dist' => m.v \notin DOMAIN dist)
      BY <1>2, <1>5
    <2>2. ASSUME NEW u \in DOMAIN seen' \ DOMAIN dist'
          PROVE  \E m \in fringe' : m.v = u /\ m.d = seen'[u]
      <3>1. PICK m \in fringe : m.v = u /\ m.d = seen[u]
        BY <1>3, <1>4, <1>5, <2>2 DEF NewestIsRecorded
      <3>2. m # l
        BY <1>5, <2>2, <3>1
      <3>3. QED
        BY <1>2, <1>3, <3>1, <3>2
    <2>3. QED
      BY <1>3, <1>4, <2>1, <2>2 DEF NewestIsRecorded
  <1>10. LengthsTrue'
    <2>1. \A u \in DOMAIN dist' : dist'[u] = Length(paths'[u])
      BY <1>3, <1>4, <1>5, <1>8 DEF LengthsTrue
    <2>2. ~aliased' /\ path_n_1' = label_of(paths'[v'])
      BY <1>2, <1>3, <1>8
    <2>3. searched' => path' = paths'[target']
      <3>1. CASE l.v = target
        BY <1>2, <1>3, <3>1 DEF Return, graph
      <3>2. CASE l.v # target
        BY <1>2, <1>3, <3>2 DEF searched
      <3>3. QED
        BY <3>1, <3>2
    <2>4. QED
      BY <2>1, <2>2, <2>3 DEF LengthsTrue
  <1>11. QED
    BY <1>9, <1>10

(* A visit in a plain graph shares no label. *)
LEMMA PlainVisit ==
  ASSUME IInv, PlainGraph, LengthsTrue, NEW u \in V, Visit(u)
  PROVE  /\ aliased' = FALSE /\ path_n_1' = path_n_1
         /\ path_n_1 = label_of(paths[v]) /\ dpOf[u] # dpOf[v]
         /\ path_n(u) = label_of(Append(paths[v], u))
PROOF
  <1>1. {v, u} \in links /\ v \in DOMAIN dist /\ u \in todo /\ v \in V
    BY VisitOK DEF Visit, IInv, TypeOK
  <1>2. dpOf[u] # dpOf[v]
    BY <1>1 DEF PlainGraph
  <1>3. ~aliased /\ path_n_1 = label_of(paths[v])
    BY <1>1 DEF LengthsTrue
  <1>4. shared(u) = FALSE
    BY <1>2, <1>3 DEF shared
  <1>5. aliased' = FALSE /\ path_n_1' = path_n_1
    BY <1>4 DEF Visit
  <1>6. PathTo(paths[v], v)
    BY <1>1 DEF IInv, PathsFollow
  <1>7. paths[v] \in Seq(V) /\ Len(paths[v]) >= 1 /\ paths[v][Len(paths[v])] = v
    BY <1>6 DEF PathTo
  <1>8. label_of(Append(paths[v], u)) = Step(label_of(paths[v]), v, u)
    BY <1>7, LabelOfProlonged
  <1>9. QED
    BY <1>2, <1>3, <1>5, <1>8 DEF path_n

LEMMA LengthsVisit ==
  ASSUME IInv, Lengths, NEW u \in V, Visit(u), UNCHANGED <<fringe, seen, paths, path>>,
         ~searched'
  PROVE  Lengths'
PROOF
  <1>1. SUFFICES ASSUME PlainGraph' PROVE NewestIsRecorded' /\ LengthsTrue'
    BY DEF Lengths
  <1>2. UNCHANGED <<graph, v, dist>> /\ status = "search" /\ todo' = todo \ {u}
    BY DEF Visit
  <1>3. PlainGraph /\ NewestIsRecorded /\ LengthsTrue
    BY <1>1, <1>2, PlainKept DEF Lengths
  <1>4. aliased' = FALSE /\ path_n_1' = path_n_1 /\ path_n_1 = label_of(paths[v])
    BY <1>3, PlainVisit
  <1>5. NewestIsRecorded'
    BY <1>2, <1>3 DEF NewestIsRecorded
  <1>6. LengthsTrue'
    BY <1>2, <1>3, <1>4 DEF LengthsTrue
  <1>7. QED
    BY <1>5, <1>6

(* A pushed label is that of the path recorded with it, and the least one   *)
(* of its vertex.                                                           *)
LEMMA LengthsPush == ASSUME IInv, Lengths, NEW u \in V, Push(u) PROVE Lengths'
PROOF
  <1>1. SUFFICES ASSUME PlainGraph' PROVE NewestIsRecorded' /\ LengthsTrue'
    BY DEF Lengths
  <1> DEFINE m == [d |-> vu_dist(u), c |-> c, v |-> u, var |-> path_n(u)]
             q == Append(paths[v], u)
  <1>2. /\ Visit(u) /\ improves(u)
        /\ seen' = With(seen, u, vu_dist(u))
        /\ fringe' = fringe \cup {m}
        /\ paths' = With(paths, u, q)
        /\ UNCHANGED <<status, path>>
    BY DEF Push
  <1>3. status = "search" /\ UNCHANGED <<graph, v, dist>> /\ todo' = todo \ {u}
    BY <1>2 DEF Visit
  <1>4. PlainGraph /\ NewestIsRecorded /\ LengthsTrue
    BY <1>1, <1>3, PlainKept DEF Lengths
  <1>5. /\ aliased' = FALSE /\ path_n_1' = path_n_1
        /\ path_n_1 = label_of(paths[v]) /\ path_n(u) = label_of(q)
    BY <1>2, <1>4, PlainVisit
  <1>6. /\ u \notin DOMAIN dist /\ v \in DOMAIN dist /\ vu_dist(u) \in Nat
        /\ u \in DOMAIN seen => vu_dist(u) < seen[u]
    BY <1>2, VisitOK DEF improves
  <1>7. m.d = vu_dist(u) /\ m.v = u /\ m.var = label_of(q)
    BY <1>5
  <1>8. /\ DOMAIN seen' = DOMAIN seen \cup {u} /\ seen'[u] = vu_dist(u)
        /\ \A z \in DOMAIN seen : z # u => seen'[z] = seen[z]
    BY <1>2 DEF With
  <1> HIDE DEF m, q
  <1>9. paths'[u] = q /\ \A z \in DOMAIN paths : z # u => paths'[z] = paths[z]
    BY <1>2 DEF With
  <1>10. DOMAIN dist \subseteq DOMAIN paths /\ v # u /\ \A z \in DOMAIN dist : z # u
    BY <1>6 DEF IInv, PathsFollow
  <1>11. ASSUME NEW l \in fringe', l.v \notin DOMAIN dist'
         PROVE  /\ seen'[l.v] <= l.d
                /\ l.d = seen'[l.v] => l.var = label_of(paths'[l.v])
    <2>1. CASE l = m
      BY <1>6, <1>7, <1>8, <1>9, <2>1
    <2>2. CASE l # m
      <3>1. /\ l \in fringe /\ l.v \in DOMAIN seen /\ l.v \in DOMAIN paths
            /\ l.d \in Nat /\ seen[l.v] \in Nat
        BY <1>2, <1>3, <2>2 DEF IInv, TypeOK, PathsFollow, Frontier
      <3>2. seen[l.v] <= l.d /\ (l.d = seen[l.v] => l.var = label_of(paths[l.v]))
        BY <1>3, <1>4, <1>11, <3>1 DEF NewestIsRecorded
      <3>3. CASE l.v = u
        <4>1. vu_dist(u) < l.d
          BY <1>6, <3>1, <3>2, <3>3
        <4>2. QED
          BY <1>6, <1>8, <3>1, <3>3, <4>1
      <3>4. CASE l.v # u
        BY <1>8, <1>9, <3>1, <3>2, <3>4
      <3>5. QED
        BY <3>3, <3>4
    <2>3. QED
      BY <2>1, <2>2
  <1>12. ASSUME NEW z \in DOMAIN seen' \ DOMAIN dist'
         PROVE  \E l \in fringe' : l.v = z /\ l.d = seen'[z]
    <2>1. CASE z = u
      BY <1>2, <1>7, <1>8, <2>1
    <2>2. CASE z # u
      BY <1>2, <1>3, <1>4, <1>8, <1>12, <2>2 DEF NewestIsRecorded
    <2>3. QED
      BY <2>1, <2>2
  <1>13. NewestIsRecorded'
    BY <1>11, <1>12 DEF NewestIsRecorded
  <1>14. LengthsTrue'
    <2>1. \A z \in DOMAIN dist' : dist'[z] = Length(paths'[z])
      BY <1>3, <1>4, <1>9, <1>10 DEF LengthsTrue
    <2>2. path_n_1' = label_of(paths'[v'])
      BY <1>3, <1>5, <1>6, <1>9, <1>10
    <2>3. ~searched'
      BY <1>2, <1>3 DEF searched
    <2>4. QED
      BY <1>5, <2>1, <2>2, <2>3 DEF LengthsTrue
  <1>15. QED
    BY <1>13, <1>14

LEMMA LengthsStep == IInv /\ Lengths /\ [Next]_vars => Lengths'
PROOF
  <1>1. SUFFICES ASSUME IInv, Lengths, [Next]_vars PROVE Lengths'
    OBVIOUS
  <1>2. CASE DirectPath
    <2>1. target \notin DOMAIN dist
      BY <1>1, <1>2 DEF DirectPath, IInv, Frontier
    <2>2. QED
      BY <1>1, <1>2, <2>1, LengthsReturn DEF DirectPath
  <1>3. CASE Start
    BY <1>1, <1>3, LengthsStart
  <1>4. CASE PopOld
    BY <1>1, <1>4, LengthsPopOld
  <1>5. CASE Pop
    BY <1>1, <1>5, LengthsPop
  <1>6. CASE NoPath
    <2>1. target \notin DOMAIN dist
      BY <1>1, <1>6 DEF NoPath, IInv, Frontier
    <2>2. QED
      BY <1>1, <1>6, <2>1, LengthsReturn DEF NoPath
  <1>7. ASSUME NEW u \in V, Fail(u) \/ Pass(u) PROVE Lengths'
    <2>1. Visit(u) /\ UNCHANGED <<fringe, seen, paths, path>>
      BY <1>7 DEF Fail, Pass, Raise
    <2>2. status' # "returned"
      BY <1>7 DEF Fail, Pass, Raise, Visit
    <2>3. QED
      BY <1>1, <2>1, <2>2, LengthsVisit DEF searched
  <1>8. ASSUME NEW u \in V, Push(u) PROVE Lengths'
    BY <1>1, <1>8, LengthsPush
  <1>9. CASE UNCHANGED vars
    <2>1. UNCHANGED <<graph, fringe, dist, seen, paths, loop, status, path>>
      BY <1>9 DEF vars, tables
    <2>2. (NewestIsRecorded' <=> NewestIsRecorded) /\ (LengthsTrue' <=> LengthsTrue)
      BY <2>1 DEF NewestIsRecorded, LengthsTrue, searched, loop, graph
    <2>3. QED
      BY <1>1, <2>1, <2>2, PlainKept DEF Lengths
  <1>10. QED
    BY <1>1, <1>2, <1>3, <1>4, <1>5, <1>6, <1>7, <1>8, <1>9 DEF Next

(* In a graph without links inside a switch, the length multi_variable_v2   *)
(* keeps for the target is the cost of the very path it returns: the path   *)
(* written over by a later label and the label popped first belong          *)
(* together.                                                                *)
THEOREM LengthsAreCosts == Spec => []LengthIsCost
PROOF
  <1>1. Lengths => LengthIsCost
    BY DEF Lengths, LengthsTrue, LengthIsCost, searched
  <1>2. QED
    BY <1>1, IInvHolds, LengthsInit, LengthsStep, PTL DEF Spec
=============================================================================
