----------------------------- MODULE AtlasProofs -----------------------------
(***************************************************************************)
(* Proofs about Atlas, for any network, any flows, any bound on the        *)
(* records and any way of choosing among the paths of the graph.           *)
(*                                                                         *)
(* RequestersAreRemote is not inductive alone: a destination that is an    *)
(* unknown vertex today may turn out to be a port of the requester's own   *)
(* switch tomorrow.  WholeSwitches excludes it: a report names all ports   *)
(* of its switch, so the ports of a switch become known together.          *)
(***************************************************************************)
EXTENDS Atlas, FiniteSetTheorems, SequenceTheorems, TLAPS

WholeSwitches == \A u \in isOF : dpOf[u] \in Sw /\ Ports[dpOf[u]] \subseteq isOF

(* A record as RoutesAreLive and RequestersAreRemote want it, for the known *)
(* ports of and the links E.                                                *)
Good(r, of, E) ==
  /\ r \in Record
  /\ r.path[1] = r.sdn_node_req
  /\ r.state = "HAS_PATH" <=> Len(r.path) > 1
  /\ r.state = "HAS_PATH" => r.path[Len(r.path)] = Dst[r.flow] /\ Edges(r.path) \subseteq E
  /\ r.sdn_node_req \in of
  /\ ~is_same_dev(of, r.sdn_node_req, Dst[r.flow])

GoodFlows(fs, of, E) == fs \in Seq(Record) /\ \A k \in DOMAIN fs : Good(fs[k], of, E)

IInv == TypeOK /\ WholeSwitches /\ LinksTouchSwitches /\ GoodFlows(flows, isOF, links)

-----------------------------------------------------------------------------
(* A path of one vertex, and of the two ends of an edge, is a Route. *)
LEMMA ShortRoutes ==
  /\ \A s \in V : <<s>> \in Route
  /\ \A s, d \in V : s # d => <<s, d>> \in Route
PROOF
  <1>0. IsFiniteSet(V)
    BY AtlasAssumption
  <1>1. ASSUME NEW s \in V PROVE <<s>> \in Route
    <2>1. Cardinality(V) \in Nat /\ Cardinality(V) # 0
      BY <1>0, <1>1, FS_CardinalityType, FS_EmptySet
    <2>2. 1 \in 1 .. Cardinality(V)
      BY <2>1
    <2>3. <<s>> \in [1 .. 1 -> V] /\ \A i, j \in 1 .. 1 : i = j
      OBVIOUS
    <2>4. QED
      BY <2>2, <2>3 DEF Route
  <1>2. ASSUME NEW s \in V, NEW d \in V, s # d PROVE <<s, d>> \in Route
    <2>1. Cardinality({s, d}) <= Cardinality(V) /\ Cardinality(V) \in Nat
      BY <1>0, FS_Subset, FS_CardinalityType
    <2>2. Cardinality({s, d}) = 2
      <3>1. IsFiniteSet({s}) /\ Cardinality({s}) = 1
        BY FS_Singleton
      <3>2. Cardinality({s} \cup {d}) = Cardinality({s}) + 1
        BY <1>2, <3>1, FS_AddElement
      <3>3. {s, d} = {s} \cup {d}
        OBVIOUS
      <3>4. QED
        BY <3>1, <3>2, <3>3
    <2>3. 2 \in 1 .. Cardinality(V)
      BY <2>1, <2>2
    <2>4. /\ <<s, d>> \in [1 .. 2 -> V]
          /\ \A i, j \in 1 .. 2 : <<s, d>>[i] = <<s, d>>[j] => i = j
      BY <1>2
    <2>5. QED
      BY <2>3, <2>4 DEF Route
  <1>3. QED
    BY <1>1, <1>2

(* Routes are non-empty sequences of vertices. *)
LEMMA RouteShape ==
  ASSUME NEW p \in Route
  PROVE  p \in Seq(V) /\ Len(p) \in Nat /\ Len(p) >= 1 /\ p[1] \in V
PROOF
  <1>1. PICK n \in 1 .. Cardinality(V) : p \in [1 .. n -> V]
    BY DEF Route
  <1>2. Cardinality(V) \in Nat
    BY AtlasAssumption, FS_CardinalityType
  <1>3. n \in Nat /\ n >= 1
    BY <1>1, <1>2
  <1>4. p \in Seq(V) /\ Len(p) = n
    BY <1>1, <1>3
  <1>5. QED
    BY <1>1, <1>3, <1>4

(* Whatever get_best_path returns makes a good record for a requester that  *)
(* is a known port of another device than the destination.                  *)
LEMMA NewRecordGood ==
  ASSUME NEW of \in SUBSET V, NEW E \in SUBSET Pairs, NEW s \in of, NEW t \in V,
         NEW f \in Flow, ~is_same_dev(of, s, Dst[f]),
         NEW p \in get_best_path(E, s, Dst[f])
  PROVE  Good(PathRecord(f, s, t, p), of, E)
PROOF
  <1> DEFINE r == PathRecord(f, s, t, p)
             d == Dst[f]
  <1>0. s \in V /\ d \in V
    BY AtlasAssumption
  <1>1. /\ r.flow = f /\ r.sdn_node_req = s /\ r.transmitter = t /\ r.path = p
        /\ r.state = "HAS_PATH" <=> Len(p) > 1
        /\ r.state \in {"HAS_PATH", "LEGACY"}
        /\ r = [flow |-> r.flow, sdn_node_req |-> r.sdn_node_req,
                transmitter |-> r.transmitter, path |-> r.path, state |-> r.state]
    BY DEF PathRecord, usable_path
  <1>2. /\ p \in Route
        /\ p[1] = s
        /\ Len(p) > 1 => p[Len(p)] = d /\ Edges(p) \subseteq E
    <2>1. CASE {s, d} \in E
      <3>1. p = <<s, d>>
        BY <2>1 DEF get_best_path
      <3>2. s # d
        BY <1>0, <2>1 DEF Pairs
      <3>3. Edges(p) = {{s, d}}
        <4>1. Len(p) = 2 /\ p[1] = s /\ p[2] = d
          BY <3>1
        <4>2. 1 .. Len(p) - 1 = {1}
          BY <4>1
        <4>3. QED
          BY <4>1, <4>2 DEF Edges
      <3>4. QED
        BY <1>0, <2>1, <3>1, <3>2, <3>3, ShortRoutes
    <2>2. CASE {s, d} \notin E
      <3>1. \/ p \in Route /\ p[1] = s /\ p[Len(p)] = d /\ Edges(p) \subseteq E
            \/ p = <<s>>
        BY <2>2 DEF get_best_path
      <3>2. p = <<s>> => Len(p) = 1 /\ p[1] = s /\ p \in Route
        BY <1>0, ShortRoutes
      <3>3. QED
        BY <3>1, <3>2
    <2>3. QED
      BY <2>1, <2>2
  <1> HIDE DEF r
  <1>3. r \in Record
    BY <1>0, <1>1, <1>2 DEF Record
  <1>4. QED
    BY <1>1, <1>2, <1>3 DEF Good, r

(* A good record stays good when more switches are known, all their ports   *)
(* at once, and the edges of its path are still there.                      *)
LEMMA GoodKept ==
  ASSUME NEW of \in SUBSET V, NEW of2 \in SUBSET V, of \subseteq of2,
         \A u \in of : dpOf[u] \in Sw /\ Ports[dpOf[u]] \subseteq of,
         NEW E, NEW E2, NEW r, Good(r, of, E),
         r.state = "HAS_PATH" => Edges(r.path) \subseteq E2
  PROVE  Good(r, of2, E2)
PROOF
  <1>1. r.sdn_node_req \in of2 /\ r.flow \in Flow
    BY DEF Good, Record
  <1>2. Dst[r.flow] \in V
    BY <1>1, AtlasAssumption
  <1>3. ~is_same_dev(of2, r.sdn_node_req, Dst[r.flow])
    <2>1. CASE Dst[r.flow] \in of2
      <3>1. SUFFICES ASSUME dpOf[r.sdn_node_req] = dpOf[Dst[r.flow]] PROVE FALSE
        BY <1>1, <2>1 DEF is_same_dev
      <3>2. r.sdn_node_req \in of
        BY DEF Good
      <3>3. Dst[r.flow] \in Ports[dpOf[r.sdn_node_req]]
        BY <1>2, <3>1, <3>2 DEF Ports
      <3>4. Dst[r.flow] \in of
        BY <3>2, <3>3
      <3>5. QED
        BY <3>1, <3>2, <3>4 DEF Good, is_same_dev
    <2>2. CASE Dst[r.flow] \notin of2
      BY <1>1, <2>2 DEF is_same_dev
    <2>3. QED
      BY <2>1, <2>2
  <1>4. QED
    BY <1>1, <1>3 DEF Good

(* del_key leaves the other records, in order. *)
LEMMA DelKeyKeeps ==
  ASSUME NEW fs \in Seq(Record), NEW k \in DOMAIN fs
  PROVE  /\ del_key(fs, k) \in Seq(Record)
         /\ Len(del_key(fs, k)) = Len(fs) - 1
         /\ \A i \in DOMAIN del_key(fs, k) : \E j \in DOMAIN fs : del_key(fs, k)[i] = fs[j]
         /\ \A j \in DOMAIN fs \ {k} :
              \E i \in DOMAIN del_key(fs, k) : del_key(fs, k)[i] = fs[j]
PROOF
  <1>1. Len(fs) \in Nat /\ k \in 1 .. Len(fs) /\ DOMAIN fs = 1 .. Len(fs)
    OBVIOUS
  <1> DEFINE a == SubSeq(fs, 1, k - 1)
             b == SubSeq(fs, k + 1, Len(fs))
  <1>2. /\ a \in Seq(Record) /\ Len(a) = k - 1
        /\ \A i \in 1 .. k - 1 : a[i] = fs[i]
    BY <1>1
  <1>3. /\ b \in Seq(Record) /\ Len(b) = Len(fs) - k
        /\ \A i \in 1 .. Len(fs) - k : b[i] = fs[k + i]
    BY <1>1
  <1>4. del_key(fs, k) = a \o b
    BY DEF del_key, RemoveAt
  <1> HIDE DEF a, b
  <1>5. /\ a \o b \in Seq(Record) /\ Len(a \o b) = Len(fs) - 1
        /\ DOMAIN (a \o b) = 1 .. Len(fs) - 1
        /\ \A i \in 1 .. Len(fs) - 1 : (a \o b)[i] = IF i <= k - 1 THEN a[i] ELSE b[i - (k - 1)]
    <2>1. Len(a) + Len(b) = Len(fs) - 1
      BY <1>1, <1>2, <1>3
    <2>2. /\ a \o b \in Seq(Record) /\ Len(a \o b) = Len(fs) - 1
          /\ \A i \in 1 .. Len(fs) - 1 : (a \o b)[i] = IF i <= k - 1 THEN a[i] ELSE b[i - (k - 1)]
      <3>1. /\ a \o b \in Seq(Record) /\ Len(a \o b) = Len(a) + Len(b)
            /\ \A i \in 1 .. Len(a) + Len(b) :
                 (a \o b)[i] = IF i <= Len(a) THEN a[i] ELSE b[i - Len(a)]
        BY ONLY <1>2, <1>3, ConcatProperties
      <3>2. QED
        BY ONLY <1>2, <2>1, <3>1
    <2>3. DOMAIN (a \o b) = 1 .. Len(fs) - 1
      BY ONLY <2>2, LenProperties
    <2>4. QED
      BY <2>2, <2>3
  <1>6. ASSUME NEW i \in 1 .. Len(fs) - 1 PROVE \E j \in DOMAIN fs : (a \o b)[i] = fs[j]
    <2>1. CASE i <= k - 1
      <3>1. i \in DOMAIN fs /\ i \in 1 .. k - 1
        BY <1>1, <2>1
      <3>2. (a \o b)[i] = fs[i]
        BY <1>2, <1>5, <2>1, <3>1
      <3>3. QED
        BY <3>1, <3>2
    <2>2. CASE ~(i <= k - 1)
      <3>1. i - (k - 1) \in 1 .. Len(fs) - k /\ k + (i - (k - 1)) = i + 1 /\ i + 1 \in DOMAIN fs
        BY <1>1, <2>2
      <3>2. (a \o b)[i] = fs[i + 1]
        BY <1>3, <1>5, <2>2, <3>1
      <3>3. QED
        BY <3>1, <3>2
    <2>3. QED
      BY <2>1, <2>2
  <1>7. ASSUME NEW j \in DOMAIN fs \ {k} PROVE \E i \in 1 .. Len(fs) - 1 : (a \o b)[i] = fs[j]
    <2>1. CASE j < k
      <3>1. j \in 1 .. Len(fs) - 1 /\ j \in 1 .. k - 1 /\ j <= k - 1
        BY <1>1, <2>1
      <3>2. (a \o b)[j] = fs[j]
        BY <1>2, <1>5, <3>1
      <3>3. QED
        BY <3>1, <3>2
    <2>2. CASE ~(j < k)
      <3>1. /\ j - 1 \in 1 .. Len(fs) - 1 /\ ~(j - 1 <= k - 1)
            /\ (j - 1) - (k - 1) \in 1 .. Len(fs) - k /\ k + ((j - 1) - (k - 1)) = j
        BY <1>1, <2>2
      <3>2. (a \o b)[j - 1] = fs[j]
        BY <1>3, <1>5, <3>1
      <3>3. QED
        BY <3>1, <3>2
    <2>3. QED
      BY <2>1, <2>2
  <1>8. QED
    BY <1>4, <1>5, <1>6, <1>7

-----------------------------------------------------------------------------
(* Dropping a key leaves good records. *)
LEMMA DelKeyGood ==
  ASSUME NEW fs, NEW of, NEW E, GoodFlows(fs, of, E), NEW k \in DOMAIN fs
  PROVE  GoodFlows(del_key(fs, k), of, E) /\ Len(del_key(fs, k)) = Len(fs) - 1
PROOF
  <1>1. fs \in Seq(Record) /\ \A j \in DOMAIN fs : Good(fs[j], of, E)
    BY DEF GoodFlows
  <1>2. PICK g : g = del_key(fs, k)
    OBVIOUS
  <1>3. /\ g \in Seq(Record) /\ Len(g) = Len(fs) - 1
        /\ \A i \in DOMAIN g : \E j \in DOMAIN fs : g[i] = fs[j]
    BY <1>1, <1>2, DelKeyKeeps
  <1>4. \A i \in DOMAIN g : Good(g[i], of, E)
    BY <1>1, <1>3
  <1>5. QED
    BY <1>2, <1>3, <1>4 DEF GoodFlows

(* Inserting a good record leaves good records. *)
LEMMA InsertGood ==
  ASSUME NEW fs, NEW of, NEW E, GoodFlows(fs, of, E), NEW r, Good(r, of, E)
  PROVE  GoodFlows(insert_path(fs, r), of, E) /\ Len(insert_path(fs, r)) = Len(fs) + 1
PROOF
  <1>1. fs \in Seq(Record) /\ r \in Record /\ \A j \in DOMAIN fs : Good(fs[j], of, E)
    BY DEF GoodFlows, Good
  <1>2. PICK g : g = Append(fs, r)
    OBVIOUS
  <1>3. /\ g \in Seq(Record) /\ Len(g) = Len(fs) + 1 /\ g[Len(fs) + 1] = r
        /\ \A i \in 1 .. Len(fs) : g[i] = fs[i]
    BY <1>1, <1>2
  <1>4. DOMAIN g = 1 .. Len(fs) + 1 /\ DOMAIN fs = 1 .. Len(fs) /\ Len(fs) \in Nat
    BY <1>1, <1>3
  <1>5. ASSUME NEW i \in DOMAIN g PROVE Good(g[i], of, E)
    <2>1. i \in 1 .. Len(fs) \/ i = Len(fs) + 1
      BY <1>4
    <2>2. QED
      BY <1>1, <1>3, <1>4, <2>1
  <1>6. QED
    BY <1>2, <1>3, <1>5 DEF GoodFlows, insert_path

(* A step that changes flows only keeps the invariant if the new records    *)
(* are good.                                                                *)
LEMMA FlowsOnly ==
  ASSUME IInv, UNCHANGED <<isOF, links, counters>>,
         GoodFlows(flows', isOF, links), Len(flows') <= MaxFlows
  PROVE  IInv'
PROOF
  <1>1. TypeOK'
    BY DEF IInv, TypeOK, GoodFlows
  <1>2. WholeSwitches' /\ LinksTouchSwitches'
    BY DEF IInv, WholeSwitches, LinksTouchSwitches
  <1>3. GoodFlows(flows, isOF, links)'
    <2>1. flows' \in Seq(Record) /\ \A k \in DOMAIN flows' : Good(flows'[k], isOF, links)
      BY DEF GoodFlows
    <2>2. isOF' = isOF /\ links' = links
      OBVIOUS
    <2>3. \A k \in DOMAIN flows' : Good(flows'[k], isOF', links')
      BY <2>1, <2>2
    <2>4. QED
      BY <2>1, <2>3 DEF GoodFlows
  <1>4. QED
    BY <1>1, <1>2, <1>3 DEF IInv

(* path_calculation adds a good record. *)
LEMMA CalculationGood ==
  ASSUME IInv, NEW fs, GoodFlows(fs, isOF, links),
         NEW s \in isOF, NEW t \in V, NEW f \in Flow, ~is_same_dev(isOF, s, Dst[f]),
         path_calculation(fs, s, f, t)
  PROVE  GoodFlows(flows', isOF, links) /\ Len(flows') = Len(fs) + 1
PROOF
  <1>1. PICK p \in get_best_path(links, s, Dst[f]) :
          flows' = insert_path(fs, PathRecord(f, s, t, p))
    BY DEF path_calculation
  <1>2. isOF \in SUBSET V /\ links \in SUBSET Pairs
    BY DEF IInv, TypeOK
  <1>3. Good(PathRecord(f, s, t, p), isOF, links)
    BY <1>2, NewRecordGood
  <1>4. QED
    BY <1>1, <1>3, InsertGood

(* process_packet_in keeps the invariant, first calculation or recalculation. *)
LEMMA PacketInHolds ==
  ASSUME IInv, NEW s \in V, NEW t \in V, NEW f \in Flow, process_packet_in(s, f, t)
  PROVE  IInv'
PROOF
  <1>1. /\ s \in isOF /\ ~is_same_dev(isOF, s, Dst[f])
        /\ UNCHANGED <<isOF, links, counters>>
    BY DEF process_packet_in
  <1>2. GoodFlows(flows, isOF, links) /\ Len(flows) \in Nat /\ Len(flows) <= MaxFlows
    BY DEF IInv, TypeOK
  <1>3. MaxFlows \in Nat
    BY AtlasAssumption
  <1>4. CASE Len(flows) < MaxFlows /\ path_calculation(flows, s, f, t)
    <2>1. GoodFlows(flows', isOF, links) /\ Len(flows') = Len(flows) + 1
      BY <1>1, <1>2, <1>4, CalculationGood
    <2>2. Len(flows') <= MaxFlows
      BY <1>2, <1>3, <1>4, <2>1
    <2>3. QED
      BY <1>1, <2>1, <2>2, FlowsOnly
  <1>5. CASE recalculate_flow(s, f, t)
    <2>1. PICK k \in get_flow_key(f) : path_calculation(del_key(flows, k), s, f, t)
      BY <1>5 DEF recalculate_flow
    <2>2. k \in DOMAIN flows
      BY DEF get_flow_key, KeysOf
    <2>3. PICK g : g = del_key(flows, k)
      OBVIOUS
    <2>4. GoodFlows(g, isOF, links) /\ Len(g) = Len(flows) - 1
      BY <1>2, <2>2, <2>3, DelKeyGood
    <2>5. GoodFlows(flows', isOF, links) /\ Len(flows') = Len(g) + 1
      BY <1>1, <2>1, <2>3, <2>4, CalculationGood
    <2>6. Len(flows') <= MaxFlows
      BY <1>2, <1>3, <2>4, <2>5
    <2>7. QED
      BY <1>1, <2>5, <2>6, FlowsOnly
  <1>6. QED
    BY <1>4, <1>5 DEF process_packet_in

(* Either timeout only drops a key. *)
LEMMA TimeoutHolds ==
  ASSUME IInv, NEW f \in Flow, NEW k \in get_flow_key(f), flows' = del_key(flows, k),
         UNCHANGED <<isOF, links, counters>>
  PROVE  IInv'
PROOF
  <1>1. GoodFlows(flows, isOF, links) /\ Len(flows) \in Nat /\ Len(flows) <= MaxFlows
    BY DEF IInv, TypeOK
  <1>2. k \in DOMAIN flows
    BY DEF get_flow_key, KeysOf
  <1>3. GoodFlows(flows', isOF, links) /\ Len(flows') = Len(flows) - 1
    BY <1>1, <1>2, DelKeyGood
  <1>4. Len(flows') <= MaxFlows
    BY <1>1, <1>3, AtlasAssumption
  <1>5. QED
    BY <1>3, <1>4, FlowsOnly

(* parse_message brings links and known ports up to date together: an edge  *)
(* of the graph is dropped only if it is among the deleted ones.            *)
LEMMA ParseMessageGood ==
  ASSUME IInv, NEW d \in Sw, NEW R \in SUBSET Hearable[d], parse_message(d, R)
  PROVE  /\ isOF' \subseteq V /\ isOF \subseteq isOF'
         /\ links' \subseteq Pairs
         /\ links \ deleted_edges(d, R) \subseteq links'
         /\ WholeSwitches' /\ LinksTouchSwitches'
PROOF
  <1>1. isOF' = isOF \cup Ports[d] /\ Ports[d] = {v \in V : dpOf[v] = d}
    BY DEF parse_message, Ports
  <1>2. isOF \subseteq V /\ links \subseteq Pairs /\ \A e \in links : e \cap isOF # {}
    BY DEF IInv, TypeOK, LinksTouchSwitches
  <1>3. links' = (links \cup SameDevLinks[d] \cup R) \ deleted_edges(d, R)
    BY DEF parse_message, update_graph
  <1>4. SameDevLinks[d] = {{u, w} : u, w \in Ports[d]} \ {{v} : v \in V}
    BY DEF SameDevLinks
  <1>5. \A e \in SameDevLinks[d] : e \in Pairs /\ e \cap Ports[d] # {}
    <2>1. SUFFICES ASSUME NEW e \in SameDevLinks[d] PROVE e \in Pairs /\ e \cap Ports[d] # {}
      OBVIOUS
    <2>2. PICK u, w \in Ports[d] : e = {u, w}
      BY <1>4
    <2>3. QED
      BY <1>1, <1>4, <2>2 DEF Pairs
  <1>6. \A e \in R : e \in Pairs /\ e \cap Ports[d] # {}
    <2>1. SUFFICES ASSUME NEW e \in R PROVE e \in Pairs /\ e \cap Ports[d] # {}
      OBVIOUS
    <2>2. e \in Near /\ e \cap Ports[d] # {}
      BY DEF Hearable
    <2>3. e \in {{u, w} : u, w \in V} /\ \E u, w \in e : u # w
      BY <2>2, AtlasAssumption
    <2>4. QED
      BY <2>2, <2>3 DEF Pairs
  <1>7. WholeSwitches'
    <2>1. SUFFICES ASSUME NEW u \in isOF' PROVE dpOf[u] \in Sw /\ Ports[dpOf[u]] \subseteq isOF'
      BY DEF WholeSwitches
    <2>2. CASE u \in isOF
      BY <1>1, <2>2 DEF IInv, WholeSwitches
    <2>3. CASE u \in Ports[d]
      BY <1>1, <2>3
    <2>4. QED
      BY <1>1, <2>2, <2>3
  <1>8. LinksTouchSwitches'
    <2>1. \A e \in links' : e \cap isOF' # {}
      BY <1>1, <1>2, <1>3, <1>5, <1>6
    <2>2. QED
      BY <2>1 DEF LinksTouchSwitches
  <1>9. QED
    BY <1>1, <1>2, <1>3, <1>5, <1>6, <1>7, <1>8

(* A recalculation of the given keys, whose other records keep their edges, *)
(* leaves good records for the graph it worked on.                          *)
LEMMA RecalculationGood ==
  ASSUME NEW of \in SUBSET V, NEW E \in SUBSET Pairs, NEW keys \in SUBSET DOMAIN flows,
         flows \in Seq(Record),
         \A k \in DOMAIN flows :
           /\ flows[k].sdn_node_req \in of
           /\ ~is_same_dev(of, flows[k].sdn_node_req, Dst[flows[k].flow])
           /\ k \notin keys => Good(flows[k], of, E),
         recalculation(keys, E)
  PROVE  GoodFlows(flows', of, E) /\ Len(flows') = Len(flows)
PROOF
  <1> DEFINE best == UNION {{k} \X get_best_path(E, flows[k].sdn_node_req, Dst[flows[k].flow])
                             : k \in keys}
  <1>1. PICK new \in [keys -> {c[2] : c \in best}] :
          /\ \A k \in keys : <<k, new[k]>> \in best
          /\ flows' = [k \in DOMAIN flows |->
                         IF k \in keys
                         THEN PathRecord(flows[k].flow, flows[k].sdn_node_req,
                                         flows[k].transmitter, new[k])
                         ELSE flows[k]]
    BY DEF recalculation
  <1>2. \A k \in keys : new[k] \in get_best_path(E, flows[k].sdn_node_req, Dst[flows[k].flow])
    <2>1. SUFFICES ASSUME NEW k \in keys
                   PROVE new[k] \in get_best_path(E, flows[k].sdn_node_req, Dst[flows[k].flow])
      OBVIOUS
    <2>2. PICK j \in keys :
            <<k, new[k]>> \in {j} \X get_best_path(E, flows[j].sdn_node_req, Dst[flows[j].flow])
      BY <1>1
    <2>3. QED
      BY <2>2
  <1> HIDE DEF best
  <1>3. DOMAIN flows = 1 .. Len(flows) /\ Len(flows) \in Nat
    OBVIOUS
  <1>4. ASSUME NEW k \in DOMAIN flows PROVE Good(flows'[k], of, E)
    <2>1. flows[k] \in Record
      BY <1>3
    <2>2. flows[k].flow \in Flow /\ flows[k].sdn_node_req \in V /\ flows[k].transmitter \in V
      BY <2>1 DEF Record
    <2>3. CASE k \in keys
      <3>1. flows'[k] = PathRecord(flows[k].flow, flows[k].sdn_node_req,
                                   flows[k].transmitter, new[k])
        BY <1>1, <2>3
      <3>2. QED
        BY <1>2, <2>2, <2>3, <3>1, NewRecordGood
    <2>4. CASE k \notin keys
      BY <1>1, <2>4
    <2>5. QED
      BY <2>3, <2>4
  <1>5. DOMAIN flows' = 1 .. Len(flows)
    BY <1>1, <1>3
  <1>6. \A k \in 1 .. Len(flows) : flows'[k] \in Record
    BY <1>3, <1>4 DEF Good
  <1>7. flows' = [k \in 1 .. Len(flows) |-> flows'[k]]
    BY <1>1, <1>3
  <1>8. flows' \in Seq(Record) /\ Len(flows') = Len(flows)
    BY <1>3, <1>6, <1>7
  <1>9. QED
    BY <1>3, <1>4, <1>5, <1>8 DEF GoodFlows

(* A path record that check_broken_paths does not report has its edges in   *)
(* the updated graph.                                                       *)
LEMMA UnbrokenKept ==
  ASSUME IInv, NEW d \in Sw, NEW R \in SUBSET Hearable[d], parse_message(d, R),
         NEW k \in DOMAIN flows, k \notin check_broken_paths(deleted_edges(d, R))
  PROVE  Good(flows[k], isOF', links')
PROOF
  <1>1. /\ isOF' \in SUBSET V /\ isOF \subseteq isOF' /\ isOF \in SUBSET V
        /\ links \ deleted_edges(d, R) \subseteq links'
    BY ParseMessageGood DEF IInv, TypeOK
  <1>2. Good(flows[k], isOF, links)
    BY DEF IInv, GoodFlows
  <1>3. flows[k].state = "HAS_PATH" => Edges(flows[k].path) \subseteq links'
    <2>1. SUFFICES ASSUME flows[k].state = "HAS_PATH"
                   PROVE  Edges(flows[k].path) \subseteq links'
      OBVIOUS
    <2>2. Edges(flows[k].path) \subseteq links
      BY <1>2, <2>1 DEF Good
    <2>3. Edges(flows[k].path) \cap deleted_edges(d, R) = {}
      BY <2>1 DEF check_broken_paths
    <2>4. QED
      BY <1>1, <2>2, <2>3
  <1>4. \A u \in isOF : dpOf[u] \in Sw /\ Ports[dpOf[u]] \subseteq isOF
    BY DEF IInv, WholeSwitches
  <1>5. QED
    BY ONLY <1>1, <1>2, <1>3, <1>4, GoodKept

(* Who asked for a path stays known and remote, broken or not. *)
LEMMA RequesterKept ==
  ASSUME IInv, NEW d \in Sw, NEW R \in SUBSET Hearable[d], parse_message(d, R),
         NEW k \in DOMAIN flows
  PROVE  /\ flows[k].sdn_node_req \in isOF'
         /\ ~is_same_dev(isOF', flows[k].sdn_node_req, Dst[flows[k].flow])
PROOF
  <1>1. isOF' \in SUBSET V /\ isOF \subseteq isOF' /\ isOF \in SUBSET V
    BY ParseMessageGood DEF IInv, TypeOK
  <1>2. PICK r : r = flows[k]
    OBVIOUS
  <1>3. Good(r, isOF, links) /\ Good(r, isOF, links \cup Edges(r.path))
    BY <1>2 DEF IInv, GoodFlows, Good
  <1>4. \A u \in isOF : dpOf[u] \in Sw /\ Ports[dpOf[u]] \subseteq isOF
    BY DEF IInv, WholeSwitches
  <1>5. Good(r, isOF', links \cup Edges(r.path))
    BY ONLY <1>1, <1>3, <1>4, GoodKept
  <1>6. QED
    BY <1>2, <1>5 DEF Good

(* The counters stay within the threshold. *)
LEMMA CountBounded ==
  ASSUME TypeOK, NEW d \in Sw, NEW periodic \in BOOLEAN
  PROVE  count(d, periodic) \in 0 .. EXP_MSG_THRESHOLD
PROOF
  <1>1. counters[d] \in 0 .. EXP_MSG_THRESHOLD /\ EXP_MSG_THRESHOLD \in Nat \ {0}
    BY AtlasAssumption DEF TypeOK
  <1>2. PICK a : a = counters[d] + 1
    OBVIOUS
  <1>3. PICK b : b = EXP_MSG_THRESHOLD
    OBVIOUS
  <1>4. Min({a, b}) \in {a, b} /\ Min({a, b}) <= b
    <2>1. \E x \in {a, b} : \A y \in {a, b} : x <= y
      BY <1>1, <1>2, <1>3
    <2>2. QED
      BY <2>1 DEF Min
  <1>5. Min({counters[d] + 1, EXP_MSG_THRESHOLD}) \in 0 .. EXP_MSG_THRESHOLD
    BY <1>1, <1>2, <1>3, <1>4
  <1>6. QED
    BY <1>1, <1>5 DEF count

(* The parts of a report that do not concern the records, and what is left  *)
(* to show of them.                                                         *)
LEMMA ReportHolds ==
  ASSUME IInv, NEW d \in Sw, NEW R \in SUBSET Hearable[d], parse_message(d, R),
         counters' \in [Sw -> 0 .. EXP_MSG_THRESHOLD],
         GoodFlows(flows', isOF', links'), Len(flows') = Len(flows)
  PROVE  IInv'
PROOF
  <1>1. isOF' \subseteq V /\ links' \subseteq Pairs /\ WholeSwitches' /\ LinksTouchSwitches'
    BY ParseMessageGood
  <1>2. flows' \in Seq(Record) /\ Len(flows') <= MaxFlows
    BY DEF IInv, TypeOK, GoodFlows
  <1>3. TypeOK'
    BY <1>1, <1>2 DEF TypeOK
  <1>4. QED
    BY <1>1, <1>3 DEF IInv, GoodFlows

(* A report keeps the invariant on each of its three ways out. *)
LEMMA ExperimenterHolds ==
  ASSUME IInv, NEW d \in Sw, NEW R \in SUBSET Hearable[d], NEW periodic \in BOOLEAN,
         parse_experimenter_message(d, R, periodic)
  PROVE  IInv'
PROOF
  <1>1. parse_message(d, R)
    BY DEF parse_experimenter_message, BreakingReport, ThresholdReport, QuietReport
  <1>2. count(d, periodic) \in 0 .. EXP_MSG_THRESHOLD /\ counters \in [Sw -> 0 .. EXP_MSG_THRESHOLD]
    BY CountBounded DEF IInv, TypeOK
  <1>3. isOF' \in SUBSET V /\ links' \in SUBSET Pairs
    BY <1>1, ParseMessageGood
  <1>4. flows \in Seq(Record)
    BY DEF IInv, TypeOK
  <1>5. \A k \in DOMAIN flows :
          /\ flows[k].sdn_node_req \in isOF'
          /\ ~is_same_dev(isOF', flows[k].sdn_node_req, Dst[flows[k].flow])
    BY <1>1, RequesterKept
  <1>6. CASE BreakingReport(d, R, periodic)
    <2>1. PICK broken : broken = check_broken_paths(deleted_edges(d, R))
      OBVIOUS
    <2>2. recalculation(broken, links')
      BY <1>6, <2>1 DEF BreakingReport
    <2>3. broken \in SUBSET DOMAIN flows
      BY <2>1 DEF check_broken_paths
    <2>4. \A k \in DOMAIN flows : k \notin broken => Good(flows[k], isOF', links')
      BY <1>1, <2>1, UnbrokenKept
    <2>5. GoodFlows(flows', isOF', links') /\ Len(flows') = Len(flows)
      BY ONLY <1>3, <1>4, <1>5, <2>2, <2>3, <2>4, RecalculationGood
    <2>6. counters' \in [Sw -> 0 .. EXP_MSG_THRESHOLD]
      BY <1>2, <1>6 DEF BreakingReport
    <2>7. QED
      BY <1>1, <2>5, <2>6, ReportHolds
  <1>7. CASE ThresholdReport(d, R, periodic)
    <2>1. \A k \in DOMAIN flows : Good(flows[k], isOF', links')
      BY <1>1, <1>7, UnbrokenKept DEF ThresholdReport
    <2>2. periodic_keys \in SUBSET DOMAIN flows
      BY DEF periodic_keys
    <2>3. recalculation(periodic_keys, links')
      BY <1>7 DEF ThresholdReport
    <2>4. GoodFlows(flows', isOF', links') /\ Len(flows') = Len(flows)
      BY ONLY <1>3, <1>4, <1>5, <2>1, <2>2, <2>3, RecalculationGood
    <2>5. counters' \in [Sw -> 0 .. EXP_MSG_THRESHOLD]
      BY <1>7, AtlasAssumption DEF ThresholdReport
    <2>6. QED
      BY <1>1, <2>4, <2>5, ReportHolds
  <1>8. CASE QuietReport(d, R, periodic)
    <2>1. \A k \in DOMAIN flows : Good(flows[k], isOF', links')
      BY <1>1, <1>8, UnbrokenKept DEF QuietReport
    <2>2. flows' = flows /\ counters' \in [Sw -> 0 .. EXP_MSG_THRESHOLD]
      BY <1>2, <1>8 DEF QuietReport
    <2>3. GoodFlows(flows', isOF', links') /\ Len(flows') = Len(flows)
      BY <1>4, <2>1, <2>2 DEF GoodFlows
    <2>4. QED
      BY <1>1, <2>2, <2>3, ReportHolds
  <1>9. QED
    BY <1>6, <1>7, <1>8 DEF parse_experimenter_message

(* The invariant holds when the controller starts. *)
LEMMA InitHolds == Init => IInv
PROOF
  <1>1. SUFFICES ASSUME Init PROVE IInv
    OBVIOUS
  <1>2. flows = <<>> /\ flows \in Seq(Record) /\ Len(flows) = 0 /\ \A k \in DOMAIN flows : FALSE
    BY <1>1 DEF Init
  <1>3. TypeOK
    BY <1>1, <1>2, AtlasAssumption DEF Init, TypeOK
  <1>4. QED
    BY <1>1, <1>2, <1>3 DEF Init, IInv, WholeSwitches, LinksTouchSwitches, GoodFlows

(* Every handler keeps the invariant. *)
LEMMA StepHolds == IInv /\ [Next]_vars => IInv'
PROOF
  <1>1. SUFFICES ASSUME IInv, [Next]_vars PROVE IInv'
    OBVIOUS
  <1>2. CASE UNCHANGED vars
    <2>1. GoodFlows(flows', isOF, links) /\ Len(flows') <= MaxFlows
      BY <1>1, <1>2 DEF vars, IInv, TypeOK
    <2>2. QED
      BY <1>1, <1>2, <2>1, FlowsOnly DEF vars
  <1>3. ASSUME NEW s \in V, NEW t \in V, NEW f \in Flow, process_packet_in(s, f, t)
        PROVE  IInv'
    BY <1>1, <1>3, PacketInHolds
  <1>4. ASSUME NEW s \in V, NEW t \in V, NEW f \in Flow, LocalDelivery(s, f, t)
        PROVE  IInv'
    <2>1. UNCHANGED <<isOF, links, flows, counters>>
      BY <1>4 DEF LocalDelivery, vars
    <2>2. GoodFlows(flows', isOF, links) /\ Len(flows') <= MaxFlows
      BY <1>1, <2>1 DEF IInv, TypeOK
    <2>3. QED
      BY <1>1, <2>1, <2>2, FlowsOnly
  <1>5. ASSUME NEW d \in Sw, NEW f \in Flow, process_idle_timeout(d, f)
        PROVE  IInv'
    <2>1. PICK k \in get_flow_key(f) : flows' = del_key(flows, k)
      BY <1>5 DEF process_idle_timeout
    <2>2. QED
      BY <1>1, <1>5, <2>1, TimeoutHolds DEF process_idle_timeout
  <1>6. ASSUME NEW f \in Flow, process_hard_timeout(f)
        PROVE  IInv'
    <2>1. PICK k \in get_flow_key(f) : flows' = del_key(flows, k)
      BY <1>6 DEF process_hard_timeout
    <2>2. QED
      BY <1>1, <1>6, <2>1, TimeoutHolds DEF process_hard_timeout
  <1>7. ASSUME NEW d \in Sw, NEW periodic \in BOOLEAN, NEW R \in SUBSET Hearable[d],
               parse_experimenter_message(d, R, periodic)
        PROVE  IInv'
    BY <1>1, <1>7, ExperimenterHolds
  <1>8. QED
    BY <1>1, <1>2, <1>3, <1>4, <1>5, <1>6, <1>7 DEF Next

-----------------------------------------------------------------------------
(* The inductive invariant holds in every behaviour of the controller. *)
THEOREM Invariance == Spec => []IInv
PROOF
  BY InitHolds, StepHolds, PTL DEF Spec

(* Links join two different vertices and records are settled, whatever      *)
(* message or timeout comes next.                                           *)
THEOREM TypeCorrect == Spec => []TypeOK
PROOF
  <1>1. IInv => TypeOK
    BY DEF IInv
  <1>2. QED
    BY <1>1, Invariance, PTL

(* check_broken_paths and the recalculations leave no record whose path     *)
(* uses a link the graph has lost, for every network and every cost         *)
(* function.                                                                *)
THEOREM LiveRoutes == Spec => []RoutesAreLive
PROOF
  <1>1. IInv => RoutesAreLive
    BY DEF IInv, GoodFlows, Good, RoutesAreLive
  <1>2. QED
    BY <1>1, Invariance, PTL

(* Every link has an end at a switch that has reported. *)
THEOREM LinksTouch == Spec => []LinksTouchSwitches
PROOF
  <1>1. IInv => LinksTouchSwitches
    BY DEF IInv
  <1>2. QED
    BY <1>1, Invariance, PTL

(* No record is kept for a port of the destination's own device, although   *)
(* which ports form a device is learnt while records exist.                 *)
THEOREM RemoteRequesters == Spec => []RequestersAreRemote
PROOF
  <1>1. IInv => RequestersAreRemote
    BY DEF IInv, GoodFlows, Good, RequestersAreRemote
  <1>2. QED
    BY <1>1, Invariance, PTL
-----------------------------------------------------------------------------
(* A flow whose record is not the one dropped still has a record.           *)
LEMMA OthersRemembered ==
  ASSUME flows \in Seq(Record), NEW k \in DOMAIN flows, NEW f, f # flows[k].flow,
         flow_exists(f)
  PROVE  \E i \in DOMAIN del_key(flows, k) : del_key(flows, k)[i].flow = f
PROOF
  <1>1. PICK j \in DOMAIN flows : flows[j].flow = f
    BY DEF flow_exists, KeysOf
  <1>2. j # k
    BY <1>1
  <1>3. PICK i \in DOMAIN del_key(flows, k) : del_key(flows, k)[i] = flows[j]
    BY <1>2, DelKeyKeeps
  <1>4. QED
    BY <1>1, <1>3

(* Appending a record keeps the others and adds one of its flow. *)
LEMMA InsertRemembers ==
  ASSUME NEW fs \in Seq(Record), NEW r \in Record, NEW f,
         f = r.flow \/ \E i \in DOMAIN fs : fs[i].flow = f
  PROVE  \E i \in DOMAIN insert_path(fs, r) : insert_path(fs, r)[i].flow = f
PROOF
  <1>1. PICK g : g = Append(fs, r)
    OBVIOUS
  <1>2. /\ DOMAIN g = 1 .. Len(fs) + 1 /\ DOMAIN fs = 1 .. Len(fs) /\ Len(fs) \in Nat
        /\ g[Len(fs) + 1] = r /\ \A i \in 1 .. Len(fs) : g[i] = fs[i]
    BY <1>1
  <1>3. CASE f = r.flow
    <2>1. Len(fs) + 1 \in DOMAIN g
      BY <1>2
    <2>2. QED
      BY <1>1, <1>2, <1>3, <2>1 DEF insert_path
  <1>4. CASE \E i \in DOMAIN fs : fs[i].flow = f
    <2>1. PICK i \in DOMAIN fs : fs[i].flow = f
      BY <1>4
    <2>2. i \in DOMAIN g /\ g[i] = fs[i]
      BY <1>2
    <2>3. QED
      BY <1>1, <2>1, <2>2 DEF insert_path
  <1>5. QED
    BY <1>3, <1>4

(* path_calculation remembers its own flow and those of the records it got. *)
LEMMA CalculationRemembers ==
  ASSUME IInv, NEW fs \in Seq(Record), NEW s \in isOF, NEW t \in V, NEW g \in Flow,
         ~is_same_dev(isOF, s, Dst[g]), path_calculation(fs, s, g, t),
         NEW f, f = g \/ \E i \in DOMAIN fs : fs[i].flow = f
  PROVE  flow_exists(f)'
PROOF
  <1>1. PICK p \in get_best_path(links, s, Dst[g]) :
          flows' = insert_path(fs, PathRecord(g, s, t, p))
    BY DEF path_calculation
  <1>2. isOF \in SUBSET V /\ links \in SUBSET Pairs
    BY DEF IInv, TypeOK
  <1>3. PathRecord(g, s, t, p) \in Record
    <2>1. Good(PathRecord(g, s, t, p), isOF, links)
      BY <1>2, NewRecordGood
    <2>2. QED
      BY <2>1 DEF Good
  <1>4. PathRecord(g, s, t, p).flow = g
    BY DEF PathRecord
  <1>5. \E i \in DOMAIN flows' : flows'[i].flow = f
    <2>1. PICK r \in Record : r = PathRecord(g, s, t, p)
      BY <1>3
    <2>2. r.flow = g
      BY <1>4, <2>1
    <2>3. \E i \in DOMAIN insert_path(fs, r) : insert_path(fs, r)[i].flow = f
      BY ONLY <2>2, InsertRemembers, f = g \/ \E i \in DOMAIN fs : fs[i].flow = f
    <2>4. QED
      BY <1>1, <2>1, <2>3
  <1>6. QED
    BY <1>5 DEF flow_exists, KeysOf

(* A packet-in replaces a record by one of the same flow. *)
LEMMA PacketInRemembers ==
  ASSUME IInv, NEW s \in V, NEW t \in V, NEW g \in Flow, process_packet_in(s, g, t),
         NEW f, flow_exists(f)
  PROVE  flow_exists(f)'
PROOF
  <1>1. s \in isOF /\ ~is_same_dev(isOF, s, Dst[g])
    BY DEF process_packet_in
  <1>2. flows \in Seq(Record)
    BY DEF IInv, TypeOK
  <1>3. CASE path_calculation(flows, s, g, t)
    <2>1. \E i \in DOMAIN flows : flows[i].flow = f
      BY DEF flow_exists, KeysOf
    <2>2. QED
      BY <1>1, <1>2, <1>3, <2>1, CalculationRemembers
  <1>4. CASE recalculate_flow(s, g, t)
    <2>1. PICK k \in get_flow_key(g) : path_calculation(del_key(flows, k), s, g, t)
      BY <1>4 DEF recalculate_flow
    <2>2. k \in DOMAIN flows /\ flows[k].flow = g
      BY DEF get_flow_key, KeysOf
    <2>3. PICK fs : fs = del_key(flows, k)
      OBVIOUS
    <2>4. fs \in Seq(Record)
      BY <1>2, <2>2, <2>3, DelKeyKeeps
    <2>5. f = g \/ \E i \in DOMAIN fs : fs[i].flow = f
      BY <1>2, <2>2, <2>3, OthersRemembered
    <2>6. QED
      BY <1>1, <2>1, <2>3, <2>4, <2>5, CalculationRemembers
  <1>5. QED
    BY <1>3, <1>4 DEF process_packet_in

(* A timeout of flow g drops a record of no other flow. *)
LEMMA TimeoutForgetsOne ==
  ASSUME IInv, NEW g, NEW k \in get_flow_key(g), flows' = del_key(flows, k),
         NEW f, flow_exists(f), ~flow_exists(f)'
  PROVE  f = g
PROOF
  <1>1. flows \in Seq(Record)
    BY DEF IInv, TypeOK
  <1>2. k \in DOMAIN flows /\ flows[k].flow = g
    BY DEF get_flow_key, KeysOf
  <1>3. SUFFICES ASSUME f # g PROVE FALSE
    OBVIOUS
  <1>4. \E i \in DOMAIN flows' : flows'[i].flow = f
    BY <1>1, <1>2, <1>3, OthersRemembered
  <1>5. QED
    BY <1>4 DEF flow_exists, KeysOf

(* A report recalculates records in place: every key keeps its flow. *)
LEMMA ReportRemembers ==
  ASSUME NEW d, NEW R, NEW periodic, parse_experimenter_message(d, R, periodic),
         NEW f, flow_exists(f)
  PROVE  flow_exists(f)'
PROOF
  <1>1. ASSUME NEW keys, NEW E, recalculation(keys, E)
        PROVE  /\ DOMAIN flows' = DOMAIN flows
               /\ \A k \in DOMAIN flows : flows'[k].flow = flows[k].flow
    <2>1. PICK new : flows' = [k \in DOMAIN flows |->
                         IF k \in keys
                         THEN PathRecord(flows[k].flow, flows[k].sdn_node_req,
                                         flows[k].transmitter, new[k])
                         ELSE flows[k]]
      BY <1>1 DEF recalculation
    <2>2. QED
      BY <2>1 DEF PathRecord
  <1>2. \/ UNCHANGED flows
        \/ \E keys, E : recalculation(keys, E)
    BY DEF parse_experimenter_message, BreakingReport, ThresholdReport, QuietReport
  <1>3. /\ DOMAIN flows' = DOMAIN flows
        /\ \A k \in DOMAIN flows : flows'[k].flow = flows[k].flow
    BY <1>1, <1>2
  <1>4. QED
    BY <1>3 DEF flow_exists, KeysOf

(* Whatever the order of packets, reports and timeouts, only a timeout of   *)
(* the flow itself makes the controller forget it: recalculate_flow, which  *)
(* deletes the key first, always puts a record of the same flow back, and   *)
(* reports work on the records in place.                                    *)
THEOREM TimeoutsForget == Spec => OnlyTimeoutsForget
PROOF
  <1> DEFINE Forgets(f) == process_hard_timeout(f) \/ \E d \in Sw : process_idle_timeout(d, f)
  <1>1. ASSUME IInv, [Next]_vars, NEW f \in Flow, flow_exists(f), ~flow_exists(f)'
        PROVE  Forgets(f)
    <2>1. CASE UNCHANGED vars
      BY <1>1, <2>1 DEF vars, flow_exists, KeysOf
    <2>2. ASSUME NEW s \in V, NEW t \in V, NEW g \in Flow, process_packet_in(s, g, t)
          PROVE  FALSE
      BY <1>1, <2>2, PacketInRemembers
    <2>3. ASSUME NEW s \in V, NEW t \in V, NEW g \in Flow, LocalDelivery(s, g, t)
          PROVE  FALSE
      BY <1>1, <2>3 DEF LocalDelivery, vars, flow_exists, KeysOf
    <2>4. ASSUME NEW d \in Sw, NEW g \in Flow, process_idle_timeout(d, g)
          PROVE  Forgets(f)
      <3>1. PICK k \in get_flow_key(g) : flows' = del_key(flows, k)
        BY <2>4 DEF process_idle_timeout
      <3>2. f = g
        BY <1>1, <3>1, TimeoutForgetsOne
      <3>3. QED
        BY <2>4, <3>2
    <2>5. ASSUME NEW g \in Flow, process_hard_timeout(g)
          PROVE  Forgets(f)
      <3>1. PICK k \in get_flow_key(g) : flows' = del_key(flows, k)
        BY <2>5 DEF process_hard_timeout
      <3>2. f = g
        BY <1>1, <3>1, TimeoutForgetsOne
      <3>3. QED
        BY <2>5, <3>2
    <2>6. ASSUME NEW d \in Sw, NEW periodic \in BOOLEAN, NEW R \in SUBSET Hearable[d],
                 parse_experimenter_message(d, R, periodic)
          PROVE  FALSE
      BY <1>1, <2>6, ReportRemembers
    <2>7. QED
      BY <1>1, <2>1, <2>2, <2>3, <2>4, <2>5, <2>6 DEF Next
  <1>2. IInv /\ [Next]_vars =>
          [\A f \in Flow : flow_exists(f) /\ ~flow_exists(f)' =>
             process_hard_timeout(f) \/ \E d \in Sw : process_idle_timeout(d, f)]_vars
    BY <1>1
  <1>3. QED
    BY <1>2, Invariance, PTL DEF Spec, OnlyTimeoutsForget
=============================================================================
