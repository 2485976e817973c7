---------------------------- MODULE NetViewProofs ----------------------------
(***************************************************************************)
(* Proofs about NetView, for any number of interfaces, addresses and       *)
(* switches and any experimenter messages.  The inductive invariant says   *)
(* besides the dictionaries' agreement that every vertex belongs to one    *)
(* interface, and that a pair learnt by the C++ side is in the graph or    *)
(* still among the running handler's requests.                             *)
(***************************************************************************)
EXTENDS NetView, TLAPS

Owned == \A v \in Vertex : \E i \in Iface : Owns(i, v)

InGraph(a, m) ==
  /\ ip_to_index[a] \in Vertex
  /\ nodes[ip_to_index[a]].ip = a
  /\ nodes[ip_to_index[a]].mac = m

Pending(a, m) == \E k \in DOMAIN todo : todo[k].ip = a /\ todo[k].mac = m

ArpPending ==
  \A a \in Ip : arpTable[a] # None =>
    InGraph(a, arpTable[a]) \/ Pending(a, arpTable[a])

IInv == TypeOK /\ IndexMapsAgree /\ Owned /\ FlagsAgree /\ ArpPending

Requests == UNION {About(i) : i \in Iface}

-----------------------------------------------------------------------------
(* A request of the code is about one interface: it carries its address,    *)
(* and its MAC and port or nothing; one with a port also carries the MAC.   *)
LEMMA RequestShape ==
  ASSUME NEW r \in Requests
  PROVE  \E i \in Iface :
           /\ r = [uuid |-> r.uuid, ip |-> r.ip, mac |-> r.mac]
           /\ r.ip = IpOf[i] /\ r.ip \in Ip /\ r.ip # None
           /\ r.mac \in {None, MacOf[i]} /\ r.mac \in Mac \cup {None}
           /\ r.uuid \in {None, UuidOf[i]} /\ r.uuid \in Uuid \cup {None}
           /\ r.uuid # None => r.mac # None
PROOF
  <1>1. PICK i \in Iface : r \in About(i)
    BY DEF Requests
  <1>2. /\ IpOf[i] \in Ip /\ IpOf[i] # None
        /\ MacOf[i] \in Mac /\ MacOf[i] # None
        /\ UuidOf[i] \in Uuid \cup {None}
    BY <1>1, IfaceAssumption
  <1>3. CASE r = IpOnly(i)
    BY <1>2, <1>3 DEF IpOnly
  <1>4. CASE r = IpAndMac(i)
    BY <1>2, <1>4 DEF IpAndMac
  <1>5. CASE r = Port(i)
    BY <1>2, <1>5 DEF Port
  <1>6. QED
    BY <1>1, <1>3, <1>4, <1>5 DEF About

(* Two interfaces never share an address, a MAC or a switch port. *)
LEMMA InterfacesDiffer ==
  ASSUME NEW i \in Iface, NEW j \in Iface,
         \/ IpOf[i] = IpOf[j]
         \/ MacOf[i] = MacOf[j]
         \/ UuidOf[i] # None /\ UuidOf[i] = UuidOf[j]
  PROVE  i = j
PROOF BY IfaceAssumption

(* exists finds a vertex of the interface the request is about, or the      *)
(* request's address, MAC and port are in no dictionary.                    *)
LEMMA ExistsFinds ==
  ASSUME TypeOK, IndexMapsAgree, Owned, NEW i \in Iface, NEW r,
         r.ip = IpOf[i], r.mac \in {None, MacOf[i]}, r.uuid \in {None, UuidOf[i]}
  PROVE  /\ exists(r) # 0 => exists(r) \in Vertex /\ Owns(i, exists(r))
         /\ exists(r) = 0 => /\ ip_to_index[r.ip] = 0
                             /\ r.mac # None => mac_to_index[r.mac] = 0
                             /\ r.uuid # None => uuid_to_index[r.uuid] = 0
PROOF
  <1>1. /\ IpOf[i] \in Ip /\ IpOf[i] # None
        /\ MacOf[i] \in Mac /\ MacOf[i] # None
        /\ UuidOf[i] # None => UuidOf[i] \in Uuid
    BY IfaceAssumption
  <1>2. ASSUME r.uuid # None, uuid_to_index[r.uuid] # 0
        PROVE  uuid_to_index[r.uuid] \in Vertex /\ Owns(i, uuid_to_index[r.uuid])
    <2>1. /\ uuid_to_index[r.uuid] \in Vertex
          /\ nodes[uuid_to_index[r.uuid]].uuid = r.uuid
      BY <1>1, <1>2 DEF IndexMapsAgree
    <2>2. PICK j \in Iface : Owns(j, uuid_to_index[r.uuid])
      BY <2>1 DEF Owned
    <2>3. i = j
      BY <1>2, <2>1, <2>2, InterfacesDiffer DEF Owns
    <2>4. QED
      BY <2>1, <2>2, <2>3
  <1>3. ASSUME ip_to_index[r.ip] # 0
        PROVE  ip_to_index[r.ip] \in Vertex /\ Owns(i, ip_to_index[r.ip])
    <2>1. /\ ip_to_index[r.ip] \in Vertex
          /\ nodes[ip_to_index[r.ip]].ip = r.ip
      BY <1>1, <1>3 DEF IndexMapsAgree
    <2>2. PICK j \in Iface : Owns(j, ip_to_index[r.ip])
      BY <2>1 DEF Owned
    <2>3. i = j
      BY <2>1, <2>2, InterfacesDiffer DEF Owns
    <2>4. QED
      BY <2>1, <2>2, <2>3
  <1>4. ASSUME r.mac # None, mac_to_index[r.mac] # 0
        PROVE  mac_to_index[r.mac] \in Vertex /\ Owns(i, mac_to_index[r.mac])
    <2>1. /\ mac_to_index[r.mac] \in Vertex
          /\ nodes[mac_to_index[r.mac]].mac = r.mac
      BY <1>1, <1>4 DEF IndexMapsAgree
    <2>2. PICK j \in Iface : Owns(j, mac_to_index[r.mac])
      BY <2>1 DEF Owned
    <2>3. i = j
      BY <1>4, <2>1, <2>2, InterfacesDiffer DEF Owns
    <2>4. QED
      BY <2>1, <2>2, <2>3
  <1>5. QED
    BY <1>1, <1>2, <1>3, <1>4 DEF exists

(* What update_node does for an interface that has no vertex yet. *)
LEMMA UpdateAdds ==
  ASSUME NEW r \in Requests, update_node(r), exists(r) = 0
  PROVE  \E b \in Attr :
           /\ nodes' = Append(nodes, b)
           /\ b.ip = r.ip /\ b.mac = r.mac /\ b.uuid = r.uuid
           /\ b.isOF <=> r.uuid # None
           /\ b.isValid <=> check_valid_attr(b)
           /\ ip_to_index' = [ip_to_index EXCEPT ![r.ip] = Len(nodes) + 1]
           /\ mac_to_index' = IF r.mac # None
                              THEN [mac_to_index EXCEPT ![r.mac] = Len(nodes) + 1]
                              ELSE mac_to_index
           /\ uuid_to_index' = IF r.uuid # None
                               THEN [uuid_to_index EXCEPT ![r.uuid] = Len(nodes) + 1]
                               ELSE uuid_to_index
PROOF
  <1> DEFINE a == new_attr(r)
             b == IF no_field_to_update(a, r) THEN a ELSE filled(a, r)
  <1>1. /\ r.ip \in Ip /\ r.ip # None
        /\ r.mac \in Mac \cup {None} /\ r.uuid \in Uuid \cup {None}
    BY RequestShape
  <1>2. /\ b \in Attr
        /\ a.ip = r.ip /\ a.mac = r.mac
        /\ b.ip = r.ip /\ b.mac = r.mac /\ b.uuid = r.uuid
        /\ b.isOF <=> r.uuid # None
        /\ b.isValid <=> check_valid_attr(b)
    BY <1>1 DEF new_attr, no_field_to_update, filled, check_valid_attr, Attr
  <1>3. /\ nodes' = Append(nodes, b)
        /\ ip_to_index' = IF b.ip # None
                          THEN [ip_to_index EXCEPT ![b.ip] = Len(nodes) + 1]
                          ELSE ip_to_index
        /\ mac_to_index' = IF b.mac # None
                           THEN [mac_to_index EXCEPT ![b.mac] = Len(nodes) + 1]
                           ELSE mac_to_index
        /\ uuid_to_index' = IF r.uuid # None
                            THEN [uuid_to_index EXCEPT ![r.uuid] = Len(nodes) + 1]
                            ELSE uuid_to_index
    BY DEF update_node, next_vertex
  <1> HIDE DEF b, a
  <1>4. QED
    BY <1>1, <1>2, <1>3

(* What update_node does for an interface that has vertex v: it fills in    *)
(* what is missing and changes nothing else but the port.                   *)
LEMMA UpdateFills ==
  ASSUME TypeOK, FlagsAgree, NEW r \in Requests, update_node(r),
         NEW v \in Vertex, exists(r) = v, nodes[v].ip # None
  PROVE  \E b \in Attr :
           /\ nodes' = [nodes EXCEPT ![v] = b]
           /\ b.ip = nodes[v].ip
           /\ b.mac = IF nodes[v].mac = None THEN r.mac ELSE nodes[v].mac
           /\ b.uuid = IF r.uuid # None THEN r.uuid ELSE nodes[v].uuid
           /\ b.isOF <=> nodes[v].isOF \/ r.uuid # None
           /\ b.isValid <=> check_valid_attr(b)
           /\ ip_to_index' = ip_to_index
           /\ mac_to_index' = IF nodes[v].mac = None /\ r.mac # None
                              THEN [mac_to_index EXCEPT ![r.mac] = v]
                              ELSE mac_to_index
           /\ uuid_to_index' = IF r.uuid # None
                               THEN [uuid_to_index EXCEPT ![r.uuid] = v]
                               ELSE uuid_to_index
PROOF
  <1> DEFINE a == nodes[v]
             b == IF no_field_to_update(a, r) THEN a ELSE filled(a, r)
  <1>1. /\ r.ip \in Ip /\ r.ip # None
        /\ r.mac \in Mac \cup {None} /\ r.uuid \in Uuid \cup {None}
    BY RequestShape
  <1>2. v # 0 /\ a \in Attr /\ (a.isValid <=> check_valid_attr(a))
    BY DEF Vertex, TypeOK, FlagsAgree
  <1>3. /\ b \in Attr
        /\ b.ip = a.ip
        /\ b.mac = IF a.mac = None THEN r.mac ELSE a.mac
        /\ b.uuid = IF r.uuid # None THEN r.uuid ELSE a.uuid
        /\ b.isOF <=> a.isOF \/ r.uuid # None
        /\ b.isValid <=> check_valid_attr(b)
    <2>1. CASE no_field_to_update(a, r)
      BY <1>1, <1>2, <2>1 DEF no_field_to_update, check_valid_attr
    <2>2. CASE ~no_field_to_update(a, r)
      <3>1. b = filled(a, r)
        BY <2>2
      <3>2. PICK c : c = [a EXCEPT !.ip   = IF @ = None THEN r.ip ELSE @,
                                   !.mac  = IF @ = None THEN r.mac ELSE @,
                                   !.uuid = IF r.uuid # None THEN r.uuid ELSE @,
                                   !.isOF = @ \/ r.uuid # None]
        OBVIOUS
      <3>3. /\ c \in Attr
            /\ c.ip = a.ip
            /\ c.mac = IF a.mac = None THEN r.mac ELSE a.mac
            /\ c.uuid = IF r.uuid # None THEN r.uuid ELSE a.uuid
            /\ c.isOF <=> a.isOF \/ r.uuid # None
            /\ c.isValid <=> a.isValid
        <4>1. /\ a.uuid \in Uuid \cup {None} /\ a.ip \in Ip \cup {None}
              /\ a.mac \in Mac \cup {None} /\ a.isOF \in BOOLEAN /\ a.isValid \in BOOLEAN
              /\ a.ip # None
          BY <1>2 DEF Attr
        <4>2. c = [uuid |-> IF r.uuid # None THEN r.uuid ELSE a.uuid,
                   ip |-> a.ip, mac |-> IF a.mac = None THEN r.mac ELSE a.mac,
                   isOF |-> a.isOF \/ r.uuid # None, isValid |-> a.isValid]
          BY <1>2, <3>2, <4>1 DEF Attr
        <4>3. QED
          BY <1>1, <4>1, <4>2 DEF Attr
      <3>4. b = [c EXCEPT !.isValid = @ \/ check_valid_attr(c)]
        BY <3>1, <3>2 DEF filled
      <3>5. /\ b \in Attr /\ b.ip = c.ip /\ b.mac = c.mac /\ b.uuid = c.uuid
            /\ b.isOF <=> c.isOF
            /\ b.isValid <=> c.isValid \/ check_valid_attr(c)
        BY <3>3, <3>4 DEF Attr, check_valid_attr
      <3>6. QED
        BY <1>2, <3>3, <3>5 DEF check_valid_attr
    <2>3. QED
      BY <2>1, <2>2
  <1>4. /\ nodes' = [nodes EXCEPT ![v] = b]
        /\ ip_to_index' = IF b.ip # None /\ a.ip = None
                          THEN [ip_to_index EXCEPT ![b.ip] = v] ELSE ip_to_index
        /\ mac_to_index' = IF b.mac # None /\ a.mac = None
                           THEN [mac_to_index EXCEPT ![b.mac] = v] ELSE mac_to_index
        /\ uuid_to_index' = IF r.uuid # None
                            THEN [uuid_to_index EXCEPT ![r.uuid] = v]
                            ELSE uuid_to_index
    BY <1>2 DEF update_node
  <1> HIDE DEF b
  <1>5. QED
    BY <1>3, <1>4

-----------------------------------------------------------------------------
(* One call of update_node keeps every part of the invariant that is about  *)
(* the graph.                                                               *)
LEMMA UpdateKeepsGraph ==
  ASSUME TypeOK, IndexMapsAgree, Owned, FlagsAgree,
         NEW r \in Requests, update_node(r)
  PROVE  /\ nodes' \in Seq(Attr)
         /\ ip_to_index' \in [Ip -> Nat]
         /\ mac_to_index' \in [Mac -> Nat]
         /\ uuid_to_index' \in [Uuid -> Nat]
         /\ IndexMapsAgree' /\ Owned' /\ FlagsAgree'
         /\ \A a \in Ip, m \in Mac : InGraph(a, m) => InGraph(a, m)'
         /\ r.mac # None => InGraph(r.ip, r.mac)'
PROOF
  <1>0. /\ nodes \in Seq(Attr)
        /\ ip_to_index \in [Ip -> Nat]
        /\ mac_to_index \in [Mac -> Nat]
        /\ uuid_to_index \in [Uuid -> Nat]
    BY DEF TypeOK
  <1>1. PICK i \in Iface :
          /\ r.ip = IpOf[i] /\ r.ip \in Ip /\ r.ip # None
          /\ r.mac \in {None, MacOf[i]} /\ r.mac \in Mac \cup {None}
          /\ r.uuid \in {None, UuidOf[i]} /\ r.uuid \in Uuid \cup {None}
          /\ r.uuid # None => r.mac # None
    BY RequestShape
  <1>2. /\ exists(r) # 0 => exists(r) \in Vertex /\ Owns(i, exists(r))
        /\ exists(r) = 0 => /\ ip_to_index[r.ip] = 0
                            /\ r.mac # None => mac_to_index[r.mac] = 0
                            /\ r.uuid # None => uuid_to_index[r.uuid] = 0
    BY <1>1, ExistsFinds
  <1>3. CASE exists(r) = 0
    <2>0. PICK n \in Nat : n = Len(nodes) + 1
      BY <1>0
    <2>1. PICK b \in Attr :
            /\ nodes' = Append(nodes, b)
            /\ b.ip = r.ip /\ b.mac = r.mac /\ b.uuid = r.uuid
            /\ b.isOF <=> r.uuid # None
            /\ b.isValid <=> check_valid_attr(b)
            /\ ip_to_index' = [ip_to_index EXCEPT ![r.ip] = n]
            /\ mac_to_index' = IF r.mac # None
                               THEN [mac_to_index EXCEPT ![r.mac] = n]
                               ELSE mac_to_index
            /\ uuid_to_index' = IF r.uuid # None
                                THEN [uuid_to_index EXCEPT ![r.uuid] = n]
                                ELSE uuid_to_index
      BY <1>3, <2>0, UpdateAdds
    <2>2. /\ nodes \in Seq(Attr) /\ nodes' \in Seq(Attr)
          /\ n # 0 /\ n \notin Vertex
          /\ Vertex' = Vertex \cup {n}
          /\ \A v \in Vertex : nodes'[v] = nodes[v]
          /\ nodes'[n] = b
      BY <1>0, <2>0, <2>1 DEF Vertex
    <2>3. /\ ip_to_index' \in [Ip -> Nat]
          /\ mac_to_index' \in [Mac -> Nat]
          /\ uuid_to_index' \in [Uuid -> Nat]
      BY <1>0, <1>1, <2>1, <2>2
    <2>4. IndexMapsAgree'
      <3>1. ASSUME NEW a \in Ip, ip_to_index'[a] # 0
            PROVE  ip_to_index'[a] \in Vertex' /\ nodes'[ip_to_index'[a]].ip = a
        <4>1. CASE a = r.ip
          BY <1>0, <1>1, <2>1, <2>2, <4>1, IfaceAssumption
        <4>2. CASE a # r.ip
          <5>1. ip_to_index'[a] = ip_to_index[a]
            BY <1>0, <1>1, <2>1, <4>2
          <5>2. ip_to_index[a] \in Vertex /\ nodes[ip_to_index[a]].ip = a
            BY <3>1, <5>1 DEF IndexMapsAgree
          <5>3. QED
            BY <2>2, <5>1, <5>2
        <4>3. QED
          BY <4>1, <4>2
      <3>2. ASSUME NEW m \in Mac, mac_to_index'[m] # 0
            PROVE  mac_to_index'[m] \in Vertex' /\ nodes'[mac_to_index'[m]].mac = m
        <4>1. CASE m = r.mac
          BY <1>0, <1>1, <2>1, <2>2, <4>1, IfaceAssumption
        <4>2. CASE m # r.mac
          <5>1. mac_to_index'[m] = mac_to_index[m]
            BY <1>0, <1>1, <2>1, <4>2
          <5>2. mac_to_index[m] \in Vertex /\ nodes[mac_to_index[m]].mac = m
            BY <3>2, <5>1 DEF IndexMapsAgree
          <5>3. QED
            BY <2>2, <5>1, <5>2
        <4>3. QED
          BY <4>1, <4>2
      <3>3. ASSUME NEW u \in Uuid, uuid_to_index'[u] # 0
            PROVE  uuid_to_index'[u] \in Vertex' /\ nodes'[uuid_to_index'[u]].uuid = u
        <4>1. CASE u = r.uuid
          BY <1>0, <1>1, <2>1, <2>2, <4>1, IfaceAssumption
        <4>2. CASE u # r.uuid
          <5>1. uuid_to_index'[u] = uuid_to_index[u]
            BY <1>0, <1>1, <2>1, <4>2
          <5>2. uuid_to_index[u] \in Vertex /\ nodes[uuid_to_index[u]].uuid = u
            BY <3>3, <5>1 DEF IndexMapsAgree
          <5>3. QED
            BY <2>2, <5>1, <5>2
        <4>3. QED
          BY <4>1, <4>2
      <3>4. ASSUME NEW v \in Vertex'
            PROVE  /\ nodes'[v].ip # None => ip_to_index'[nodes'[v].ip] = v
                   /\ nodes'[v].mac # None => mac_to_index'[nodes'[v].mac] = v
                   /\ nodes'[v].uuid # None => uuid_to_index'[nodes'[v].uuid] = v
        <4>1. CASE v = n
          <5>1. nodes'[v] = b
            BY <2>2, <4>1
          <5>2. b.ip # None => ip_to_index'[b.ip] = v
            BY <1>0, <1>1, <2>1, <4>1
          <5>3. b.mac # None => mac_to_index'[b.mac] = v
            BY <1>0, <1>1, <2>1, <4>1
          <5>4. b.uuid # None => uuid_to_index'[b.uuid] = v
            BY <1>0, <1>1, <2>1, <4>1
          <5>5. QED
            BY <5>1, <5>2, <5>3, <5>4
        <4>2. CASE v \in Vertex
          <5>1. nodes[v] \in Attr /\ v # 0
            BY <1>0, <4>2 DEF Vertex
          <5>2. /\ nodes[v].ip # None => ip_to_index[nodes[v].ip] = v
                /\ nodes[v].mac # None => mac_to_index[nodes[v].mac] = v
                /\ nodes[v].uuid # None => uuid_to_index[nodes[v].uuid] = v
            BY <4>2 DEF IndexMapsAgree
          <5>3. QED
            <6>1. nodes'[v] = nodes[v]
              BY <2>2, <4>2
            <6>2. nodes[v].ip # None => ip_to_index'[nodes[v].ip] = v
              BY <1>0, <1>1, <1>2, <1>3, <2>1, <5>1, <5>2 DEF Attr
            <6>3. nodes[v].mac # None => mac_to_index'[nodes[v].mac] = v
              BY <1>0, <1>1, <1>2, <1>3, <2>1, <5>1, <5>2 DEF Attr
            <6>4. nodes[v].uuid # None => uuid_to_index'[nodes[v].uuid] = v
              BY <1>0, <1>1, <1>2, <1>3, <2>1, <5>1, <5>2 DEF Attr
            <6>5. QED
              BY <6>1, <6>2, <6>3, <6>4
        <4>3. QED
          BY <2>2, <4>1, <4>2
      <3>5. QED
        BY <3>1, <3>2, <3>3, <3>4 DEF IndexMapsAgree
    <2>5. Owned'
      <3>1. Owns(i, n)'
        BY <1>1, <2>1, <2>2 DEF Owns
      <3>2. \A v \in Vertex, j \in Iface : Owns(j, v) => Owns(j, v)'
        BY <2>2 DEF Owns
      <3>3. QED
        BY <2>2, <3>1, <3>2 DEF Owned
    <2>6. FlagsAgree'
      <3>1. /\ b.isOF <=> b.uuid # None
            /\ b.isValid <=> check_valid_attr(b)
            /\ b.isOF => b.isValid
        BY <1>1, <2>1 DEF check_valid_attr
      <3>2. \A v \in Vertex :
              /\ nodes[v].isOF <=> nodes[v].uuid # None
              /\ nodes[v].isValid <=> check_valid_attr(nodes[v])
              /\ nodes[v].isOF => nodes[v].isValid
        BY DEF FlagsAgree
      <3>3. QED
        BY <2>2, <3>1, <3>2 DEF FlagsAgree, check_valid_attr
    <2>7. \A a \in Ip, m \in Mac : InGraph(a, m) => InGraph(a, m)'
      BY <1>1, <1>2, <1>3, <2>1, <2>2 DEF InGraph, TypeOK, Vertex
    <2>8. InGraph(r.ip, r.mac)'
      BY <1>1, <2>1, <2>2 DEF InGraph, TypeOK
    <2>9. QED
      BY <2>2, <2>3, <2>4, <2>5, <2>6, <2>7, <2>8
  <1>4. CASE exists(r) # 0
    <2>0. exists(r) \in Vertex /\ Owns(i, exists(r))
      BY <1>2, <1>4
    <2>1. PICK w : w = exists(r) /\ w \in Vertex /\ w \in Nat /\ Owns(i, w) /\ w # 0
      <3>1. \A v \in Vertex : v \in Nat /\ v # 0
        BY <1>0 DEF Vertex
      <3>2. QED
        BY <2>0, <3>1
    <2>2. PICK b \in Attr :
            /\ nodes' = [nodes EXCEPT ![w] = b]
            /\ b.ip = nodes[w].ip
            /\ b.mac = IF nodes[w].mac = None THEN r.mac ELSE nodes[w].mac
            /\ b.uuid = IF r.uuid # None THEN r.uuid ELSE nodes[w].uuid
            /\ b.isOF <=> nodes[w].isOF \/ r.uuid # None
            /\ b.isValid <=> check_valid_attr(b)
            /\ ip_to_index' = ip_to_index
            /\ mac_to_index' = IF nodes[w].mac = None /\ r.mac # None
                               THEN [mac_to_index EXCEPT ![r.mac] = w]
                               ELSE mac_to_index
            /\ uuid_to_index' = IF r.uuid # None
                                THEN [uuid_to_index EXCEPT ![r.uuid] = w]
                                ELSE uuid_to_index
      <3>1. nodes[w].ip # None
        BY <1>1, <2>1 DEF Owns
      <3>2. QED
        BY <2>1, <3>1, UpdateFills
    <2>3. /\ nodes \in Seq(Attr) /\ nodes' \in Seq(Attr)
          /\ Vertex' = Vertex
          /\ \A v \in Vertex \ {w} : nodes'[v] = nodes[v]
          /\ nodes'[w] = b
      <3>1. w \in 1 .. Len(nodes)
        BY <2>1 DEF Vertex
      <3>2. /\ nodes' \in Seq(Attr)
            /\ Len(nodes') = Len(nodes)
            /\ \A v \in 1 .. Len(nodes) : nodes'[v] = IF v = w THEN b ELSE nodes[v]
        BY <1>0, <2>2, <3>1
      <3>3. QED
        BY <1>0, <2>1, <3>2 DEF Vertex
    <2>4. /\ ip_to_index' \in [Ip -> Nat]
          /\ mac_to_index' \in [Mac -> Nat]
          /\ uuid_to_index' \in [Uuid -> Nat]
      BY <1>0, <1>1, <2>1, <2>2
    <2>5. Owned'
      <3>1. Owns(i, w)'
        BY <1>1, <2>1, <2>2, <2>3 DEF Owns
      <3>2. \A v \in Vertex \ {w}, j \in Iface : Owns(j, v) => Owns(j, v)'
        BY <2>3 DEF Owns
      <3>3. QED
        BY <2>3, <3>1, <3>2 DEF Owned
    (* No vertex but w has the MAC or the port that w may get. *)
    <2>6. ASSUME NEW v \in Vertex \ {w}
          PROVE  nodes[v].mac # MacOf[i] /\ (r.uuid # None => nodes[v].uuid # r.uuid)
      <3>1. PICK j \in Iface : Owns(j, v)
        BY DEF Owned
      <3>2. IpOf[j] # None /\ IpOf[i] # None /\ MacOf[i] # None
        BY IfaceAssumption
      <3>3. i # j
        <4>1. nodes[v].ip = IpOf[j] /\ ip_to_index[nodes[v].ip] = v
          BY <3>1, <3>2 DEF Owns, IndexMapsAgree
        <4>2. nodes[w].ip = IpOf[i] /\ ip_to_index[nodes[w].ip] = w
          BY <2>1, <3>2 DEF Owns, IndexMapsAgree
        <4>3. QED
          BY <4>1, <4>2
      <3>4. QED
        BY <1>1, <3>1, <3>2, <3>3, InterfacesDiffer DEF Owns
    <2>7. IndexMapsAgree'
      <3>0. Owns(i, w) /\ MacOf[i] \in Mac /\ MacOf[i] # None
        BY <2>1, IfaceAssumption
      <3>1. \A a \in Ip : ip_to_index'[a] # 0 =>
              ip_to_index'[a] \in Vertex' /\ nodes'[ip_to_index'[a]].ip = a
        BY <2>2, <2>3 DEF IndexMapsAgree
      <3>2. ASSUME NEW m \in Mac, mac_to_index'[m] # 0
            PROVE  mac_to_index'[m] \in Vertex' /\ nodes'[mac_to_index'[m]].mac = m
        <4>0. m # None
          BY IfaceAssumption
        <4>1. CASE mac_to_index'[m] # mac_to_index[m]
          <5>1. m = r.mac /\ mac_to_index'[m] = w /\ b.mac = r.mac
            BY <1>0, <1>1, <2>2, <4>1
          <5>2. QED
            BY <2>1, <2>3, <5>1
        <4>2. CASE mac_to_index'[m] = mac_to_index[m]
          <5>1. mac_to_index[m] \in Vertex /\ nodes[mac_to_index[m]].mac = m
            BY <3>2, <4>2 DEF IndexMapsAgree
          <5>2. CASE mac_to_index[m] = w
            <6>1. b.mac = m
              BY <1>1, <2>1, <2>2, <4>0, <5>1, <5>2 DEF Owns
            <6>2. QED
              BY <2>3, <4>2, <5>1, <5>2, <6>1
          <5>3. CASE mac_to_index[m] # w
            BY <2>3, <4>2, <5>1, <5>3
          <5>4. QED
            BY <5>2, <5>3
        <4>3. QED
          BY <4>1, <4>2
      <3>3. ASSUME NEW u \in Uuid, uuid_to_index'[u] # 0
            PROVE  uuid_to_index'[u] \in Vertex' /\ nodes'[uuid_to_index'[u]].uuid = u
        <4>0. u # None
          BY IfaceAssumption
        <4>1. CASE uuid_to_index'[u] # uuid_to_index[u]
          <5>1. u = r.uuid /\ uuid_to_index'[u] = w /\ b.uuid = r.uuid
            BY <1>0, <1>1, <2>2, <4>1
          <5>2. QED
            BY <2>1, <2>3, <5>1
        <4>2. CASE uuid_to_index'[u] = uuid_to_index[u]
          <5>1. uuid_to_index[u] \in Vertex /\ nodes[uuid_to_index[u]].uuid = u
            BY <3>3, <4>2 DEF IndexMapsAgree
          <5>2. CASE uuid_to_index[u] = w
            <6>1. b.uuid = u
              BY <1>1, <2>1, <2>2, <4>0, <5>1, <5>2 DEF Owns
            <6>2. QED
              BY <2>3, <4>2, <5>1, <5>2, <6>1
          <5>3. CASE uuid_to_index[u] # w
            BY <2>3, <4>2, <5>1, <5>3
          <5>4. QED
            BY <5>2, <5>3
        <4>3. QED
          BY <4>1, <4>2
      <3>4. ASSUME NEW v \in Vertex
            PROVE  /\ nodes'[v].ip # None => ip_to_index'[nodes'[v].ip] = v
                   /\ nodes'[v].mac # None => mac_to_index'[nodes'[v].mac] = v
                   /\ nodes'[v].uuid # None => uuid_to_index'[nodes'[v].uuid] = v
        <4>1. nodes[v] \in Attr
          BY <1>0 DEF Vertex
        <4>2. /\ nodes[v].ip # None => ip_to_index[nodes[v].ip] = v
              /\ nodes[v].mac # None => mac_to_index[nodes[v].mac] = v
              /\ nodes[v].uuid # None => uuid_to_index[nodes[v].uuid] = v
          BY DEF IndexMapsAgree
        <4>3. CASE v = w
          <5>1. nodes'[v] = b
            BY <2>3, <4>3
          <5>2. b.ip # None => ip_to_index'[b.ip] = v
            BY <2>2, <4>2, <4>3
          <5>3. b.mac # None => mac_to_index'[b.mac] = v
            BY <1>0, <1>1, <2>2, <4>2, <4>3
          <5>4. b.uuid # None => uuid_to_index'[b.uuid] = v
            BY <1>0, <1>1, <2>2, <4>2, <4>3
          <5>5. QED
            BY <5>1, <5>2, <5>3, <5>4
        <4>4. CASE v # w
          <5>1. nodes'[v] = nodes[v]
            BY <2>3, <4>4
          <5>2. nodes[v].mac # MacOf[i] /\ (r.uuid # None => nodes[v].uuid # r.uuid)
            BY <2>6, <4>4
          <5>3. QED
            BY <1>0, <1>1, <2>2, <4>1, <4>2, <5>1, <5>2 DEF Attr
        <4>5. QED
          BY <4>3, <4>4
      <3>5. QED
        BY <2>3, <3>1, <3>2, <3>3, <3>4 DEF IndexMapsAgree
    <2>8. FlagsAgree'
      <3>1. ASSUME NEW v \in Vertex
            PROVE  /\ nodes'[v].isOF <=> nodes'[v].uuid # None
                   /\ nodes'[v].isValid <=> check_valid_attr(nodes'[v])
                   /\ nodes'[v].isOF => nodes'[v].isValid
        <4>1. CASE v = w
          <5>1. /\ nodes[w].isOF <=> nodes[w].uuid # None
                /\ nodes[w].isOF => nodes[w].mac # None
            BY <2>1 DEF FlagsAgree, check_valid_attr
          <5>0. nodes[w].ip # None
            BY <1>1, <2>1 DEF Owns
          <5>2. /\ b.isOF <=> b.uuid # None
                /\ b.isOF => b.mac # None /\ b.ip # None
            BY <1>1, <2>2, <5>0, <5>1
          <5>3. QED
            BY <2>2, <2>3, <4>1, <5>2 DEF check_valid_attr
        <4>2. CASE v # w
          BY <2>3, <4>2 DEF FlagsAgree
        <4>3. QED
          BY <4>1, <4>2
      <3>2. QED
        BY <2>3, <3>1 DEF FlagsAgree
    <2>9. ASSUME NEW a \in Ip, NEW m \in Mac, InGraph(a, m)
          PROVE  InGraph(a, m)'
      <3>1. m # None
        BY IfaceAssumption
      <3>2. QED
        BY <2>2, <2>3, <2>9, <3>1 DEF InGraph
    <2>10. ASSUME r.mac # None PROVE InGraph(r.ip, r.mac)'
      <3>0. nodes[w].ip = r.ip
        BY <1>1, <2>1 DEF Owns
      <3>1. ip_to_index[r.ip] = w
        BY <1>1, <2>1, <3>0 DEF IndexMapsAgree
      <3>2. nodes'[w].mac = r.mac
        BY <1>1, <2>1, <2>2, <2>3, <2>10 DEF Owns
      <3>3. QED
        BY <2>1, <2>2, <2>3, <3>0, <3>1, <3>2 DEF InGraph
    <2>11. QED
      BY <2>3, <2>4, <2>5, <2>7, <2>8, <2>9, <2>10
  <1>5. QED
    BY <1>3, <1>4

-----------------------------------------------------------------------------
(* The invariant holds when the controller starts, with an empty graph. *)
LEMMA InitHolds == Init => IInv
PROOF
  <1> SUFFICES ASSUME Init PROVE IInv
    OBVIOUS
  <1>1. Vertex = {}
    BY DEF Init, Vertex
  <1>2. TypeOK
    BY DEF Init, TypeOK
  <1>3. IndexMapsAgree /\ Owned /\ FlagsAgree
    BY <1>1 DEF Init, IndexMapsAgree, Owned, FlagsAgree
  <1>4. ArpPending
    BY DEF Init, ArpPending
  <1>5. QED
    BY <1>2, <1>3, <1>4 DEF IInv

(* A handler that only queues its requests leaves the graph's parts alone. *)
LEMMA QueueingKeepsGraph ==
  ASSUME IndexMapsAgree, Owned, FlagsAgree, UNCHANGED net
  PROVE  /\ IndexMapsAgree' /\ Owned' /\ FlagsAgree'
         /\ \A a, m : InGraph(a, m) => InGraph(a, m)'
PROOF
  <1> USE DEF net, Vertex
  <1>1. IndexMapsAgree'
    BY DEF IndexMapsAgree
  <1>2. Owned'
    BY DEF Owned, Owns
  <1>3. FlagsAgree'
    BY DEF FlagsAgree
  <1>4. \A a, m : InGraph(a, m) => InGraph(a, m)'
    BY DEF InGraph
  <1>5. QED
    BY <1>1, <1>2, <1>3, <1>4

(* Every step of Net's handlers keeps the invariant. *)
LEMMA StepHolds == IInv /\ [Next]_vars => IInv'
PROOF
  <1> SUFFICES ASSUME IInv, [Next]_vars PROVE IInv'
    OBVIOUS
  <1>0. TypeOK /\ IndexMapsAgree /\ Owned /\ FlagsAgree /\ ArpPending
    BY DEF IInv
  <1>1. ASSUME Step PROVE IInv'
    <2>1. /\ todo \in Seq(Requests) /\ todo # <<>>
          /\ Head(todo) \in Requests
          /\ todo' = Tail(todo) /\ Tail(todo) \in Seq(Requests)
      BY <1>0, <1>1 DEF Step, TypeOK, Requests
    <2>2. PICK r \in Requests : r = Head(todo) /\ update_node(r)
      BY <1>1, <2>1 DEF Step
    <2>3. /\ nodes' \in Seq(Attr)
          /\ ip_to_index' \in [Ip -> Nat]
          /\ mac_to_index' \in [Mac -> Nat]
          /\ uuid_to_index' \in [Uuid -> Nat]
          /\ IndexMapsAgree' /\ Owned' /\ FlagsAgree'
          /\ \A a \in Ip, m \in Mac : InGraph(a, m) => InGraph(a, m)'
          /\ r.mac # None => InGraph(r.ip, r.mac)'
      BY <1>0, <2>2, UpdateKeepsGraph
    <2>0. arpTable' = arpTable
      BY <1>1 DEF Step
    <2>4. TypeOK'
      BY <1>0, <2>0, <2>1, <2>3 DEF TypeOK, Requests
    <2>5. ArpPending'
      <3> SUFFICES ASSUME NEW a \in Ip, arpTable[a] # None
                   PROVE  InGraph(a, arpTable[a])' \/ Pending(a, arpTable[a])'
        BY <2>0 DEF ArpPending
      <3>1. arpTable[a] \in Mac
        BY <1>0 DEF TypeOK
      <3>2. CASE InGraph(a, arpTable[a])
        <4>1. PICK m \in Mac : m = arpTable[a]
          BY <3>1
        <4>2. InGraph(a, m)'
          BY <2>3, <3>2, <4>1
        <4>3. QED
          BY <2>0, <4>1, <4>2
      <3>3. CASE Pending(a, arpTable[a])
        <4>1. PICK k \in DOMAIN todo : todo[k].ip = a /\ todo[k].mac = arpTable[a]
          BY <3>3 DEF Pending
        <4>2. CASE k = 1
          <5>1. r.ip = a /\ r.mac = arpTable[a]
            BY <2>1, <2>2, <4>1, <4>2
          <5>2. InGraph(r.ip, r.mac)'
            BY <2>3, <5>1
          <5>3. QED
            BY <2>0, <5>1, <5>2
        <4>3. CASE k # 1
          <5>1. k - 1 \in DOMAIN todo' /\ todo'[k - 1] = todo[k]
            BY <2>1, <4>1, <4>3
          <5>2. QED
            BY <2>0, <4>1, <5>1 DEF Pending
        <4>4. QED
          BY <4>2, <4>3
      <3>4. QED
        BY <1>0, <3>2, <3>3 DEF ArpPending
    <2>6. QED
      BY <2>3, <2>4, <2>5 DEF IInv
  (* The other handlers start when no request is left, so by ArpPending all *)
  (* that is learnt so far is in the graph.                                 *)
  <1>2. ASSUME todo = <<>>, UNCHANGED net,
               arpTable' \in [Ip -> Mac \cup {None}],
               todo' \in Seq(Requests),
               \A a \in Ip : arpTable'[a] # None =>
                 arpTable'[a] = arpTable[a] \/ Pending(a, arpTable[a])'
        PROVE  IInv'
    <2>1. /\ IndexMapsAgree' /\ Owned' /\ FlagsAgree'
          /\ \A a, m : InGraph(a, m) => InGraph(a, m)'
      BY <1>0, <1>2, QueueingKeepsGraph
    <2>2. TypeOK'
      BY <1>0, <1>2 DEF TypeOK, net, Requests
    <2>3. ArpPending'
      <3> SUFFICES ASSUME NEW a \in Ip, arpTable'[a] # None
                   PROVE  InGraph(a, arpTable[a])' \/ Pending(a, arpTable[a])'
        BY DEF ArpPending
      <3>1. CASE arpTable'[a] = arpTable[a]
        <4>1. ~Pending(a, arpTable[a])
          BY <1>2 DEF Pending
        <4>2. InGraph(a, arpTable[a])
          BY <1>0, <3>1, <4>1 DEF ArpPending
        <4>3. PICK m : m = arpTable[a]
          OBVIOUS
        <4>4. InGraph(a, m)'
          BY <2>1, <4>2, <4>3
        <4>5. QED
          BY <3>1, <4>3, <4>4
      <3>2. CASE arpTable'[a] # arpTable[a]
        BY <1>2, <3>2
      <3>3. QED
        BY <3>1, <3>2
    <2>4. QED
      BY <2>1, <2>2, <2>3 DEF IInv
  <1>3. \A i \in Iface : /\ IpOf[i] \in Ip /\ MacOf[i] \in Mac
                         /\ IpOnly(i) \in Requests /\ IpAndMac(i) \in Requests
                         /\ IpAndMac(i).ip = IpOf[i] /\ IpAndMac(i).mac = MacOf[i]
    BY IfaceAssumption DEF Requests, About, IpAndMac
  <1>4. ASSUME NEW i \in Iface, LearnSender(i) PROVE IInv'
    <2>1. /\ todo' = <<IpAndMac(i)>> /\ todo = <<>> /\ UNCHANGED net
          /\ arpTable' = [arpTable EXCEPT ![IpOf[i]] = MacOf[i]]
          /\ arpTable \in [Ip -> Mac \cup {None}]
      BY <1>0, <1>4 DEF LearnSender, TypeOK
    <2>2. Pending(IpOf[i], MacOf[i])'
      BY <1>3, <2>1 DEF Pending
    <2>3. ASSUME NEW a \in Ip, arpTable'[a] # arpTable[a]
          PROVE  Pending(a, arpTable[a])'
      <3>1. a = IpOf[i] /\ arpTable'[a] = MacOf[i]
        BY <1>3, <2>1, <2>3
      <3>2. QED
        BY <2>2, <3>1
    <2>4. arpTable' \in [Ip -> Mac \cup {None}] /\ todo' \in Seq(Requests)
      BY <1>3, <2>1
    <2>5. QED
      BY <1>2, <2>1, <2>3, <2>4
  <1>5. ASSUME NEW i \in Iface, NEW j \in Iface, LearnReply(i, j) PROVE IInv'
    <2> DEFINE new(k) == IF arpTable[IpOf[k]] = None THEN <<IpAndMac(k)>> ELSE <<>>
    <2>1. /\ todo' = new(i) \o new(j) /\ todo = <<>> /\ UNCHANGED net
          /\ arpTable' = [arpTable EXCEPT ![IpOf[i]] = IF @ = None THEN MacOf[i] ELSE @,
                                          ![IpOf[j]] = IF @ = None THEN MacOf[j] ELSE @]
          /\ arpTable \in [Ip -> Mac \cup {None}]
          /\ i # j
      BY <1>0, <1>5 DEF LearnReply, TypeOK
    <2>2. IpOf[i] # IpOf[j]
      BY <2>1, InterfacesDiffer
    <2>3. /\ arpTable' \in [Ip -> Mac \cup {None}]
          /\ \A k \in {i, j} : arpTable[IpOf[k]] = None => arpTable'[IpOf[k]] = MacOf[k]
          /\ \A a \in Ip : arpTable'[a] # arpTable[a] =>
               \E k \in {i, j} : a = IpOf[k] /\ arpTable[IpOf[k]] = None
      BY <1>3, <2>1, <2>2
    <2>4. todo' \in Seq(Requests)
      BY <1>3, <2>1
    <2>5. ASSUME NEW k \in {i, j}, arpTable[IpOf[k]] = None
          PROVE  Pending(IpOf[k], MacOf[k])'
      <3>1. \E q \in DOMAIN todo' : todo'[q] = IpAndMac(k)
        BY <2>1, <2>5
      <3>2. QED
        BY <1>3, <3>1 DEF Pending
    <2>6. ASSUME NEW a \in Ip, arpTable'[a] # arpTable[a]
          PROVE  Pending(a, arpTable[a])'
      BY <2>3, <2>5, <2>6
    <2>7. QED
      BY <1>2, <2>1, <2>3, <2>4, <2>6
  <1>6. ASSUME NEW i \in Iface, NEW j \in Iface, LearnEndPoints(i, j) PROVE IInv'
    BY <1>0, <1>2, <1>3, <1>6 DEF LearnEndPoints, TypeOK
  <1>7. ASSUME NEW msg \in Reports, ParseMessage(msg) PROVE IInv'
    BY <1>0, <1>2, <1>7, ReportsAssumption DEF ParseMessage, TypeOK, Requests
  <1>8. ASSUME UNCHANGED vars PROVE IInv'
    BY <1>8 DEF IInv, vars, TypeOK, IndexMapsAgree, Owned, Owns, FlagsAgree, Vertex,
              ArpPending, InGraph, Pending
  <1>9. QED
    BY <1>1, <1>4, <1>5, <1>6, <1>7, <1>8 DEF Next

(* The inductive invariant holds in every behaviour. *)
THEOREM Invariance == Spec => []IInv
PROOF BY InitHolds, StepHolds, PTL DEF Spec

(* Every value of the Net object and of the C++ table keeps its type.  *)
THEOREM TypeCorrect == Spec => []TypeOK
PROOF
  <1>1. IInv => TypeOK
    BY DEF IInv
  <1>2. QED
    BY <1>1, Invariance, PTL

(* The three dictionaries of class Net lead to the same vertices as the     *)
(* attributes do, for any number of interfaces and any order of messages.   *)
THEOREM DictionariesAgree == Spec => []IndexMapsAgree
PROOF
  <1>1. IInv => IndexMapsAgree
    BY DEF IInv
  <1>2. QED
    BY <1>1, Invariance, PTL

(* An interface has at most one vertex and a vertex one interface: what     *)
(* update_node promises to the routing code, which keeps vertex numbers.    *)
THEOREM OneVertex == Spec => []OneVertexPerInterface
PROOF
  <1>1. IInv => OneVertexPerInterface
    <2> SUFFICES ASSUME IInv PROVE OneVertexPerInterface
      OBVIOUS
    <2>1. Owned /\ IndexMapsAgree
      BY DEF IInv
    <2>2. ASSUME NEW v \in Vertex, NEW w \in Vertex, NEW i \in Iface,
                 Owns(i, v), Owns(i, w)
          PROVE  v = w
      <3>1. IpOf[i] # None
        BY IfaceAssumption
      <3>2. nodes[v].ip = IpOf[i] /\ nodes[w].ip = IpOf[i]
        BY <2>2 DEF Owns
      <3>3. QED
        BY <2>1, <3>1, <3>2 DEF IndexMapsAgree
    <2>3. QED
      BY <2>1, <2>2 DEF OneVertexPerInterface, Owned
  <1>2. QED
    BY <1>1, Invariance, PTL

(* isOF and isValid say what the attributes say, and a switch port is a     *)
(* complete vertex.                                                         *)
THEOREM FlagsCorrect == Spec => []FlagsAgree
PROOF
  <1>1. IInv => FlagsAgree
    BY DEF IInv
  <1>2. QED
    BY <1>1, Invariance, PTL

(* Whatever pair m_arpTable holds, the graph holds between handlers.        *)
THEOREM ArpTableCovered == Spec => []ArpTableInGraph
PROOF
  <1>1. IInv => ArpTableInGraph
    <2> SUFFICES ASSUME IInv, todo = <<>>, NEW a \in Ip, arpTable[a] # None
                 PROVE  ip_to_index[a] # 0 /\ nodes[ip_to_index[a]].mac = arpTable[a]
      BY DEF ArpTableInGraph
    <2>1. InGraph(a, arpTable[a])
      BY DEF IInv, ArpPending, Pending
    <2>2. nodes \in Seq(Attr)
      BY DEF IInv, TypeOK
    <2>3. \A v \in Vertex : v # 0
      BY <2>2 DEF Vertex
    <2>4. QED
      BY <2>1, <2>3 DEF InGraph
  <1>2. QED
    BY <1>1, Invariance, PTL

(* No step renumbers a vertex or rewrites what is known of it: update_node  *)
(* may overwrite a port, but only by the port the vertex already has.       *)
THEOREM PermanentIdentity == Spec => IdentityIsPermanent
PROOF
  <1>1. ASSUME IInv, Next PROVE KeepsIdentity
    <2>0. TypeOK /\ IndexMapsAgree /\ Owned /\ FlagsAgree
      BY <1>1 DEF IInv
    <2>1. nodes \in Seq(Attr)
      BY <2>0 DEF TypeOK
    <2>2. CASE nodes' = nodes
      BY <2>1, <2>2 DEF KeepsIdentity, Vertex
    <2>3. CASE Step
      <3>1. PICK r \in Requests : update_node(r)
        BY <2>0, <2>3 DEF Step, TypeOK, Requests
      <3>2. PICK i \in Iface :
              /\ r.ip = IpOf[i] /\ r.ip # None
              /\ r.mac \in {None, MacOf[i]} /\ r.uuid \in {None, UuidOf[i]}
        BY RequestShape
      <3>3. exists(r) # 0 => exists(r) \in Vertex /\ Owns(i, exists(r))
        BY <2>0, <3>2, ExistsFinds
      <3>4. CASE exists(r) = 0
        <4>1. PICK b \in Attr : nodes' = Append(nodes, b)
          BY <3>1, <3>4, UpdateAdds
        <4>2. QED
          BY <2>1, <4>1 DEF KeepsIdentity, Vertex
      <3>5. CASE exists(r) # 0
        <4>1. PICK w : w = exists(r) /\ w \in Vertex /\ Owns(i, w)
          BY <3>3, <3>5
        <4>2. nodes[w].ip # None /\ nodes[w].uuid \in {None, UuidOf[i]}
          BY <3>2, <4>1 DEF Owns
        <4>3. PICK b \in Attr :
                /\ nodes' = [nodes EXCEPT ![w] = b]
                /\ b.ip = nodes[w].ip
                /\ b.mac = IF nodes[w].mac = None THEN r.mac ELSE nodes[w].mac
                /\ b.uuid = IF r.uuid # None THEN r.uuid ELSE nodes[w].uuid
                /\ b.isOF <=> nodes[w].isOF \/ r.uuid # None
                /\ b.isValid <=> check_valid_attr(b)
                /\ ip_to_index' = ip_to_index
                /\ mac_to_index' = IF nodes[w].mac = None /\ r.mac # None
                                   THEN [mac_to_index EXCEPT ![r.mac] = w]
                                   ELSE mac_to_index
                /\ uuid_to_index' = IF r.uuid # None
                                    THEN [uuid_to_index EXCEPT ![r.uuid] = w]
                                    ELSE uuid_to_index
          <5>1. TypeOK /\ FlagsAgree /\ update_node(r) /\ w \in Vertex
            BY <2>0, <3>1, <4>1
          <5>2. exists(r) = w /\ nodes[w].ip # None
            BY <4>1, <4>2
          <5>3. QED
            BY <5>1, <5>2, UpdateFills
        <4>4. /\ nodes[w].mac # None => b.mac = nodes[w].mac
              /\ nodes[w].uuid # None => b.uuid = nodes[w].uuid
              /\ nodes[w].isOF => b.isOF
          BY <3>2, <4>2, <4>3
        <4>5. /\ DOMAIN nodes' = Vertex /\ nodes'[w] = b
              /\ \A v \in Vertex \ {w} : nodes'[v] = nodes[v]
          <5>1. w \in 1 .. Len(nodes)
            BY <4>1 DEF Vertex
          <5>2. /\ DOMAIN nodes' = 1 .. Len(nodes)
                /\ \A v \in 1 .. Len(nodes) : nodes'[v] = IF v = w THEN b ELSE nodes[v]
            BY <2>1, <4>3, <5>1
          <5>3. QED
            BY <5>1, <5>2 DEF Vertex
        <4>6. QED
          BY <4>3, <4>4, <4>5 DEF KeepsIdentity
      <3>6. QED
        BY <3>4, <3>5
    <2>4. QED
      BY <1>1, <2>2, <2>3 DEF Next, LearnSender, LearnReply, LearnEndPoints,
                              ParseMessage, net
  <1>2. IInv /\ [Next]_vars => [KeepsIdentity]_vars
    BY <1>1
  <1>3. QED
    BY <1>2, Invariance, PTL DEF Spec, IdentityIsPermanent
=============================================================================
