------------------------------- MODULE NetView -------------------------------
(***************************************************************************)
(* The controller's view of who is in the network: class Net of            *)
(* net_view.py, filled by the ARP, OLSR and IPv4 branches of               *)
(* OfppPythonController::HandlePacketIn, by HandleFlowRemoved, and by      *)
(* parse_message of exp_msg.py.                                            *)
(*                                                                         *)
(* A vertex of the graph is one network interface.  What the controller    *)
(* knows of it (datapath and port, IPv4 address, MAC address) arrives in   *)
(* any order and in pieces, and the vertex number is what flow records     *)
(* keep.  Three dictionaries lead from a piece of identity to the vertex.  *)
(*                                                                         *)
(* A handler makes several calls of update_node one after the other.  They *)
(* are the requests in todo, taken one per step; no other handler starts   *)
(* before the last one is done, because the simulator runs one event at a  *)
(* time and calls into Python synchronously.                               *)
(***************************************************************************)
EXTENDS Naturals, Sequences

CONSTANTS
  Iface,    \* the interfaces that exist in the network
  Ip,       \* IPv4 addresses
  Mac,      \* MAC addresses
  Uuid,     \* (datapath id, port number) pairs
  IpOf,     \* the address configured on each interface
  MacOf,    \* the hardware address of each interface
  UuidOf,   \* the switch port of each interface, None for a legacy node
  Reports,  \* the requests an experimenter message of a switch stands for
  None      \* Python's None

(* What update_node is told: any of the three may be None.  The code makes *)
(* requests of three shapes, each about one interface.                     *)
IpOnly(i)   == [uuid |-> None, ip |-> IpOf[i], mac |-> None]
IpAndMac(i) == [uuid |-> None, ip |-> IpOf[i], mac |-> MacOf[i]]
Port(i)     == [uuid |-> UuidOf[i], ip |-> IpOf[i], mac |-> MacOf[i]]

About(i) == {IpOnly(i), IpAndMac(i), Port(i)}

(* The simulation script gives every interface an address of its own, every *)
(* device a MAC of its own, and every switch port one interface.            *)
ASSUME IfaceAssumption ==
  /\ None \notin Ip /\ None \notin Mac /\ None \notin Uuid
  /\ IpOf \in [Iface -> Ip]
  /\ MacOf \in [Iface -> Mac]
  /\ UuidOf \in [Iface -> Uuid \cup {None}]
  /\ \A i, j \in Iface :
       \/ IpOf[i] = IpOf[j]
       \/ MacOf[i] = MacOf[j]
       \/ UuidOf[i] # None /\ UuidOf[i] = UuidOf[j]
       => i = j

ASSUME ReportsAssumption == Reports \subseteq Seq(UNION {About(i) : i \in Iface})

VARIABLES
  nodes,           \* attributes of vertex v at position v (G.nodes, n_vertex)
  ip_to_index,     \* vertex of an address, 0 when there is no entry
  mac_to_index,    \* vertex of a MAC, 0 when there is no entry
  uuid_to_index,   \* vertex of a switch port, 0 when there is no entry
  arpTable,        \* the C++ side's m_arpTable, None when there is no entry
  todo             \* update_node calls the running handler has still to make

vars == <<nodes, ip_to_index, mac_to_index, uuid_to_index, arpTable, todo>>

-----------------------------------------------------------------------------
Attr == [uuid : Uuid \cup {None}, ip : Ip \cup {None}, mac : Mac \cup {None},
         isOF : BOOLEAN, isValid : BOOLEAN]

(* Mutant: an address alone makes a vertex complete. *)
check_valid_attr_ip_only(a) == a.ip # None

check_valid_attr(a) == a.mac # None /\ a.ip # None

(* Mutant: a request without a switch port is looked up by MAC alone. *)
exists_without_ip(r) ==
  IF r.uuid # None /\ uuid_to_index[r.uuid] # 0 THEN uuid_to_index[r.uuid]
  ELSE IF r.mac # None THEN mac_to_index[r.mac] ELSE 0

(* Mutant: "not found" taken for the first vertex. *)
exists_or_first(r) ==
  IF ip_to_index[r.ip] # 0 \/ nodes = <<>> THEN ip_to_index[r.ip] ELSE 1

(* exists: the switch port decides first, then the address, then the MAC. *)
exists(r) ==
  LET byUuid == IF r.uuid = None THEN 0 ELSE uuid_to_index[r.uuid]
      byIp   == IF r.ip = None THEN 0 ELSE ip_to_index[r.ip]
      byMac  == IF r.mac = None THEN 0 ELSE mac_to_index[r.mac]
  IN IF byUuid # 0 THEN byUuid ELSE IF byIp # 0 THEN byIp ELSE byMac

(* The number of the next vertex, and a mutant that counts after the use. *)
next_vertex_late == Len(nodes)

next_vertex == Len(nodes) + 1

(* add_node: a vertex with what the request carries, not yet an OpenFlow one *)
new_attr(r) ==
  [uuid |-> r.uuid, ip |-> r.ip, mac |-> r.mac,
   isOF |-> FALSE, isValid |-> check_valid_attr(r)]

(* The early return of update_node: a complete vertex learns only ports. *)
no_field_to_update(a, r) == a.isValid /\ r.uuid = None

(* Mutant: the address is written into the MAC field. *)
filled_swapped(a, r) ==
  [a EXCEPT !.mac  = IF @ = None THEN r.ip ELSE @,
            !.uuid = IF r.uuid # None THEN r.uuid ELSE @,
            !.isOF = @ \/ r.uuid # None]

(* The rest of update_node: address and MAC are written once, the port     *)
(* whenever it is given.                                                   *)
filled(a, r) ==
  LET b == [a EXCEPT !.ip   = IF @ = None THEN r.ip ELSE @,
                     !.mac  = IF @ = None THEN r.mac ELSE @,
                     !.uuid = IF r.uuid # None THEN r.uuid ELSE @,
                     !.isOF = @ \/ r.uuid # None]
  IN [b EXCEPT !.isValid = @ \/ check_valid_attr(b)]

(* update_node: find the vertex or make one, then write what is missing and *)
(* enter the vertex in the dictionaries under each value it has just got.   *)
update_node(r) ==
  LET found == exists(r)
      v     == IF found = 0 THEN next_vertex ELSE found
      a     == IF found = 0 THEN new_attr(r) ELSE nodes[found]
      b     == IF no_field_to_update(a, r) THEN a ELSE filled(a, r)
      gets(old, new) == new # None /\ (found = 0 \/ old = None)
  IN /\ nodes' = IF found = 0 THEN Append(nodes, b) ELSE [nodes EXCEPT ![v] = b]
     /\ ip_to_index'  = IF gets(a.ip, b.ip)
                        THEN [ip_to_index EXCEPT ![b.ip] = v] ELSE ip_to_index
     /\ mac_to_index' = IF gets(a.mac, b.mac)
                        THEN [mac_to_index EXCEPT ![b.mac] = v] ELSE mac_to_index
     /\ uuid_to_index' = IF r.uuid # None
                         THEN [uuid_to_index EXCEPT ![r.uuid] = v]
                         ELSE uuid_to_index

-----------------------------------------------------------------------------
Init ==
  /\ nodes = <<>>
  /\ ip_to_index = [a \in Ip |-> 0]
  /\ mac_to_index = [m \in Mac |-> 0]
  /\ uuid_to_index = [u \in Uuid |-> 0]
  /\ arpTable = [a \in Ip |-> None]
  /\ todo = <<>>

net == <<nodes, ip_to_index, mac_to_index, uuid_to_index>>

(* One call of update_node of the running handler. *)
Step ==
  /\ todo # <<>>
  /\ update_node(Head(todo))
  /\ todo' = Tail(todo)
  /\ UNCHANGED arpTable

(* ARP request, or an OLSR message: the sender's pair is learnt the first   *)
(* time it is seen.  A known address is only compared with the table.       *)
LearnSender(i) ==
  /\ todo = <<>>
  /\ arpTable[IpOf[i]] = None
  /\ arpTable' = [arpTable EXCEPT ![IpOf[i]] = MacOf[i]]
  /\ todo' = <<IpAndMac(i)>>
  /\ UNCHANGED net

(* ARP reply: the sender, then the target, each only if it is new. *)
LearnReply(i, j) ==
  LET new(k) == IF arpTable[IpOf[k]] = None THEN <<IpAndMac(k)>> ELSE <<>>
  IN /\ todo = <<>>
     /\ i # j
     /\ arpTable' = [arpTable EXCEPT ![IpOf[i]] = IF @ = None THEN MacOf[i] ELSE @,
                                      ![IpOf[j]] = IF @ = None THEN MacOf[j] ELSE @]
     /\ todo' = new(i) \o new(j)
     /\ UNCHANGED net

(* Any other IPv4 packet-in, and every flow-removed message: both end       *)
(* points are entered by address alone.                                     *)
LearnEndPoints(i, j) ==
  /\ todo = <<>>
  /\ i # j
  /\ todo' = <<IpOnly(i), IpOnly(j)>>
  /\ UNCHANGED <<net, arpTable>>

(* A switch's experimenter message: parse_message walks its ports, and    *)
(* after each port the neighbours that the port hears.                     *)
ParseMessage(msg) ==
  /\ todo = <<>>
  /\ todo' = msg
  /\ UNCHANGED <<net, arpTable>>

Next ==
  \/ Step
  \/ \E i \in Iface : LearnSender(i)
  \/ \E i, j \in Iface : LearnReply(i, j)
  \/ \E i, j \in Iface : LearnEndPoints(i, j)
  \/ \E msg \in Reports : ParseMessage(msg)

Spec == Init /\ [][Next]_vars

-----------------------------------------------------------------------------
Vertex == 1 .. Len(nodes)

(* Every value has its type; what is queued is about interfaces. *)
TypeOK ==
  /\ nodes \in Seq(Attr)
  /\ ip_to_index \in [Ip -> Nat]
  /\ mac_to_index \in [Mac -> Nat]
  /\ uuid_to_index \in [Uuid -> Nat]
  /\ arpTable \in [Ip -> Mac \cup {None}]
  /\ todo \in Seq(UNION {About(i) : i \in Iface})

(* The attributes of vertex v are those of interface i. *)
Owns(i, v) ==
  /\ nodes[v].ip = IpOf[i]
  /\ nodes[v].mac \in {None, MacOf[i]}
  /\ nodes[v].uuid \in {None, UuidOf[i]}

(* Each dictionary of class Net leads to a vertex that carries the value,   *)
(* and every vertex is found under each value it carries: exists and        *)
(* update_node give the same vertex whichever piece of identity they get.   *)
IndexMapsAgree ==
  /\ \A a \in Ip : ip_to_index[a] # 0 =>
       ip_to_index[a] \in Vertex /\ nodes[ip_to_index[a]].ip = a
  /\ \A m \in Mac : mac_to_index[m] # 0 =>
       mac_to_index[m] \in Vertex /\ nodes[mac_to_index[m]].mac = m
  /\ \A u \in Uuid : uuid_to_index[u] # 0 =>
       uuid_to_index[u] \in Vertex /\ nodes[uuid_to_index[u]].uuid = u
  /\ \A v \in Vertex :
       /\ nodes[v].ip # None => ip_to_index[nodes[v].ip] = v
       /\ nodes[v].mac # None => mac_to_index[nodes[v].mac] = v
       /\ nodes[v].uuid # None => uuid_to_index[nodes[v].uuid] = v

(* In whatever order the ARP, OLSR, IPv4 and experimenter messages about an *)
(* interface arrive, they end in one vertex, and no vertex mixes two        *)
(* interfaces.                                                              *)
OneVertexPerInterface ==
  /\ \A v \in Vertex : \E i \in Iface : Owns(i, v)
  /\ \A v, w \in Vertex, i \in Iface : Owns(i, v) /\ Owns(i, w) => v = w

(* The flags agree with the attributes: isOF marks exactly the vertices     *)
(* with a switch port, and such a vertex is complete, so a rule for it has  *)
(* a MAC to match and a port to leave by.                                   *)
FlagsAgree ==
  \A v \in Vertex :
    /\ nodes[v].isOF <=> nodes[v].uuid # None
    /\ nodes[v].isValid <=> check_valid_attr(nodes[v])
    /\ nodes[v].isOF => nodes[v].isValid

(* Between handlers, every pair the C++ side has learnt is in the graph: it *)
(* never asks again, so a pair lost here would stay unknown.                *)
ArpTableInGraph ==
  todo = <<>> =>
    \A a \in Ip : arpTable[a] # None =>
      /\ ip_to_index[a] # 0
      /\ nodes[ip_to_index[a]].mac = arpTable[a]

KeepsIdentity ==
  \A v \in Vertex :
    /\ v \in DOMAIN nodes'
    /\ nodes'[v].ip = nodes[v].ip
    /\ nodes[v].mac # None => nodes'[v].mac = nodes[v].mac
    /\ nodes[v].uuid # None => nodes'[v].uuid = nodes[v].uuid
    /\ nodes[v].isOF => nodes'[v].isOF

(* A vertex number is never reused and what is known of a vertex is never   *)
(* changed or forgotten: flow records keep vertex numbers across handlers.  *)
IdentityIsPermanent == [][KeepsIdentity]_vars
=============================================================================
