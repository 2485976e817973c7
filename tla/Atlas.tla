-------------------------------- MODULE Atlas --------------------------------
(***************************************************************************)
(* The routing core of the ATLAS controller: the flow records of class     *)
(* Routes (paths.py), the links of the graph (update_graph of exp_msg.py), *)
(* and the handlers that change them: process_packet_in,                   *)
(* process_idle_timeout, process_hard_timeout and                          *)
(* parse_experimenter_message (ryu_controller.py), with the path           *)
(* calculations and recalculations of routing.py they call.  What the      *)
(* handlers answer, orders for switches, is in RateLimiter: the orders and *)
(* meters of update_orders_rate_limiter change no path record.  It may end *)
(* the process with an exception; this module is about one that runs on.   *)
(*                                                                         *)
(* A vertex is named by its interface; NetView shows that the controller's *)
(* vertex numbers are such names.  Edge costs are left out: a calculated   *)
(* path may be any simple path, so what holds here holds for every cost    *)
(* function.  Every handler runs to its end before the next one starts     *)
(* (one simulator thread, and the lock of ryu_controller.py), so each is   *)
(* one action.                                                             *)
(***************************************************************************)
EXTENDS PathOrders, FiniteSetsExt, SequencesExt

CONSTANTS
  Sw,       \* datapath ids of the OpenFlow switches
  FirstPort, \* the port each switch lists first in its messages
  Near,     \* pairs of interfaces that can come into radio range
  Flow,     \* flow triples (source address, destination address, service)
  Dst,      \* the destination vertex of each flow
  Prio,     \* the service priority of each flow, lower is more important
  RECALCULATION_LEVEL,  \* flows above it are left out of periodic recalculation
  EXP_MSG_THRESHOLD,    \* periodic messages of a switch between recalculations
  MaxFlows  \* bound: flow records kept at a time

ASSUME AtlasAssumption ==
  /\ IsFiniteSet(V)
  /\ dpOf \in [V -> Sw \cup {None}] /\ None \notin Sw \cup V
  /\ FirstPort \in [Sw -> V] /\ \A d \in Sw : dpOf[FirstPort[d]] = d
  /\ Near \subseteq {{u, w} : u, w \in V}
  /\ \A e \in Near : \E u, w \in e : u # w /\ (dpOf[u] # dpOf[w] \/ dpOf[u] = None)
  /\ Dst \in [Flow -> V]
  /\ Prio \in [Flow -> Nat]
  /\ RECALCULATION_LEVEL \in Nat
  /\ EXP_MSG_THRESHOLD \in Nat \ {0}
  /\ MaxFlows \in Nat

VARIABLES
  isOF,      \* vertices known to be switch ports: their switch has reported
  links,     \* edges of the graph, as sets of two vertices
  flows,     \* Routes.flows: the path records, in the order of the dict's keys
  counters   \* exp_msg_counters, counted up to the threshold

vars == <<isOF, links, flows, counters>>

-----------------------------------------------------------------------------
(* The ports of each switch. *)
Ports == [d \in Sw |-> {v \in V : dpOf[v] = d}]

(* FlowKey has no __eq__ or __hash__: two keys with one triple are two      *)
(* entries of the dict.  A key is named by its position in insertion order, *)
(* which is the order get_flow_key searches in.                             *)
KeysOf(f) == {k \in DOMAIN flows : flows[k].flow = f}
flow_exists(f) == KeysOf(f) # {}

(* get_flow_key: the oldest key of the flow; the empty set stands for None. *)
get_flow_key(f) == {k \in KeysOf(f) : \A j \in KeysOf(f) : k <= j}

del_key(fs, k) == RemoveAt(fs, k)

(* insert_path under a new key; under a key whose list was cleared, the     *)
(* record takes the old one's place (recalculation, below).                 *)
insert_path(fs, rec) == Append(fs, rec)

-----------------------------------------------------------------------------
Init ==
  /\ isOF = {}
  /\ links = {}
  /\ flows = <<>>
  /\ counters = [d \in Sw |-> 0]

(* path_calculation, for a switch that is not the destination: the record   *)
(* it keeps.                                                                *)
path_calculation(fs, s, f, t) ==
  \E p \in get_best_path(links, s, Dst[f]) :
    flows' = insert_path(fs, PathRecord(f, s, t, p))

(* recalculate_flow: the index of the only path is 0, which "if path_idx"  *)
(* takes for none, so the key is dropped and the path calculated anew.     *)
recalculate_flow(s, f, t) ==
  \E k \in get_flow_key(f) : path_calculation(del_key(flows, k), s, f, t)

(* HandlePacketIn of an IPv4 packet of flow f that port s of a switch got   *)
(* from t and no rule matched.                                              *)
process_packet_in(s, f, t) ==
  /\ s \in isOF /\ {s, t} \in Near
  /\ ~is_same_dev(isOF, s, Dst[f])
  /\ IF \E k \in get_flow_key(f) : flows[k].state # "LEGACY"
     THEN recalculate_flow(s, f, t)
     ELSE /\ Len(flows) < MaxFlows
          /\ path_calculation(flows, s, f, t)
  /\ UNCHANGED <<isOF, links, counters>>

(* Mutant: a path is calculated and kept at the destination's switch too. *)
LocalDelivery_recorded(s, f, t) ==
  /\ s \in isOF /\ {s, t} \in Near
  /\ is_same_dev(isOF, s, Dst[f])
  /\ Len(flows) < MaxFlows
  /\ path_calculation(flows, s, f, t)
  /\ UNCHANGED <<isOF, links, counters>>

(* HandlePacketIn at the destination's own switch: a rule, no record. *)
LocalDelivery(s, f, t) ==
  /\ s \in isOF /\ {s, t} \in Near
  /\ is_same_dev(isOF, s, Dst[f])
  /\ UNCHANGED vars

(* HandleFlowRemoved names switch d by its first port.                      *)
(* process_idle_timeout: delete_path_req drops the path of the oldest key   *)
(* of the flow if that port is the vertex that asked for it.                *)
process_idle_timeout(d, f) ==
  /\ \E k \in get_flow_key(f) :
       /\ flows[k].sdn_node_req = FirstPort[d]
       /\ flows' = del_key(flows, k)
  /\ UNCHANGED <<isOF, links, counters>>

(* process_hard_timeout: del_key of the oldest key, whoever lost the rule.  *)
process_hard_timeout(f) ==
  /\ \E k \in get_flow_key(f) : flows' = del_key(flows, k)
  /\ UNCHANGED <<isOF, links, counters>>

-----------------------------------------------------------------------------
(* The experimenter message of switch d that names the links R.            *)

(* Mutant: the second loop starts at the first index, not after it. *)
SameDevLinks_loops == [d \in Sw |-> {{u, w} : u, w \in Ports[d]}]

(* The edges parse_message puts between the ports of one switch. *)
SameDevLinks ==
  [d \in Sw |-> {{u, w} : u, w \in Ports[d]} \ {{v} : v \in V}]

(* get_neigh_edges_from *)
get_neigh_edges_from(d) == {e \in links : e \cap Ports[d] # {}} \ SameDevLinks[d]

deleted_edges(d, R) == get_neigh_edges_from(d) \ R

update_graph(d, R) == (links \cup SameDevLinks[d] \cup R) \ deleted_edges(d, R)

(* Mutant: the last edge of a path is not looked at. *)
check_broken_paths_short(deleted) ==
  {k \in DOMAIN flows : /\ flows[k].state # "LEGACY"
                        /\ Edges(Front(flows[k].path)) \cap deleted # {}}

(* check_broken_paths *)
check_broken_paths(deleted) ==
  {k \in DOMAIN flows : /\ flows[k].state # "LEGACY"
                        /\ Edges(flows[k].path) \cap deleted # {}}

(* Mutant: the level itself is left out. *)
periodic_keys_below == {k \in DOMAIN flows : Prio[flows[k].flow] < RECALCULATION_LEVEL}

periodic_keys == {k \in DOMAIN flows : Prio[flows[k].flow] <= RECALCULATION_LEVEL}

(* Mutant: a flow whose path broke is dropped. *)
recalculation_dropping(keys, E) == \E k \in keys : flows' = del_key(flows, k)

(* topology_recalculation and periodic_recalculation of the given keys:     *)
(* each gets a path over the links E from the vertex that asked for it.     *)
(* The order they are taken in matters to costs and bandwidths only.        *)
recalculation(keys, E) ==
  LET best == UNION {{k} \X get_best_path(E, flows[k].sdn_node_req, Dst[flows[k].flow])
                       : k \in keys}
  IN \E new \in [keys -> {c[2] : c \in best}] :
       /\ \A k \in keys : <<k, new[k]>> \in best
       /\ flows' = [k \in DOMAIN flows |->
                      IF k \in keys
                      THEN PathRecord(flows[k].flow, flows[k].sdn_node_req,
                                      flows[k].transmitter, new[k])
                      ELSE flows[k]]

(* The links a switch can report: it hears interfaces near its ports. *)
Hearable == [d \in Sw |-> {e \in Near : e \cap Ports[d] # {}}]

(* Periodic messages count; every message is checked against the threshold, *)
(* unless it broke a path, in which case the handler returns before.  Only  *)
(* "at least the threshold" is ever asked, so the count stops there.        *)
count(d, periodic) ==
  IF periodic THEN Min({counters[d] + 1, EXP_MSG_THRESHOLD}) ELSE counters[d]

(* Mutant: only the first port of the message becomes an OpenFlow vertex. *)
parse_message_first(d, R) ==
  /\ isOF' = isOF \cup {FirstPort[d]}
  /\ links' = update_graph(d, R)

(* parse_message: the ports and neighbours named become vertices (here they *)
(* all exist), the ports known ones, and the links are brought up to date.  *)
parse_message(d, R) ==
  /\ isOF' = isOF \cup Ports[d]
  /\ links' = update_graph(d, R)

BreakingReport(d, R, periodic) ==
  LET broken == check_broken_paths(deleted_edges(d, R))
  IN /\ parse_message(d, R)
     /\ broken # {}
     /\ counters' = [counters EXCEPT ![d] = count(d, periodic)]
     /\ recalculation(broken, links')

ThresholdReport(d, R, periodic) ==
  /\ parse_message(d, R)
  /\ check_broken_paths(deleted_edges(d, R)) = {}
  /\ count(d, periodic) >= EXP_MSG_THRESHOLD
  /\ counters' = [c \in Sw |-> 0]
  /\ recalculation(periodic_keys, links')

QuietReport(d, R, periodic) ==
  /\ parse_message(d, R)
  /\ check_broken_paths(deleted_edges(d, R)) = {}
  /\ count(d, periodic) < EXP_MSG_THRESHOLD
  /\ counters' = [counters EXCEPT ![d] = count(d, periodic)]
  /\ UNCHANGED flows

parse_experimenter_message(d, R, periodic) ==
  \/ BreakingReport(d, R, periodic)
  \/ ThresholdReport(d, R, periodic)
  \/ QuietReport(d, R, periodic)

Next ==
  \/ \E s, t \in V, f \in Flow : process_packet_in(s, f, t)
  \/ \E s, t \in V, f \in Flow : LocalDelivery(s, f, t)
  \/ \E d \in Sw, f \in Flow : process_idle_timeout(d, f)
  \/ \E f \in Flow : process_hard_timeout(f)
  \/ \E d \in Sw, periodic \in BOOLEAN : \E R \in SUBSET Hearable[d] :
       parse_experimenter_message(d, R, periodic)

Spec == Init /\ [][Next]_vars

(* PeriodicCheckStats reschedules itself for the length of the simulation,  *)
(* so periodic messages never stop.  Nothing is assumed of packets,         *)
(* timeouts or episodic messages.                                           *)
PeriodicReport ==
  \E d \in Sw : \E R \in SUBSET Hearable[d] :
    parse_experimenter_message(d, R, TRUE)

FairSpec == Spec /\ WF_vars(PeriodicReport)

-----------------------------------------------------------------------------
Record == [flow : Flow, sdn_node_req : V, transmitter : V, path : Route,
           state : {"HAS_PATH", "LEGACY"}]

(* Links join two different vertices; keys lead to records with a settled   *)
(* state (START and BROKEN exist only inside a handler).                    *)
TypeOK ==
  /\ isOF \subseteq V
  /\ links \subseteq Pairs
  /\ flows \in Seq(Record) /\ Len(flows) <= MaxFlows
  /\ counters \in [Sw -> 0 .. EXP_MSG_THRESHOLD]

(* Whatever reports, packet-ins and timeouts have happened, a record that   *)
(* has a path leads from the port that asked to the destination over links  *)
(* the graph holds now; a record without a path is marked LEGACY.           *)
RoutesAreLive ==
  \A k \in DOMAIN flows :
    LET r == flows[k]
    IN /\ r.path[1] = r.sdn_node_req
       /\ r.state = "HAS_PATH" <=> Len(r.path) > 1
       /\ r.state = "HAS_PATH" =>
            r.path[Len(r.path)] = Dst[r.flow] /\ Edges(r.path) \subseteq links

(* Every link has an end at a reported switch: multi_variable_v2 compares   *)
(* datapath ids, and two legacy vertices would pass for one device.         *)
LinksTouchSwitches == \A e \in links : e \cap isOF # {}

(* Who asks for a path is a known switch port, and not one of the           *)
(* destination's device: the assertions of recalculate_flow hold.           *)
RequestersAreRemote ==
  \A k \in DOMAIN flows :
    /\ flows[k].sdn_node_req \in isOF
    /\ ~is_same_dev(isOF, flows[k].sdn_node_req, Dst[flows[k].flow])

(* Only a timeout makes the controller forget a flow; packet-ins and        *)
(* reports replace its path but keep a record of it.                        *)
OnlyTimeoutsForget ==
  [][\A f \in Flow :
       flow_exists(f) /\ ~flow_exists(f)' =>
         process_hard_timeout(f) \/ \E d \in Sw : process_idle_timeout(d, f)]_vars

Reachable(k) ==
  \E p \in Route : /\ p[1] = flows[k].sdn_node_req
                   /\ p[Len(p)] = Dst[flows[k].flow]
                   /\ Edges(p) \subseteq links

(* If the links stop changing, the periodic recalculation ends in a state   *)
(* where no flow it covers is left to legacy routing while a path exists.   *)
RoutesConverge ==
  <>[][links' = links]_vars =>
    <>[](\A k \in DOMAIN flows :
           Prio[flows[k].flow] <= RECALCULATION_LEVEL /\ flows[k].state = "LEGACY"
             => ~Reachable(k))
=============================================================================
