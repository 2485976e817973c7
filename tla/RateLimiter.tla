----------------------------- MODULE RateLimiter -----------------------------
(***************************************************************************)
(* How ATLAS makes room for a flow: adjust_existing_flows and              *)
(* update_orders_rate_limiter (routing.py), with the helpers of            *)
(* routing_utils.py and the meter orders of orders_str.py, as called by    *)
(* path_calculation and by recalculations, and the meter tables of the     *)
(* switches (udatapath/meter_table.c) that get the orders.                 *)
(*                                                                         *)
(* Bandwidths are in units of which og_bw is a multiple of ten.  The paths *)
(* a flow may be given are a constant: Atlas and PathSearch tell which.    *)
(* Orders reach a switch in the order they are issued (one TCP connection  *)
(* each), so a handler and the execution of its orders are one step.       *)
(***************************************************************************)
EXTENDS PathOrders, EntryLists, Integers, Functions

CONSTANTS
  Flow,
  og_bw,     \* the data rate each flow asks for
  Prio,      \* service priority of each flow, lower is more important
  Trans,     \* the vertex that hands each flow to its first switch
  Paths,     \* the paths each flow may get, from the switch port that asks
  max_C,     \* capacity of each vertex
  Avbw,      \* available bandwidths a switch may report
  RECALCULATION_LEVEL,
  Vertex0,   \* the vertex the controller has numbered 0
  MaxFlows, MaxMeters   \* bounds

ASSUME RateLimiterAssumption ==
  /\ og_bw \in [Flow -> {n \in Nat : n > 0 /\ n % 10 = 0}]
  /\ Prio \in [Flow -> Nat] /\ Trans \in [Flow -> V]
  /\ \A f \in Flow : Paths[f] \subseteq Route /\ \A p \in Paths[f] : dpOf[p[1]] # None
  /\ None \notin Nat \cup V
  /\ max_C \in [V -> Nat] /\ Avbw \subseteq Nat \ {0}
  /\ MaxFlows \in Nat /\ MaxMeters \in Nat

VARIABLES
  flows,         \* the keys of Routes.flows, oldest first, each with its path
  avbw,          \* available bandwidth of the vertices of the graph
  meter_counter,
  meters,        \* the rates of the meters of each switch
  sent,          \* the orders of the last handler
  ended          \* the exception that ended the simulation, None while it runs

limiter_vars == <<flows, avbw, meter_counter, meters, sent, ended>>

-----------------------------------------------------------------------------
OF == {v \in V : dpOf[v] # None}
Sw == {dpOf[v] : v \in OF}

(* A key with its path record; a new key has no meter. *)
Key(r, id, bw) ==
  [flow |-> r.flow, sdn_node_req |-> r.sdn_node_req, transmitter |-> r.transmitter,
   path |-> r.path, state |-> r.state, meter_id |-> id, current_bw |-> bw]
FlowKey(f, p) == Key(PathRecord(f, p[1], Trans[f], p), None, 0)

update_meter_id(fs, k, id, bw) == [fs EXCEPT ![k] = [@ EXCEPT !.meter_id = id, !.current_bw = bw]]

get_dataRate(k) == IF k.meter_id = None THEN og_bw[k.flow] ELSE Max({0, k.current_bw})

(* Orders.  A flow-mod may lead through a meter; both meter_mod and         *)
(* meter_mod_modify order a meter to be added.                              *)
flow_mod(r, id) == [kind |-> "flow", at |-> r.at, rule |-> r, meter |-> id]
meter_mod(v, id, rate) == [kind |-> "meter", at |-> v, meter |-> id, rate |-> rate]
flow_mods(rules) == [i \in DOMAIN rules |-> flow_mod(rules[i], None)]

get_min_avbw(p, G) == Min({G[v] : v \in OF \cap Range(Front(p))})

(* The keys with a path through an OpenFlow vertex of p, and those vertices *)
(* by their place in p.                                                     *)
shared(fs, k, p) == {i \in DOMAIN p : p[i] \in OF \cap Range(fs[k].path)}
get_nIdx_to_fkey(fs, p) ==
  {k \in DOMAIN fs : fs[k].state = "HAS_PATH" /\ shared(fs, k, p) # {}}

(* sorted: each of the keys K is inserted before those that go after it.    *)
sorted_keys(K, n, after) ==
  LET s[m \in 0 .. n] ==
        IF m = 0 THEN <<>>
        ELSE IF m \in K THEN InsertAt(s[m - 1], FirstIn(s[m - 1], after[m]), m) ELSE s[m - 1]
  IN s[n]

(* Sorted by priority, data rate and number of shared vertices; the sort is *)
(* stable, so ties stay in the order the keys were met along the path.      *)
filter_and_sort_f_keys(fs, p, sp) ==
  LET K == {k \in get_nIdx_to_fkey(fs, p) : Prio[fs[k].flow] >= sp}
      rank(k) == <<0 - Prio[fs[k].flow], 0 - get_dataRate(fs[k]),
                   0 - Cardinality(shared(fs, k, p)), Min(shared(fs, k, p)), k>>
      before(j, k) == \E n \in 1 .. 5 : /\ rank(j)[n] < rank(k)[n]
                                        /\ \A m \in 1 .. n - 1 : rank(j)[m] = rank(k)[m]
  IN sorted_keys(K, Len(fs), [k \in K |-> {j \in K : before(k, j)}])

(* Key k gives up what is needed, down to a tenth of what it asked for. *)
drop(fs, acc, k) ==
  LET cur    == get_dataRate(fs[k])
      amount == Min({cur - og_bw[fs[k].flow] \div 10, acc.overflow})
  IN IF acc.overflow <= 0 THEN acc
     ELSE [overflow |-> acc.overflow - amount,
           meters |-> Append(acc.meters, [key |-> k, rate |-> cur - amount])]

(* adjust_existing_flows, called when min_avbw is below what is required.   *)
adjust_existing_flows(fs, required, min_avbw, sp, p) ==
  LET keys == filter_and_sort_f_keys(fs, p, sp)
      acc[n \in 0 .. Len(keys)] ==
        IF n = 0 THEN [overflow |-> required - min_avbw, meters |-> <<>>]
        ELSE drop(fs, acc[n - 1], keys[n])
      res == acc[Len(keys)]
  IN [meters |-> res.meters,
      rate_limit |-> IF res.overflow > 0 THEN Max({required - res.overflow, 0}) ELSE None]

(* A calculation in progress: keys, counter, rules still to be ordered,     *)
(* meter orders in front of them, and the exception it raised.              *)
Calculation(fs, counter, rules) ==
  [flows |-> fs, meter_counter |-> counter, orders |-> rules, front |-> <<>>,
   raised |-> None]

(* The key me gets a meter of its own, named in its first rule. *)
limit_own(c, me, rate) ==
  [flows |-> update_meter_id(c.flows, me, c.meter_counter, rate),
   meter_counter |-> c.meter_counter + 1,
   orders |-> <<flow_mod(c.orders[1].rule, c.meter_counter)>> \o Tail(c.orders),
   front |-> <<meter_mod(c.orders[1].at, c.meter_counter, rate)>>,
   raised |-> c.raised]

(* Mutant: the counter is advanced for the meter of the new flow only. *)
limit_other_same(c, me, k, rate) ==
  LET fk  == c.flows[k]
      new == fk.meter_id = None
      id  == IF new THEN c.meter_counter ELSE fk.meter_id
      order == meter_mod(fk.sdn_node_req, id, rate)
      rule == Rule(fk.sdn_node_req, fk.transmitter, c.flows[me].flow, fk.path[1], fk.path[2])
  IN IF c.raised # None THEN c
     ELSE IF new /\ Last(fk.path) = Vertex0 THEN [c EXCEPT !.raised = "AssertionError"]
     ELSE IF new /\ c.orders = <<>> THEN [c EXCEPT !.raised = "IndexError"]
     ELSE [flows |-> update_meter_id([c.flows EXCEPT ![k].meter_id = id], me, id, rate),
           meter_counter |-> c.meter_counter,
           front |-> c.front \o (IF new THEN <<order, flow_mod(rule, id)>> ELSE <<order>>),
           orders |-> IF new /\ c.orders[1].at = fk.sdn_node_req THEN Tail(c.orders) ELSE c.orders,
           raised |-> c.raised]

(* The key k is limited to make room for me.  get_mac_port raises if the    *)
(* path of k leads to the vertex numbered 0, orders[1] if no rule is left.  *)
(* The number and the rate of the meter are stored in me; the rule has the  *)
(* addresses of me, the transmitter and the first two vertices of k.        *)
limit_other(c, me, k, rate) ==
  LET fk  == c.flows[k]
      new == fk.meter_id = None
      id  == IF new THEN c.meter_counter ELSE fk.meter_id
      order == meter_mod(fk.sdn_node_req, id, rate)
      rule == Rule(fk.sdn_node_req, fk.transmitter, c.flows[me].flow, fk.path[1], fk.path[2])
  IN IF c.raised # None THEN c
     ELSE IF new /\ Last(fk.path) = Vertex0 THEN [c EXCEPT !.raised = "AssertionError"]
     ELSE IF new /\ c.orders = <<>> THEN [c EXCEPT !.raised = "IndexError"]
     ELSE [flows |-> update_meter_id([c.flows EXCEPT ![k].meter_id = id], me, id, rate),
           meter_counter |-> IF new THEN c.meter_counter + 1 ELSE c.meter_counter,
           front |-> c.front \o (IF new THEN <<order, flow_mod(rule, id)>> ELSE <<order>>),
           orders |-> IF new /\ c.orders[1].at = fk.sdn_node_req THEN Tail(c.orders) ELSE c.orders,
           raised |-> c.raised]

(* Mutant: the rules are ordered before the meters. *)
rate_limited_orders_last(c) == c.orders \o c.front

(* The orders of a calculation. *)
rate_limited_orders(c) == c.front \o c.orders

(* The loops of update_orders_rate_limiter over the adjustments adj: the    *)
(* meter of me, if it needs one, then those of the flows that give way.     *)
limited(c, me, adj) ==
  LET own == IF adj.rate_limit = None THEN c ELSE limit_own(c, me, adj.rate_limit)
      lim[n \in 0 .. Len(adj.meters)] ==
        IF n = 0 THEN own
        ELSE limit_other(lim[n - 1], me, adj.meters[n].key, adj.meters[n].rate)
  IN lim[Len(adj.meters)]

(* update_orders_rate_limiter, for a path whose first rule has a next hop. *)
update_orders_rate_limiter(c, me, G) ==
  LET key == c.flows[me]
      min_avbw == get_min_avbw(key.path, G)
  IN IF key.state # "HAS_PATH" \/ c.orders[1].rule.out = None \/ min_avbw >= og_bw[key.flow]
     THEN c
     ELSE limited(c, me, adjust_existing_flows(c.flows, og_bw[key.flow], min_avbw,
                                               Prio[key.flow], key.path))

(* Bandwidth taken from the vertices vs by a flow. *)
update_node_avbw_for_flow(G, vs, bw) ==
  [v \in V |-> IF v \in vs THEN Max({0, G[v] - bw}) ELSE G[v]]

(* DpctlExecute of the orders.  meter_table_add refuses a meter that        *)
(* exists.                                                                  *)
meter_table_add(ms, o) ==
  IF o.kind = "flow" \/ o.meter \in DOMAIN ms[dpOf[o.at]] THEN ms
  ELSE [ms EXCEPT ![dpOf[o.at]] = [x \in DOMAIN @ \cup {o.meter} |-> IF x = o.meter THEN o.rate ELSE @[x]]]

(* The meters of the switches after some orders. *)
meters_after(orders) ==
  LET ms[n \in 0 .. Len(orders)] ==
        IF n = 0 THEN meters ELSE meter_table_add(ms[n - 1], orders[n])
  IN ms[Len(orders)]

execute(orders) ==
  /\ sent' = orders
  /\ meters' = meters_after(orders)

(* The handlers print an exception and leave the process. *)
exit(c) == ended' = c.raised

-----------------------------------------------------------------------------
LimiterInit ==
  /\ flows = <<>>
  /\ avbw = max_C
  /\ meter_counter = 1
  /\ meters = [d \in Sw |-> [x \in {} |-> 0]]
  /\ sent = <<>>
  /\ ended = None

KeysOf(f) == {k \in DOMAIN flows : flows[k].flow = f}
get_flow_key(f) == {k \in KeysOf(f) : \A j \in KeysOf(f) : k <= j}

(* The answer to a packet-in: the calculation c of path p for the key me. *)
answer(c, me, p) ==
  /\ exit(c)
  /\ c.meter_counter <= MaxMeters
  /\ flows' = c.flows
  /\ meter_counter' = c.meter_counter
  /\ execute(rate_limited_orders(c))
  /\ avbw' = IF usable_path(p)
             THEN update_node_avbw_for_flow(avbw, OF \cap Range(p), get_dataRate(c.flows[me]))
             ELSE avbw

path_calculation(fs, f) ==
  \E p \in Paths[f] :
    LET me  == Len(fs) + 1
        new == FlowKey(f, p)
        c   == Calculation(Append(fs, new), meter_counter, flow_mods(get_orders_for_path(OF, new)))
    IN answer(update_orders_rate_limiter(c, me, avbw), me, p)

(* A packet-in: recalculate_flow drops the key of a flow that has a path,   *)
(* a flow without one gets another key.                                     *)
process_packet_in(f) ==
  /\ ended = None
  /\ LET old == {k \in get_flow_key(f) : flows[k].state # "LEGACY"}
     IN /\ Len(flows) < MaxFlows + Cardinality(old)
        /\ path_calculation(IF old = {} THEN flows
                            ELSE RemoveAt(flows, CHOOSE k \in old : TRUE), f)

(* A timeout of a rule: the oldest key of the flow is dropped. *)
del_key(f) ==
  /\ ended = None
  /\ \E k \in get_flow_key(f) : flows' = RemoveAt(flows, k)
  /\ sent' = <<>>
  /\ UNCHANGED <<avbw, meter_counter, meters, ended>>

(* get_graph_without_flows: what the other keys leave of the capacities. *)
get_graph_without_flows(keys) ==
  LET G[n \in 0 .. Len(flows)] ==
        IF n = 0 THEN max_C
        ELSE IF n \in keys THEN G[n - 1]
        ELSE update_node_avbw_for_flow(G[n - 1], Range(flows[n].path), get_dataRate(flows[n]))
  IN G[Len(flows)]

(* get_path_calculation_after_break of key k and path p, and the bandwidth  *)
(* taken for the next one.  The key keeps its meter.                        *)
get_path_calculation_after_break(st, k, p) ==
  LET old == st.c.flows[k]
      rec == Key(PathRecord(old.flow, old.sdn_node_req, old.transmitter, p),
                 old.meter_id, old.current_bw)
      c0  == Calculation([st.c.flows EXCEPT ![k] = rec], st.c.meter_counter,
                         flow_mods(orders_after_break(OF, old, rec)))
      c1  == IF st.c.raised # None THEN st.c ELSE update_orders_rate_limiter(c0, k, st.G)
  IN [c |-> c1, orders |-> st.orders \o rate_limited_orders(c1),
      G |-> IF usable_path(p)
            THEN update_node_avbw_for_flow(st.G, Range(p), get_dataRate(c1.flows[k])) ELSE st.G]

(* The keys one after the other, the most important first, from the records *)
(* fs.                                                                      *)
recalculated(fs, keys, new) ==
  LET before(j, k) == \/ Prio[fs[j].flow] < Prio[fs[k].flow]
                      \/ Prio[fs[j].flow] = Prio[fs[k].flow] /\ j < k
      order == sorted_keys(keys, Len(fs), [k \in keys |-> {j \in keys : before(k, j)}])
      st[n \in 0 .. Len(order)] ==
        IF n = 0 THEN [c |-> Calculation(fs, meter_counter, <<>>), orders |-> <<>>,
                       G |-> get_graph_without_flows(keys)]
        ELSE get_path_calculation_after_break(st[n - 1], order[n], new[order[n]])
  IN st[Len(order)]

recalculation(st) ==
  /\ exit(st.c)
  /\ st.c.meter_counter <= MaxMeters
  /\ flows' = st.c.flows
  /\ meter_counter' = st.c.meter_counter
  /\ execute(serialize_OPF_rules(st.orders))

recalculation_of(fs, keys) ==
  \E new \in [keys -> UNION {Paths[f] : f \in Flow}] :
    /\ \A k \in keys : new[k] \in Paths[fs[k].flow]
    /\ recalculation(recalculated(fs, keys, new))

(* check_broken_paths marks the records it reports before any of them is    *)
(* recalculated, so that no flow can be asked to give way to another.       *)
marked_broken(keys) ==
  [k \in DOMAIN flows |-> IF k \in keys THEN [flows[k] EXCEPT !.state = "BROKEN"] ELSE flows[k]]

(* The report of switch d: the available bandwidths b of its ports.  It     *)
(* leads to the recalculation of the flows whose path it breaks, of the     *)
(* flows up to RECALCULATION_LEVEL, or of none.                             *)
parse_experimenter_message(d, b) ==
  /\ ended = None
  /\ avbw' = [v \in V |-> IF v \in DOMAIN b THEN b[v] ELSE avbw[v]]
  /\ \/ UNCHANGED <<flows, meter_counter, meters, ended>> /\ sent' = <<>>
     \/ \E keys \in SUBSET {k \in DOMAIN flows : flows[k].state = "HAS_PATH"} \ {{}} :
          recalculation_of(marked_broken(keys), keys)
     \/ recalculation_of(flows, {k \in DOMAIN flows : Prio[flows[k].flow] <= RECALCULATION_LEVEL})

LimiterNext ==
  \/ \E f \in Flow : process_packet_in(f) \/ del_key(f)
  \/ \E d \in Sw : \E b \in [{v \in OF : dpOf[v] = d} -> Avbw] : parse_experimenter_message(d, b)

LimiterSpec == LimiterInit /\ [][LimiterNext]_limiter_vars

-----------------------------------------------------------------------------
(* Keys with a path and perhaps a meter; bandwidths, rates and counters are *)
(* never negative.                                                          *)
LimiterTypeOK ==
  /\ \A k \in DOMAIN flows :
       /\ flows[k].flow \in Flow /\ flows[k].path \in Paths[flows[k].flow]
       /\ flows[k].meter_id # None => flows[k].meter_id \in Nat
       /\ flows[k].current_bw \in Nat
  /\ avbw \in [V -> Nat]
  /\ \A d \in Sw : \A x \in DOMAIN meters[d] : meters[d][x] \in Nat

(* The number the next meter gets is in use nowhere, whatever keys and      *)
(* switches the numbers given so far have gone to: an order for a new       *)
(* meter is never refused.                                                  *)
MeterIdsFresh ==
  /\ \A d \in Sw : meter_counter \notin DOMAIN meters[d]
  /\ \A k \in DOMAIN flows : flows[k].meter_id # meter_counter

(* A rule that forwards to a switch finds a rule there that takes what      *)
(* arrives, in the same answer, as long as the answer has no meter in it.   *)
(* Only the limiter tears the rules of a path apart: with its meters it     *)
(* takes out the first rule of the new flow and puts in one to the next hop *)
(* of another.  The first rule serialize_OPF_rules loses is one nothing     *)
(* forwards to.                                                             *)
RulesMeet ==
  ended = None /\ (\A i \in DOMAIN sent : sent[i].kind = "flow" /\ sent[i].meter = None) =>
    \A i \in DOMAIN sent :
      LET r == sent[i].rule
      IN /\ r.at \in OF
         /\ r.out \in OF => \E j \in DOMAIN sent : /\ sent[j].rule.at = r.out
                                                    /\ sent[j].rule.from = r.via
                                                    /\ sent[j].rule.flow = r.flow

(* The meters named by rules of an answer that the switch neither has nor   *)
(* is ordered to add before the rule.                                       *)
missing(orders) ==
  {orders[i].meter : i \in
     {i \in DOMAIN orders :
        /\ orders[i].kind = "flow" /\ orders[i].meter # None
        /\ orders[i].meter \notin DOMAIN meters[dpOf[orders[i].at]]
        /\ ~ \E j \in 1 .. i - 1 : /\ orders[j].kind = "meter"
                                   /\ orders[j].meter = orders[i].meter
                                   /\ dpOf[orders[j].at] = dpOf[orders[i].at]}}

(* update_orders_rate_limiter puts the meters in front of the rules: a rule *)
(* a packet-in installs never leads through a meter its switch does not     *)
(* have.  A recalculation may lose one, and no more than one whatever the   *)
(* number of flows: the first order, which serialize_OPF_rules leaves out.  *)
MetersPrecedeRules ==
  [][\/ /\ Cardinality(missing(sent')) <= 1
        /\ (\E f \in Flow : process_packet_in(f)) => missing(sent') = {}
     \/ ended' # None]_limiter_vars

(* "Minimum bandwidth this flow must retain (10% of its original            *)
(* allocation)", says adjust_existing_flows: the answer to a packet-in      *)
(* orders no meter of another flow to less than a tenth of what that flow   *)
(* asked for.  The code does not keep it: update_orders_rate_limiter gives  *)
(* the new flow the number of the meter of the flow that gave way, and the  *)
(* new flow's own turn then orders that meter by its own tenth.             *)
OthersKeepATenth ==
  [][\/ \A i \in DOMAIN sent', k \in 1 .. Len(flows') - 1 :
          sent'[i].kind = "meter" /\ sent'[i].meter = flows'[k].meter_id
            => sent'[i].rate >= og_bw[flows'[k].flow] \div 10
     \/ ended' # None
     \/ ~ \E f \in Flow : process_packet_in(f)]_limiter_vars
=============================================================================
