----------------------------- MODULE PathOrders -----------------------------
(***************************************************************************)
(* The records of calculated paths and the rules that lead a flow along    *)
(* one: class Path (paths.py) and the orders of routing.py.                *)
(***************************************************************************)
EXTENDS GraphPaths, FiniteSets

CONSTANTS
  dpOf,     \* the switch each vertex is a port of, None for a legacy node
  None

(* is_same_dev: two vertices are one device if both are known switch ports *)
(* of one datapath; a legacy vertex is one device with itself only.        *)
is_same_dev(of, u, w) ==
  IF u \in of /\ w \in of THEN dpOf[u] = dpOf[w] ELSE u = w

usable_path(p) == Len(p) > 1

(* A path record: the one Path a key holds, with the key's flow triple.    *)
PathRecord(f, req, trans, p) ==
  [flow |-> f, sdn_node_req |-> req, transmitter |-> trans, path |-> p,
   state |-> IF usable_path(p) THEN "HAS_PATH" ELSE "LEGACY"]

-----------------------------------------------------------------------------
(* Orders.  A rule at a vertex matches a flow arriving from the MAC of      *)
(* another vertex and hands it to the next vertex, by one of the switch's   *)
(* ports (via), or to the switch's own stack (out = None).                  *)
Rule_same_port(u, b, f, via, w) == [at |-> u, from |-> b, flow |-> f, via |-> u, out |-> w]

Rule(u, b, f, via, w) == [at |-> u, from |-> b, flow |-> f, via |-> via, out |-> w]
normal(r) == [r EXCEPT !.via = r.at, !.out = None]

(* Vertex i of the path and the next one are ports of one switch. *)
pair(of, p, i) == i < Len(p) /\ p[i] \in of /\ is_same_dev(of, p[i], p[i + 1])

(* The rule get_orders makes for vertex i, which hears of the flow from the *)
(* vertex before, the first one from the record's transmitter.              *)
rule_at(of, p, trans, f, i) ==
  LET before == IF i = 1 THEN trans ELSE p[i - 1]
      last   == i = Len(p) \/ (pair(of, p, i) /\ i + 1 = Len(p))
  IN IF last THEN Rule(p[i], before, f, p[i], None)
     ELSE IF pair(of, p, i) THEN Rule(p[i], before, f, p[i + 1], p[i + 2])
     ELSE Rule(p[i], before, f, p[i], p[i + 1])

(* get_orders: walk the path; a legacy vertex gets no rule, two vertices of *)
(* one switch share the rule of the first.  rest[m] are the rules of the    *)
(* last m vertices.                                                         *)
get_orders(of, p, trans, f) ==
  LET n == Len(p)
      rest[m \in 0 .. n] ==
        IF m = 0 THEN <<>>
        ELSE (IF p[n + 1 - m] \in of THEN <<rule_at(of, p, trans, f, n + 1 - m)>> ELSE <<>>)
               \o rest[IF pair(of, p, n + 1 - m) THEN m - 2 ELSE m - 1]
  IN rest[n]

(* get_legacy_orders_for_path: the rules of a record's path, all handed to  *)
(* the switches' own routing.                                               *)
get_legacy_orders_for_path(of, r) ==
  LET rules == get_orders(of, r.path, r.transmitter, r.flow)
  IN [j \in DOMAIN rules |-> normal(rules[j])]

(* get_orders_for_path without the packet-out in front. *)
get_orders_for_path(of, r) ==
  IF usable_path(r.path) THEN get_orders(of, r.path, r.transmitter, r.flow)
  ELSE <<Rule(r.sdn_node_req, r.transmitter, r.flow, r.sdn_node_req, None)>>

(* The orders of one recalculated key: rules of the new path, or the old    *)
(* path handed back to the switches' own routing when there is none left.   *)
orders_after_break(of, old, new) ==
  IF usable_path(old.path) /\ ~usable_path(new.path)
  THEN get_legacy_orders_for_path(of, old)
  ELSE get_orders_for_path(of, new)

(* serialize_OPF_rules(flow_mods_only=True) starts at orders[1]. *)
serialize_OPF_rules(orders) == SubSeq(orders, 2, Len(orders))
=============================================================================
