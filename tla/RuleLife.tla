------------------------------ MODULE RuleLife ------------------------------
(***************************************************************************)
(* The life of one flow's records in the controller and of its rules in    *)
(* the switch that asks for them: process_packet_in, process_idle_timeout, *)
(* process_hard_timeout and the recalculations of the controller, the flow *)
(* table of the switch, and the OpenFlow connection between the two.       *)
(*                                                                         *)
(* A rule matches the flow's addresses and the MAC of the interface that   *)
(* hands the packets over.  Both directions of the connection keep their   *)
(* order, but a packet may reach the switch while the answer to an earlier *)
(* one is under way.  Atlas has the paths; FlowTable the lists of the      *)
(* table; here they are reduced to what ties a record to its rules.        *)
(***************************************************************************)
EXTENDS EntryLists

CONSTANTS
  Trans,      \* interfaces that hand packets of the flow to the switch
  portOf,     \* the port each of them is heard on
  FirstPort,  \* the port HandleFlowRemoved takes for the switch
  Outcome,    \* states of calculated paths: "HAS_PATH", "LEGACY"
  Modulus,    \* values of a rule's priority field
  Idle, Hard, \* timeouts of a rule
  MaxPriority, MaxRecords, MaxQueue   \* bounds

ASSUME RuleLifeAssumption ==
  /\ Outcome \subseteq {"HAS_PATH", "LEGACY"}
  /\ Modulus \in Nat \ {0} /\ Idle \in Nat \ {0} /\ Hard \in Nat \ {0}
  /\ MaxPriority \in Nat \ {0} /\ MaxRecords \in Nat /\ MaxQueue \in Nat

VARIABLES
  records,   \* the keys of the flow in Routes.flows, oldest first
  priority,  \* Routes.priority
  down,      \* flow-mods on their way to the switch
  table,     \* the flow's rules in the order a lookup meets them
  up,        \* packet-ins and flow-removed messages on their way
  traffic    \* whether packets of the flow still come

life_vars == <<records, priority, down, table, up, traffic>>

-----------------------------------------------------------------------------
LifeInit ==
  /\ records = <<>> /\ priority = 1
  /\ down = <<>> /\ table = <<>> /\ up = <<>>
  /\ traffic = TRUE

(* Bounds on what comes from outside, packets and reports: the handlers and *)
(* the table are never kept from doing their part.                          *)
packet_ins == Cardinality({i \in DOMAIN up : up[i].kind = "packet_in"})
within ==
  /\ priority + packet_ins < MaxPriority
  /\ Len(up) + Len(down) < MaxQueue

Record(t, state) == [sdn_node_req |-> portOf[t], transmitter |-> t, state |-> state]

-----------------------------------------------------------------------------
(* The switch. *)

(* The rules a packet from t meets before the table-miss entry, which has   *)
(* priority 0 and is older than the others of that priority.                *)
matching(t) == {i \in DOMAIN table : table[i].from = t /\ table[i].n % Modulus > 0}

(* flow_table_lookup *)
Hit(t) ==
  /\ traffic /\ matching(t) # {}
  /\ table' = [table EXCEPT ![Min(matching(t))].age = 0]
  /\ UNCHANGED <<records, priority, down, up, traffic>>

Miss(t) ==
  /\ traffic /\ matching(t) = {}
  /\ within /\ Len(records) + packet_ins < MaxRecords
  /\ up' = Append(up, [kind |-> "packet_in", from |-> t])
  /\ UNCHANGED <<records, priority, down, table, traffic>>

(* Mutant: a rule goes behind all others. *)
flow_table_flow_mod_last ==
  /\ down # <<>>
  /\ table' = Append(table, [n |-> Head(down).n, from |-> Head(down).from, age |-> 0, life |-> 0])
  /\ down' = Tail(down)
  /\ UNCHANGED <<records, priority, up, traffic>>

(* A flow-mod arrives; all are adds.  flow_table_add: a rule of the same    *)
(* match and priority is replaced, and nobody is told; others go behind     *)
(* those of their priority.                                                 *)
flow_table_flow_mod ==
  /\ down # <<>>
  /\ LET new  == [n |-> Head(down).n, from |-> Head(down).from, age |-> 0, life |-> 0]
         prio(r) == r.n % Modulus
         same == {i \in DOMAIN table : table[i].from = new.from /\ prio(table[i]) = prio(new)}
         less == {r \in Range(table) : prio(r) < prio(new)}
     IN table' = IF same # {} THEN [table EXCEPT ![Min(same)] = new]
                 ELSE InsertAt(table, FirstIn(table, less), new)
  /\ down' = Tail(down)
  /\ UNCHANGED <<records, priority, up, traffic>>

(* flow_table_timeout: those over their hard timeout first, then the idle. *)
pipeline_timeout ==
  LET hard == {r \in Range(table) : r.life > Hard}
      idle == {r \in Range(table) : r.age > Idle} \ hard
      told(rs, why) == [i \in DOMAIN rs |-> [kind |-> why, from |-> rs[i].from]]
      notices == told(Keep(table, hard), "HARD_TIMEOUT") \o told(Keep(table, idle), "IDLE_TIMEOUT")
  IN /\ notices # <<>>
     /\ up' = up \o notices
     /\ table' = Keep(table, Range(table) \ (hard \cup idle))
     /\ UNCHANGED <<records, priority, down, traffic>>

(* Mutant: timeouts are looked for as packets pass. *)
DatapathTimeout_passing == traffic /\ pipeline_timeout

(* DatapathTimeout comes by itself, every datapath interval. *)
DatapathTimeout == pipeline_timeout

(* Time passes; beyond the timeouts it makes no difference. *)
RulesAge ==
  /\ table # <<>>
  /\ table' = [i \in DOMAIN table |->
                 [table[i] EXCEPT !.age = Min({@ + 1, Idle + 1}), !.life = Min({@ + 1, Hard + 1})]]
  /\ UNCHANGED <<records, priority, down, up, traffic>>

StopTraffic ==
  /\ traffic /\ traffic' = FALSE
  /\ UNCHANGED <<records, priority, down, table, up>>

-----------------------------------------------------------------------------
(* The controller. *)

(* The rule of a calculated path at this switch.  The counter stays where   *)
(* it is after the rule of a path that was not found.                       *)
order(t, counted, sent) ==
  /\ down' = IF sent THEN Append(down, [n |-> priority, from |-> t]) ELSE down
  /\ priority' = IF counted THEN priority + 1 ELSE priority

is(kind) == up # <<>> /\ Head(up).kind = kind

(* process_packet_in: the oldest key is dropped if it has a path, and a new *)
(* one added.                                                               *)
process_packet_in ==
  /\ is("packet_in")
  /\ LET t == Head(up).from
         kept == IF records # <<>> /\ Head(records).state # "LEGACY" THEN Tail(records) ELSE records
     IN \E o \in Outcome :
          /\ records' = Append(kept, Record(t, o))
          /\ order(t, o = "HAS_PATH", TRUE)
  /\ up' = Tail(up)
  /\ UNCHANGED <<table, traffic>>

(* process_idle_timeout: delete_path_req of the oldest key, if the port     *)
(* that asked is the first one of the switch.                               *)
process_idle_timeout ==
  /\ is("IDLE_TIMEOUT")
  /\ up' = Tail(up)
  /\ records' = IF records # <<>> /\ Head(records).sdn_node_req = FirstPort
                THEN Tail(records) ELSE records
  /\ UNCHANGED <<priority, down, table, traffic>>

(* process_hard_timeout: del_key of the oldest key. *)
process_hard_timeout ==
  /\ is("HARD_TIMEOUT")
  /\ up' = Tail(up)
  /\ records' = IF records # <<>> THEN Tail(records) ELSE records
  /\ UNCHANGED <<priority, down, table, traffic>>

(* The recalculation of one key after a report.  serialize_OPF_rules loses  *)
(* the first of all orders, which may be the rule of this switch.           *)
recalculation ==
  /\ within
  /\ \E k \in DOMAIN records, o \in Outcome, sent \in BOOLEAN :
    /\ records' = [records EXCEPT ![k].state = o]
    /\ order(records[k].transmitter, o = "HAS_PATH" \/ records[k].state = "HAS_PATH", sent)
    /\ UNCHANGED <<table, up, traffic>>

Controller == process_packet_in \/ process_idle_timeout \/ process_hard_timeout

LifeNext ==
  \/ \E t \in Trans : Hit(t) \/ Miss(t)
  \/ flow_table_flow_mod \/ DatapathTimeout \/ RulesAge \/ StopTraffic
  \/ Controller \/ recalculation

(* The simulator delivers every message, its time does not stop, and        *)
(* DatapathTimeout reschedules itself.  Nothing is assumed of packets and   *)
(* reports.                                                                 *)
LifeSpec ==
  /\ LifeInit /\ [][LifeNext]_life_vars
  /\ WF_life_vars(Controller) /\ WF_life_vars(flow_table_flow_mod)
  /\ WF_life_vars(DatapathTimeout) /\ WF_life_vars(RulesAge)

-----------------------------------------------------------------------------
(* Records, rules and messages are of the flow's interfaces; rules have the *)
(* priorities given so far.                                                 *)
LifeTypeOK ==
  /\ records \in Seq([sdn_node_req : {portOf[t] : t \in Trans}, transmitter : Trans,
                      state : {"HAS_PATH", "LEGACY"}])
  /\ priority \in 1 .. MaxPriority
  /\ down \in Seq([n : 1 .. priority, from : Trans])
  /\ table \in Seq([n : 1 .. priority, from : Trans, age : 0 .. Idle + 1, life : 0 .. Hard + 1])
  /\ up \in Seq([kind : {"packet_in", "IDLE_TIMEOUT", "HARD_TIMEOUT"}, from : Trans])

(* Of the rules that match a packet, a lookup finds the one ordered last:   *)
(* "incremental variable" makes a newer rule win over an older one, in      *)
(* whatever order rules were made, replaced and timed out.                  *)
NewestRuleWins ==
  \A i, j \in DOMAIN table :
    table[i].from = table[j].from /\ i < j => table[i].n > table[j].n

(* "remove flow if idle time reached!": when no more packets come, the      *)
(* controller forgets the flow, if it was always asked for through the      *)
(* first port of the switch and always had a path.  Of a record of another  *)
(* port no notice of an idle rule is taken, and the rules of records        *)
(* without a path replace each other, so fewer end than records were made.  *)
Forgotten ==
  [](\A i \in DOMAIN records :
       records[i].sdn_node_req = FirstPort /\ records[i].state = "HAS_PATH")
    => (~traffic ~> records = <<>>)
=============================================================================
