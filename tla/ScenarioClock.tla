---------------------------- MODULE ScenarioClock ----------------------------
(***************************************************************************)
(* The settings of the ATLAS controller and the scenario that changes them *)
(* in the course of a simulation: start, receive_clock and                 *)
(* get_config_for_time of ryu_controller.py, config_manager.py, the        *)
(* priority of a FlowKey (paths.py) and the clock of                       *)
(* CallPythonWithTime (model/utils.cc).                                    *)
(*                                                                         *)
(* The scenario file maps timestamps, which are text, to configurations.   *)
(* A timestamp is a time and the way it is written: "float" is the way     *)
(* Python writes the number ("5.0"), "other" any other way ("5").  The     *)
(* file names flows by addresses, the controller by vertices.              *)
(***************************************************************************)
EXTENDS Naturals, FiniteSets, FiniteSetsExt, Sequences, SequencesExt

CONSTANTS
  Service,
  ServicePrio, \* priority of each service in service_types.yaml
  W,           \* weights of each service in service_types.yaml
  TechCost,    \* tech_cost of Routes.__init__
  Gama,        \* gama of Routes.__init__
  Value,       \* weights, costs and gamas a scenario may set
  Address, Vertex,
  Scenario,    \* the scenario files considered
  Second,      \* units of time between two calls of receive_clock
  MaxFlows, MaxTime   \* bounds

Triple(names) == names \X names \X Service
Timestamp == [time : 0 .. MaxTime, written : {"float", "other"}]

ASSUME ScenarioAssumption ==
  /\ ServicePrio \in [Service -> Nat]
  /\ W \in [Service -> Value] /\ Gama \in Value
  /\ Address \cap Vertex = {}
  /\ Second \in Nat \ {0} /\ MaxFlows \in Nat /\ MaxTime \in Nat
  /\ \A sce \in Scenario :
       /\ DOMAIN sce \subseteq Timestamp
       /\ \A x \in DOMAIN sce : \A v, w \in sce[x].gama : v = w   \* a gama or none

VARIABLES
  now,
  call_due,         \* time of the next call of receive_clock
  sce_routing_vars, \* the scenario, as loaded by start
  thetas, gama, tech_cost,
  config_flows,     \* config["flows"]: priorities by address triple
  flows             \* the keys of Routes.flows, oldest first

settings == <<thetas, gama, tech_cost, config_flows>>
clock_vars == <<now, call_due, sce_routing_vars, settings, flows>>

-----------------------------------------------------------------------------
(* start, and the constructors it calls.  The first call of receive_clock   *)
(* follows at once.                                                         *)
ClockInit ==
  /\ now = 0 /\ call_due = 0
  /\ sce_routing_vars \in Scenario
  /\ thetas = W /\ gama = Gama /\ tech_cost = TechCost
  /\ config_flows = [x \in {} |-> 0]
  /\ flows = <<>>

(* get_config_for_time: the timestamps equal to the time asked for.  The    *)
(* configuration is then looked up under the time as Python writes it; one  *)
(* that is written otherwise raises a KeyError, which receive_clock prints. *)
get_config_for_time(t) == {x \in DOMAIN sce_routing_vars : x.time = t}
looked_up(t) == [time |-> t, written |-> "float"]

(* get_flow_key: the oldest key of the triple; the empty set is None. *)
KeysOf(tr) == {k \in DOMAIN flows : flows[k].triple = tr}
get_flow_key(tr) == {k \in KeysOf(tr) : \A j \in KeysOf(tr) : k <= j}

(* dict.update: the entries of e, and those of d it does not name. *)
update(d, e) ==
  [x \in DOMAIN d \cup DOMAIN e |-> IF x \in DOMAIN e THEN e[x] ELSE d[x]]

(* Mutant: a technology keeps the cost it has. *)
apply_keep(c) ==
  /\ thetas' = update(thetas, c.theta)
  /\ gama' = IF c.gama = {} THEN gama ELSE CHOOSE v \in c.gama : TRUE
  /\ tech_cost' = update(c.tech_costs, tech_cost)
  /\ config_flows' = update(config_flows, c.flows)
  /\ UNCHANGED flows

(* The body of receive_clock for configuration c.  A part that is missing   *)
(* is empty here.  update_flow enters each triple of "flows" under its      *)
(* addresses; the key with that triple gets the priority too.               *)
apply(c) ==
  /\ thetas' = update(thetas, c.theta)
  /\ gama' = IF c.gama = {} THEN gama ELSE CHOOSE v \in c.gama : TRUE
  /\ tech_cost' = update(tech_cost, c.tech_costs)
  /\ config_flows' = update(config_flows, c.flows)
  /\ flows' = [k \in DOMAIN flows |->
                 IF flows[k].triple \in DOMAIN c.flows /\ k \in get_flow_key(flows[k].triple)
                 THEN [flows[k] EXCEPT !.priority = c.flows[flows[k].triple]]
                 ELSE flows[k]]

(* CallPythonWithTime: receive_clock, and the next call a second later. *)
receive_clock ==
  /\ now = call_due
  /\ call_due' = call_due + Second
  /\ IF get_config_for_time(now) # {} /\ looked_up(now) \in DOMAIN sce_routing_vars
     THEN apply(sce_routing_vars[looked_up(now)])
     ELSE UNCHANGED <<settings, flows>>
  /\ UNCHANGED <<now, sce_routing_vars>>

(* The simulator's time passes; it waits for a call that is due. *)
ClockTick ==
  /\ now < MaxTime /\ now < call_due
  /\ now' = now + 1
  /\ UNCHANGED <<call_due, sce_routing_vars, settings, flows>>

(* get_priority_bw for the triple of a new FlowKey, which is of vertices. *)
get_priority_bw(tr) ==
  IF tr \in DOMAIN config_flows THEN config_flows[tr] ELSE ServicePrio[tr[3]]

FlowKey(tr) == [triple |-> tr, priority |-> get_priority_bw(tr)]

(* A packet-in creates a key, a timeout drops the oldest of a triple. *)
AddKey(tr) ==
  /\ Len(flows) < MaxFlows
  /\ flows' = Append(flows, FlowKey(tr))
  /\ UNCHANGED <<now, call_due, sce_routing_vars, settings>>

del_key(tr) ==
  /\ \E k \in get_flow_key(tr) : flows' = RemoveAt(flows, k)
  /\ UNCHANGED <<now, call_due, sce_routing_vars, settings>>

ClockNext ==
  \/ receive_clock \/ ClockTick
  \/ \E tr \in Triple(Vertex) : AddKey(tr) \/ del_key(tr)

ClockSpec == ClockInit /\ [][ClockNext]_clock_vars

-----------------------------------------------------------------------------
(* Settings have a value for every service and technology the controller    *)
(* was started with, keys for vertices.                                     *)
ClockTypeOK ==
  /\ now \in Nat /\ call_due \in Nat /\ now <= call_due
  /\ thetas \in [Service -> Value] /\ gama \in Value
  /\ tech_cost \in [DOMAIN TechCost -> Value]
  /\ DOMAIN config_flows \subseteq Triple(Address)
  /\ flows \in Seq([triple : Triple(Vertex), priority : Nat])

(* A timestamp get_config_for_time can find: receive_clock comes at that    *)
(* time, and it is written as Python writes it.                             *)
OnTheClock(x) == x.written = "float" /\ \E n \in 0 .. x.time : x.time = n * Second

latest(X) == sce_routing_vars[CHOOSE x \in X : \A y \in X : y.time <= x.time]

(* Each setting has the value of the latest configuration of passed that    *)
(* names it, and its first value if there is none: a configuration leaves   *)
(* alone what it does not name.                                             *)
SettingsOf(passed) ==
  /\ \A s \in Service :
       LET X == {x \in passed : s \in DOMAIN sce_routing_vars[x].theta}
       IN thetas[s] = IF X = {} THEN W[s] ELSE latest(X).theta[s]
  /\ \A y \in DOMAIN TechCost :
       LET X == {x \in passed : y \in DOMAIN sce_routing_vars[x].tech_costs}
       IN tech_cost[y] = IF X = {} THEN TechCost[y] ELSE latest(X).tech_costs[y]
  /\ LET X == {x \in passed : sce_routing_vars[x].gama # {}}
     IN {gama} = IF X = {} THEN {Gama} ELSE latest(X).gama
  /\ \A tr \in Triple(Address) :
       LET X == {x \in passed : tr \in DOMAIN sce_routing_vars[x].flows}
       IN /\ tr \in DOMAIN config_flows <=> X # {}
          /\ X # {} => config_flows[tr] = latest(X).flows[tr]

(* get_config_for_time's docstring: "Find the latest configuration <=       *)
(* ns3_time."  If every timestamp of the scenario is on the clock, each     *)
(* setting has, from one call of receive_clock to the next, the value of    *)
(* the latest configuration not after the call that names it, whatever      *)
(* flows come and go.  The flow priorities are those of config["flows"],    *)
(* under addresses; the priorities of the keys never follow them.  Nothing  *)
(* is said of a timestamp off the clock, which the docstring promises to    *)
(* use and the code never does.                                             *)
SettingsAreLatest ==
  (\A x \in DOMAIN sce_routing_vars : OnTheClock(x))
  => SettingsOf({x \in DOMAIN sce_routing_vars : x.time < call_due})
=============================================================================
