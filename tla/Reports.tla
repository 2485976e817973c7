------------------------------ MODULE Reports ------------------------------
(***************************************************************************)
(* When the switches report their neighbours.  HybridSDNHelper sends a     *)
(* report of every switch once per interval (PeriodicCheckStats) and one   *)
(* of a single switch when OLSR's table changes there, unless a periodic   *)
(* report was sent moments ago or the simulation is still young            *)
(* (RoutingTableChanged).  The time of the last periodic report is one     *)
(* variable of the helper, shared by all switches.  Reports of one switch  *)
(* reach the controller in order, over its OpenFlow channel.               *)
(*                                                                         *)
(* A report is the neighbours it names; the statistics in it are the       *)
(* subject of QualityMonitor and NodeStatistics, and what the controller   *)
(* makes of it that of Atlas.  Only differences of times matter: since is  *)
(* the time since lastExperimenter, and young counts the time left until   *)
(* changes are reported at all (25 s in the code).                         *)
(***************************************************************************)
EXTENDS Integers, Sequences, SequencesExt

CONSTANTS
  Switch,     \* the OpenFlow devices
  Neighbours, \* sets of neighbours a switch can have
  FirstCheck, \* time of the first periodic report
  Interval,   \* PERIODIC_STATS_INTERVAL
  Gap,        \* time after a periodic report in which changes are not reported
  Youth,      \* time before which changes are not reported
  MaxInFlight \* bound: reports of one switch on their way; the last place is
              \* for a periodic one

ASSUME ReportsAssumption ==
  /\ FirstCheck \in Nat /\ Interval \in Nat \ {0} /\ Gap \in Nat
  /\ Youth \in Nat /\ MaxInFlight \in Nat

CONSTANT Unknown \* what the controller knows of a switch before its first report

VARIABLES
  young,    \* time left until the simulation is Youth old
  since,    \* Now - lastExperimenter
  due,      \* time to the next PeriodicCheckStats
  m_table,  \* neighbours of each switch in OLSR's table
  channel,  \* reports on their way to the controller
  graph,    \* neighbours the controller knows of each switch
  began     \* history: how long after a periodic report the controller's
            \* last news of each switch ceased to be true; None if it is true,
            \* Early if changes were not reported yet at the time

times == <<young, since, due>>
vars == <<times, m_table, channel, graph, began>>

None == -1
Early == -2

Init ==
  /\ young = Youth /\ since = 0 /\ due = FirstCheck
  /\ m_table \in [Switch -> Neighbours]
  /\ channel = [s \in Switch |-> <<>>]
  /\ graph = [s \in Switch |-> Unknown]
  /\ began = [s \in Switch |-> Early]

(* What the controller will know of s when the channel is empty. *)
told(s) == IF channel[s] = <<>> THEN graph[s] ELSE Last(channel[s])

(* The history variable after any step. *)
Observe ==
  began' = [s \in Switch |-> IF told(s)' = m_table'[s] THEN None
                             ELSE IF began[s] # None THEN began[s]
                             ELSE IF young >= 0 THEN Early ELSE since]

(* Mutant: the gap is as long as the interval. *)
reports_rarely == since > Interval /\ young < 0

(* The condition of RoutingTableChanged. *)
reports == since > Gap /\ young < 0

(* RoutingTableComputation found another table: m_routingTableChanged.  The *)
(* neighbours may be the same when only routes further away have changed.   *)
RoutingTableChanged(s, n) ==
  /\ Len(channel[s]) + 1 < MaxInFlight
  /\ m_table' = [m_table EXCEPT ![s] = n]
  /\ channel' = IF reports THEN [channel EXCEPT ![s] = Append(@, n)] ELSE channel
  /\ UNCHANGED <<times, graph>>
  /\ Observe

(* Mutant: only one of the switches reports. *)
SendStatsMsgtoCtrl_one ==
  /\ since' = 0
  /\ \E s \in Switch : channel' = [channel EXCEPT ![s] = Append(@, m_table[s])]

(* Every switch reports; lastExperimenter is now. *)
SendStatsMsgtoCtrl ==
  /\ since' = 0
  /\ channel' = [s \in Switch |-> Append(channel[s], m_table[s])]

(* The periodic report; it schedules itself again. *)
PeriodicCheckStats ==
  /\ due = 0
  /\ \A s \in Switch : Len(channel[s]) < MaxInFlight
  /\ due' = Interval
  /\ SendStatsMsgtoCtrl
  /\ UNCHANGED <<young, m_table, graph>>
  /\ Observe

(* The controller handles the oldest report of s. *)
HandleExperimenter(s) ==
  /\ channel[s] # <<>>
  /\ graph' = [graph EXCEPT ![s] = Head(channel[s])]
  /\ channel' = [channel EXCEPT ![s] = Tail(@)]
  /\ UNCHANGED <<times, m_table>>
  /\ Observe

(* Time passes up to the next periodic report. *)
Tick ==
  /\ due > 0
  /\ due' = due - 1 /\ since' = since + 1
  /\ young' = IF young >= 0 THEN young - 1 ELSE young
  /\ UNCHANGED <<m_table, channel, graph, began>>

Next ==
  \/ PeriodicCheckStats \/ Tick
  \/ \E s \in Switch :
       HandleExperimenter(s) \/ \E n \in Neighbours : RoutingTableChanged(s, n)

(* The simulator runs on, PeriodicCheckStats reschedules itself, and the    *)
(* channel delivers.  Nothing is assumed of OLSR.                           *)
Fairness ==
  /\ WF_vars(Tick) /\ WF_vars(PeriodicCheckStats)
  /\ \A s \in Switch : WF_vars(HandleExperimenter(s))

Spec == Init /\ [][Next]_vars /\ Fairness

-----------------------------------------------------------------------------
(* Times are those of one interval, reports name neighbours. *)
TypeOK ==
  /\ young \in -1..Youth /\ since \in Nat /\ due \in Nat
  /\ m_table \in [Switch -> Neighbours]
  /\ channel \in [Switch -> Seq(Neighbours)]
  /\ graph \in [Switch -> Neighbours \cup {Unknown}]
  /\ began \in [Switch -> Nat \cup {None, Early}]

(* RoutingTableChanged drops a change only if the next periodic report is   *)
(* almost a whole interval away: while the last news of a switch is wrong,  *)
(* it became wrong before changes are reported, or in the gap after a       *)
(* periodic report; at any other time the controller is told at once.       *)
ChangesAreTold ==
  \A s \in Switch :
    told(s) # m_table[s] => began[s] = Early \/ began[s] \in 0..Gap

(* A change that RoutingTableChanged dropped is not lost: when the          *)
(* neighbours of a switch stop changing, the controller comes to know them. *)
GraphConverges ==
  \A s \in Switch, n \in Neighbours :
    <>[](m_table[s] = n) => <>[](graph[s] = n)
=============================================================================
