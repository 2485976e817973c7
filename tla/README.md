# ATLAS: a verification project for a hybrid SDN controller

ATLAS is the controller of a hybrid wireless network simulated in ns-3: some
nodes are OpenFlow switches, the others ("legacy") route with OLSR.  The
controller learns the network from the packets and reports the switches send
it, calculates a path per flow and answers with rules for the switches on the
path.  Its C++ half (`src/ryuController/model/ofpp-python-ctrl.cc`) parses
OpenFlow messages and calls the Python half
(`src/ryuController/ryuController/*.py`) for every decision.

## Inventory

| Part | State | Operations | Talks to |
|---|---|---|---|
| Net view (`net_view.py`) | graph vertices with address, MAC, switch port and flags; dictionaries `ip_to_index`, `mac_to_index`, `uuid_to_index` | `add_node`, `update_node`, `exists`, `is_same_dev`, `get_neigh_edges_from` | called by every handler |
| Flow records (`paths.py`) | `Routes.flows`: FlowKey to a list with one Path; rule priority; meter counter | `insert_path`, `del_key`, `delete_path_req`, `check_broken_paths`, `get_flow_key` | routing |
| Routing (`routing.py`, `routing_utils.py`) | none of its own | `path_calculation`, `recalculate_flow`, `topology_recalculation`, `periodic_recalculation` | net view, records, path search |
| Rate limiter (`routing.py`, `routing_utils.py`, `orders_str.py`) | available bandwidth of vertices, meter of a key, meter counter | `adjust_existing_flows`, `update_orders_rate_limiter`, `update_node_avbw_for_flow` | routing, meters of the switches |
| Path search (`Path_Calculator/path_calculation.py`, `utils.py`) | labels of one search | `get_best_path`, `multi_variable_v2`, edge cost | graph |
| Experimenter messages (`exp_msg.py`) | edges of the graph with link statistics | `parse_message`, `update_graph`, `update_graph_periodically` | net view |
| Entry points (`ryu_controller.py`) | `exp_msg_counters`, scenario variables | `process_packet_in`, `process_idle_timeout`, `process_hard_timeout`, `parse_experimenter_message`, `receive_clock`, `node` | C++ half |
| OpenFlow glue (`ofpp-python-ctrl.cc`, `utils.cc`) | `m_arpTable`, known switches | `HandlePacketIn`, `HandleFlowRemoved`, `HandleExperimenter`, `HandshakeSuccessful`, `AddFlow` | switches, Python half |
| Configuration (`config_manager.py`) | priorities and bandwidths per flow | `update_flow`, `get_priority_bw` | FlowKey |
| Reports (`hybrid-sdn-helper.cc`, `exp-msg-data-helper.cc`) | time of the last periodic report, energy per device | `PeriodicCheckStats`, `RoutingTableChanged`, `SendExperimenterMsgFromDev` | switches, monitor |
| Quality monitor (`quality-monitor.cc`) | `txPacket`, `m_flowsStats`, `m_lostPackets`, `lastPacket` | trace callbacks, `CheckForOldPackets`, `GetFlowStats` | reports |
| Bandwidth statistics (`node_stats.cc`) | timers per radio state, byte counts | `MonitorPhyState`, `StateFinalTimer`, `PeriodicallyResetVars` | reports |
| Flow tables and meters (`udatapath/flow_table.c`, `flow_entry.c`, `meter_table.c`, `meter_entry.c`, `ofswitch13-device.cc`) | entries in three lists, references of meters to entries, token buckets | add, modify, delete, lookup, `flow_table_timeout`, meter-mods, `refill_bucket`, `DatapathTimeout` | controller, by flow-mods and flow-removed messages |
| Logging (`src/logging`) | output files | traces | nothing reads it |
| Rest of the software switch (`ofswitch13`, `ofsoftswitch13`), ns-3 (`core`, `internet`, `olsr`, `wifi`, ...) | vendored | | environment |

Nothing here runs in parallel: the simulator calls one handler at a time, and
the Python half has a lock besides.  What is hard is the *order* of the
handlers.  An interface is learnt piece by piece from ARP, OLSR, IPv4 and
reports; links vanish while records use them; reports of two switches about
one link arrive separately; timeouts of rules arrive after the record has been
replaced; the switches of one device become known while records about them
exist.

What makes each part correct:

- Net view: one vertex per interface, whatever the order; the three
  dictionaries agree with the attributes; what is known is never lost.
- Records and routing: a record with a path leads from the port that asked to
  the destination over links that exist; only timeouts forget a flow; when the
  network settles, paths come back.
- Path search: a path is found when there is one, it is a simple path of the
  graph, vertices are settled in order of length, and the length returned is the
  path's own where labels are not shared.
- Quality monitor: only fresh samples are averaged, and no empty flow is kept.
- Bandwidth statistics: idle time is not overstated, sending time comes with the
  bytes sent.
- Rate limiter: a new meter's number is its own, it exists before the rules that
  name it, the rules of one answer fit together where no meter is needed, and a
  flow that makes room keeps a tenth of its rate (which the code does not achieve).
- Flow tables: the lists agree, the entry of the highest priority wins, every
  timeout is announced once; a meter lets no more through than its rate.
- Records and tables together: a newer rule wins over an older one, and a flow
  that has stopped is forgotten.
- Configuration: the settings are those of the latest configuration up to now.
- Reports: a change of neighbours reaches the controller.

## Modules

### NetView (proofs in NetViewProofs, instance in MCNetView)

`nodes` is the graph's vertex table (a sequence, because vertex numbers are
`n_vertex + 1`), the three `*_to_index` functions are the dictionaries (0 is
"absent"), `arpTable` is the C++ `m_arpTable`, and `todo` holds the
`update_node` calls the running handler has still to make.  One call of
`update_node` is one step, so the invariants are also checked in the middle of
a handler; a new handler starts only when `todo` is empty.

| Action | Code |
|---|---|
| `LearnSender` | ARP request or OLSR branch of `HandlePacketIn` |
| `LearnReply` | ARP reply branch |
| `LearnEndPoints` | other IPv4 packet-ins, and `HandleFlowRemoved` |
| `ParseMessage` | `parse_message`: ports, and after each the neighbours heard |
| `Step` | one `update_node` call (`node` of `ryu_controller.py`) |

The known part of the table (`m_arpTable` hit) is only compared with an
assertion; an interface keeps its address and MAC for the whole simulation, so
the guard `arpTable[..] = None` loses nothing.

### Atlas (proofs in AtlasProofs, instance in MCAtlas)

State: `isOF` (ports of the switches that have reported), `links` (edges of the
graph), `flows` (the records, in the insertion order of the Python dict, which
is the order `get_flow_key` searches in) and `counters` (`exp_msg_counters`).
Vertices are named by their interfaces, which NetView justifies.  Every handler is
one action.

| Action | Code |
|---|---|
| `process_packet_in` | `HandlePacketIn` + `process_packet_in`: `path_calculation` for a flow without a usable record, `recalculate_flow` otherwise |
| `LocalDelivery` | the branch of `HandlePacketIn` for the destination's own switch |
| `process_idle_timeout`, `process_hard_timeout` | `HandleFlowRemoved` and the Python function of the same name |
| `BreakingReport` | `parse_experimenter_message` when a deleted link breaks a path: recalculation and early return |
| `ThresholdReport` | ... when the sender's counter reaches the threshold: periodic recalculation, counters reset |
| `QuietReport` | ... otherwise |

Costs are left out: `get_best_path` may return any simple path of the graph
(the direct link if there is one, the source alone if there is no path; module
GraphPaths).  So every result holds for every cost function, including the ones
scenario files switch to at run time, and PathSearch shows that the search keeps
to it.  The rules a handler returns are not part of this module, since nothing in
the records depends on them: PathOrders makes the rules of a path
(`get_orders_for_path`), and RateLimiter has the whole answer, with what the
limiter takes out of it and puts into it.  A packet-in is possible only at a port whose switch has
reported: before that, `HandlePacketIn` ends the simulation on an assertion.

### QualityMonitor (proofs in QualityMonitorProofs, instance in MCQualityMonitor)

State: the four tables of class `QualityMonitor` (`txPacket`, `m_lostPackets`
as the number of entries of each packet, `m_flowsStats`, `lastPacket`), the
clock and the time of the next check.  `txBy` and `rxBy` remember which ports
have sent and received a packet; they only say which callbacks can come.

| Action | Code |
|---|---|
| `MonitorMacTx`, `MonitorMacRx`, `MonitorSniffRx` | the trace callbacks of the same name |
| `PeriodicCheckStats` | the scheduled function of `hybrid-sdn-helper.cc`, with `CheckForOldPackets`; the reports it sends change nothing here |
| `Tick` | the simulator's clock |

The environment is the radio: nothing is sent at time zero, and a port's radio
has received some frame before its MAC passes a packet up (the code asserts both).
A frame takes some time, so a port receives what was sent at an earlier instant
(`onAir`); but a forwarder may send a packet again at the instant at which another
port receives it, and the sending time the receiver finds is then its own time: a
delay of zero is possible, as in the code.

### NodeStatistics (proofs in NodeStatisticsProofs)

State: the times of the radio states and the last report (`log`), the bytes
sent, `maxCapacity`, `avbw`, the two scheduled events, and the part of ns-3's
`WifiPhyStateHelper` that decides when a state is reported (`radio`).  `sending`
is a history variable: the time really spent sending.

| Action | Code |
|---|---|
| `SwitchToTx`, `SwitchToRx`, `DoSwitchFromRx`, `SwitchMaybeToCcaBusy` | the functions of the state helper, each with the calls of `MonitorPhyState` it makes; `SwitchToTx` also has `PhyTx`, which `WifiPhy::Send` calls just before |
| `StateFinalTimer`, `PeriodicallyResetVars` | the scheduled functions of `node_stats.cc` |
| `Tick` | the simulator's clock |

At the simulator's resolution `StateFinalTimer` runs at the end of the period
itself, before `PeriodicallyResetVars`; callbacks of that instant may come
before, between or after them.

### PathSearch (abstract specification BestPath, proofs in PathSearchProofs, instance in MCPathSearch)

`multi_variable_v2` one loop iteration at a time: the heap `fringe`, the counter
that breaks ties, `dist`, `seen`, `paths`, and the label of the vertex whose
neighbours are visited.  `aliased` says that `path_n` and `path_n_1` are one
dictionary, which they become at a hop inside one switch (`path_n = path_n_1`):
from then on each neighbour writes over the label of the vertex.  The order in
which neighbours are visited is left open.  Metrics are natural numbers: they are
only added, compared and maximised.

| Action | Code |
|---|---|
| `DirectPath`, `Start` | the shortcut for neighbours, and the first label |
| `PopOld`, `Pop`, `NoPath` | the outer loop; `NetworkXNoPath` becomes the source alone |
| `Push`, `Pass`, `Fail` | one neighbour: a better label, none, or one of the exceptions |

BestPath is what Atlas takes the search for: one answer, allowed by
`get_best_path` of GraphPaths.  `IsBestPath` is the refinement.

### FlowTable (proofs in FlowTableProofs, instance in MCFlowTable)

One table of the switch: entries in `match_entries` (priority order),
`hard_entries` (order of expiry) and `idle_entries`, with replacement, a full
table, the sweep of timeouts and the flow-removed messages (`notices`), and the
meters with the entries they point to (`flow_refs`).  One action per function of
`flow_table.c` and `meter_table.c`; `meter_table_modify` is left out (its
references are of no use to the ATLAS controller, which never sends the command;
what it does to the buckets is in MeterBand).  The walks along the switch's lists
are EntryLists: `FirstIn` stops at the first entry of a set, `Keep` takes those of
a set in their order; RuleLife and RateLimiter use them too.

### MeterBand (proofs in MeterBandProofs)

The token buckets of one meter: `meter_entry_apply` for a packet,
`DatapathTimeout` with `refill_bucket`, `meter_table_modify`.  `parse32` keeps
the whole part of the rate the controller writes.  `passed` and `window` measure
what is let through in a window of time that may begin at any moment; `last` is
the kind of the last step.

### RuleLife (proofs in FlowTableProofs, instance in MCRuleLife)

One flow at the switch that asks for it: the controller's `records` and rule
`priority`, the switch's `table`, and the connection in both directions (`down`,
`up`), each in order.  It composes the handlers of the controller with what
FlowTable says of a table.

| Action | Code |
|---|---|
| `Hit`, `Miss` | a packet at the switch; a miss sends a packet-in |
| `flow_table_flow_mod`, `DatapathTimeout` | a flow-mod arrives and is added; the sweep of timeouts |
| `process_packet_in`, `process_idle_timeout`, `process_hard_timeout`, `recalculation` | the handlers of the controller |
| `RulesAge`, `StopTraffic` | time; the application ends |

### RateLimiter (proofs in MeterBandProofs, instance in MCRateLimiter)

`adjust_existing_flows` and `update_orders_rate_limiter` as operators over the
keys, the available bandwidths and the orders, called by `process_packet_in` and
by the recalculations of a report, with the meter tables of the switches that
execute the orders (`sent`).  A report either recalculates the flows whose path it
breaks, which `check_broken_paths` has all marked before the first of them is
looked at, or the flows up to the recalculation level, or none.  `ended` names the exception that ends the process
(`exit(-1)` in every handler).  Bandwidths are whole multiples of a tenth of what
flows ask for, so a tenth is exact.

### ScenarioClock (proofs in ReportsProofs, instance in MCScenarioClock)

`receive_clock` once a second with the scenario `start` has loaded, and the
priorities of keys that packet-ins create in between.  A timestamp is a time and
the way it is written in the file, because the lookup is by text.  The flow
priorities a scenario sets are those of `config["flows"]`, under addresses; a
`FlowKey` is looked up by vertices, so the priority of an existing key never
follows them.

### Reports (proofs in ReportsProofs)

When reports are sent: `PeriodicCheckStats` for all switches, and
`RoutingTableChanged` for one, unless a periodic report was sent within the gap
or the simulation is young.  Times are relative to the last periodic report.
`began` is a history variable that follows the difference between OLSR's table
and the last news sent, whatever the code decides.

## Runs

| Run | What it shows | Size |
|---|---|---|
| `net_view` | four interfaces (a two-port switch, a one-port switch, a legacy node), reports in which each hears the other: all NetView properties in every order of messages | 57,674 states |
| `atlas` | a two-port switch, a one-port switch and a legacy node, two flows in both directions, threshold 2: records and links, and, with fair periodic reports, the return of paths | 7,335 states |
| `quality_monitor` | three packets, one from port to port, one broadcast and one of a legacy node, which the other port may forward; limits and interval 1, first check at 2, four units of time | 3,533,731 states |
| `node_statistics` | two periods of four units, sendings of one or two units, receptions and busy times of two, bytes counted from the second period on | 1,467,261 states |
| `path_search` | every graph over eight edges of two two-port switches and a legacy node, every source and target: refinement, termination, no contradiction, and the length where labels are not shared | 118,602 states |
| `flow_table` | two overlapping matches, two priorities, an idle and a hard timeout, a meter, a table of two entries, three flow-mods that add | 1,029,698 states |
| `scenario_clock` | 27 scenarios of three configurations on the clock, and two with a timestamp off it, of which `SettingsAreLatest` promises nothing | 23,287 states |
| `rate_limiter` | two flows of different priority over shared switches, up to three meters: numbers, order of meters and rules, rules that meet | 80,307 states |
| `tenth_lost` | the same with a less important flow that asks for more: `OthersKeepATenth` is violated by the third packet-in (a finding) | stops at depth 4 |
| `rule_life` | two interfaces on two ports, both outcomes of a calculation, idle timeout 1 and hard timeout 2 | 1,813,832 states |
| `meter_band` | one band, rates with a fraction, bursts, both units, windows of five units | 34,285 states |
| `reports` | two switches, interval 4, gap 1, two reports under way besides a periodic one | 9,184 states |

The instances are the smallest with all the cases: a device with two ports
(same-device hops, the first-port convention of flow-removed messages), two
switches that report the same link independently, a legacy node that never
reports, two flows that compete for a recalculation, one above and one at or
below the recalculation level.  Two records are enough for a duplicate key and
for two keys in one recalculation.  `MaxFlows` bounds the records; the code has
no bound.  `counters` stop at the threshold because only "at least the
threshold" is ever asked.  `MaxNow` ends the simulation: in QualityMonitor four
units hold the first check, two more at one interval's distance and samples on
both sides of each; in NodeStatistics nine units hold two resets, and a sending
of two units crosses the end of a period.

In PathSearch a second port per switch is what makes labels shared, and two
switches with two ports make a shared label the way to a third device.  In
FlowTable three added entries against a table of two give a full table, a
replacement, and two timeouts due in one sweep; its `VIEW` leaves out the fields
of entries that have left the table, which nothing reads again.  In RuleLife only
packets and reports from outside are bounded (`within`), never a handler; at most
two messages are under way at once, and priorities up to three give a rule, its
replacement and a late answer.  The priority is taken modulo `Modulus`, which
stands for the 16-bit field; the instance stops before it wraps, and past that
`NewestRuleWins` would not hold.  In MeterBand, checked with one band and proved
for any number, 1000 is scaled down to 3 (`Milli`) with the interval
and the packets; windows end at `MaxWindow` and the next one begins, so the
meter itself runs on.  In Reports the last place of a channel is kept for a
periodic report, so that the bound does not keep one back.

Deadlock is checked where the system runs on.  It is not in PathSearch (a call
ends), nor in RuleLife and RateLimiter (packets may stop and bounds be reached,
and in RateLimiter the process may end).

Fairness: `RoutesConverge` assumes weak fairness of periodic reports only.
`PeriodicCheckStats` reschedules itself unconditionally and sends a report of
every switch, so some periodic report always comes.  Nothing is assumed of
packets, timeouts or episodic reports, and the property has the hypothesis that
links stop changing.  `SearchEnds` assumes that a function that is called runs
on.  `Forgotten` assumes that the simulator delivers messages, that its time
passes and that `DatapathTimeout`, which reschedules itself, runs; `Progress` and
`GraphConverges` assume the same of the meter's timeout and of
`PeriodicCheckStats`.  No packet, report of a change or timeout of a rule has to
come.

### Where the code departs from its texts

The models do what the code does, also where a comment, a name or an assertion
says otherwise.  The properties are then stated for what the code does promise,
with the condition it needs: `Forgotten` for flows asked for through the first
port that always had a path, `LengthIsCost` for graphs without links inside a
switch, `WindowBounded` for bands of a positive rate, `Progress` for meters in
kbit/s, `NewestRuleWins` below the end of the priority field, `SettingsAreLatest`
for scenarios on the clock, `RulesMeet` for answers without a meter,
`MetersPrecedeRules` with the one meter a recalculation may lose.  Each condition
leaves out cases in which the code does go wrong; the hazards in `PROJECT.json`
say so at their lines, and no run covers those cases.  The exception is
`OthersKeepATenth`, which is stated as the comment at `routing.py:91` states it, for
every flow; the run `tenth_lost` shows it violated.  What was met:

- `FlowKey` has no `__eq__`, so the assertion that a path must not exist yet is
  vacuous; a flow whose record is LEGACY gets a second key at its next packet-in,
  whose rule replaces the first one's without notice.
- `if path_idx:` takes index 0 for "not found" (`paths.py`).
- The packet-out in front of the orders is removed by
  `get_path_calculation_after_break` and again by `serialize_OPF_rules`.
- `MonitorMacRx` erases the delivered packet from a copy of the list (`auto k`),
  so `n_pktLost` never falls.
- `normalization` answers a value above the input range with the end of the input
  range, against `@return double belongs between [0, 100]`
  (`hybrid-sdn-helper.cc:58`).  A packet of a legacy node has a delay of one
  nanosecond, so its rate is always above it, and so is that of any packet that
  takes less than a millisecond; 12000000 is then narrowed to a byte.  A delay of
  zero is divided by.  Neither function keeps a state; they are not modelled.
- A state of the radio reported at the very end of a period, before
  `StateFinalTimer`, counts for nothing; bytes are counted from 20 s on, sending
  time from the start.
- A label shared after a hop inside a switch is written over: the length is not
  that of the path and hops are counted twice, up to the assertion on them.  Three
  metrics are those of the worst edge, and a search by increasing length does not
  find the cheapest path for such a cost.
- A modified flow entry is not registered with its new meter.
- A band of rate 0, or of less than 1 kbit/s after parsing, is never chosen: the
  flow the rate limiter wanted to stop is not limited at all.  In packets per
  second a refill of less than one packet is lost.
- A replaced rule stays in the switch, and its idle timeout deletes the record of
  the rule that replaced it; flow-removed messages are taken for the first port of
  the switch; the priority counter can leave its field.
- What is taken from a flow that was limited before is negative, and what is left
  for the new flow may be nothing; each flow limited at the same switch removes a
  rule of the answer, the new flow's own first rule to begin with; a position is
  compared with a vertex number; a meter is changed with the command that adds
  one; the meter of the limited flow is stored in the new flow's key.  The new
  flow may be among the flows it limits, and its own turn then orders the meter it
  now shares, for a tenth of what it asked for itself: a flow that asked for more
  and gave way is ordered below the "minimum bandwidth this flow must retain"
  (`routing.py:91`), and the controller's records agree.  This is the run
  `tenth_lost`.  The switch itself refuses that order, because it too says that the
  meter is to be added.  The services' rates are in a configuration file that is
  not part of the repository, so nothing in the code excludes such flows.
- The rule put in for a limited flow leads the *new* flow to the limited flow's next
  hop, and the new flow's own first rule is taken out, so the rules of an answer
  with meters need not fit together.
- The order `serialize_OPF_rules` drops from a recalculation may be a meter that the
  next order names.
- A configuration is used only at its very second, though the docstring says "If
  exact timestamp not found, use the closest past one" (`ryu_controller.py:53-56`);
  its flows are named by addresses and looked up by vertex numbers.

## Proofs

`NetViewProofs` proves, for any set of interfaces and any reports about them,
`TypeOK`, `IndexMapsAgree`, `OneVertexPerInterface`, `FlagsAgree`,
`ArpTableInGraph` and the action property `IdentityIsPermanent`.  The inductive
invariant adds two parts.  `Owned` says that every vertex carries only values of
one interface and always its address: a request that misses by port and by
address then cannot hit by MAC, which is what rules out a second vertex.
`ArpPending` says that a pair of the ARP table which is not in the graph yet is
among the calls still to make.

`AtlasProofs` proves, for any network, any flows and any choice among paths,
`TypeOK`, `RoutesAreLive`, `LinksTouchSwitches` and `RequestersAreRemote`.
`RequestersAreRemote` is not inductive: an unknown destination could turn out to
be a port of the requester's own switch.  `WholeSwitches` closes the gap, as a
report names all ports of its switch.  `RoutesAreLive` needs
`check_broken_paths` to be exact with respect to the links `update_graph` drops
(`ParseMessageGood`, `UnbrokenKept`), and every path the search returns to lie
in the updated graph (`NewRecordGood`).  The action property
`OnlyTimeoutsForget` follows from what each handler does to the order of keys: a
packet-in may drop the oldest key of its flow, but then appends another.

`QualityMonitorProofs` proves, for any devices, packets, limits and times of the
first check, `TypeOK`, `NoEmptyFlow`, `NothingOutlives` and the action property
`ReportsAreFresh`.  `CheckForOldPackets` stops at the first young sample, so
freshness rests on `Ordered`: each list is in order of reception and of signal
time.  The second holds because a sample takes its signal time from its port's
`lastPacket`, which only grows; `GoodList` therefore bounds a list by it.  The
age bounds are inductive only when stated against the next check
(`nextCheck <= receptionTime + Age`), since time stops there.

`PathSearchProofs` proves, for any graph, metrics and hop limit, `TypeOK`,
`NoContradiction`, `LengthIsCost` and that the search implements BestPath.  `Ordered` is what
makes the search Dijkstra's although labels are shared: a label only grows, so
nothing is offered less than the distance of the vertex being visited, which is
the largest given so far.  `PathsFollow` keeps recorded paths simple, and
`Frontier` is the cut that shows, when the heap is empty, that the target cannot
be reached; the last step needs that every path leaving a set crosses its border,
which is proved from the well-ordering of the naturals.  `LengthIsCost` adds
`Lengths`: in a graph without links inside a switch no label is ever aliased, so
every length recorded in the heap, in `seen` or in `dist` is the length of the
path recorded with it, and the one being extended is that of the vertex being
visited.  The label of a path is a recursive function, unfolded at its last edge.

`MeterBandProofs` proves, for any bands, rates, flags, packets and intervals,
`TypeOK` and `WindowBounded`.  The bound is not inductive: `Paid` adds the tokens
in the bucket and those time has earned since the last refill to what was let
through, and `Held` says that the bucket is never over its limit and a refill
never overdue, which is what a window needs at its first instant.

The same module proves of the rate limiter, for any flows, paths,
rates, priorities and reports, `MeterIdsFresh`, `RulesMeet` and the action property
`MetersPrecedeRules`.  `LimiterInv` says that the numbers
of meters in keys and switches are below the counter.  A handler is a chain of
recursions (sorting, what each flow gives up, limiting one after the other,
recalculating one key after the other, executing the orders), so the proof shows
for each which set its values stay in.  For the calculations of
`update_orders_rate_limiter` the set is `CalcFrom`: numbers below the counter, no
order through a meter without an order for that meter in front (`FrontBacked`,
`OrdersBacked`), although each limited flow may take a rule off the list.
`RateLimited` is the lemma for any such set.  A recalculation joins the orders of
one key after the other (`BackedTogether`) and loses the first of them, so one
meter at most is missing (`OneMissing`), and none in the answer to a packet-in
(`NoneMissing`).

`RulesMeet` is about the whole answer, which may hold the rules of several paths
and has lost its first order, so the invariant is about places: the rule that
takes what another forwards stands right behind it.  `get_orders` builds such a
list (`Chained`), with a legacy vertex between two switches or without, and so does
the order that hands a broken path back to the switches.  A list may be cut at its
front, by `serialize_OPF_rules`, and still fit, because nothing forwards to a
path's first rule; `Fit` therefore speaks of a list from its first and from its
second order on, which joining the lists of several keys keeps (`FitTogether`) and
the cut turns into what the property needs (`FitRest`).  What the limiter does to
the rules is out of the property's reach only if the answer shows it: `Kept` says
that it either leaves the rules alone, with at most one order in front, or leaves
a meter that the cut does not take away.

`FlowTableProofs` proves, for any matches, priorities, timeouts, meters and size
of the table, `ListsAgree`, `NoticedOnce`, `NoDanglingRefs`,
`HighestPriorityWins` and the action property `SweptClean`.  The inductive
invariant adds three parts.  `PriorityOrder` (the table) and `HardOrder` (the list
of hard timeouts) are what lookup and sweep rely on when they stop early; a
replacement keeps the priority but takes a new place in the list of hard
timeouts.  `RefsMutual` says that an entry knows every meter that refers to it:
only then does a removal, which goes by what the entry knows, leave no meter with
an entry that was freed.  Filtering of lists is `Keep`, whose lemmas say what is
kept and in which order.

The same module proves `NewestRuleWins` of RuleLife, for any ports,
timeouts and outcomes, as long as priorities fit their field
(`MaxPriority < Modulus`).  `LifeInv` keeps the table in the order of rule
numbers, no number twice for an interface, and every number that was given out,
in the table or under way, below the counter; since each packet-in under way may
still use one, the bound counts them.  A flow-mod that arrives late, a
replacement and a sweep in between keep that order (`Keep` again).

`NodeStatisticsProofs` proves, for any period and any durations of the radio's
states, `IdleExcludesSending` and `SentTimeHasBytes`.  `Shares` is the heart of the
invariant: idle and sending time share the part of the period up to the end of
the last report.  It needs `RadioInStep` (only a sending is reported before it has
ended; nothing is reported later than the radio knows of), since a report that
overlapped the next would count time twice, and `Periods` (`StateFinalTimer` is
at most one step ahead of `PeriodicallyResetVars`), since a report may fall
between the two.

`ReportsProofs` proves, for any switches, intervals and gap, `TypeOK` and
`ChangesAreTold`.  `Recorded` ties `began` to the difference between OLSR's tables
and the last news, and the proof shows that handling reports in order leaves the
last news what it is.  The same module proves `SettingsAreLatest` of ScenarioClock,
for any scenario on the clock; the invariant, `MetAreLatest`, says of any scenario
that the settings are those of the latest configuration *met*, which on the clock
is the latest up to now.  The heart is `NextMet`: a call meets at most the one
timestamp that is its own second, which is later than all met before, so what it
writes is the latest and what it leaves out keeps the value of the one before.

Assumptions: `NetViewAssumption` (addresses, MACs and ports identify
interfaces), `AtlasAssumption` (finite network, devices do not hear themselves, `None` is
neither a switch nor a vertex),
`MonitorAssumption` (addresses in packet headers, a positive interval),
`PathSearchAssumption` (finite graph, natural metrics), `FlowTableAssumption`
(priorities, timeouts and sizes are natural numbers), `RuleLifeAssumption` (a path search ends
in a path or in legacy routing, and `Modulus` and the timeouts are positive),
`ScenarioAssumption` (addresses are not vertex numbers, the scenario's times are
timestamps, a step of it sets gama once or not at all, a positive `Second`),
`RateLimiterAssumption` (rates are positive multiples of ten, paths begin at a
port of a switch, `None` is neither a number nor a vertex), `StatisticsAssumption`,
`MeterAssumption` and `ReportsAssumption` (natural numbers, positive intervals);
TLC evaluates them on the instances.  A proof module about two components extends
both, which is why the specifications of RuleLife, RateLimiter and ScenarioClock are
called `LifeSpec`, `LimiterSpec` and `ClockSpec`, and their types `LifeTypeOK`,
`LimiterTypeOK` and `ClockTypeOK`.  The components share no variable.

What a loop computes for every length is proved without induction theorems: a
recursive LET function is shown to exist and to unfold, and a property of all its
values is shown by the least counterexample, which the well-ordering of the
naturals gives (lemmas `Least` or `LeastNat`, `RecursionSolved` and `RecursionIn`).

Only model-checked: the liveness properties `RoutesConverge`, `SearchEnds`,
`Progress`, `Forgotten` and `GraphConverges`, which are out of the prover's reach.
Every safety property of the runs is a theorem.

## Not modelled

Formatting of rules and parsing of byte buffers, the statistics of links and their
normalisation, the energy level, logging, plotting; of the switch, packet
parsing, actions, groups, ports, the CPU model and the wire format; ns-3 itself
(`core`, `internet`, `olsr`, `wifi`, ...), which makes up nearly all of the
repository's lines and is stock simulator code: the environment of these models.
Code nothing calls: `process_flow`, `multi_variable_Dn`, `path_search.py`,
`net_view-OLD.py`, `wsdn-ctrl*`, `path.cc`, `ofpp_normal-controller.cc`,
`ofpp-simple-ctrl.cc`.

## Plan

1. An abstract specification of the controller (each flow has a path over live
   links or is left to legacy routing) that Atlas implements.
2. Composition of RateLimiter with MeterBand: the rate a flow gets when limits
   are refused, shared or read as 0.
3. Rules of one path in several switches with different timeouts: loops and
   black holes while some have ended.
