---------------------------- MODULE ReportsProofs ----------------------------
(***************************************************************************)
(* For any switches, neighbours, intervals and gaps: types are kept, and a *)
(* change the controller has not been told of came early or in the gap     *)
(* after a periodic report.  The second rests on Recorded: began follows   *)
(* the difference between OLSR's tables and the last news, which handling  *)
(* a report in order does not change.                                      *)
(*                                                                         *)
(* For any scenario on the clock: the settings are those of the latest     *)
(* configuration its clock has met (SettingsAreLatest of ScenarioClock).   *)
(***************************************************************************)
EXTENDS Reports, ScenarioClock, SequenceTheorems, TLAPS

Recorded ==
  \A s \in Switch : /\ told(s) # m_table[s] => began[s] # None
                    /\ began[s] # None /\ began[s] # Early => began[s] \in 0..Gap

IInv == TypeOK /\ Recorded

(* A report put in a channel is the last one there. *)
LEMMA LastOfAppend ==
  ASSUME NEW c \in Seq(Neighbours), NEW n \in Neighbours
  PROVE  /\ Append(c, n) # <<>> /\ Append(c, n) \in Seq(Neighbours)
         /\ Last(Append(c, n)) = n
<1>1. Len(Append(c, n)) = Len(c) + 1 /\ Append(c, n)[Len(c) + 1] = n
  BY AppendProperties
<1> QED BY <1>1, AppendProperties DEF Last

(* The last news of a switch is its neighbours at some time, or nothing. *)
LEMMA ToldType ==
  ASSUME TypeOK, NEW s \in Switch
  PROVE  told(s) \in Neighbours \cup {Unknown}
<1>1. channel[s] \in Seq(Neighbours) /\ graph[s] \in Neighbours \cup {Unknown}
  BY DEF TypeOK
<1>2. channel[s] # <<>> => Last(channel[s]) \in Neighbours
  BY <1>1 DEF Last
<1> QED BY <1>1, <1>2 DEF told

(* Observe keeps began in its range and marks every wrong news. *)
LEMMA Observed ==
  ASSUME IInv, Observe,
         \A s \in Switch : told(s)' # m_table'[s] /\ began[s] = None /\ ~(young >= 0)
                             => since <= Gap
  PROVE  began' \in [Switch -> Nat \cup {None, Early}] /\ Recorded'
<1>1. ASSUME NEW s \in Switch
      PROVE  /\ began'[s] \in Nat \cup {None, Early}
             /\ told(s)' # m_table'[s] => began'[s] # None
             /\ began'[s] # None /\ began'[s] # Early => began'[s] \in 0..Gap
  <2>1. began'[s] = IF told(s)' = m_table'[s] THEN None
                    ELSE IF began[s] # None THEN began[s]
                    ELSE IF young >= 0 THEN Early ELSE since
    BY DEF Observe
  <2>2. /\ began[s] \in Nat \cup {None, Early} /\ since \in Nat /\ Gap \in Nat
        /\ began[s] # None /\ began[s] # Early => began[s] \in 0..Gap
    BY ReportsAssumption DEF IInv, TypeOK, Recorded
  <2>3. None \notin Nat /\ Early # None
    BY DEF None, Early
  <2>4. CASE told(s)' = m_table'[s]
    BY <2>1, <2>4
  <2>5. CASE told(s)' # m_table'[s] /\ began[s] # None
    BY <2>1, <2>2, <2>5
  <2>6. CASE told(s)' # m_table'[s] /\ began[s] = None
    <3>1. CASE young >= 0
      BY <2>1, <2>3, <2>6, <3>1
    <3>2. CASE ~(young >= 0)
      <4>1. since <= Gap /\ began'[s] = since
        BY <2>1, <2>6, <3>2
      <4>2. since \in 0..Gap
        BY <4>1, <2>2
      <4> QED BY <4>1, <4>2, <2>2, <2>3
    <3> QED BY <3>1, <3>2
  <2> QED BY <2>4, <2>5, <2>6
<1>2. began' \in [Switch -> Nat \cup {None, Early}]
  <2>1. began' = [s \in Switch |-> began'[s]]
    BY DEF Observe
  <2> QED BY <1>1, <2>1
<1>3. Recorded'
  BY <1>1 DEF Recorded
<1> QED BY <1>2, <1>3

LEMMA InitIInv == Init => IInv
<1> SUFFICES ASSUME Init PROVE IInv
  OBVIOUS
<1>1. TypeOK
  BY ReportsAssumption DEF Init, TypeOK
<1>2. Recorded
  <2>1. \A s \in Switch : began[s] = Early /\ Early # None
    BY DEF Init, Early, None
  <2> QED BY <2>1 DEF Recorded
<1> QED BY <1>1, <1>2 DEF IInv

(* A change that is not told is one RoutingTableChanged dropped. *)
LEMMA ChangeIInv ==
  ASSUME NEW s \in Switch, NEW n \in Neighbours
  PROVE  IInv /\ RoutingTableChanged(s, n) => IInv'
<1> SUFFICES ASSUME IInv, RoutingTableChanged(s, n) PROVE IInv'
  OBVIOUS
<1>0. /\ young' = young /\ since' = since /\ due' = due /\ graph' = graph
      /\ m_table' = [m_table EXCEPT ![s] = n]
      /\ channel' = IF reports THEN [channel EXCEPT ![s] = Append(@, n)] ELSE channel
      /\ Observe
  BY DEF RoutingTableChanged, times
<1>1. /\ m_table \in [Switch -> Neighbours] /\ channel \in [Switch -> Seq(Neighbours)]
      /\ graph \in [Switch -> Neighbours \cup {Unknown}]
      /\ young \in -1..Youth /\ since \in Nat /\ due \in Nat
  BY DEF IInv, TypeOK
<1>2. channel' \in [Switch -> Seq(Neighbours)]
  <2>1. Append(channel[s], n) \in Seq(Neighbours)
    BY <1>1
  <2> QED BY <1>0, <1>1, <2>1
<1>3. ASSUME NEW t \in Switch, told(t)' # m_table'[t], began[t] = None, ~(young >= 0)
      PROVE  since <= Gap
  <2>1. CASE reports
    <3>1. CASE t = s
      <4>1. channel'[s] = Append(channel[s], n) /\ m_table'[s] = n
        BY <1>0, <1>1, <2>1
      <4>2. channel'[s] # <<>> /\ Last(channel'[s]) = n
        BY <4>1, <1>1, LastOfAppend
      <4>3. told(s)' = n
        BY <4>2 DEF told
      <4> QED BY <1>3, <3>1, <4>1, <4>3
    <3>2. CASE t # s
      <4>1. told(t)' = told(t) /\ m_table'[t] = m_table[t]
        BY <1>0, <1>1, <2>1, <3>2 DEF told
      <4> QED BY <1>3, <4>1 DEF IInv, Recorded
    <3> QED BY <3>1, <3>2
  <2>2. CASE ~reports
    <3>1. ~(since > Gap)
      BY <1>1, <1>3, <2>2, ReportsAssumption DEF reports
    <3> QED BY <1>1, <3>1, ReportsAssumption
  <2> QED BY <2>1, <2>2
<1>4. began' \in [Switch -> Nat \cup {None, Early}] /\ Recorded'
  BY <1>0, <1>3, Observed
<1>5. TypeOK'
  BY <1>0, <1>1, <1>2, <1>4 DEF TypeOK
<1> QED BY <1>4, <1>5 DEF IInv

(* A periodic report tells everything. *)
LEMMA PeriodicIInv == IInv /\ PeriodicCheckStats => IInv'
<1> SUFFICES ASSUME IInv, PeriodicCheckStats PROVE IInv'
  OBVIOUS
<1>0. /\ young' = young /\ since' = 0 /\ due' = Interval /\ graph' = graph /\ m_table' = m_table
      /\ channel' = [s \in Switch |-> Append(channel[s], m_table[s])]
      /\ Observe
  BY DEF PeriodicCheckStats, SendStatsMsgtoCtrl
<1>1. /\ m_table \in [Switch -> Neighbours] /\ channel \in [Switch -> Seq(Neighbours)]
      /\ graph \in [Switch -> Neighbours \cup {Unknown}] /\ young \in -1..Youth
  BY DEF IInv, TypeOK
<1>2. ASSUME NEW t \in Switch PROVE told(t)' = m_table'[t] /\ channel'[t] \in Seq(Neighbours)
  <2>1. channel'[t] = Append(channel[t], m_table[t])
    BY <1>0
  <2>2. channel'[t] # <<>> /\ Last(channel'[t]) = m_table[t] /\ channel'[t] \in Seq(Neighbours)
    BY <2>1, <1>1, LastOfAppend
  <2> QED BY <2>2, <1>0 DEF told
<1>3. channel' \in [Switch -> Seq(Neighbours)]
  BY <1>0, <1>2
<1>4. began' \in [Switch -> Nat \cup {None, Early}] /\ Recorded'
  BY <1>0, <1>2, Observed
<1>5. TypeOK'
  BY <1>0, <1>1, <1>3, <1>4, ReportsAssumption DEF TypeOK
<1> QED BY <1>4, <1>5 DEF IInv

(* Handling the oldest report leaves the last news what it is. *)
LEMMA HandleIInv ==
  ASSUME NEW s \in Switch PROVE IInv /\ HandleExperimenter(s) => IInv'
<1> SUFFICES ASSUME IInv, HandleExperimenter(s) PROVE IInv'
  OBVIOUS
<1>0. /\ young' = young /\ since' = since /\ due' = due /\ m_table' = m_table
      /\ channel[s] # <<>>
      /\ graph' = [graph EXCEPT ![s] = Head(channel[s])]
      /\ channel' = [channel EXCEPT ![s] = Tail(@)]
      /\ Observe
  BY DEF HandleExperimenter, times
<1>1. /\ m_table \in [Switch -> Neighbours] /\ channel \in [Switch -> Seq(Neighbours)]
      /\ graph \in [Switch -> Neighbours \cup {Unknown}]
      /\ young \in -1..Youth /\ since \in Nat /\ due \in Nat
  BY DEF IInv, TypeOK
<1>2. Head(channel[s]) \in Neighbours /\ Tail(channel[s]) \in Seq(Neighbours)
  <2>1. channel[s] \in Seq(Neighbours)
    BY <1>1
  <2> QED BY <2>1, <1>0
<1>3. /\ graph' \in [Switch -> Neighbours \cup {Unknown}]
      /\ channel' \in [Switch -> Seq(Neighbours)]
  BY <1>0, <1>1, <1>2
<1>4. ASSUME NEW t \in Switch PROVE told(t)' = told(t)
  <2>1. CASE t = s
    <3> DEFINE c == channel[s]
    <3>1. c \in Seq(Neighbours) /\ c # <<>> /\ channel'[s] = Tail(c) /\ graph'[s] = Head(c)
      BY <1>0, <1>1
    <3>2. told(s) = Last(c)
      BY <3>1 DEF told
    <3> HIDE DEF c
    <3>3. CASE Tail(c) = <<>>
      <4>1. Len(c) = 1
        <5>1. Len(Tail(c)) = Len(c) - 1 /\ Len(c) \in Nat
          BY <3>1, HeadTailProperties
        <5>2. Len(Tail(c)) = 0
          BY <3>3, EmptySeq
        <5> QED BY <5>1, <5>2
      <4>2. Last(c) = Head(c)
        BY <4>1, <3>1 DEF Last
      <4>3. told(s)' = Head(c)
        BY <3>1, <3>3 DEF told
      <4> QED BY <2>1, <3>2, <4>2, <4>3
    <3>4. CASE Tail(c) # <<>>
      <4>1. Len(c) > 1 /\ Len(Tail(c)) = Len(c) - 1
        <5>1. Len(Tail(c)) = Len(c) - 1 /\ Len(c) \in Nat /\ Tail(c) \in Seq(Neighbours)
          BY <3>1, HeadTailProperties
        <5>2. Len(Tail(c)) > 0
          BY <3>4, <5>1, EmptySeq
        <5> QED BY <5>1, <5>2
      <4>2. Last(Tail(c)) = Last(c)
        BY <4>1, <3>1 DEF Last
      <4>3. told(s)' = Last(Tail(c))
        BY <3>1, <3>4 DEF told
      <4> QED BY <2>1, <3>2, <4>2, <4>3
    <3> QED BY <3>3, <3>4
  <2>2. CASE t # s
    BY <1>0, <1>1, <2>2 DEF told
  <2> QED BY <2>1, <2>2
<1>5. ASSUME NEW t \in Switch, told(t)' # m_table'[t], began[t] = None PROVE FALSE
  BY <1>0, <1>4, <1>5 DEF IInv, Recorded
<1>6. began' \in [Switch -> Nat \cup {None, Early}] /\ Recorded'
  BY <1>0, <1>5, Observed
<1>7. TypeOK'
  BY <1>0, <1>1, <1>3, <1>6 DEF TypeOK
<1> QED BY <1>6, <1>7 DEF IInv

LEMMA TickIInv == IInv /\ Tick => IInv'
<1> SUFFICES ASSUME IInv, Tick PROVE IInv'
  OBVIOUS
<1>1. TypeOK'
  BY ReportsAssumption DEF IInv, TypeOK, Tick
<1>2. Recorded'
  BY DEF IInv, Recorded, Tick, told
<1> QED BY <1>1, <1>2 DEF IInv

LEMMA StepIInv == IInv /\ [Next]_vars => IInv'
<1> SUFFICES ASSUME IInv, [Next]_vars PROVE IInv'
  OBVIOUS
<1>1. CASE PeriodicCheckStats
  BY <1>1, PeriodicIInv
<1>2. CASE Tick
  BY <1>2, TickIInv
<1>3. CASE \E s \in Switch : HandleExperimenter(s)
  BY <1>3, HandleIInv
<1>4. CASE \E s \in Switch, n \in Neighbours : RoutingTableChanged(s, n)
  BY <1>4, ChangeIInv
<1>5. CASE UNCHANGED vars
  BY <1>5 DEF vars, times, IInv, TypeOK, Recorded, told
<1> QED BY <1>1, <1>2, <1>3, <1>4, <1>5 DEF Next

LEMMA IInvHolds == Spec => []IInv
BY InitIInv, StepIInv, PTL DEF Spec

(* Types of the helper's times, the channels and the controller's view.     *)
THEOREM TypeCorrect == Spec => []TypeOK
<1>1. IInv => TypeOK
  BY DEF IInv
<1> QED BY <1>1, IInvHolds, PTL

(* For any intervals and gap, RoutingTableChanged leaves the controller     *)
(* uninformed only of changes before the time it waits for or in the gap    *)
(* after a periodic report.                                                 *)
THEOREM ChangesTold == Spec => []ChangesAreTold
<1>1. IInv => ChangesAreTold
  BY DEF IInv, Recorded, ChangesAreTold
<1> QED BY <1>1, IInvHolds, PTL

-----------------------------------------------------------------------------
(***************************************************************************)
(* The scenario clock of the controller, module ScenarioClock.             *)
(***************************************************************************)
(* Two multiples of a number that are less than it apart are the same. *)
LEMMA MultiplesApart ==
  ASSUME NEW m \in Nat \ {0}, NEW j \in Nat, NEW k \in Nat,
         k * m <= j * m, j * m < k * m + m
  PROVE  j = k
<1>1. CASE j < k
  <2>1. j * m + m <= k * m
    <3>1. PICK i \in Nat : k = j + 1 + i
      BY <1>1
    <3>2. k * m = j * m + m + i * m /\ i * m \in Nat
      BY <3>1
    <3> QED BY <3>2
  <2> QED BY <2>1
<1>2. CASE k < j
  <2>1. k * m + m <= j * m
    <3>1. PICK i \in Nat : j = k + 1 + i
      BY <1>2
    <3>2. j * m = k * m + m + i * m /\ i * m \in Nat
      BY <3>1
    <3> QED BY <3>2
  <2> QED BY <2>1
<1> QED BY <1>1, <1>2

(* The timestamps of the scenario that a call before time d looks up. *)
Met(S, d) ==
  {x \in DOMAIN S : x.written = "float" /\ x.time < d
                      /\ \E n \in 0 .. x.time : x.time = n * Second}

Newest(X) == CHOOSE x \in X : \A y \in X : y.time <= x.time

(* A call at time d meets one more timestamp, that of d itself, which is    *)
(* later than all before it.                                                *)
LEMMA NextMet ==
  ASSUME Second \in Nat \ {0}, MaxTime \in Nat,
         NEW S, DOMAIN S \subseteq Timestamp, NEW k \in Nat,
         NEW l, l = [time |-> k * Second, written |-> "float"]
  PROVE  /\ Met(S, k * Second + Second) = Met(S, k * Second) \cup ({l} \cap DOMAIN S)
         /\ \A x \in Met(S, k * Second) : x.time \in Nat /\ x.time < l.time
         /\ l.time \in Nat
<1> DEFINE d == k * Second
<1>1. d \in Nat /\ l.time = d /\ l.written = "float"
  OBVIOUS
<1>2. \A x \in DOMAIN S : x.time \in Nat /\ x = [time |-> x.time, written |-> x.written]
  BY DEF Timestamp
<1>3. \A x : x \in Met(S, d) => x \in DOMAIN S /\ x.time < d
  BY DEF Met
<1>4. l \in DOMAIN S => l \in Met(S, d + Second)
  <2>1. k \in 0 .. d
    OBVIOUS
  <2> QED BY <1>1, <2>1 DEF Met
<1>5. Met(S, d) \subseteq Met(S, d + Second)
  <2> HIDE DEF d
  <2> QED BY <1>1, <1>2 DEF Met
<1>6. ASSUME NEW x \in Met(S, d + Second) PROVE x \in Met(S, d) \/ x = l
  <2>1. x \in DOMAIN S /\ x.written = "float" /\ x.time < d + Second
    BY DEF Met
  <2>2. PICK n \in 0 .. x.time : x.time = n * Second
    BY DEF Met
  <2>3. x.time >= d => n = k
    BY <2>1, <2>2, <1>2, MultiplesApart
  <2>4. x.time >= d => x.time = d
    BY <2>2, <2>3
  <2>5. x.time = d => x = l
    BY <1>2, <2>1
  <2> HIDE DEF d
  <2> QED BY <1>1, <1>2, <2>1, <2>2, <2>4, <2>5 DEF Met
<1>7. \A x \in Met(S, d) : x.time \in Nat /\ x.time < l.time
  BY <1>1, <1>2, <1>3
<1>8. \A x \in Met(S, d + Second) : x \in DOMAIN S
  BY DEF Met
<1> HIDE DEF d
<1>9. Met(S, d + Second) = Met(S, d) \cup ({l} \cap DOMAIN S)
  BY <1>4, <1>5, <1>6, <1>8
<1> QED BY <1>1, <1>7, <1>9 DEF d

(* The newest of some timestamps is one that is later than the others. *)
LEMMA NewestLast ==
  ASSUME NEW X, NEW l, l.time \in Nat, \A x \in X : x.time \in Nat /\ x.time < l.time
  PROVE  Newest(X \cup {l}) = l
<1>1. \A y \in X \cup {l} : y.time <= l.time
  OBVIOUS
<1>2. \A x \in X \cup {l} : (\A y \in X \cup {l} : y.time <= x.time) => x = l
  OBVIOUS
<1> QED BY <1>1, <1>2 DEF Newest

(* The configurations receive_clock has met so far; off the clock or not,   *)
(* the settings are those of the latest of them.                            *)
met == {x \in DOMAIN sce_routing_vars :
          /\ x.written = "float" /\ x.time < call_due
          /\ \E n \in 0 .. x.time : x.time = n * Second}
MetAreLatest == SettingsOf(met)

(* The multiples of Second are the times of the calls; all else is types.   *)
ClockInv ==
  /\ now \in Nat /\ now <= call_due /\ \E k \in Nat : call_due = k * Second
  /\ sce_routing_vars \in Scenario
  /\ Service \subseteq DOMAIN thetas /\ DOMAIN TechCost \subseteq DOMAIN tech_cost
  /\ MetAreLatest

(* The timestamps met before time d whose configuration is in N. *)
Naming(d, N) == Met(sce_routing_vars, d) \cap N

Names_theta(s) == {x \in DOMAIN sce_routing_vars : s \in DOMAIN sce_routing_vars[x].theta}
Names_tech(y)  == {x \in DOMAIN sce_routing_vars : y \in DOMAIN sce_routing_vars[x].tech_costs}
Names_gama     == {x \in DOMAIN sce_routing_vars : sce_routing_vars[x].gama # {}}
Names_flow(tr) == {x \in DOMAIN sce_routing_vars : tr \in DOMAIN sce_routing_vars[x].flows}

Latest_theta(d) == \A s \in Service :
  LET X == Naming(d, Names_theta(s))
  IN thetas[s] = IF X = {} THEN W[s] ELSE sce_routing_vars[Newest(X)].theta[s]
Latest_tech(d) == \A y \in DOMAIN TechCost :
  LET X == Naming(d, Names_tech(y))
  IN tech_cost[y] = IF X = {} THEN TechCost[y] ELSE sce_routing_vars[Newest(X)].tech_costs[y]
Latest_gama(d) ==
  LET X == Naming(d, Names_gama)
  IN {gama} = IF X = {} THEN {Gama} ELSE sce_routing_vars[Newest(X)].gama
Latest_flow(d) == \A tr \in Triple(Address) :
  LET X == Naming(d, Names_flow(tr))
  IN /\ tr \in DOMAIN config_flows <=> X # {}
     /\ X # {} => config_flows[tr] = sce_routing_vars[Newest(X)].flows[tr]

(* MetAreLatest, one kind of setting at a time. *)
LEMMA LatestIs ==
  MetAreLatest
    <=> Latest_theta(call_due) /\ Latest_tech(call_due) /\ Latest_gama(call_due) /\ Latest_flow(call_due)
<1>1. met = Met(sce_routing_vars, call_due)
  BY DEF met, Met
<1>2. \A X : latest(X) = sce_routing_vars[Newest(X)]
  BY DEF latest, Newest
<1>3. /\ \A s : {x \in met : s \in DOMAIN sce_routing_vars[x].theta} = Naming(call_due, Names_theta(s))
      /\ \A y : {x \in met : y \in DOMAIN sce_routing_vars[x].tech_costs} = Naming(call_due, Names_tech(y))
      /\ {x \in met : sce_routing_vars[x].gama # {}} = Naming(call_due, Names_gama)
      /\ \A tr : {x \in met : tr \in DOMAIN sce_routing_vars[x].flows} = Naming(call_due, Names_flow(tr))
  BY <1>1 DEF Naming, Met, Names_theta, Names_tech, Names_gama, Names_flow
<1> QED BY <1>2, <1>3 DEF MetAreLatest, SettingsOf, Latest_theta, Latest_tech, Latest_gama, Latest_flow

(* The values a call leaves are those of the latest configuration again. *)
LEMMA AppliedLatest ==
  ASSUME ClockInv, receive_clock
  PROVE  ClockInv'
<1> DEFINE S == sce_routing_vars
           l == looked_up(now)
<1>1. PICK k \in Nat : now = k * Second /\ call_due = k * Second
  BY DEF ClockInv, receive_clock
<1>2. /\ Second \in Nat \ {0} /\ MaxTime \in Nat /\ DOMAIN S \subseteq Timestamp
      /\ \A x \in DOMAIN S : \A v, w \in S[x].gama : v = w
  BY ScenarioAssumption DEF ClockInv
<1>3. l = [time |-> k * Second, written |-> "float"]
  BY <1>1 DEF looked_up
<1>4. /\ call_due' = call_due + Second /\ now' = now /\ S' = S
      /\ call_due' = k * Second + Second
  BY <1>1 DEF receive_clock
<1>5. ASSUME NEW N
      PROVE  /\ l \in DOMAIN S \cap N
                  => Naming(call_due', N) # {} /\ Newest(Naming(call_due', N)) = l
             /\ l \notin DOMAIN S \cap N => Naming(call_due', N) = Naming(call_due, N)
  <2>1. /\ Met(S, call_due') = Met(S, call_due) \cup ({l} \cap DOMAIN S)
        /\ \A x \in Met(S, call_due) : x.time \in Nat /\ x.time < l.time
        /\ l.time \in Nat
    <3> HIDE DEF l
    <3> QED BY <1>1, <1>2, <1>3, <1>4, NextMet
  <2>2. ASSUME l \in DOMAIN S \cap N
        PROVE  Naming(call_due', N) # {} /\ Newest(Naming(call_due', N)) = l
    <3>1. Naming(call_due', N) = Naming(call_due, N) \cup {l}
      BY <2>1, <2>2 DEF Naming
    <3>2. \A x \in Naming(call_due, N) : x.time \in Nat /\ x.time < l.time
      BY <2>1 DEF Naming
    <3> HIDE DEF l
    <3> QED BY <2>1, <3>1, <3>2, NewestLast
  <2>3. ASSUME l \notin DOMAIN S \cap N
        PROVE  Naming(call_due', N) = Naming(call_due, N)
    BY <2>1, <2>3 DEF Naming
  <2> QED BY <2>2, <2>3
<1>6. /\ Latest_theta(call_due) /\ Latest_tech(call_due)
      /\ Latest_gama(call_due) /\ Latest_flow(call_due)
  BY LatestIs DEF ClockInv
<1>7. /\ \A s : Names_theta(s)' = Names_theta(s)
      /\ \A s : Names_tech(s)' = Names_tech(s)
      /\ Names_gama' = Names_gama
      /\ \A s : Names_flow(s)' = Names_flow(s)
      /\ \A d, N : Naming(d, N)' = Naming(d, N)
  BY <1>4 DEF Names_theta, Names_tech, Names_gama, Names_flow, Naming, Met
<1>8. l \in DOMAIN S =>
        /\ thetas' = update(thetas, S[l].theta)
        /\ gama' = IF S[l].gama = {} THEN gama ELSE CHOOSE v \in S[l].gama : TRUE
        /\ tech_cost' = update(tech_cost, S[l].tech_costs)
        /\ config_flows' = update(config_flows, S[l].flows)
  <2>1. l \in DOMAIN S => l \in get_config_for_time(now)
    BY DEF get_config_for_time, looked_up
  <2> QED BY <2>1 DEF receive_clock, apply
<1>9. l \notin DOMAIN S => UNCHANGED <<thetas, gama, tech_cost, config_flows>>
  BY DEF receive_clock, settings
<1>10. Latest_theta(call_due)'
  <2> SUFFICES ASSUME NEW s \in Service
      PROVE LET X == Naming(call_due', Names_theta(s))
            IN thetas'[s] = IF X = {} THEN W[s] ELSE S[Newest(X)].theta[s]
    BY <1>4, <1>7 DEF Latest_theta
  <2>1. l \in DOMAIN S \cap Names_theta(s) => thetas'[s] = S[l].theta[s]
    BY <1>8 DEF Names_theta, update
  <2>2. l \notin DOMAIN S \cap Names_theta(s) => thetas'[s] = thetas[s]
    BY <1>8, <1>9 DEF Names_theta, update, ClockInv
  <2> QED BY <1>5, <1>6, <2>1, <2>2 DEF Latest_theta
<1>11. Latest_tech(call_due)'
  <2> SUFFICES ASSUME NEW s \in DOMAIN TechCost
      PROVE LET X == Naming(call_due', Names_tech(s))
            IN tech_cost'[s] = IF X = {} THEN TechCost[s] ELSE S[Newest(X)].tech_costs[s]
    BY <1>4, <1>7 DEF Latest_tech
  <2>1. l \in DOMAIN S \cap Names_tech(s) => tech_cost'[s] = S[l].tech_costs[s]
    BY <1>8 DEF Names_tech, update
  <2>2. l \notin DOMAIN S \cap Names_tech(s) => tech_cost'[s] = tech_cost[s]
    BY <1>8, <1>9 DEF Names_tech, update, ClockInv
  <2> QED BY <1>5, <1>6, <2>1, <2>2 DEF Latest_tech
<1>12. Latest_gama(call_due)'
  <2>1. l \in DOMAIN S \cap Names_gama => {gama'} = S[l].gama
    BY <1>2, <1>8 DEF Names_gama
  <2>2. l \notin DOMAIN S \cap Names_gama => gama' = gama
    BY <1>8, <1>9 DEF Names_gama
  <2>3. LET X == Naming(call_due', Names_gama)
        IN {gama'} = IF X = {} THEN {Gama} ELSE S[Newest(X)].gama
    BY <1>5, <1>6, <2>1, <2>2 DEF Latest_gama
  <2> QED BY <1>4, <1>7, <2>3 DEF Latest_gama
<1>13. Latest_flow(call_due)'
  <2> SUFFICES ASSUME NEW tr \in Triple(Address)
      PROVE LET X == Naming(call_due', Names_flow(tr))
            IN /\ tr \in DOMAIN config_flows' <=> X # {}
               /\ X # {} => config_flows'[tr] = S[Newest(X)].flows[tr]
    BY <1>4, <1>7 DEF Latest_flow
  <2>1. l \in DOMAIN S \cap Names_flow(tr)
          => tr \in DOMAIN config_flows' /\ config_flows'[tr] = S[l].flows[tr]
    BY <1>8 DEF Names_flow, update
  <2>2. l \notin DOMAIN S \cap Names_flow(tr)
          => /\ tr \in DOMAIN config_flows' <=> tr \in DOMAIN config_flows
             /\ tr \in DOMAIN config_flows => config_flows'[tr] = config_flows[tr]
    BY <1>8, <1>9 DEF Names_flow, update
  <2> QED BY <1>5, <1>6, <2>1, <2>2 DEF Latest_flow
<1>14. MetAreLatest'
  BY <1>10, <1>11, <1>12, <1>13, LatestIs, PTL
<1>15. call_due' = (k + 1) * Second /\ k + 1 \in Nat /\ now' \in Nat /\ now' <= call_due'
  BY <1>1, <1>2, <1>4
<1>16. Service \subseteq DOMAIN thetas' /\ DOMAIN TechCost \subseteq DOMAIN tech_cost'
  BY <1>8, <1>9 DEF update, ClockInv
<1> QED BY <1>4, <1>14, <1>15, <1>16 DEF ClockInv

(* The first call is still to come, so no configuration has been met. *)
LEMMA ClockInitOK ==
  ASSUME ClockInit
  PROVE  ClockInv
<1>1. DOMAIN sce_routing_vars \subseteq Timestamp /\ sce_routing_vars \in Scenario
  BY ScenarioAssumption DEF ClockInit
<1>2. \A x \in DOMAIN sce_routing_vars : x.time \in Nat
  BY ScenarioAssumption, <1>1 DEF Timestamp
<1>3. met = {}
  BY <1>2 DEF met, ClockInit
<1>4. MetAreLatest
  BY <1>3 DEF MetAreLatest, SettingsOf, ClockInit
<1>5. call_due = 0 * Second /\ now = 0 /\ call_due = 0
  BY ScenarioAssumption DEF ClockInit
<1> QED BY ScenarioAssumption, <1>1, <1>4, <1>5 DEF ClockInv, ClockInit

LEMMA ClockStep ==
  ASSUME ClockInv, [ClockNext]_clock_vars
  PROVE  ClockInv'
<1>1. ASSUME UNCHANGED <<call_due, sce_routing_vars, thetas, gama, tech_cost, config_flows>>,
             now' \in Nat, now' <= call_due
      PROVE  ClockInv'
  <2>1. MetAreLatest'
    BY <1>1 DEF ClockInv, MetAreLatest, SettingsOf, met, latest
  <2> QED BY <1>1, <2>1 DEF ClockInv
<1>2. call_due \in Nat
  BY ScenarioAssumption DEF ClockInv
<1>3. CASE receive_clock
  BY <1>3, AppliedLatest
<1>4. CASE ClockTick
  BY <1>1, <1>2, <1>4 DEF ClockTick, settings, ClockInv
<1>5. ASSUME NEW tr \in Triple(Vertex), AddKey(tr) \/ del_key(tr)
      PROVE  ClockInv'
  BY <1>1, <1>5 DEF AddKey, del_key, settings, ClockInv
<1>6. CASE UNCHANGED clock_vars
  BY <1>1, <1>6 DEF clock_vars, settings, ClockInv
<1> QED BY <1>3, <1>4, <1>5, <1>6 DEF ClockNext

(* If every timestamp of the scenario is on the clock, a setting has the    *)
(* value of the latest configuration up to the last call that names it.     *)
THEOREM SettingsAlwaysLatest == ClockSpec => []SettingsAreLatest
<1>1. ClockInit => ClockInv
  BY ClockInitOK
<1>2. ClockInv /\ [ClockNext]_clock_vars => ClockInv'
  BY ClockStep
<1>3. ClockInv => SettingsAreLatest
  <2> SUFFICES ASSUME ClockInv, \A x \in DOMAIN sce_routing_vars : OnTheClock(x)
               PROVE  SettingsOf({x \in DOMAIN sce_routing_vars : x.time < call_due})
    BY DEF SettingsAreLatest
  <2>1. met = {x \in DOMAIN sce_routing_vars : x.time < call_due}
    BY DEF met, OnTheClock
  <2> QED BY <2>1 DEF ClockInv, MetAreLatest
<1> QED BY <1>1, <1>2, <1>3, PTL DEF ClockSpec
=============================================================================
