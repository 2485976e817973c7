--------------------------- MODULE QualityMonitor ---------------------------
(***************************************************************************)
(* The link statistics of the switches (quality-monitor.cc) up to a report *)
(* of them.  Trace callbacks of the radio devices fill three tables: the   *)
(* time each packet was last handed to a MAC, the packets not known to be  *)
(* delivered, and a list of samples for every pair of source and receiving *)
(* port.  PeriodicCheckStats drops what is too old and reports.            *)
(*                                                                         *)
(* A monitored device is named by its address.  Packet sizes, signal       *)
(* levels and the means and percentages of a report are left out.          *)
(***************************************************************************)
EXTENDS Integers, FiniteSets, FiniteSetsExt, Sequences

CONSTANTS
  Dev,       \* monitored devices: the switch ports
  Legacy,    \* addresses of unmonitored nodes
  Pkt,       \* packet uids; a forwarded packet keeps its uid
  Src, Dst,  \* source and destination address in each packet's header
  Broadcast, \* the destination of a broadcast
  m_timeslot, m_max_delay, PERIODIC_STATS_INTERVAL,
  FIRST_CHECK,  \* when CreateOpenFlowChannels schedules the first check
  NsPerTick, \* nanoseconds in a unit of time
  MaxNow,    \* bound: length of the simulation
  None

Addr == Dev \cup Legacy

ASSUME MonitorAssumption ==
  /\ IsFiniteSet(Pkt)
  /\ None \notin Nat
  /\ Src \in [Pkt -> Addr] /\ Dst \in [Pkt -> Addr \cup {Broadcast}]
  /\ Broadcast \notin Addr
  /\ {m_timeslot, m_max_delay, FIRST_CHECK, MaxNow} \subseteq Nat
  /\ PERIODIC_STATS_INTERVAL \in Nat \ {0} /\ NsPerTick \in Nat \ {0}

VARIABLES
  now,           \* the simulator's clock
  nextCheck,     \* when PeriodicCheckStats is scheduled
  txPacket,      \* time of the last MacTx of each packet, None if not kept
  m_lostPackets, \* entries of each packet in the list of its address pair
  m_flowsStats,  \* samples by pair of source address and receiving device
  lastPacket,    \* time of the last frame each device's radio received
  txBy, rxBy,    \* devices that have sent and received each packet
  onAir          \* packets sent at an earlier instant

vars == <<now, nextCheck, txPacket, m_lostPackets, m_flowsStats, lastPacket, txBy, rxBy, onAir>>

-----------------------------------------------------------------------------
Init ==
  /\ now = 0
  /\ nextCheck = FIRST_CHECK
  /\ txPacket = [p \in Pkt |-> None]
  /\ m_lostPackets = [p \in Pkt |-> 0]
  /\ m_flowsStats = [k \in {} |-> <<>>]
  /\ lastPacket = [d \in Dev |-> None]
  /\ txBy = [p \in Pkt |-> {}]
  /\ rxBy = [p \in Pkt |-> {}]
  /\ onAir = {}

(* MonitorMacTx: device d hands packet p, its own or one to forward, to the *)
(* MAC.  Nothing is sent at time zero.                                      *)
MonitorMacTx(d, p) ==
  /\ now > 0
  /\ d = Src[p] \/ (d \in rxBy[p] /\ d # Dst[p])
  /\ d \notin txBy[p]
  /\ txPacket' = [txPacket EXCEPT ![p] = now]
  /\ m_lostPackets' = [m_lostPackets EXCEPT ![p] = IF Dst[p] = Broadcast THEN @ ELSE @ + 1]
  /\ txBy' = [txBy EXCEPT ![p] = @ \cup {d}]
  /\ UNCHANGED <<now, nextCheck, m_flowsStats, lastPacket, rxBy, onAir>>

(* MonitorSniffRx: the radio of d receives a frame, for d or not. *)
MonitorSniffRx(d) ==
  /\ lastPacket' = [lastPacket EXCEPT ![d] = now]
  /\ UNCHANGED <<now, nextCheck, txPacket, m_lostPackets, m_flowsStats, txBy, rxBy, onAir>>

samples(k) == IF k \in DOMAIN m_flowsStats THEN m_flowsStats[k] ELSE <<>>

(* Mutant: the newest sample first. *)
push_front(k, x) ==
  [j \in DOMAIN m_flowsStats \cup {k} |->
     IF j = k THEN <<x>> \o samples(k) ELSE m_flowsStats[j]]

push_back(k, x) ==
  [j \in DOMAIN m_flowsStats \cup {k} |->
     IF j = k THEN Append(samples(k), x) ELSE m_flowsStats[j]]

(* Mutant: the two times are swapped. *)
delay_of_swapped(p) == IF txPacket[p] = None THEN 1 ELSE (txPacket[p] - now) * NsPerTick

(* Time since the last sending, in nanoseconds; one if that is not known.   *)
delay_of(p) == IF txPacket[p] = None THEN 1 ELSE (now - txPacket[p]) * NsPerTick

Sample(d, p) ==
  [phyTime |-> lastPacket[d], receptionTime |-> now, delay |-> delay_of(p), dst |-> Dst[p]]

(* MonitorMacRx: the MAC of d passes packet p up, some time after one of    *)
(* its senders sent it and the radio of d received a frame.  Another may    *)
(* have sent it again at this very instant.  The entry in the list of lost  *)
(* packets is erased from a copy of that list, so the list stays as it is.  *)
MonitorMacRx(d, p) ==
  /\ d # Src[p] /\ d \notin rxBy[p]
  /\ now > 0 /\ (Src[p] \in Legacy \/ p \in onAir)
  /\ lastPacket[d] # None
  /\ rxBy' = [rxBy EXCEPT ![p] = @ \cup {d}]
  /\ txPacket' = [txPacket EXCEPT ![p] = IF d = Dst[p] THEN None ELSE @]
  /\ m_flowsStats' = push_back(<<Src[p], d>>, Sample(d, p))
  /\ UNCHANGED <<now, nextCheck, m_lostPackets, lastPacket, txBy, onAir>>

-----------------------------------------------------------------------------
old(x) ==
  /\ x.receptionTime # 0
  /\ now - x.receptionTime > m_timeslot \/ now - x.phyTime > m_timeslot

(* The loop over one list: erase from the front up to the first sample that *)
(* is not old.                                                              *)
without_old(s) ==
  LET young == {i \in 1 .. Len(s) : ~old(s[i])}
  IN IF young = {} THEN <<>> ELSE SubSeq(s, Min(young), Len(s))

(* Mutant: lists that became empty are kept. *)
CheckForOldPackets_keys ==
  /\ m_flowsStats' = [k \in DOMAIN m_flowsStats |-> without_old(m_flowsStats[k])]
  /\ txPacket' = txPacket

(* CheckForOldPackets; an empty list is dropped with its key. *)
CheckForOldPackets ==
  /\ m_flowsStats' = [k \in {k \in DOMAIN m_flowsStats : without_old(m_flowsStats[k]) # <<>>}
                        |-> without_old(m_flowsStats[k])]
  /\ txPacket' = [p \in Pkt |->
                    IF txPacket[p] # None /\ txPacket[p] # 0 /\ now - txPacket[p] > m_max_delay
                    THEN None ELSE txPacket[p]]

(* Mutant: the next check is two intervals away. *)
PeriodicCheckStats_late ==
  /\ now = nextCheck
  /\ CheckForOldPackets
  /\ nextCheck' = now + 2 * PERIODIC_STATS_INTERVAL
  /\ UNCHANGED <<now, m_lostPackets, lastPacket, txBy, rxBy, onAir>>

(* PeriodicCheckStats, without the reports it sends. *)
PeriodicCheckStats ==
  /\ now = nextCheck
  /\ CheckForOldPackets
  /\ nextCheck' = now + PERIODIC_STATS_INTERVAL
  /\ UNCHANGED <<now, m_lostPackets, lastPacket, txBy, rxBy, onAir>>

(* Time passes up to the next scheduled event. *)
Tick ==
  /\ now < MaxNow /\ now < nextCheck
  /\ now' = now + 1
  /\ onAir' = {p \in Pkt : txBy[p] # {}}
  /\ UNCHANGED <<nextCheck, txPacket, m_lostPackets, m_flowsStats, lastPacket, txBy, rxBy>>

Next ==
  \/ \E d \in Dev, p \in Pkt : MonitorMacTx(d, p)
  \/ \E d \in Dev : MonitorSniffRx(d)
  \/ \E d \in Dev, p \in Pkt : MonitorMacRx(d, p)
  \/ PeriodicCheckStats
  \/ Tick

Spec == Init /\ [][Next]_vars

-----------------------------------------------------------------------------
SampleType == [phyTime : Nat, receptionTime : Nat, delay : Nat,
               dst : Addr \cup {Broadcast}]

(* Samples are filed under a source and the port they were taken at, and    *)
(* have a time at which the radio received something.                       *)
TypeOK ==
  /\ now \in Nat /\ nextCheck \in Nat
  /\ txPacket \in [Pkt -> Nat \cup {None}]
  /\ m_lostPackets \in [Pkt -> Nat]
  /\ DOMAIN m_flowsStats \subseteq Addr \X Dev
  /\ \A k \in DOMAIN m_flowsStats : m_flowsStats[k] \in Seq(SampleType)
  /\ lastPacket \in [Dev -> Nat \cup {None}]
  /\ txBy \in [Pkt -> SUBSET Dev] /\ rxBy \in [Pkt -> SUBSET Dev] /\ onAir \subseteq Pkt

(* The assertion of GetFlowStats, "Flow has no packets received!": no key   *)
(* is left with an empty list, whatever the checks erase.                   *)
NoEmptyFlow == \A k \in DOMAIN m_flowsStats : m_flowsStats[k] # <<>>

Age(limit) == Max({limit + PERIODIC_STATS_INTERVAL, FIRST_CHECK})

(* Nothing outlives the checks: at any moment, also between two checks when *)
(* an episodic report may be sent, no sample and no sending time is older   *)
(* than its limit and one interval, or the time of the first check.         *)
NothingOutlives ==
  /\ \A k \in DOMAIN m_flowsStats : \A i \in DOMAIN m_flowsStats[k] :
       now - m_flowsStats[k][i].receptionTime <= Age(m_timeslot)
  /\ \A p \in Pkt : txPacket[p] # None => now - txPacket[p] <= Age(m_max_delay)

FreshAfterCheck ==
  PeriodicCheckStats =>
    \A k \in DOMAIN m_flowsStats' : \A i \in DOMAIN m_flowsStats'[k] :
      /\ now - m_flowsStats'[k][i].receptionTime <= m_timeslot
      /\ now - m_flowsStats'[k][i].phyTime <= m_timeslot

(* What a periodic report averages is from the last timeslot, by the time   *)
(* of reception and by the time of the signal: the loop that stops at the   *)
(* first young sample ("newer packets after this") misses no old one.       *)
ReportsAreFresh == [][FreshAfterCheck]_vars
=============================================================================
