--------------------------- MODULE NodeStatistics ---------------------------
(***************************************************************************)
(* The available bandwidth of a switch port (node_stats.cc): how long its  *)
(* radio was in each state during a period, and how many bytes it sent.    *)
(* The radio's state helper reports a state to MonitorPhyState: sending as *)
(* soon as it begins, receiving when it ends, an idle or busy medium when  *)
(* something else begins.  At the end of a period StateFinalTimer adds the *)
(* state in progress, and PeriodicallyResetVars turns the times into a     *)
(* bandwidth and clears them.                                              *)
(*                                                                         *)
(* With the simulator's resolution of a nanosecond the picosecond between  *)
(* the two is none: they run at the same time, in this order, and other    *)
(* events of that time run before, between or after them.  Sleeping,       *)
(* switched-off and retuning radios are left out, and so are the packet    *)
(* counters, which nothing reads.                                          *)
(***************************************************************************)
EXTENDS Integers, FiniteSetsExt

CONSTANTS
  period,                \* length of a period, in units of time
  TxDur, RxDur, CcaDur,  \* how long a sending, a receiving and a busy medium can last
  COUNT_FROM,            \* bytes are counted from this time on
  PktSize,               \* bytes of a packet
  MAX_CAPACITY,          \* the initial value of maxCapacity
  MaxNow                 \* bound: length of the simulation

ASSUME StatisticsAssumption ==
  /\ period \in Nat \ {0} /\ PktSize \in Nat \ {0} /\ MAX_CAPACITY \in Nat
  /\ COUNT_FROM \in Nat /\ MaxNow \in Nat
  /\ TxDur \subseteq Nat \ {0} /\ RxDur \subseteq Nat \ {0} /\ CcaDur \subseteq Nat \ {0}

WifiPhyState == {"TX", "RX", "CCA_BUSY", "IDLE"}

VARIABLES
  now,
  radio,           \* start and end of what the radio does; rxOn: a frame is being received
  log,             \* timers, and lastStart and lastDuration of the last call
  phy_bytesTotal,
  maxCapacity, avbw,
  nextFinal, nextReset,  \* when the two periodic events are scheduled
  sending          \* history: time spent sending since the last reset

vars == <<now, radio, log, phy_bytesTotal, maxCapacity, avbw, nextFinal, nextReset, sending>>

NoTime == [s \in WifiPhyState |-> 0]

Init ==
  /\ now = 0
  /\ radio = [endTx |-> 0, startRx |-> 0, endRx |-> 0, startCcaBusy |-> 0, endCcaBusy |-> 0,
              rxOn |-> FALSE]
  /\ log = [timers |-> NoTime, lastStart |-> 0, lastDuration |-> 0]
  /\ phy_bytesTotal = 0
  /\ maxCapacity = MAX_CAPACITY /\ avbw = 0
  /\ nextFinal = period /\ nextReset = period
  /\ sending = 0

-----------------------------------------------------------------------------
delta == now % period

(* Mutant: what began before this period counts in full. *)
MonitorPhyState_unclipped(l, start, duration, state) ==
  [timers |-> [l.timers EXCEPT ![state] = @ + duration],
   lastStart |-> start, lastDuration |-> duration]

(* What a call of MonitorPhyState makes of the log l. *)
MonitorPhyState(l, start, duration, state) ==
  LET event_end == start + duration
      p_t0      == now - delta
      began     == IF start < p_t0 THEN delta ELSE duration
      inside    == IF event_end > p_t0 + period THEN began - (event_end % period) ELSE began
  IN [timers |-> IF event_end < p_t0 THEN l.timers
                 ELSE [l.timers EXCEPT ![state] = @ + inside],
      lastStart |-> start, lastDuration |-> duration]

GetState ==
  IF radio.endTx > now THEN "TX"
  ELSE IF radio.endRx > now THEN "RX"
  ELSE IF radio.endCcaBusy > now THEN "CCA_BUSY"
  ELSE "IDLE"

(* The calls of LogPreviousIdleAndCcaBusyStates: the busy time still to be  *)
(* reported and then the idle time.                                         *)
LogPreviousIdleAndCcaBusyStates(l) ==
  LET ccaStart  == Max({radio.endRx, radio.endTx, radio.startCcaBusy})
      idleStart == Max({radio.endRx, radio.endTx, radio.endCcaBusy})
      busy == IF /\ radio.endCcaBusy > radio.endRx /\ radio.endCcaBusy > radio.endTx
                 /\ idleStart > ccaStart
              THEN MonitorPhyState(l, ccaStart, idleStart - ccaStart, "CCA_BUSY") ELSE l
  IN IF GetState = "CCA_BUSY" THEN MonitorPhyState(l, ccaStart, now - ccaStart, "CCA_BUSY")
     ELSE IF now > idleStart THEN MonitorPhyState(busy, idleStart, now - idleStart, "IDLE")
     ELSE busy

-----------------------------------------------------------------------------
(* Mutant: counting begins a little later. *)
PhyTx_after == IF now > COUNT_FROM THEN phy_bytesTotal + PktSize ELSE phy_bytesTotal

PhyTx == IF now >= COUNT_FROM THEN phy_bytesTotal + PktSize ELSE phy_bytesTotal

(* The radio sends for d units, giving up a frame it is receiving: PhyTx    *)
(* and then the calls that SwitchToTx makes.                                *)
SwitchToTx(d) ==
  /\ GetState # "TX"
  /\ radio.rxOn => radio.endRx > now
  /\ phy_bytesTotal' = PhyTx
  /\ LET before == IF GetState = "RX"
                   THEN MonitorPhyState(log, radio.startRx, now - radio.startRx, "RX")
                   ELSE LogPreviousIdleAndCcaBusyStates(log)
     IN log' = MonitorPhyState(before, now, d, "TX")
  /\ radio' = [radio EXCEPT !.endTx = now + d, !.rxOn = FALSE,
                            !.endRx = IF GetState = "RX" THEN now ELSE @]
  /\ UNCHANGED <<now, maxCapacity, avbw, nextFinal, nextReset, sending>>

SwitchToRx(d) ==
  /\ GetState \in {"IDLE", "CCA_BUSY"} /\ ~radio.rxOn
  /\ log' = LogPreviousIdleAndCcaBusyStates(log)
  /\ radio' = [radio EXCEPT !.startRx = now, !.endRx = now + d, !.rxOn = TRUE]
  /\ UNCHANGED <<now, phy_bytesTotal, maxCapacity, avbw, nextFinal, nextReset, sending>>

DoSwitchFromRx ==
  /\ radio.rxOn /\ radio.endRx = now
  /\ log' = MonitorPhyState(log, radio.startRx, now - radio.startRx, "RX")
  /\ radio' = [radio EXCEPT !.rxOn = FALSE]
  /\ UNCHANGED <<now, phy_bytesTotal, maxCapacity, avbw, nextFinal, nextReset, sending>>

SwitchMaybeToCcaBusy(d) ==
  /\ GetState # "RX" /\ ~radio.rxOn
  /\ log' = IF GetState = "IDLE" THEN LogPreviousIdleAndCcaBusyStates(log) ELSE log
  /\ radio' = [radio EXCEPT !.startCcaBusy = IF GetState # "CCA_BUSY" THEN now ELSE @,
                            !.endCcaBusy = Max({@, now + d})]
  /\ UNCHANGED <<now, phy_bytesTotal, maxCapacity, avbw, nextFinal, nextReset, sending>>

-----------------------------------------------------------------------------
StateFinalTimer ==
  /\ now = nextFinal
  /\ LET since == now - (log.lastStart + log.lastDuration)
     IN log' = [log EXCEPT !.timers[GetState] = @ + (IF since > period THEN period ELSE since)]
  /\ nextFinal' = now + period
  /\ UNCHANGED <<now, radio, phy_bytesTotal, maxCapacity, avbw, nextReset, sending>>

(* A time in hundredths, to compare with a percentage of the period. *)
hundredths(state) == 100 * log.timers[state]

hardly_sent == hundredths("TX") < 5 * period

congested ==
  \/ hundredths("IDLE") <= 15 * period
  \/ hundredths("IDLE") <= 20 * period /\ hundredths("CCA_BUSY") >= 5 * period

capacity ==
  IF hardly_sent THEN (maxCapacity * 9) \div 10
  ELSE IF congested THEN (maxCapacity * 36) \div 100
  ELSE (phy_bytesTotal * 8 * period) \div log.timers["TX"]

PeriodicallyResetVars ==
  /\ now = nextReset /\ now < nextFinal
  /\ maxCapacity' = IF hardly_sent \/ congested THEN maxCapacity
                    ELSE (capacity * 540) \div 582
  /\ avbw' = (capacity * log.timers["IDLE"]) \div period
  /\ phy_bytesTotal' = 0 /\ sending' = 0
  /\ log' = [log EXCEPT !.timers = NoTime]
  /\ nextReset' = now + period
  /\ UNCHANGED <<now, radio, nextFinal>>

(* Time passes up to the next event. *)
Tick ==
  /\ now < MaxNow /\ now < nextFinal /\ now < nextReset
  /\ radio.rxOn => now < radio.endRx
  /\ now' = now + 1
  /\ sending' = IF GetState = "TX" THEN sending + 1 ELSE sending
  /\ UNCHANGED <<radio, log, phy_bytesTotal, maxCapacity, avbw, nextFinal, nextReset>>

Next ==
  \/ \E d \in TxDur : SwitchToTx(d)
  \/ \E d \in RxDur : SwitchToRx(d)
  \/ DoSwitchFromRx
  \/ \E d \in CcaDur : SwitchMaybeToCcaBusy(d)
  \/ StateFinalTimer
  \/ PeriodicallyResetVars
  \/ Tick

Spec == Init /\ [][Next]_vars

-----------------------------------------------------------------------------
(* All of a port's times and counters are non-negative, but for the sending *)
(* time: a sending that runs over the end of a period is taken back twice.  *)
TypeOK ==
  /\ now \in Nat /\ phy_bytesTotal \in Nat /\ maxCapacity \in Nat /\ avbw \in Nat
  /\ nextFinal \in Nat /\ nextReset \in Nat /\ sending \in Nat
  /\ radio \in [endTx : Nat, startRx : Nat, endRx : Nat, startCcaBusy : Nat,
                endCcaBusy : Nat, rxOn : BOOLEAN]
  /\ log.lastStart \in Nat /\ log.lastDuration \in Nat
  /\ log.timers \in [WifiPhyState -> Int]
  /\ \A s \in WifiPhyState \ {"TX"} : log.timers[s] \in Nat

(* The idle time never counts time in which the radio was sending, nor time *)
(* of another period, however the reports of states fall about the end of a *)
(* period: the bandwidth reported is never more than the capacity times the *)
(* rest of the period.  Receiving time can be taken for idle time, if the   *)
(* frame ends just when the period does and StateFinalTimer comes first.    *)
IdleExcludesSending == log.timers["IDLE"] + sending <= now - (nextReset - period)

(* Time spent sending comes with the bytes sent: once bytes are counted,    *)
(* PeriodicallyResetVars never divides no bytes by a sending time, which    *)
(* would leave a port without capacity for good.                            *)
SentTimeHasBytes ==
  nextReset - period >= COUNT_FROM /\ log.timers["TX"] > 0 => phy_bytesTotal > 0
=============================================================================
