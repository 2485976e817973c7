------------------------ MODULE NodeStatisticsProofs ------------------------
(***************************************************************************)
(* For any period and any durations: the idle time of a port never counts  *)
(* time in which it was sending, and a sending time comes with bytes.      *)
(***************************************************************************)
EXTENDS NodeStatistics, TLAPS

Log == [timers : [WifiPhyState -> Int], lastStart : Nat, lastDuration : Nat]

(* Where the last report of a log ends. *)
LogEnd(l) == l.lastStart + l.lastDuration

(* The beginning of the period whose times are being added up. *)
begun == nextReset - period

(* Periods follow each other; StateFinalTimer is at most one step ahead of  *)
(* PeriodicallyResetVars.                                                   *)
Periods ==
  /\ \E k \in Nat : begun = k * period
  /\ begun <= now /\ now <= nextReset
  /\ \/ nextFinal = nextReset
     \/ nextFinal = nextReset + period /\ now = nextReset

(* What began has begun; only a sending is reported before it has ended,    *)
(* and nothing is reported later than what the radio knows of.              *)
RadioInStep ==
  /\ radio.startRx <= now /\ radio.startCcaBusy <= now
  /\ radio.rxOn => radio.endTx <= now
  /\ radio.endTx <= LogEnd(log)
  /\ LogEnd(log) > now => LogEnd(log) = radio.endTx
  /\ LogEnd(log) <= Max({radio.endRx, radio.endTx, radio.endCcaBusy})

(* Up to the end of the last report, or up to now, the idle time of the     *)
(* log l and the time spent sending share the period.                       *)
Shares(l) ==
  LET s == l.timers["IDLE"] + sending
  IN /\ nextFinal = nextReset => s <= 0 \/ (s <= now - begun /\ s <= LogEnd(l) - begun)
     /\ nextFinal # nextReset => s <= period

IInv ==
  /\ TypeOK /\ log \in Log
  /\ Periods /\ RadioInStep /\ Shares(log) /\ SentTimeHasBytes

-----------------------------------------------------------------------------
LEMMA Constants ==
  /\ period \in Nat /\ period > 0 /\ PktSize \in Nat /\ PktSize > 0
  /\ MAX_CAPACITY \in Nat /\ COUNT_FROM \in Nat
  /\ \A d \in TxDur \cup RxDur \cup CcaDur : d \in Nat /\ d > 0
PROOF
  BY StatisticsAssumption DEF StatisticsAssumption

(* A remainder is what is left of a multiple. *)
LEMMA Remainder ==
  ASSUME NEW p \in Nat, p > 0, NEW k \in Nat, NEW r \in Nat, r < p
  PROVE  (k * p + r) % p = r
PROOF
  <1> DEFINE a == k * p + r
             q == a \div p
             m == a % p
  <1>1. k * p \in Nat
    OBVIOUS
  <1>2. a \in Nat
    BY <1>1
  <1> HIDE DEF a
  <1>3. q \in Int /\ m \in Int /\ 0 <= m /\ m < p /\ a = p * q + m
    BY <1>2
  <1> HIDE DEF q, m
  <1>4. k * p = p * k
    OBVIOUS
  <1>5. p * k + r = p * q + m
    BY <1>3, <1>4 DEF a
  <1>6. p * (k - q) = p * k - p * q
    BY <1>3
  <1>7. p * (k - q) = m - r
    BY <1>3, <1>5, <1>6
  <1> DEFINE d == k - q
  <1>8. d \in Int /\ p * d = m - r
    BY <1>3, <1>7
  <1> HIDE DEF d
  <1>9. d = 0
    <2>1. CASE d >= 1
      <3>1. p * d = p + p * (d - 1) /\ p * (d - 1) >= 0
        BY <1>8, <2>1
      <3>2. QED
        BY <1>3, <1>8, <3>1
    <2>2. CASE d <= 0 - 1
      <3>1. p * d = p * (d + 1) - p /\ p * (0 - (d + 1)) >= 0
        BY <1>8, <2>2
      <3>2. p * (0 - (d + 1)) = 0 - p * (d + 1)
        BY <1>8
      <3> DEFINE z == p * (d + 1)
      <3>3. z \in Int /\ 0 - z >= 0 /\ m - r = z - p
        BY <1>3, <1>8, <3>1, <3>2
      <3> HIDE DEF z
      <3>4. QED
        BY <1>3, <3>3
    <2>3. QED
      BY <1>8, <2>1, <2>2
  <1>10. m = r
    BY <1>3, <1>8, <1>9
  <1>11. QED
    BY <1>10 DEF m, a

(* How far a period has come. *)
LEMMA Delta ==
  ASSUME TypeOK, Periods
  PROVE  /\ delta \in Nat /\ delta < period /\ begun \in Nat /\ nextReset = begun + period
         /\ now < nextReset => delta = now - begun
         /\ now = nextReset => delta = 0
PROOF
  <1>1. period \in Nat /\ period > 0 /\ now \in Nat /\ nextReset \in Nat
    BY Constants DEF TypeOK
  <1>2. PICK k \in Nat : begun = k * period
    BY DEF Periods
  <1>3. begun \in Nat /\ nextReset = begun + period /\ begun <= now /\ now <= nextReset
    <2>1. k * period \in Nat
      BY <1>1
    <2>2. QED
      BY <1>1, <1>2, <2>1 DEF begun, Periods
  <1>4. ASSUME now < nextReset PROVE delta = now - begun
    <2> DEFINE r == now - begun
    <2>1. r \in Nat /\ r < period /\ now = begun + r
      BY <1>1, <1>3, <1>4
    <2> HIDE DEF r
    <2>2. (k * period + r) % period = r
      BY <1>1, <2>1, Remainder
    <2>3. QED
      BY <1>2, <2>1, <2>2 DEF delta, r
  <1>5. ASSUME now = nextReset PROVE delta = 0
    <2>1. (k + 1) * period = k * period + period
      BY <1>1
    <2>2. now = (k + 1) * period + 0
      BY <1>1, <1>2, <1>3, <1>5, <2>1
    <2> DEFINE j == k + 1
    <2>3. j \in Nat /\ now = j * period + 0
      BY <2>2
    <2> HIDE DEF j
    <2>4. (j * period + 0) % period = 0
      BY <1>1, <2>3, Remainder
    <2>5. QED
      BY <2>3, <2>4 DEF delta
  <1>6. delta \in Nat /\ delta < period
    BY <1>1, <1>3, <1>4, <1>5
  <1>7. QED
    BY <1>3, <1>4, <1>5, <1>6

LEMMA LatestOf ==
  ASSUME NEW a \in Nat, NEW b \in Nat, NEW c \in Nat
  PROVE  /\ Max({a, b, c}) \in {a, b, c} /\ Max({a, b, c}) \in Nat
         /\ Max({a, b, c}) >= a /\ Max({a, b, c}) >= b /\ Max({a, b, c}) >= c
PROOF
  <1>1. \E x \in {a, b, c} : \A y \in {a, b, c} : x >= y
    OBVIOUS
  <1>2. Max({a, b, c}) \in {a, b, c} /\ \A y \in {a, b, c} : Max({a, b, c}) >= y
    BY <1>1 DEF Max
  <1>3. QED
    BY <1>2

-----------------------------------------------------------------------------
(* A report of something that is over adds to the time of its state only;   *)
(* if it ends now, it adds what lies in this period.                        *)
LEMMA ReportPast ==
  ASSUME TypeOK, Periods, NEW l \in Log, NEW start \in Nat, NEW duration \in Nat,
         NEW st \in WifiPhyState, start + duration <= now
  PROVE  /\ MonitorPhyState(l, start, duration, st) \in Log
         /\ LogEnd(MonitorPhyState(l, start, duration, st)) = start + duration
         /\ \A s \in WifiPhyState \ {st} :
              MonitorPhyState(l, start, duration, st).timers[s] = l.timers[s]
         /\ MonitorPhyState(l, start, duration, st).timers[st] >= l.timers[st]
         /\ start + duration = now =>
              MonitorPhyState(l, start, duration, st).timers[st] =
                l.timers[st] + IF now = nextReset THEN 0
                               ELSE IF start < begun THEN now - begun ELSE now - start
PROOF
  <1> DEFINE event_end == start + duration
             p_t0 == now - delta
             began == IF start < p_t0 THEN delta ELSE duration
             r == MonitorPhyState(l, start, duration, st)
             add == IF event_end < p_t0 THEN 0 ELSE began
  <1>1. /\ now \in Nat /\ delta \in Nat /\ delta < period /\ begun \in Nat /\ period \in Nat
        /\ nextReset = begun + period /\ now <= nextReset
        /\ (now < nextReset => delta = now - begun) /\ (now = nextReset => delta = 0)
    BY Delta, Constants DEF TypeOK, Periods
  <1>2. ~(event_end > p_t0 + period)
    BY <1>1
  <1>3. /\ l.timers \in [WifiPhyState -> Int]
        /\ l = [timers |-> l.timers, lastStart |-> l.lastStart, lastDuration |-> l.lastDuration]
    BY DEF Log
  <1>4. add \in Nat
    BY <1>1
  <1>5. r = [timers |-> [l.timers EXCEPT ![st] = @ + add],
             lastStart |-> start, lastDuration |-> duration]
    <2>1. CASE event_end < p_t0
      <3>1. [l.timers EXCEPT ![st] = @ + 0] = l.timers
        BY <1>3
      <3>2. QED
        BY <2>1, <3>1 DEF MonitorPhyState
    <2>2. CASE ~(event_end < p_t0)
      BY <1>2, <2>2 DEF MonitorPhyState
    <2>3. QED
      BY <2>1, <2>2
  <1>6. event_end = now =>
          add = IF now = nextReset THEN 0
                ELSE IF start < begun THEN now - begun ELSE now - start
    BY <1>1
  <1> HIDE DEF add, r
  <1>7. r \in Log
    BY <1>3, <1>4, <1>5 DEF Log
  <1>8. r.timers[st] = l.timers[st] + add /\ \A s \in WifiPhyState \ {st} : r.timers[s] = l.timers[s]
    BY <1>3, <1>5
  <1>9. l.timers[st] \in Int
    BY <1>3
  <1>10. LogEnd(r) = start + duration
    BY <1>5 DEF LogEnd
  <1>11. QED
    BY <1>4, <1>6, <1>7, <1>8, <1>9, <1>10 DEF r

(* A sending is reported when it begins; what it adds may be negative. *)
LEMMA ReportSending ==
  ASSUME TypeOK, Periods, NEW l \in Log, NEW d \in Nat
  PROVE  /\ MonitorPhyState(l, now, d, "TX") \in Log
         /\ LogEnd(MonitorPhyState(l, now, d, "TX")) = now + d
         /\ \A s \in WifiPhyState \ {"TX"} :
              MonitorPhyState(l, now, d, "TX").timers[s] = l.timers[s]
PROOF
  <1> DEFINE event_end == now + d
             p_t0 == now - delta
             began == IF now < p_t0 THEN delta ELSE d
             inside == IF event_end > p_t0 + period THEN began - (event_end % period) ELSE began
             r == MonitorPhyState(l, now, d, "TX")
  <1>1. now \in Nat /\ delta \in Nat /\ period \in Nat /\ period > 0
    BY Delta, Constants DEF TypeOK
  <1>2. event_end \in Nat /\ event_end % period \in Int
    BY <1>1
  <1>3. inside \in Int
    BY <1>1, <1>2
  <1>4. ~(event_end < p_t0)
    BY <1>1
  <1>5. r = [timers |-> [l.timers EXCEPT !["TX"] = @ + inside], lastStart |-> now, lastDuration |-> d]
    BY <1>4 DEF MonitorPhyState
  <1> HIDE DEF inside, r
  <1>6. l.timers \in [WifiPhyState -> Int]
    BY DEF Log
  <1>7. r \in Log
    <2>1. [l.timers EXCEPT !["TX"] = @ + inside] \in [WifiPhyState -> Int]
      BY <1>3, <1>6 DEF WifiPhyState
    <2>2. QED
      BY <1>1, <1>5, <2>1 DEF Log
  <1>8. \A s \in WifiPhyState \ {"TX"} : r.timers[s] = l.timers[s]
    BY <1>5, <1>6
  <1>9. QED
    BY <1>5, <1>7, <1>8 DEF r, LogEnd

-----------------------------------------------------------------------------
Others == WifiPhyState \ {"TX"}

(* What a step may make of the log besides the sending time. *)
LogOK(l) == l \in Log /\ (\A s \in Others : l.timers[s] \in Nat) /\ Shares(l)

LEMMA Types ==
  ASSUME IInv
  PROVE  /\ now \in Nat /\ nextReset \in Nat /\ nextFinal \in Nat /\ sending \in Nat
         /\ phy_bytesTotal \in Nat /\ maxCapacity \in Nat /\ avbw \in Nat
         /\ radio.endTx \in Nat /\ radio.startRx \in Nat /\ radio.endRx \in Nat
         /\ radio.startCcaBusy \in Nat /\ radio.endCcaBusy \in Nat /\ radio.rxOn \in BOOLEAN
         /\ radio \in [endTx : Nat, startRx : Nat, endRx : Nat, startCcaBusy : Nat,
                       endCcaBusy : Nat, rxOn : BOOLEAN]
         /\ LogOK(log) /\ LogEnd(log) \in Nat
         /\ begun \in Nat /\ begun <= now /\ now <= nextReset /\ nextReset = begun + period
         /\ TypeOK /\ Periods
PROOF
  <1>1. TypeOK /\ Periods /\ log \in Log /\ Shares(log)
    BY DEF IInv
  <1>2. begun \in Nat /\ nextReset = begun + period
    BY <1>1, Delta
  <1>3. begun <= now /\ now <= nextReset
    BY <1>1 DEF Periods
  <1>4. radio \in [endTx : Nat, startRx : Nat, endRx : Nat, startCcaBusy : Nat,
                   endCcaBusy : Nat, rxOn : BOOLEAN]
    BY <1>1 DEF TypeOK
  <1>5. LogOK(log)
    BY <1>1 DEF LogOK, TypeOK, Others
  <1>6. LogEnd(log) \in Nat
    BY <1>1 DEF LogEnd, Log
  <1>7. QED
    BY <1>1, <1>2, <1>3, <1>4, <1>5, <1>6 DEF TypeOK

(* A report of another state than idle, up to now or further than before. *)
LEMMA ReportKeeps ==
  ASSUME IInv, NEW l, LogOK(l), NEW start \in Nat, NEW duration \in Nat,
         NEW st \in {"RX", "CCA_BUSY"}, start + duration <= now,
         start + duration = now \/ LogEnd(l) <= start + duration
  PROVE  /\ LogOK(MonitorPhyState(l, start, duration, st))
         /\ LogEnd(MonitorPhyState(l, start, duration, st)) = start + duration
         /\ MonitorPhyState(l, start, duration, st).timers["TX"] = l.timers["TX"]
PROOF
  <1> DEFINE r == MonitorPhyState(l, start, duration, st)
  <1>1. TypeOK /\ Periods /\ now \in Nat /\ begun \in Nat /\ sending \in Nat
    BY Types
  <1>2. l \in Log /\ st \in WifiPhyState /\ st \in Others
        /\ "IDLE" \in WifiPhyState \ {st} /\ "TX" \in WifiPhyState \ {st} /\ "IDLE" \in Others
    BY DEF LogOK, WifiPhyState, Others
  <1>3. /\ r \in Log /\ LogEnd(r) = start + duration
        /\ (\A s \in WifiPhyState \ {st} : r.timers[s] = l.timers[s])
        /\ r.timers[st] >= l.timers[st]
    BY <1>1, <1>2, ReportPast
  <1> HIDE DEF r
  <1>4. \A s \in Others : l.timers[s] \in Nat
    BY DEF LogOK
  <1>5. \A s \in Others : r.timers[s] \in Nat
    <2>1. r.timers[st] \in Int
      BY <1>2, <1>3 DEF Log
    <2>2. r.timers[st] \in Nat
      BY <1>2, <1>3, <1>4, <2>1
    <2>3. QED
      BY <1>3, <1>4, <2>2 DEF Others
  <1>6. LogEnd(l) \in Nat
    BY <1>2 DEF Log, LogEnd
  <1>7. r.timers["IDLE"] = l.timers["IDLE"] /\ l.timers["IDLE"] \in Nat
    BY <1>2, <1>3, <1>4
  <1>8. Shares(r)
    BY <1>1, <1>3, <1>6, <1>7 DEF Shares, LogOK
  <1>9. QED
    BY <1>2, <1>3, <1>5, <1>8 DEF LogOK, r

(* A report of idle time up to now, since the last report or later. *)
LEMMA ReportIdle ==
  ASSUME IInv, NEW l, LogOK(l), NEW start \in Nat, start <= now, LogEnd(l) <= start
  PROVE  /\ LogOK(MonitorPhyState(l, start, now - start, "IDLE"))
         /\ LogEnd(MonitorPhyState(l, start, now - start, "IDLE")) = now
         /\ MonitorPhyState(l, start, now - start, "IDLE").timers["TX"] = l.timers["TX"]
PROOF
  <1> DEFINE dur == now - start
             r == MonitorPhyState(l, start, dur, "IDLE")
  <1>1. /\ TypeOK /\ Periods /\ now \in Nat /\ begun \in Nat /\ sending \in Nat
        /\ begun <= now /\ now <= nextReset /\ nextReset = begun + period /\ nextReset \in Nat
        /\ period \in Nat
    BY Types, Constants
  <1>2. dur \in Nat /\ start + dur = now
    BY <1>1
  <1>3. l \in Log /\ "IDLE" \in WifiPhyState /\ "IDLE" \in Others
        /\ "TX" \in WifiPhyState \ {"IDLE"}
    BY DEF LogOK, WifiPhyState, Others
  <1> HIDE DEF dur
  <1>4. /\ r \in Log /\ LogEnd(r) = now
        /\ (\A s \in WifiPhyState \ {"IDLE"} : r.timers[s] = l.timers[s])
        /\ r.timers["IDLE"] = l.timers["IDLE"] + IF now = nextReset THEN 0
                               ELSE IF start < begun THEN now - begun ELSE now - start
    BY <1>1, <1>2, <1>3, ReportPast
  <1> HIDE DEF r
  <1>5. \A s \in Others : l.timers[s] \in Nat
    BY DEF LogOK
  <1>6. \A s \in Others : r.timers[s] \in Nat
    <2>1. r.timers["IDLE"] \in Nat
      BY <1>1, <1>3, <1>4, <1>5
    <2>2. QED
      BY <1>4, <1>5, <2>1 DEF Others
  <1>7. LogEnd(l) \in Nat /\ l.timers["IDLE"] \in Nat
    BY <1>3, <1>5 DEF Log, LogEnd
  <1>8. Shares(r)
    <2>1. CASE now = nextReset
      BY <1>1, <1>4, <1>7, <2>1 DEF Shares, LogOK
    <2>2. CASE now < nextReset
      <3>1. nextFinal = nextReset
        BY <1>1, <2>2 DEF Periods
      <3>2. l.timers["IDLE"] + sending <= 0 \/ l.timers["IDLE"] + sending <= LogEnd(l) - begun
        BY <3>1 DEF Shares, LogOK
      <3>3. r.timers["IDLE"] + sending <= now - begun
        BY <1>1, <1>4, <1>7, <2>2, <3>2
      <3>4. QED
        BY <1>4, <3>1, <3>3 DEF Shares
    <2>3. QED
      BY <1>1, <2>1, <2>2
  <1>9. QED
    BY <1>3, <1>4, <1>6, <1>8 DEF LogOK, r, dur

LEMMA StateFacts ==
  ASSUME IInv
  PROVE  /\ GetState \in WifiPhyState
         /\ GetState = "TX" <=> radio.endTx > now
         /\ GetState = "IDLE" => radio.endRx <= now /\ radio.endCcaBusy <= now
         /\ GetState = "CCA_BUSY" => radio.endRx <= now
         /\ GetState # "TX" => radio.endTx <= now /\ LogEnd(log) <= now
PROOF
  <1>1. /\ now \in Nat /\ radio.endTx \in Nat /\ radio.endRx \in Nat /\ radio.endCcaBusy \in Nat
        /\ LogEnd(log) \in Nat
    BY Types
  <1>2. LogEnd(log) > now => LogEnd(log) = radio.endTx
    BY DEF IInv, RadioInStep
  <1>3. QED
    BY <1>1, <1>2 DEF GetState, WifiPhyState

(* The busy and the idle time before something begins. *)
LEMMA PreviousFacts ==
  ASSUME IInv, GetState \in {"IDLE", "CCA_BUSY"}
  PROVE  /\ LogOK(LogPreviousIdleAndCcaBusyStates(log))
         /\ LogPreviousIdleAndCcaBusyStates(log).timers["TX"] = log.timers["TX"]
         /\ LogEnd(LogPreviousIdleAndCcaBusyStates(log)) <= now
         /\ radio.endTx <= LogEnd(LogPreviousIdleAndCcaBusyStates(log))
PROOF
  <1> DEFINE l == LogPreviousIdleAndCcaBusyStates(log)
             ccaStart == Max({radio.endRx, radio.endTx, radio.startCcaBusy})
             idleStart == Max({radio.endRx, radio.endTx, radio.endCcaBusy})
             over == /\ radio.endCcaBusy > radio.endRx /\ radio.endCcaBusy > radio.endTx
                     /\ idleStart > ccaStart
             busy == IF over THEN MonitorPhyState(log, ccaStart, idleStart - ccaStart, "CCA_BUSY")
                     ELSE log
  <1>1. /\ now \in Nat /\ radio.endTx \in Nat /\ radio.endRx \in Nat /\ radio.endCcaBusy \in Nat
        /\ radio.startCcaBusy \in Nat /\ LogEnd(log) \in Nat /\ LogOK(log)
    BY Types
  <1>2. /\ radio.endTx <= now /\ radio.endRx <= now /\ radio.startCcaBusy <= now
        /\ LogEnd(log) <= now /\ radio.endTx <= LogEnd(log)
        /\ (GetState = "IDLE" => radio.endCcaBusy <= now) /\ LogEnd(log) <= idleStart
    BY StateFacts DEF IInv, RadioInStep
  <1>3. ccaStart \in Nat /\ ccaStart <= now /\ ccaStart >= radio.endTx
    BY <1>1, <1>2, LatestOf
  <1>4. idleStart \in Nat /\ idleStart >= radio.endTx /\ (GetState = "IDLE" => idleStart <= now)
    BY <1>1, <1>2, LatestOf
  <1>5. CASE GetState = "CCA_BUSY"
    <2>1. l = MonitorPhyState(log, ccaStart, now - ccaStart, "CCA_BUSY")
      BY <1>5 DEF LogPreviousIdleAndCcaBusyStates
    <2> DEFINE dur == now - ccaStart
    <2>2. dur \in Nat /\ ccaStart + dur = now /\ ccaStart + dur <= now
      BY <1>1, <1>3
    <2> HIDE DEF dur, ccaStart, l
    <2>3. LogOK(MonitorPhyState(log, ccaStart, dur, "CCA_BUSY"))
          /\ LogEnd(MonitorPhyState(log, ccaStart, dur, "CCA_BUSY")) = now
          /\ MonitorPhyState(log, ccaStart, dur, "CCA_BUSY").timers["TX"] = log.timers["TX"]
      BY <1>1, <1>3, <2>2, ReportKeeps
    <2>4. QED
      BY <1>1, <1>2, <2>1, <2>3 DEF l, dur
  <1>6. CASE GetState = "IDLE"
    <2>1. l = IF now > idleStart THEN MonitorPhyState(busy, idleStart, now - idleStart, "IDLE")
              ELSE busy
      BY <1>6 DEF LogPreviousIdleAndCcaBusyStates
    <2> HIDE DEF l
    <2>2. /\ LogOK(busy) /\ busy.timers["TX"] = log.timers["TX"]
          /\ LogEnd(busy) <= idleStart /\ LogEnd(busy) \in Nat /\ radio.endTx <= LogEnd(busy)
      <3>1. CASE over
        <4> DEFINE dur == idleStart - ccaStart
        <4>1. dur \in Nat /\ ccaStart + dur = idleStart
          BY <1>3, <1>4, <3>1
        <4>2. busy = MonitorPhyState(log, ccaStart, dur, "CCA_BUSY")
          BY <3>1
        <4> HIDE DEF dur, ccaStart, idleStart, busy
        <4>3. LogOK(busy) /\ LogEnd(busy) = idleStart /\ busy.timers["TX"] = log.timers["TX"]
          BY <1>1, <1>2, <1>3, <1>4, <1>6, <4>1, <4>2, ReportKeeps
        <4>4. QED
          BY <1>4, <4>3
      <3>2. CASE ~over
        BY <1>1, <1>2, <3>2
      <3>3. QED
        BY <3>1, <3>2
    <2> HIDE DEF busy, idleStart
    <2>3. CASE now > idleStart
      <3>1. LogOK(l) /\ LogEnd(l) = now /\ l.timers["TX"] = busy.timers["TX"]
        BY <1>1, <1>4, <1>6, <2>1, <2>2, <2>3, ReportIdle
      <3>2. QED
        BY <1>1, <1>2, <2>2, <3>1 DEF l
    <2>4. CASE ~(now > idleStart)
      BY <1>1, <1>4, <1>6, <2>1, <2>2, <2>4 DEF l
    <2>5. QED
      BY <2>3, <2>4
  <1>7. QED
    BY <1>5, <1>6

-----------------------------------------------------------------------------
(* Steps of the radio take no time. *)
LEMMA RadioStep ==
  ASSUME IInv, UNCHANGED <<now, maxCapacity, avbw, nextFinal, nextReset, sending>>,
         phy_bytesTotal' \in Nat, LogOK(log'),
         radio' \in [endTx : Nat, startRx : Nat, endRx : Nat, startCcaBusy : Nat,
                     endCcaBusy : Nat, rxOn : BOOLEAN],
         RadioInStep', SentTimeHasBytes'
  PROVE  IInv'
PROOF
  <1>1. Periods'
    BY DEF IInv, Periods, begun
  <1>2. log' \in Log /\ Shares(log)'
    BY DEF LogOK, Shares, begun
  <1>3. TypeOK'
    <2>1. \A s \in Others : log'.timers[s] \in Nat
      BY DEF LogOK
    <2>2. QED
      BY <1>2, <2>1 DEF IInv, TypeOK, Others, Log
  <1>4. QED
    BY <1>1, <1>2, <1>3 DEF IInv

LEMMA SwitchToTxOK ==
  ASSUME IInv, NEW d \in TxDur, SwitchToTx(d)
  PROVE  IInv'
PROOF
  <1> DEFINE before == IF GetState = "RX"
                       THEN MonitorPhyState(log, radio.startRx, now - radio.startRx, "RX")
                       ELSE LogPreviousIdleAndCcaBusyStates(log)
             l == MonitorPhyState(before, now, d, "TX")
  <1>1. /\ GetState # "TX" /\ log' = l /\ phy_bytesTotal' = PhyTx
        /\ radio' = [radio EXCEPT !.endTx = now + d, !.rxOn = FALSE,
                                  !.endRx = IF GetState = "RX" THEN now ELSE @]
        /\ UNCHANGED <<now, maxCapacity, avbw, nextFinal, nextReset, sending>>
    BY DEF SwitchToTx
  <1>2. /\ now \in Nat /\ d \in Nat /\ d > 0 /\ begun \in Nat /\ sending \in Nat /\ begun <= now
        /\ LogOK(log) /\ phy_bytesTotal \in Nat /\ TypeOK /\ Periods
        /\ radio.startRx \in Nat /\ radio.endRx \in Nat /\ radio.endCcaBusy \in Nat
        /\ PktSize \in Nat /\ PktSize > 0 /\ COUNT_FROM \in Nat
        /\ radio \in [endTx : Nat, startRx : Nat, endRx : Nat, startCcaBusy : Nat,
                      endCcaBusy : Nat, rxOn : BOOLEAN]
    BY Types, Constants
  <1>3. radio.startRx <= now /\ radio.startCcaBusy <= now
    BY DEF IInv, RadioInStep
  <1>4. LogOK(before) /\ before.timers["TX"] = log.timers["TX"]
    <2>1. CASE GetState = "RX"
      <3> DEFINE dur == now - radio.startRx
      <3>1. dur \in Nat /\ radio.startRx + dur = now /\ radio.startRx + dur <= now
        BY <1>2, <1>3
      <3>2. before = MonitorPhyState(log, radio.startRx, dur, "RX")
        BY <2>1
      <3> HIDE DEF dur, before
      <3>3. LogOK(log) /\ radio.startRx \in Nat /\ "RX" \in {"RX", "CCA_BUSY"}
        BY <1>2
      <3>4. QED
        BY <3>1, <3>2, <3>3, ReportKeeps
    <2>2. CASE GetState # "RX"
      <3>1. GetState \in {"IDLE", "CCA_BUSY"}
        BY <1>1, <2>2, StateFacts DEF WifiPhyState
      <3>2. QED
        BY <2>2, <3>1, PreviousFacts
    <2>3. QED
      BY <2>1, <2>2
  <1> HIDE DEF before
  <1>5. l \in Log /\ LogEnd(l) = now + d /\ \A s \in Others : l.timers[s] = before.timers[s]
    BY <1>2, <1>4, ReportSending DEF LogOK, Others
  <1> HIDE DEF l
  <1>6. LogOK(l)
    <2>1. \A s \in Others : before.timers[s] \in Nat /\ l.timers[s] \in Nat
      BY <1>4, <1>5 DEF LogOK
    <2>2. "IDLE" \in Others
      BY DEF Others, WifiPhyState
    <2>3. l.timers["IDLE"] = before.timers["IDLE"] /\ l.timers["IDLE"] \in Nat
      BY <1>5, <2>1, <2>2
    <2>4. Shares(l)
      BY <1>2, <1>4, <1>5, <2>3 DEF Shares, LogOK
    <2>5. QED
      BY <1>5, <2>1, <2>4 DEF LogOK
  <1>7. radio' \in [endTx : Nat, startRx : Nat, endRx : Nat, startCcaBusy : Nat,
                    endCcaBusy : Nat, rxOn : BOOLEAN]
        /\ radio'.endTx = now + d /\ radio'.startRx = radio.startRx
        /\ radio'.startCcaBusy = radio.startCcaBusy /\ radio'.rxOn = FALSE
    <2> DEFINE e == IF GetState = "RX" THEN now ELSE radio.endRx
    <2>1. e \in Nat
      BY <1>2
    <2>2. radio' = [endTx |-> now + d, startRx |-> radio.startRx, endRx |-> e,
                    startCcaBusy |-> radio.startCcaBusy, endCcaBusy |-> radio.endCcaBusy,
                    rxOn |-> FALSE]
      BY <1>1, <1>2
    <2> HIDE DEF e
    <2>3. radio.startCcaBusy \in Nat /\ now + d \in Nat
      BY <1>2
    <2>4. QED
      BY <1>2, <2>1, <2>2, <2>3
  <1>8. RadioInStep'
    <2>1. radio'.endRx \in Nat /\ radio'.endTx \in Nat /\ radio'.endCcaBusy \in Nat
      BY <1>7
    <2>2. Max({radio'.endRx, radio'.endTx, radio'.endCcaBusy}) >= radio'.endTx
      BY <2>1, LatestOf
    <2>3. QED
      BY <1>1, <1>2, <1>3, <1>5, <1>7, <2>2 DEF RadioInStep
  <1>9. phy_bytesTotal' \in Nat /\ (now >= COUNT_FROM => phy_bytesTotal' > 0)
    BY <1>1, <1>2 DEF PhyTx
  <1>10. SentTimeHasBytes'
    BY <1>1, <1>2, <1>9 DEF SentTimeHasBytes, begun
  <1>11. QED
    BY <1>1, <1>6, <1>7, <1>8, <1>9, <1>10, RadioStep

LEMMA SwitchToRxOK ==
  ASSUME IInv, NEW d \in RxDur, SwitchToRx(d)
  PROVE  IInv'
PROOF
  <1> DEFINE l == LogPreviousIdleAndCcaBusyStates(log)
  <1>1. /\ GetState \in {"IDLE", "CCA_BUSY"} /\ log' = l
        /\ radio' = [radio EXCEPT !.startRx = now, !.endRx = now + d, !.rxOn = TRUE]
        /\ UNCHANGED <<now, phy_bytesTotal, maxCapacity, avbw, nextFinal, nextReset, sending>>
    BY DEF SwitchToRx
  <1>2. /\ now \in Nat /\ d \in Nat /\ phy_bytesTotal \in Nat
        /\ radio \in [endTx : Nat, startRx : Nat, endRx : Nat, startCcaBusy : Nat,
                      endCcaBusy : Nat, rxOn : BOOLEAN]
    BY Types, Constants
  <1>3. LogOK(l) /\ l.timers["TX"] = log.timers["TX"] /\ LogEnd(l) <= now /\ radio.endTx <= LogEnd(l)
    BY <1>1, PreviousFacts
  <1>4. LogEnd(l) \in Nat /\ radio.endTx \in Nat /\ radio.endTx <= now
        /\ radio.endCcaBusy \in Nat /\ radio.startCcaBusy \in Nat
    BY <1>1, <1>2, <1>3, StateFacts DEF LogOK, Log, LogEnd
  <1> HIDE DEF l
  <1>5. radio' = [endTx |-> radio.endTx, startRx |-> now, endRx |-> now + d,
                  startCcaBusy |-> radio.startCcaBusy, endCcaBusy |-> radio.endCcaBusy,
                  rxOn |-> TRUE]
    BY <1>1, <1>2
  <1>6. radio' \in [endTx : Nat, startRx : Nat, endRx : Nat, startCcaBusy : Nat,
                    endCcaBusy : Nat, rxOn : BOOLEAN]
    BY <1>2, <1>4, <1>5
  <1>7. RadioInStep'
    <2>1. Max({now + d, radio.endTx, radio.endCcaBusy}) >= now + d
          /\ Max({now + d, radio.endTx, radio.endCcaBusy}) \in Nat
      BY <1>2, <1>4, LatestOf
    <2>2. LogEnd(l) <= Max({now + d, radio.endTx, radio.endCcaBusy})
      BY <1>2, <1>3, <1>4, <2>1
    <2>3. radio.startCcaBusy <= now
      BY DEF IInv, RadioInStep
    <2>4. ~(LogEnd(l) > now)
      BY <1>2, <1>3, <1>4
    <2>5. QED
      BY <1>1, <1>2, <1>3, <1>4, <1>5, <2>2, <2>3, <2>4 DEF RadioInStep
  <1>8. SentTimeHasBytes'
    BY <1>1, <1>3 DEF IInv, SentTimeHasBytes
  <1>9. QED
    BY <1>1, <1>2, <1>3, <1>6, <1>7, <1>8, RadioStep

LEMMA DoSwitchFromRxOK ==
  ASSUME IInv, DoSwitchFromRx
  PROVE  IInv'
PROOF
  <1> DEFINE dur == now - radio.startRx
             l == MonitorPhyState(log, radio.startRx, dur, "RX")
  <1>1. /\ radio.rxOn /\ radio.endRx = now /\ log' = l
        /\ radio' = [radio EXCEPT !.rxOn = FALSE]
        /\ UNCHANGED <<now, phy_bytesTotal, maxCapacity, avbw, nextFinal, nextReset, sending>>
    BY DEF DoSwitchFromRx
  <1>2. /\ now \in Nat /\ phy_bytesTotal \in Nat /\ radio.startRx \in Nat /\ LogOK(log)
        /\ radio.endTx \in Nat /\ radio.endCcaBusy \in Nat
        /\ radio \in [endTx : Nat, startRx : Nat, endRx : Nat, startCcaBusy : Nat,
                      endCcaBusy : Nat, rxOn : BOOLEAN]
    BY Types
  <1>3. radio.startRx <= now /\ radio.startCcaBusy <= now /\ radio.endTx <= now
    BY <1>1 DEF IInv, RadioInStep
  <1>4. dur \in Nat /\ radio.startRx + dur = now /\ radio.startRx + dur <= now
    BY <1>2, <1>3
  <1> HIDE DEF dur
  <1>5. LogOK(l) /\ LogEnd(l) = now /\ l.timers["TX"] = log.timers["TX"]
    <2> DEFINE start == radio.startRx
    <2>1. start \in Nat /\ start + dur = now /\ start + dur <= now
          /\ l = MonitorPhyState(log, start, dur, "RX") /\ LogOK(log)
      BY <1>2, <1>4
    <2> HIDE DEF start, l
    <2>2. QED
      BY <1>4, <2>1, ReportKeeps
  <1> HIDE DEF l
  <1>6. radio' = [endTx |-> radio.endTx, startRx |-> radio.startRx, endRx |-> radio.endRx,
                  startCcaBusy |-> radio.startCcaBusy, endCcaBusy |-> radio.endCcaBusy,
                  rxOn |-> FALSE]
    BY <1>1, <1>2
  <1>7. radio' \in [endTx : Nat, startRx : Nat, endRx : Nat, startCcaBusy : Nat,
                    endCcaBusy : Nat, rxOn : BOOLEAN]
    BY <1>2, <1>6
  <1>8. RadioInStep'
    <2>1. radio.endRx \in Nat
      BY <1>1, <1>2
    <2>2. Max({radio.endRx, radio.endTx, radio.endCcaBusy}) >= radio.endRx
      BY <1>2, <2>1, LatestOf
    <2>3. QED
      BY <1>1, <1>2, <1>3, <1>5, <1>6, <2>2 DEF RadioInStep
  <1>9. SentTimeHasBytes'
    BY <1>1, <1>5 DEF IInv, SentTimeHasBytes
  <1>10. QED
    BY <1>1, <1>2, <1>5, <1>7, <1>8, <1>9, RadioStep

LEMMA SwitchMaybeToCcaBusyOK ==
  ASSUME IInv, NEW d \in CcaDur, SwitchMaybeToCcaBusy(d)
  PROVE  IInv'
PROOF
  <1> DEFINE e == Max({radio.endCcaBusy, now + d})
             b == IF GetState # "CCA_BUSY" THEN now ELSE radio.startCcaBusy
  <1>1. /\ GetState # "RX" /\ ~radio.rxOn
        /\ log' = IF GetState = "IDLE" THEN LogPreviousIdleAndCcaBusyStates(log) ELSE log
        /\ radio' = [radio EXCEPT !.startCcaBusy = b, !.endCcaBusy = e]
        /\ UNCHANGED <<now, phy_bytesTotal, maxCapacity, avbw, nextFinal, nextReset, sending>>
    BY DEF SwitchMaybeToCcaBusy
  <1>2. /\ now \in Nat /\ d \in Nat /\ phy_bytesTotal \in Nat /\ LogOK(log) /\ LogEnd(log) \in Nat
        /\ radio.startRx \in Nat /\ radio.endRx \in Nat /\ radio.startCcaBusy \in Nat
        /\ radio.endTx \in Nat /\ radio.endCcaBusy \in Nat /\ radio.rxOn \in BOOLEAN
        /\ radio \in [endTx : Nat, startRx : Nat, endRx : Nat, startCcaBusy : Nat,
                      endCcaBusy : Nat, rxOn : BOOLEAN]
    BY Types, Constants
  <1>3. /\ radio.startRx <= now /\ radio.startCcaBusy <= now
        /\ radio.endTx <= LogEnd(log) /\ (LogEnd(log) > now => LogEnd(log) = radio.endTx)
        /\ LogEnd(log) <= Max({radio.endRx, radio.endTx, radio.endCcaBusy})
    BY DEF IInv, RadioInStep
  <1>4. e \in Nat /\ e >= radio.endCcaBusy /\ e >= now + d
    <2>1. \E x \in {radio.endCcaBusy, now + d} : \A y \in {radio.endCcaBusy, now + d} : x >= y
      BY <1>2
    <2>2. e \in {radio.endCcaBusy, now + d} /\ \A y \in {radio.endCcaBusy, now + d} : e >= y
      BY <2>1 DEF Max
    <2>3. QED
      BY <1>2, <2>2
  <1>5. b \in Nat /\ b <= now
    BY <1>2, <1>3
  <1> HIDE DEF e, b
  <1>6. radio' = [endTx |-> radio.endTx, startRx |-> radio.startRx, endRx |-> radio.endRx,
                  startCcaBusy |-> b, endCcaBusy |-> e, rxOn |-> radio.rxOn]
    BY <1>1, <1>2
  <1>7. radio' \in [endTx : Nat, startRx : Nat, endRx : Nat, startCcaBusy : Nat,
                    endCcaBusy : Nat, rxOn : BOOLEAN]
    BY <1>2, <1>4, <1>5, <1>6
  <1> DEFINE old == Max({radio.endRx, radio.endTx, radio.endCcaBusy})
             new == Max({radio.endRx, radio.endTx, e})
  <1>8. /\ old \in {radio.endRx, radio.endTx, radio.endCcaBusy} /\ old \in Nat
        /\ new \in Nat /\ new >= radio.endRx /\ new >= radio.endTx /\ new >= e
    BY <1>2, <1>4, LatestOf
  <1>9. /\ LogOK(log') /\ log'.timers["TX"] = log.timers["TX"] /\ radio.endTx <= LogEnd(log')
        /\ (LogEnd(log') > now => LogEnd(log') = radio.endTx) /\ LogEnd(log') <= new
    <2>1. CASE GetState = "IDLE"
      <3> DEFINE l == LogPreviousIdleAndCcaBusyStates(log)
      <3>1. LogOK(l) /\ l.timers["TX"] = log.timers["TX"] /\ LogEnd(l) <= now
            /\ radio.endTx <= LogEnd(l)
        BY <2>1, PreviousFacts
      <3>2. LogEnd(l) \in Nat
        BY <3>1 DEF LogOK, Log, LogEnd
      <3>3. log' = l
        BY <1>1, <2>1
      <3> HIDE DEF l, new
      <3>4. QED
        BY <1>2, <1>4, <1>8, <3>1, <3>2, <3>3
    <2>2. CASE GetState # "IDLE"
      <3>1. log' = log
        BY <1>1, <2>2
      <3>2. old <= new /\ LogEnd(log) <= old
        BY <1>2, <1>3, <1>4, <1>8
      <3> HIDE DEF old, new
      <3>3. QED
        BY <1>2, <1>3, <1>8, <3>1, <3>2
    <2>3. QED
      BY <2>1, <2>2
  <1>10. RadioInStep'
    BY <1>1, <1>3, <1>5, <1>6, <1>9 DEF RadioInStep
  <1>11. SentTimeHasBytes'
    BY <1>1, <1>9 DEF IInv, SentTimeHasBytes
  <1>12. QED
    BY <1>1, <1>2, <1>7, <1>9, <1>10, <1>11, RadioStep

(* The state in progress at the end of a period.  A sending has been        *)
(* reported already, and time is taken back.                                *)
LEMMA StateFinalTimerOK ==
  ASSUME IInv, StateFinalTimer
  PROVE  IInv'
PROOF
  <1> DEFINE since == now - LogEnd(log)
             inc == IF since > period THEN period ELSE since
             st == GetState
  <1>1. /\ now = nextFinal /\ nextFinal' = now + period
        /\ log' = [log EXCEPT !.timers[st] = @ + inc]
        /\ UNCHANGED <<now, radio, phy_bytesTotal, maxCapacity, avbw, nextReset, sending>>
    BY DEF StateFinalTimer, LogEnd
  <1>2. /\ now \in Nat /\ period \in Nat /\ period > 0 /\ begun \in Nat /\ sending \in Nat
        /\ LogOK(log) /\ LogEnd(log) \in Nat /\ nextReset = begun + period /\ nextReset \in Nat
        /\ TypeOK /\ Periods /\ nextFinal \in Nat
    BY Types, Constants
  <1>3. nextFinal = nextReset /\ now = nextReset
    BY <1>1, <1>2 DEF Periods
  <1>4. since \in Int /\ inc \in Int /\ inc <= since /\ inc <= period
    BY <1>2
  <1>5. st \in WifiPhyState /\ (st # "TX" => inc >= 0) /\ (st = "TX" => inc < 0)
    <2>1. st \in WifiPhyState /\ (st # "TX" => LogEnd(log) <= now)
          /\ (st = "TX" => radio.endTx > now)
      BY StateFacts
    <2>2. radio.endTx <= LogEnd(log) /\ radio.endTx \in Nat
      BY Types DEF IInv, RadioInStep
    <2>3. QED
      BY <1>2, <2>1, <2>2
  <1> HIDE DEF st
  <1>6. log \in Log /\ log.timers \in [WifiPhyState -> Int] /\ \A s \in Others : log.timers[s] \in Nat
    BY <1>2 DEF LogOK, Log
  <1> DEFINE ts == [log.timers EXCEPT ![st] = @ + inc]
  <1>7. log' = [timers |-> ts, lastStart |-> log.lastStart, lastDuration |-> log.lastDuration]
    BY <1>1, <1>6 DEF Log
  <1> HIDE DEF inc
  <1>8. /\ ts \in [WifiPhyState -> Int] /\ ts[st] = log.timers[st] + inc
        /\ \A s \in WifiPhyState \ {st} : ts[s] = log.timers[s]
    BY <1>4, <1>5, <1>6
  <1> HIDE DEF ts
  <1>9. log' \in Log /\ log'.timers = ts /\ LogEnd(log') = LogEnd(log)
    BY <1>6, <1>7, <1>8 DEF Log, LogEnd
  <1>10. \A s \in Others : ts[s] \in Nat
    <2>1. ASSUME NEW s \in Others PROVE ts[s] \in Nat
      <3>1. CASE s = st
        <4>1. st # "TX" /\ log.timers[st] \in Nat
          BY <1>6, <3>1 DEF Others
        <4>2. QED
          BY <1>4, <1>5, <1>8, <3>1, <4>1
      <3>2. CASE s # st
        BY <1>6, <1>8, <3>2 DEF Others
      <3>3. QED
        BY <3>1, <3>2
    <2>2. QED
      BY <2>1
  <1>11. Shares(log)'
    <2>1. "IDLE" \in Others /\ "IDLE" \in WifiPhyState
      BY DEF Others, WifiPhyState
    <2> DEFINE i == log.timers["IDLE"]
    <2>2. i \in Nat /\ (i + sending <= 0 \/ (i + sending <= now - begun
                                              /\ i + sending <= LogEnd(log) - begun))
      BY <1>2, <1>3, <1>6, <2>1 DEF LogOK, Shares
    <2>3. ts["IDLE"] = i \/ ts["IDLE"] = i + inc
      BY <1>8, <2>1
    <2> HIDE DEF i
    <2>4. ts["IDLE"] + sending <= period
      BY <1>2, <1>3, <1>4, <2>2, <2>3
    <2>5. nextFinal' # nextReset'
      BY <1>1, <1>2, <1>3
    <2>6. QED
      BY <1>1, <1>9, <2>4, <2>5 DEF Shares
  <1>12. RadioInStep'
    BY <1>1, <1>9 DEF IInv, RadioInStep
  <1>13. Periods'
    BY <1>1, <1>2, <1>3 DEF IInv, Periods, begun
  <1>14. SentTimeHasBytes'
    <2>1. log.timers["TX"] \in Int /\ "TX" \in WifiPhyState
      BY <1>6 DEF WifiPhyState
    <2>2. ts["TX"] > 0 => log.timers["TX"] > 0
      BY <1>4, <1>5, <1>8, <2>1
    <2>3. QED
      BY <1>1, <1>9, <2>2 DEF IInv, SentTimeHasBytes
  <1>15. TypeOK'
    <2>1. /\ log'.lastStart \in Nat /\ log'.lastDuration \in Nat
          /\ log'.timers \in [WifiPhyState -> Int]
          /\ \A s \in WifiPhyState \ {"TX"} : log'.timers[s] \in Nat
      BY <1>9, <1>10 DEF Others, Log
    <2>2. nextFinal' \in Nat
      BY <1>1, <1>2
    <2>3. QED
      BY <1>1, <1>2, <2>1, <2>2 DEF TypeOK
  <1>16. QED
    BY <1>9, <1>11, <1>12, <1>13, <1>14, <1>15 DEF IInv

(* Capacities and bandwidths stay natural numbers: only a sending time is   *)
(* divided by.                                                              *)
LEMMA BandwidthOK ==
  ASSUME IInv
  PROVE  /\ capacity \in Nat
         /\ (capacity * 540) \div 582 \in Nat
         /\ (capacity * log.timers["IDLE"]) \div period \in Nat
PROOF
  <1>1. /\ period \in Nat /\ period > 0 /\ maxCapacity \in Nat /\ phy_bytesTotal \in Nat
    BY Types, Constants
  <1>2. log.timers["TX"] \in Int /\ log.timers["IDLE"] \in Nat
    BY Types DEF LogOK, Log, Others, WifiPhyState
  <1>3. ~hardly_sent => log.timers["TX"] > 0
    BY <1>1, <1>2 DEF hardly_sent, hundredths
  <1>4. capacity \in Nat
    <2>1. (maxCapacity * 9) \div 10 \in Nat /\ (maxCapacity * 36) \div 100 \in Nat
      BY <1>1
    <2>2. CASE hardly_sent \/ congested
      BY <2>1, <2>2 DEF capacity
    <2>3. CASE ~hardly_sent /\ ~congested
      <3> DEFINE x == phy_bytesTotal * 8 * period
                 y == log.timers["TX"]
      <3>1. x \in Nat /\ y \in Nat /\ y > 0
        <4>1. phy_bytesTotal * 8 \in Nat
          BY <1>1
        <4>2. x \in Nat
          BY <1>1, <4>1
        <4>3. QED
          BY <1>2, <1>3, <2>3, <4>2
      <3> HIDE DEF x, y
      <3>2. x \div y \in Nat
        BY <3>1
      <3>3. QED
        BY <2>3, <3>2 DEF capacity, x, y
    <2>4. QED
      BY <2>2, <2>3
  <1> DEFINE c == capacity
             x == c * log.timers["IDLE"]
  <1>5. c \in Nat
    BY <1>4
  <1> HIDE DEF c
  <1>6. (c * 540) \div 582 \in Nat
    BY <1>5
  <1>7. x \in Nat
    BY <1>2, <1>5
  <1> HIDE DEF x
  <1>8. x \div period \in Nat
    BY <1>1, <1>7
  <1>9. QED
    BY <1>5, <1>6, <1>8 DEF c, x

LEMMA PeriodicallyResetVarsOK ==
  ASSUME IInv, PeriodicallyResetVars
  PROVE  IInv'
PROOF
  <1>1. /\ now = nextReset /\ now < nextFinal
        /\ maxCapacity' = IF hardly_sent \/ congested THEN maxCapacity
                          ELSE (capacity * 540) \div 582
        /\ avbw' = (capacity * log.timers["IDLE"]) \div period
        /\ phy_bytesTotal' = 0 /\ sending' = 0
        /\ log' = [log EXCEPT !.timers = NoTime]
        /\ nextReset' = now + period
        /\ now' = now /\ radio' = radio /\ nextFinal' = nextFinal
    BY DEF PeriodicallyResetVars
  <1>2. /\ now \in Nat /\ period \in Nat /\ period > 0 /\ begun \in Nat
        /\ maxCapacity \in Nat /\ nextReset = begun + period /\ nextReset \in Nat
        /\ nextFinal \in Nat /\ log \in Log /\ TypeOK /\ Periods /\ LogEnd(log) \in Nat
    BY Types, Constants DEF LogOK
  <1>3. nextFinal = nextReset + period
    BY <1>1, <1>2 DEF Periods
  <1>4. log' = [timers |-> NoTime, lastStart |-> log.lastStart, lastDuration |-> log.lastDuration]
    BY <1>1, <1>2 DEF Log
  <1>5. NoTime \in [WifiPhyState -> Int] /\ \A s \in WifiPhyState : NoTime[s] = 0
    BY DEF NoTime
  <1>6. log' \in Log /\ LogEnd(log') = LogEnd(log) /\ \A s \in WifiPhyState : log'.timers[s] = 0
    BY <1>2, <1>4, <1>5 DEF Log, LogEnd
  <1>7. TypeOK'
    <2>1. maxCapacity' \in Nat /\ avbw' \in Nat
      BY <1>1, <1>2, BandwidthOK
    <2>2. nextReset' \in Nat
      BY <1>1, <1>2
    <2>3. /\ log'.lastStart \in Nat /\ log'.lastDuration \in Nat
          /\ log'.timers \in [WifiPhyState -> Int]
          /\ \A s \in WifiPhyState \ {"TX"} : log'.timers[s] \in Nat
      BY <1>6 DEF Log
    <2>4. QED
      BY <1>1, <1>2, <2>1, <2>2, <2>3 DEF TypeOK
  <1>8. Periods'
    <2>1. PICK k \in Nat : begun = k * period
      BY <1>2 DEF Periods
    <2>2. (k + 1) * period = k * period + period
      BY <1>2
    <2>3. nextReset' - period = now /\ now = begun + period
      BY <1>1, <1>2
    <2>4. nextReset' - period = (k + 1) * period /\ k + 1 \in Nat
      BY <2>1, <2>2, <2>3
    <2>5. \E j \in Nat : nextReset' - period = j * period
      BY <2>4
    <2>6. QED
      BY <1>1, <1>2, <1>3, <2>3, <2>5 DEF Periods, begun
  <1>9. "IDLE" \in WifiPhyState /\ "TX" \in WifiPhyState
    BY DEF WifiPhyState
  <1>10. Shares(log)'
    <2>1. log'.timers["IDLE"] + sending' = 0 /\ nextFinal' = nextReset'
      BY <1>1, <1>3, <1>6, <1>9
    <2>2. QED
      BY <2>1 DEF Shares
  <1>11. RadioInStep'
    BY <1>1, <1>6 DEF IInv, RadioInStep
  <1>12. SentTimeHasBytes'
    BY <1>6, <1>9 DEF SentTimeHasBytes
  <1>13. QED
    BY <1>6, <1>7, <1>8, <1>10, <1>11, <1>12 DEF IInv

LEMMA TickOK ==
  ASSUME IInv, Tick
  PROVE  IInv'
PROOF
  <1>1. /\ now < nextFinal /\ now < nextReset /\ now' = now + 1
        /\ sending' = IF GetState = "TX" THEN sending + 1 ELSE sending
        /\ radio' = radio /\ log' = log /\ phy_bytesTotal' = phy_bytesTotal
        /\ maxCapacity' = maxCapacity /\ avbw' = avbw /\ nextFinal' = nextFinal
        /\ nextReset' = nextReset
    BY DEF Tick
  <1>2. /\ now \in Nat /\ begun \in Nat /\ sending \in Nat /\ nextReset \in Nat
        /\ begun <= now /\ LogOK(log) /\ LogEnd(log) \in Nat /\ TypeOK /\ Periods
        /\ radio.startRx \in Nat /\ radio.startCcaBusy \in Nat /\ radio.endTx \in Nat
        /\ log \in Log /\ radio.rxOn \in BOOLEAN
    BY Types DEF LogOK
  <1>3. nextFinal = nextReset
    BY <1>1, <1>2 DEF Periods
  <1>4. TypeOK'
    BY <1>1, <1>2 DEF TypeOK
  <1>5. Periods'
    BY <1>1, <1>2, <1>3 DEF Periods, begun
  <1>6. RadioInStep'
    BY <1>1, <1>2 DEF IInv, RadioInStep
  <1>7. Shares(log)'
    <2> DEFINE s == log.timers["IDLE"] + sending
    <2>1. log.timers["IDLE"] \in Nat
      BY <1>2 DEF LogOK, Others, WifiPhyState
    <2>2. s <= 0 \/ (s <= now - begun /\ s <= LogEnd(log) - begun)
      BY <1>2, <1>3 DEF LogOK, Shares
    <2>3. GetState = "TX" => LogEnd(log) > now
      <3>1. GetState = "TX" => radio.endTx > now
        BY StateFacts
      <3>2. radio.endTx <= LogEnd(log)
        BY DEF IInv, RadioInStep
      <3>3. QED
        BY <1>2, <3>1, <3>2
    <2> DEFINE z == log.timers["IDLE"] + sending'
    <2>4. z <= 0 \/ (z <= now + 1 - begun /\ z <= LogEnd(log) - begun)
      BY <1>1, <1>2, <2>1, <2>2, <2>3
    <2>5. LogEnd(log)' = LogEnd(log) /\ begun' = begun /\ (log.timers["IDLE"])' = log.timers["IDLE"]
      BY <1>1 DEF LogEnd, begun
    <2>6. Shares(log)' <=> LET t == (log.timers["IDLE"])' + sending'
                           IN /\ nextFinal' = nextReset' =>
                                   t <= 0 \/ (t <= now' - begun' /\ t <= LogEnd(log)' - begun')
                              /\ nextFinal' # nextReset' => t <= period
      BY DEF Shares
    <2>7. /\ (log.timers["IDLE"])' + sending' = z /\ now' - begun' = now + 1 - begun
          /\ LogEnd(log)' - begun' = LogEnd(log) - begun /\ nextFinal' = nextReset'
      <3>1. (log.timers["IDLE"])' + sending' = z
        BY <2>5
      <3>2. now' - begun' = now + 1 - begun
        BY <1>1, <1>2, <2>5
      <3>3. LogEnd(log)' - begun' = LogEnd(log) - begun
        BY <2>5
      <3>4. QED
        BY <1>1, <1>3, <3>1, <3>2, <3>3
    <2> HIDE DEF z
    <2>8. QED
      BY <2>4, <2>6, <2>7
  <1>8. SentTimeHasBytes'
    BY <1>1 DEF IInv, SentTimeHasBytes
  <1>9. QED
    BY <1>1, <1>2, <1>4, <1>5, <1>6, <1>7, <1>8 DEF IInv

-----------------------------------------------------------------------------
LEMMA InitOK == Init => IInv
PROOF
  <1> SUFFICES ASSUME Init PROVE IInv
    OBVIOUS
  <1>1. period \in Nat /\ period > 0 /\ MAX_CAPACITY \in Nat
    BY Constants
  <1>2. NoTime \in [WifiPhyState -> Int] /\ \A s \in WifiPhyState : NoTime[s] = 0
    BY DEF NoTime
  <1>3. "IDLE" \in WifiPhyState /\ "TX" \in WifiPhyState
    BY DEF WifiPhyState
  <1>4. log \in Log /\ LogEnd(log) = 0 /\ log.timers = NoTime
    BY <1>2 DEF Init, Log, LogEnd
  <1>5. TypeOK
    BY <1>1, <1>2, <1>4 DEF Init, TypeOK
  <1>6. begun = 0 * period /\ begun = 0
    BY <1>1 DEF Init, begun
  <1>7. Periods
    <2>1. \E k \in Nat : begun = k * period
      BY <1>6
    <2>2. QED
      BY <1>1, <1>6, <2>1 DEF Init, Periods
  <1>8. RadioInStep
    <2>1. 0 <= Max({0, 0, 0})
      BY LatestOf
    <2>2. QED
      BY <1>4, <2>1 DEF Init, RadioInStep
  <1>9. Shares(log)
    <2>1. log.timers["IDLE"] + sending = 0 /\ nextFinal = nextReset
      BY <1>2, <1>3, <1>4 DEF Init
    <2>2. QED
      BY <2>1 DEF Shares
  <1>10. SentTimeHasBytes
    BY <1>2, <1>3, <1>4 DEF SentTimeHasBytes
  <1>11. QED
    BY <1>4, <1>5, <1>7, <1>8, <1>9, <1>10 DEF IInv

LEMMA NextOK == IInv /\ [Next]_vars => IInv'
PROOF
  <1> SUFFICES ASSUME IInv, [Next]_vars PROVE IInv'
    OBVIOUS
  <1>1. CASE \E d \in TxDur : SwitchToTx(d)
    BY <1>1, SwitchToTxOK
  <1>2. CASE \E d \in RxDur : SwitchToRx(d)
    BY <1>2, SwitchToRxOK
  <1>3. CASE DoSwitchFromRx
    BY <1>3, DoSwitchFromRxOK
  <1>4. CASE \E d \in CcaDur : SwitchMaybeToCcaBusy(d)
    BY <1>4, SwitchMaybeToCcaBusyOK
  <1>5. CASE StateFinalTimer
    BY <1>5, StateFinalTimerOK
  <1>6. CASE PeriodicallyResetVars
    BY <1>6, PeriodicallyResetVarsOK
  <1>7. CASE Tick
    BY <1>7, TickOK
  <1>8. CASE UNCHANGED vars
    BY <1>8 DEF vars, IInv, TypeOK, Periods, begun, RadioInStep, LogEnd, Shares, SentTimeHasBytes
  <1>9. QED
    BY <1>1, <1>2, <1>3, <1>4, <1>5, <1>6, <1>7, <1>8 DEF Next

(* Where reports end and what the radio knows of are in step, and the idle  *)
(* time and the time spent sending share the time up to there.              *)
THEOREM StatisticsInvariant == Spec => []IInv
PROOF
  <1>1. Init => IInv
    BY InitOK
  <1>2. IInv /\ [Next]_vars => IInv'
    BY NextOK
  <1>3. QED
    BY <1>1, <1>2, PTL DEF Spec

(* Times, counters and bandwidths are natural numbers, but for the sending  *)
(* time of a port, which StateFinalTimer and MonitorPhyState can both take  *)
(* back.                                                                    *)
THEOREM TypeCorrect == Spec => []TypeOK
PROOF
  <1>1. IInv => TypeOK
    BY DEF IInv
  <1>2. QED
    BY <1>1, StatisticsInvariant, PTL

LEMMA SharesImplies == IInv => IdleExcludesSending
PROOF
  <1> SUFFICES ASSUME IInv PROVE IdleExcludesSending
    OBVIOUS
  <1>1. /\ now \in Nat /\ begun \in Nat /\ sending \in Nat /\ begun <= now
        /\ nextReset = begun + period /\ LogOK(log) /\ Periods /\ period \in Nat
    BY Types, Constants
  <1>2. log.timers["IDLE"] \in Nat
    BY <1>1 DEF LogOK, Others, WifiPhyState
  <1>3. CASE nextFinal = nextReset
    BY <1>1, <1>2, <1>3 DEF LogOK, Shares, IdleExcludesSending, begun
  <1>4. CASE nextFinal # nextReset
    <2>1. now = nextReset
      BY <1>1, <1>4 DEF Periods
    <2>2. QED
      BY <1>1, <1>2, <1>4, <2>1 DEF LogOK, Shares, IdleExcludesSending, begun
  <1>5. QED
    BY <1>3, <1>4

(* For any period and durations, and wherever the reports of the radio fall *)
(* about the end of a period, the idle time that PeriodicallyResetVars      *)
(* turns into bandwidth excludes the time the port was sending.             *)
THEOREM IdleNeverCountsSending == Spec => []IdleExcludesSending
PROOF
  <1>1. QED
    BY SharesImplies, StatisticsInvariant, PTL

(* The capacity PeriodicallyResetVars computes of a sending time is never   *)
(* of no bytes, once bytes are counted.                                     *)
THEOREM SendingHasBytes == Spec => []SentTimeHasBytes
PROOF
  <1>1. IInv => SentTimeHasBytes
    BY DEF IInv
  <1>2. QED
    BY <1>1, StatisticsInvariant, PTL
=============================================================================
