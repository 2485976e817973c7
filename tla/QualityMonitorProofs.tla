------------------------ MODULE QualityMonitorProofs ------------------------
(***************************************************************************)
(* Proofs about QualityMonitor, for any devices, packets, limits and       *)
(* schedule.                                                               *)
(*                                                                         *)
(* CheckForOldPackets stops at the first young sample, so what it leaves   *)
(* is young only if each list is in order of both of its times.  Samples   *)
(* enter in order of reception; they enter in order of the signal's time   *)
(* because that is the device's lastPacket, which only grows.              *)
(***************************************************************************)
EXTENDS QualityMonitor, SequenceTheorems, WellFoundedInduction, TLAPS

Ordered(s) ==
  \A i, j \in 1 .. Len(s) :
    i <= j => /\ s[i].receptionTime <= s[j].receptionTime
              /\ s[i].phyTime <= s[j].phyTime

(* A list of samples, for the time t, the next check at c and the time l of *)
(* the last frame at its device.                                            *)
GoodList(s, t, c, l) ==
  /\ s \in Seq(SampleType) /\ s # <<>>
  /\ Ordered(s)
  /\ l \in Nat
  /\ \A i \in 1 .. Len(s) :
       /\ s[i].receptionTime # 0 /\ s[i].receptionTime <= t
       /\ s[i].phyTime <= l
       /\ c <= s[i].receptionTime + Age(m_timeslot)

GoodSamples ==
  \A k \in DOMAIN m_flowsStats :
    k \in Addr \X Dev /\ GoodList(m_flowsStats[k], now, nextCheck, lastPacket[k[2]])

Clocks ==
  /\ now \in Nat /\ nextCheck \in Nat
  /\ now <= nextCheck
  /\ nextCheck <= now + Age(m_timeslot) /\ nextCheck <= now + Age(m_max_delay)
  /\ \A d \in Dev : lastPacket[d] # None => lastPacket[d] <= now
  /\ \A p \in Pkt : txPacket[p] # None =>
       txPacket[p] # 0 /\ txPacket[p] <= now /\ nextCheck <= txPacket[p] + Age(m_max_delay)

Tables ==
  /\ txPacket \in [Pkt -> Nat \cup {None}]
  /\ m_lostPackets \in [Pkt -> Nat]
  /\ lastPacket \in [Dev -> Nat \cup {None}]
  /\ txBy \in [Pkt -> SUBSET Dev] /\ rxBy \in [Pkt -> SUBSET Dev] /\ onAir \subseteq Pkt

IInv == Tables /\ Clocks /\ GoodSamples

-----------------------------------------------------------------------------
(* The age a check allows covers its limit and one interval, and the time   *)
(* before the first check.                                                  *)
LEMMA AgeBounds ==
  ASSUME NEW limit \in Nat
  PROVE  /\ Age(limit) \in Nat
         /\ limit + PERIODIC_STATS_INTERVAL <= Age(limit)
         /\ FIRST_CHECK <= Age(limit)
PROOF
  <1>1. FIRST_CHECK \in Nat /\ PERIODIC_STATS_INTERVAL \in Nat
    BY MonitorAssumption
  <1>2. PICK a : a = limit + PERIODIC_STATS_INTERVAL
    OBVIOUS
  <1>3. PICK b : b = FIRST_CHECK
    OBVIOUS
  <1>4. Max({a, b}) \in {a, b} /\ a <= Max({a, b}) /\ b <= Max({a, b})
    <2>1. \E x \in {a, b} : \A y \in {a, b} : x >= y
      BY <1>1, <1>2, <1>3
    <2>2. QED
      BY <2>1 DEF Max
  <1>5. Age(limit) = Max({a, b})
    BY <1>2, <1>3 DEF Age
  <1>6. QED
    BY <1>1, <1>2, <1>3, <1>4, <1>5

(* What is later than something young is young. *)
LEMMA Later ==
  ASSUME NEW a \in Nat, NEW b \in Nat, NEW t \in Nat, NEW l \in Nat,
         a <= b, ~(t - a > l)
  PROVE  ~(t - b > l) /\ t <= b + l /\ t - b <= l
PROOF
  OBVIOUS

(* What is young at a check is within its age limit at the next one. *)
LEMMA UntilNext ==
  ASSUME NEW t \in Nat, NEW i \in Nat, NEW a \in Nat, NEW l \in Nat, NEW g \in Nat,
         t <= a + l, l + i <= g
  PROVE  t + i <= a + g
PROOF
  OBVIOUS

(* A non-empty set of naturals has a least element. *)
LEMMA LeastNatural ==
  ASSUME NEW T, T \subseteq Nat, T # {}
  PROVE  \E x \in T : \A y \in T : x <= y
PROOF
  <1>1. PICK R : R = OpToRel(<, Nat)
    OBVIOUS
  <1>2. PICK x \in T : \A y \in T : ~(<<y, x>> \in R)
    BY <1>1, NatLessThanWellFounded, WFMin
  <1>3. ASSUME NEW y \in T
        PROVE  x <= y
    <2>1. ~(<<y, x>> \in OpToRel(<, Nat))
      BY <1>1, <1>2
    <2>2. ~(y < x)
      BY <2>1 DEF OpToRel
    <2>3. QED
      BY <2>2
  <1>4. QED
    BY <1>3

(* What the loop of CheckForOldPackets leaves of a list in order: a suffix, *)
(* all of it young.                                                         *)
LEMMA WithoutOld ==
  ASSUME NEW s \in Seq(SampleType), Ordered(s), now \in Nat,
         \A i \in 1 .. Len(s) : s[i].receptionTime # 0,
         without_old(s) # <<>>
  PROVE  \E m \in 0 .. Len(s) :
           /\ without_old(s) \in Seq(SampleType)
           /\ Len(without_old(s)) = Len(s) - m
           /\ \A i \in 1 .. Len(s) - m :
                /\ m + i \in 1 .. Len(s)
                /\ without_old(s)[i] = s[m + i]
                /\ ~old(s[m + i])
PROOF
  <1>0. Len(s) \in Nat /\ m_timeslot \in Nat
    BY MonitorAssumption
  <1>1. PICK young : young = {i \in 1 .. Len(s) : ~old(s[i])}
    OBVIOUS
  <1>2. young # {} /\ without_old(s) = SubSeq(s, Min(young), Len(s))
    BY <1>1 DEF without_old
  <1>3. young \subseteq Nat
    BY <1>0, <1>1
  <1>4. Min(young) \in young
    <2>1. \E x \in young : \A y \in young : x <= y
      BY <1>2, <1>3, LeastNatural
    <2>2. QED
      BY <2>1 DEF Min
  <1>5. PICK n : n = Min(young) /\ n \in 1 .. Len(s) /\ ~old(s[n])
    BY <1>1, <1>4
  <1>6. PICK m \in 0 .. Len(s) : m = n - 1
    BY <1>0, <1>5
  <1>7. /\ SubSeq(s, n, Len(s)) \in Seq(SampleType)
        /\ Len(SubSeq(s, n, Len(s))) = Len(s) - m
        /\ \A i \in 1 .. Len(s) - m : SubSeq(s, n, Len(s))[i] = s[m + i]
    BY <1>0, <1>5, <1>6
  <1>8. ASSUME NEW i \in 1 .. Len(s) - m
        PROVE  m + i \in 1 .. Len(s) /\ ~old(s[m + i])
    <2>1. PICK j : j = m + i /\ j \in 1 .. Len(s) /\ n <= j
      BY <1>0, <1>5, <1>6
    <2>2. /\ s[n].receptionTime <= s[j].receptionTime /\ s[n].phyTime <= s[j].phyTime
          /\ s[n].receptionTime # 0
      BY <1>5, <2>1 DEF Ordered
    <2>3. s[n] \in SampleType /\ s[j] \in SampleType
      BY <1>0, <1>5, <2>1
    <2>4. /\ s[n].receptionTime \in Nat /\ s[n].phyTime \in Nat
          /\ s[j].receptionTime \in Nat /\ s[j].phyTime \in Nat
      BY <2>3 DEF SampleType
    <2>5. /\ ~(now - s[n].receptionTime > m_timeslot)
          /\ ~(now - s[n].phyTime > m_timeslot)
      BY <1>5, <2>2 DEF old
    <2>6. /\ ~(now - s[j].receptionTime > m_timeslot)
          /\ ~(now - s[j].phyTime > m_timeslot)
      <3>1. PICK a \in Nat, b \in Nat, e \in Nat, f \in Nat :
              /\ a = s[n].receptionTime /\ b = s[j].receptionTime
              /\ e = s[n].phyTime /\ f = s[j].phyTime
        BY <2>4
      <3>2. a <= b /\ ~(now - a > m_timeslot) /\ e <= f /\ ~(now - e > m_timeslot)
        BY <2>2, <2>5, <3>1
      <3>3. ~(now - b > m_timeslot) /\ ~(now - f > m_timeslot)
        BY <1>0, <3>2
      <3>4. QED
        BY <3>1, <3>3
    <2>7. QED
      BY <2>1, <2>6 DEF old
  <1>9. QED
    BY <1>2, <1>5, <1>7, <1>8
(* A list stays good as time passes and its device receives frames. *)
LEMMA ListLater ==
  ASSUME NEW s, NEW t \in Nat, NEW u \in Nat, t <= u,
         NEW c, NEW l \in Nat, NEW n \in Nat, l <= n,
         GoodList(s, t, c, l)
  PROVE  GoodList(s, u, c, n)
PROOF
  <1>1. ASSUME NEW i \in 1 .. Len(s)
        PROVE  s[i].receptionTime <= u /\ s[i].phyTime <= n
    <2>1. s[i] \in SampleType /\ s[i].receptionTime <= t /\ s[i].phyTime <= l
      BY DEF GoodList
    <2>2. s[i].receptionTime \in Nat /\ s[i].phyTime \in Nat
      BY <2>1 DEF SampleType
    <2>3. QED
      BY <2>1, <2>2
  <1>2. QED
    BY <1>1 DEF GoodList

(* A sample taken now goes to the end of a good list, or starts one. *)
LEMMA ListAppend ==
  ASSUME NEW s, NEW t \in Nat, NEW c, NEW l \in Nat, NEW x \in SampleType,
         s = <<>> \/ GoodList(s, t, c, l),
         x.receptionTime = t, x.phyTime = l, t # 0, c <= t + Age(m_timeslot)
  PROVE  GoodList(Append(s, x), t, c, l)
PROOF
  <1>1. s \in Seq(SampleType)
    <2>1. CASE s = <<>>
      BY <2>1, EmptySeq
    <2>2. CASE GoodList(s, t, c, l)
      BY <2>2 DEF GoodList
    <2>3. QED
      BY <2>1, <2>2
  <1>2. PICK a : a = Append(s, x)
    OBVIOUS
  <1>3. PICK n \in Nat : n = Len(s)
    BY <1>1, LenProperties
  <1>4. /\ a \in Seq(SampleType) /\ a # <<>> /\ Len(a) = n + 1
        /\ \A i \in 1 .. n : a[i] = s[i]
        /\ a[n + 1] = x
    BY <1>1, <1>2, <1>3, AppendProperties
  <1>5. ASSUME NEW i \in 1 .. n
        PROVE  GoodList(s, t, c, l)
    <2>1. n # 0
      OBVIOUS
    <2>2. s # <<>>
      BY <1>3, <2>1, EmptySeq
    <2>3. QED
      BY <2>2
  <1>6. ASSUME NEW i \in 1 .. n + 1
        PROVE  /\ a[i].receptionTime # 0 /\ a[i].receptionTime <= t
               /\ a[i].phyTime <= l
               /\ c <= a[i].receptionTime + Age(m_timeslot)
    <2>1. CASE i = n + 1
      BY <1>4, <2>1
    <2>2. CASE i \in 1 .. n
      <3>1. a[i] = s[i]
        BY <1>4, <2>2
      <3>2. GoodList(s, t, c, l)
        BY <1>5, <2>2
      <3>3. QED
        BY <1>3, <2>2, <3>1, <3>2 DEF GoodList
    <2>3. QED
      BY <2>1, <2>2
  <1>7. ASSUME NEW i \in 1 .. n + 1, NEW j \in 1 .. n + 1, i <= j
        PROVE  /\ a[i].receptionTime <= a[j].receptionTime
               /\ a[i].phyTime <= a[j].phyTime
    <2>1. CASE j = n + 1
      BY <1>4, <1>6, <2>1
    <2>2. CASE j # n + 1
      <3>1. i \in 1 .. n /\ j \in 1 .. n
        BY <1>7, <2>2
      <3>2. a[i] = s[i] /\ a[j] = s[j]
        BY <1>4, <3>1
      <3>3. Ordered(s)
        BY <1>5, <3>1 DEF GoodList
      <3>4. QED
        BY <1>3, <1>7, <3>1, <3>2, <3>3 DEF Ordered
    <2>3. QED
      BY <2>1, <2>2
  <1>8. Ordered(a)
    BY <1>4, <1>7 DEF Ordered
  <1>9. QED
    BY <1>2, <1>4, <1>6, <1>8 DEF GoodList

(* What a check leaves of a good list is good until the next check, and all *)
(* of it is young.                                                          *)
LEMMA ListChecked ==
  ASSUME NEW s, now \in Nat, NEW c, NEW l, GoodList(s, now, c, l), without_old(s) # <<>>
  PROVE  /\ GoodList(without_old(s), now, now + PERIODIC_STATS_INTERVAL, l)
         /\ \A i \in 1 .. Len(without_old(s)) :
              /\ now - without_old(s)[i].receptionTime <= m_timeslot
              /\ now - without_old(s)[i].phyTime <= m_timeslot
PROOF
  <1>1. PICK w : w = without_old(s)
    OBVIOUS
  <1>2. s \in Seq(SampleType) /\ Ordered(s) /\ l \in Nat
    BY DEF GoodList
  <1>3. Len(s) \in Nat /\ m_timeslot \in Nat /\ PERIODIC_STATS_INTERVAL \in Nat
    BY <1>2, MonitorAssumption, LenProperties
  <1>4. \A i \in 1 .. Len(s) : s[i].receptionTime # 0
    BY DEF GoodList
  <1>5. PICK m \in 0 .. Len(s) :
          /\ w \in Seq(SampleType)
          /\ Len(w) = Len(s) - m
          /\ \A i \in 1 .. Len(s) - m :
               m + i \in 1 .. Len(s) /\ w[i] = s[m + i] /\ ~old(s[m + i])
    BY <1>1, <1>2, <1>4, WithoutOld
  <1>6. ASSUME NEW i \in 1 .. Len(s) - m
        PROVE  /\ w[i].receptionTime # 0 /\ w[i].receptionTime <= now
               /\ w[i].phyTime <= l
               /\ now + PERIODIC_STATS_INTERVAL <= w[i].receptionTime + Age(m_timeslot)
               /\ now - w[i].receptionTime <= m_timeslot
               /\ now - w[i].phyTime <= m_timeslot
    <2>1. PICK j \in 1 .. Len(s) : j = m + i /\ w[i] = s[j] /\ ~old(s[j])
      BY <1>5
    <2>2. /\ s[j].receptionTime # 0 /\ s[j].receptionTime <= now /\ s[j].phyTime <= l
          /\ s[j] \in SampleType
      BY <1>2, <2>1 DEF GoodList
    <2>3. s[j].receptionTime \in Nat /\ s[j].phyTime \in Nat
      BY <2>2 DEF SampleType
    <2>4. ~(now - s[j].receptionTime > m_timeslot) /\ ~(now - s[j].phyTime > m_timeslot)
      BY <2>1, <2>2 DEF old
    <2>5. /\ now <= s[j].receptionTime + m_timeslot
          /\ now - s[j].receptionTime <= m_timeslot
          /\ now - s[j].phyTime <= m_timeslot
      <3>1. s[j].receptionTime <= s[j].receptionTime /\ s[j].phyTime <= s[j].phyTime
        BY <2>3
      <3>2. now <= s[j].receptionTime + m_timeslot /\ now - s[j].receptionTime <= m_timeslot
        BY <1>3, <2>3, <2>4, <3>1, Later
      <3>3. now - s[j].phyTime <= m_timeslot
        BY <1>3, <2>3, <2>4, <3>1, Later
      <3>4. QED
        BY <3>2, <3>3
    <2>6. Age(m_timeslot) \in Nat /\ m_timeslot + PERIODIC_STATS_INTERVAL <= Age(m_timeslot)
      BY <1>3, AgeBounds
    <2>7. now + PERIODIC_STATS_INTERVAL <= s[j].receptionTime + Age(m_timeslot)
      BY <1>3, <2>3, <2>5, <2>6, UntilNext
    <2>8. QED
      BY <2>1, <2>2, <2>5, <2>7
  <1>7. Ordered(w)
    <2>1. ASSUME NEW i \in 1 .. Len(s) - m, NEW j \in 1 .. Len(s) - m, i <= j
          PROVE  /\ w[i].receptionTime <= w[j].receptionTime
                 /\ w[i].phyTime <= w[j].phyTime
      <3>1. /\ m + i \in 1 .. Len(s) /\ w[i] = s[m + i]
            /\ m + j \in 1 .. Len(s) /\ w[j] = s[m + j]
        BY <1>5
      <3>2. m + i <= m + j
        BY <1>3, <2>1
      <3>3. QED
        BY <1>2, <3>1, <3>2 DEF Ordered
    <2>2. QED
      BY <1>5, <2>1 DEF Ordered
  <1>8. QED
    BY <1>1, <1>2, <1>5, <1>6, <1>7 DEF GoodList

-----------------------------------------------------------------------------
(* Nothing is known before the first check is scheduled. *)
LEMMA InitIInv == Init => IInv
PROOF
  <1>1. FIRST_CHECK \in Nat /\ m_timeslot \in Nat /\ m_max_delay \in Nat
    BY MonitorAssumption
  <1>2. FIRST_CHECK <= Age(m_timeslot) /\ FIRST_CHECK <= Age(m_max_delay)
        /\ Age(m_timeslot) \in Nat /\ Age(m_max_delay) \in Nat
    BY <1>1, AgeBounds
  <1>3. SUFFICES ASSUME Init PROVE IInv
    OBVIOUS
  <1>4. Tables
    BY <1>3 DEF Init, Tables
  <1>5. Clocks
    BY <1>1, <1>2, <1>3 DEF Init, Clocks
  <1>6. GoodSamples
    BY <1>3 DEF Init, GoodSamples
  <1>7. QED
    BY <1>4, <1>5, <1>6 DEF IInv

(* Handing a packet to a MAC records the time of it. *)
LEMMA MonitorMacTxKeeps ==
  ASSUME IInv, NEW d \in Dev, NEW p \in Pkt, MonitorMacTx(d, p)
  PROVE  IInv'
PROOF
  <1>1. Tables /\ Clocks /\ GoodSamples /\ now \in Nat /\ nextCheck \in Nat
    BY DEF IInv, Clocks
  <1>2. UNCHANGED <<now, nextCheck, m_flowsStats, lastPacket, rxBy, onAir>> /\ now > 0
    BY DEF MonitorMacTx
  <1>3. /\ txPacket' = [txPacket EXCEPT ![p] = now]
        /\ m_lostPackets' = [m_lostPackets EXCEPT ![p] = IF Dst[p] = Broadcast THEN @ ELSE @ + 1]
        /\ txBy' = [txBy EXCEPT ![p] = @ \cup {d}]
    BY DEF MonitorMacTx
  <1>4. Tables'
    <2>1. txPacket' \in [Pkt -> Nat \cup {None}]
      BY <1>1, <1>3 DEF Tables
    <2>2. m_lostPackets' \in [Pkt -> Nat]
      BY <1>1, <1>3 DEF Tables
    <2>3. txBy' \in [Pkt -> SUBSET Dev]
      BY <1>1, <1>3 DEF Tables
    <2>4. QED
      BY <1>1, <1>2, <2>1, <2>2, <2>3 DEF Tables
  <1>5. Clocks'
    <2>1. ASSUME NEW q \in Pkt, txPacket'[q] # None
          PROVE  /\ txPacket'[q] # 0 /\ txPacket'[q] <= now
                 /\ nextCheck <= txPacket'[q] + Age(m_max_delay)
      <3>1. CASE q = p
        <4>1. txPacket'[q] = now
          BY <1>1, <1>3, <3>1 DEF Tables
        <4>2. nextCheck <= now + Age(m_max_delay)
          BY <1>1 DEF Clocks
        <4>3. QED
          BY <1>1, <1>2, <4>1, <4>2
      <3>2. CASE q # p
        <4>1. txPacket'[q] = txPacket[q]
          BY <1>1, <1>3, <3>2 DEF Tables
        <4>2. QED
          BY <1>1, <2>1, <4>1 DEF Clocks
      <3>3. QED
        BY <3>1, <3>2
    <2>2. QED
      BY <1>1, <1>2, <2>1 DEF Clocks
  <1>6. GoodSamples'
    BY <1>1, <1>2 DEF GoodSamples
  <1>7. QED
    BY <1>4, <1>5, <1>6 DEF IInv

(* A frame at a radio can only make the time of its last frame later. *)
LEMMA MonitorSniffRxKeeps ==
  ASSUME IInv, NEW d \in Dev, MonitorSniffRx(d)
  PROVE  IInv'
PROOF
  <1>1. Tables /\ Clocks /\ GoodSamples /\ now \in Nat
    BY DEF IInv, Clocks
  <1>2. /\ UNCHANGED <<now, nextCheck, txPacket, m_lostPackets, m_flowsStats, txBy, rxBy, onAir>>
        /\ lastPacket' = [lastPacket EXCEPT ![d] = now]
    BY DEF MonitorSniffRx
  <1>3. /\ lastPacket' \in [Dev -> Nat \cup {None}] /\ lastPacket'[d] = now
        /\ \A e \in Dev : e # d => lastPacket'[e] = lastPacket[e]
    BY <1>1, <1>2 DEF Tables
  <1>4. Tables'
    BY <1>1, <1>2, <1>3 DEF Tables
  <1>5. Clocks'
    <2>1. ASSUME NEW e \in Dev, lastPacket'[e] # None
          PROVE  lastPacket'[e] <= now
      <3>1. CASE e = d
        BY <1>1, <1>3, <3>1
      <3>2. CASE e # d
        BY <1>1, <1>3, <2>1, <3>2 DEF Clocks
      <3>3. QED
        BY <3>1, <3>2
    <2>2. QED
      BY <1>1, <1>2, <2>1 DEF Clocks
  <1>6. GoodSamples'
    <2>1. ASSUME NEW k \in DOMAIN m_flowsStats
          PROVE  k \in Addr \X Dev /\ GoodList(m_flowsStats[k], now, nextCheck, lastPacket'[k[2]])
      <3>1. k \in Addr \X Dev /\ GoodList(m_flowsStats[k], now, nextCheck, lastPacket[k[2]])
        BY <1>1 DEF GoodSamples
      <3>2. k[2] \in Dev /\ lastPacket[k[2]] \in Nat
        BY <3>1 DEF GoodList
      <3>3. lastPacket[k[2]] <= now
        BY <1>1, <3>2, MonitorAssumption DEF Clocks
      <3>4. lastPacket'[k[2]] \in Nat /\ lastPacket[k[2]] <= lastPacket'[k[2]]
        <4>1. CASE k[2] = d
          BY <1>1, <1>3, <3>3, <4>1
        <4>2. CASE k[2] # d
          BY <1>3, <3>2, <4>2
        <4>3. QED
          BY <4>1, <4>2
      <3>5. now <= now
        BY <1>1
      <3>6. QED
        BY <1>1, <3>1, <3>2, <3>4, <3>5, ListLater
    <2>2. QED
      BY <1>2, <2>1 DEF GoodSamples
  <1>7. QED
    BY <1>4, <1>5, <1>6 DEF IInv

(* The delay of a sample is not negative. *)
LEMMA DelayIsNat ==
  ASSUME Tables, now \in Nat, NEW p \in Pkt, txPacket[p] # None => txPacket[p] <= now
  PROVE  delay_of(p) \in Nat
PROOF
  <1>1. CASE txPacket[p] = None
    BY <1>1 DEF delay_of
  <1>2. CASE txPacket[p] # None
    <2>1. txPacket[p] \in Nat /\ txPacket[p] <= now
      BY <1>2 DEF Tables
    <2>2. PICK a \in Nat : a = now - txPacket[p]
      <3>1. now - txPacket[p] \in Nat
        BY <2>1
      <3>2. QED
        BY <3>1
    <2>3. a * NsPerTick \in Nat
      BY MonitorAssumption
    <2>4. QED
      BY <1>2, <2>2, <2>3 DEF delay_of
  <1>3. QED
    BY <1>1, <1>2

(* A packet passed up by a MAC adds a sample at the end of one list. *)
LEMMA MonitorMacRxKeeps ==
  ASSUME IInv, NEW d \in Dev, NEW p \in Pkt, MonitorMacRx(d, p)
  PROVE  IInv'
PROOF
  <1>1. Tables /\ Clocks /\ GoodSamples /\ now \in Nat /\ nextCheck \in Nat
    BY DEF IInv, Clocks
  <1>2. /\ UNCHANGED <<now, nextCheck, m_lostPackets, lastPacket, txBy, onAir>>
        /\ rxBy' = [rxBy EXCEPT ![p] = @ \cup {d}]
        /\ txPacket' = [txPacket EXCEPT ![p] = IF d = Dst[p] THEN None ELSE @]
        /\ m_flowsStats' = push_back(<<Src[p], d>>, Sample(d, p))
    BY DEF MonitorMacRx
  <1>3. lastPacket[d] # None /\ now > 0
    BY DEF MonitorMacRx
  <1>4. Tables'
    <2>1. txPacket' \in [Pkt -> Nat \cup {None}]
      BY <1>1, <1>2 DEF Tables
    <2>2. rxBy' \in [Pkt -> SUBSET Dev]
      BY <1>1, <1>2 DEF Tables
    <2>3. QED
      BY <1>1, <1>2, <2>1, <2>2 DEF Tables
  <1>5. Clocks'
    <2>1. ASSUME NEW q \in Pkt, txPacket'[q] # None
          PROVE  txPacket'[q] = txPacket[q]
      BY <1>1, <1>2, <2>1 DEF Tables
    <2>2. QED
      BY <1>1, <1>2, <2>1 DEF Clocks
  <1>6. PICK key : key = <<Src[p], d>>
    OBVIOUS
  <1>7. key \in Addr \X Dev /\ key[2] = d
    BY <1>6, MonitorAssumption
  <1>8. PICK x : x = Sample(d, p)
    OBVIOUS
  <1>9. x \in SampleType /\ x.receptionTime = now /\ x.phyTime = lastPacket[d] /\ lastPacket[d] \in Nat
    <2>1. delay_of(p) \in Nat
      BY <1>1, DelayIsNat DEF Clocks
    <2>2. lastPacket[d] \in Nat
      BY <1>1, <1>3 DEF Tables
    <2>3. Dst[p] \in Addr \cup {Broadcast}
      BY MonitorAssumption
    <2>4. QED
      BY <1>1, <1>8, <2>1, <2>2, <2>3 DEF Sample, SampleType
  <1>10. GoodList(Append(samples(key), x), now, nextCheck, lastPacket[d])
    <2>1. samples(key) = <<>> \/ GoodList(samples(key), now, nextCheck, lastPacket[d])
      <3>1. CASE key \in DOMAIN m_flowsStats
        <4>1. GoodList(m_flowsStats[key], now, nextCheck, lastPacket[key[2]])
          BY <1>1, <3>1 DEF GoodSamples
        <4>2. QED
          BY <1>7, <3>1, <4>1 DEF samples
      <3>2. CASE key \notin DOMAIN m_flowsStats
        BY <3>2 DEF samples
      <3>3. QED
        BY <3>1, <3>2
    <2>2. now # 0 /\ nextCheck <= now + Age(m_timeslot)
      BY <1>1, <1>3 DEF Clocks
    <2>3. QED
      BY <1>1, <1>9, <2>1, <2>2, ListAppend
  <1>11. GoodSamples'
    <2>1. m_flowsStats' = [j \in DOMAIN m_flowsStats \cup {key} |->
                             IF j = key THEN Append(samples(key), x) ELSE m_flowsStats[j]]
      BY <1>2, <1>6, <1>8 DEF push_back
    <2>2. ASSUME NEW k \in DOMAIN m_flowsStats'
          PROVE  k \in Addr \X Dev /\ GoodList(m_flowsStats'[k], now, nextCheck, lastPacket[k[2]])
      <3>1. CASE k = key
        BY <1>7, <1>10, <2>1, <3>1
      <3>2. CASE k # key
        <4>1. k \in DOMAIN m_flowsStats /\ m_flowsStats'[k] = m_flowsStats[k]
          BY <2>1, <3>2
        <4>2. QED
          BY <1>1, <4>1 DEF GoodSamples
      <3>3. QED
        BY <3>1, <3>2
    <2>3. QED
      BY <1>2, <2>2 DEF GoodSamples
  <1>12. QED
    BY <1>4, <1>5, <1>11 DEF IInv

(* A check leaves good lists of young samples, and no sending time that is  *)
(* too old.                                                                 *)
LEMMA PeriodicCheckStatsKeeps ==
  ASSUME IInv, PeriodicCheckStats
  PROVE  IInv' /\ FreshAfterCheck
PROOF
  <1>1. Tables /\ Clocks /\ GoodSamples /\ now \in Nat
    BY DEF IInv, Clocks
  <1>2. /\ UNCHANGED <<now, m_lostPackets, lastPacket, txBy, rxBy, onAir>>
        /\ nextCheck' = now + PERIODIC_STATS_INTERVAL
    BY DEF PeriodicCheckStats
  <1>3. PICK left : left = {k \in DOMAIN m_flowsStats : without_old(m_flowsStats[k]) # <<>>}
    OBVIOUS
  <1>4. m_flowsStats' = [k \in left |-> without_old(m_flowsStats[k])]
    BY <1>3 DEF PeriodicCheckStats, CheckForOldPackets
  <1>5. txPacket' = [p \in Pkt |->
                      IF txPacket[p] # None /\ txPacket[p] # 0 /\ now - txPacket[p] > m_max_delay
                      THEN None ELSE txPacket[p]]
    BY DEF PeriodicCheckStats, CheckForOldPackets
  <1>6. /\ m_timeslot \in Nat /\ m_max_delay \in Nat /\ PERIODIC_STATS_INTERVAL \in Nat
        /\ None \notin Nat
    BY MonitorAssumption
  <1>7. /\ Age(m_timeslot) \in Nat /\ m_timeslot + PERIODIC_STATS_INTERVAL <= Age(m_timeslot)
        /\ Age(m_max_delay) \in Nat /\ m_max_delay + PERIODIC_STATS_INTERVAL <= Age(m_max_delay)
    BY <1>6, AgeBounds
  <1>8. Tables'
    <2>1. txPacket' \in [Pkt -> Nat \cup {None}]
      BY <1>1, <1>5 DEF Tables
    <2>2. QED
      BY <1>1, <1>2, <2>1 DEF Tables
  <1>9. Clocks'
    <2>1. ASSUME NEW q \in Pkt, txPacket'[q] # None
          PROVE  /\ txPacket'[q] # 0 /\ txPacket'[q] <= now
                 /\ nextCheck' <= txPacket'[q] + Age(m_max_delay)
      <3>1. txPacket'[q] = txPacket[q] /\ ~(txPacket[q] # 0 /\ now - txPacket[q] > m_max_delay)
        BY <1>5, <2>1
      <3>2. txPacket[q] # None /\ txPacket[q] \in Nat
        BY <1>1, <2>1, <3>1 DEF Tables
      <3>3. txPacket[q] # 0 /\ txPacket[q] <= now
        BY <1>1, <3>2 DEF Clocks
      <3>4. ~(now - txPacket[q] > m_max_delay) /\ txPacket[q] <= txPacket[q]
        BY <3>1, <3>2, <3>3
      <3>5. now <= txPacket[q] + m_max_delay
        BY <1>1, <1>6, <3>2, <3>4, Later
      <3>6. now + PERIODIC_STATS_INTERVAL <= txPacket[q] + Age(m_max_delay)
        BY <1>1, <1>6, <1>7, <3>2, <3>5, UntilNext
      <3>7. QED
        BY <1>2, <3>1, <3>3, <3>6
    <2>2. /\ nextCheck' \in Nat /\ now <= nextCheck'
          /\ nextCheck' <= now + Age(m_timeslot) /\ nextCheck' <= now + Age(m_max_delay)
      BY <1>1, <1>2, <1>6, <1>7
    <2>3. QED
      BY <1>1, <1>2, <2>1, <2>2 DEF Clocks
  <1>10. ASSUME NEW k \in DOMAIN m_flowsStats'
         PROVE  /\ k \in Addr \X Dev
                /\ GoodList(m_flowsStats'[k], now, now + PERIODIC_STATS_INTERVAL, lastPacket[k[2]])
                /\ \A i \in 1 .. Len(m_flowsStats'[k]) :
                     /\ now - m_flowsStats'[k][i].receptionTime <= m_timeslot
                     /\ now - m_flowsStats'[k][i].phyTime <= m_timeslot
    <2>1. k \in left /\ m_flowsStats'[k] = without_old(m_flowsStats[k])
      BY <1>4
    <2>2. k \in DOMAIN m_flowsStats /\ without_old(m_flowsStats[k]) # <<>>
      BY <1>3, <2>1
    <2>3. k \in Addr \X Dev /\ GoodList(m_flowsStats[k], now, nextCheck, lastPacket[k[2]])
      BY <1>1, <2>2 DEF GoodSamples
    <2>4. QED
      BY <1>1, <2>1, <2>2, <2>3, ListChecked
  <1>11. GoodSamples'
    BY <1>2, <1>10 DEF GoodSamples
  <1>12. FreshAfterCheck
    <2>1. ASSUME NEW k \in DOMAIN m_flowsStats', NEW i \in DOMAIN m_flowsStats'[k]
          PROVE  /\ now - m_flowsStats'[k][i].receptionTime <= m_timeslot
                 /\ now - m_flowsStats'[k][i].phyTime <= m_timeslot
      <3>1. m_flowsStats'[k] \in Seq(SampleType)
        BY <1>10 DEF GoodList
      <3>2. DOMAIN m_flowsStats'[k] = 1 .. Len(m_flowsStats'[k])
        BY <3>1, LenProperties
      <3>3. QED
        BY <1>10, <3>2
    <2>2. QED
      BY <2>1 DEF FreshAfterCheck
  <1>13. QED
    BY <1>8, <1>9, <1>11, <1>12 DEF IInv

(* Time stops at the next check, so nothing outlives its limit. *)
LEMMA TickKeeps ==
  ASSUME IInv, Tick
  PROVE  IInv'
PROOF
  <1>1. Tables /\ Clocks /\ GoodSamples /\ now \in Nat /\ nextCheck \in Nat
    BY DEF IInv, Clocks
  <1>2. /\ now' = now + 1 /\ now < nextCheck
        /\ UNCHANGED <<nextCheck, txPacket, m_lostPackets, m_flowsStats, lastPacket, txBy, rxBy>>
        /\ onAir' = {p \in Pkt : txBy[p] # {}}
    BY DEF Tick
  <1>3. now' \in Nat /\ now <= now' /\ now' <= nextCheck
    BY <1>1, <1>2
  <1>4. Tables'
    BY <1>1, <1>2 DEF Tables
  <1>5. Clocks'
    <2>1. m_timeslot \in Nat /\ m_max_delay \in Nat
      BY MonitorAssumption
    <2>2. Age(m_timeslot) \in Nat /\ Age(m_max_delay) \in Nat
      BY <2>1, AgeBounds
    <2>3. nextCheck <= now' + Age(m_timeslot) /\ nextCheck <= now' + Age(m_max_delay)
      <3>1. nextCheck <= now + Age(m_timeslot) /\ nextCheck <= now + Age(m_max_delay)
        BY <1>1 DEF Clocks
      <3>2. QED
        BY <1>1, <1>2, <2>2, <3>1
    <2>4. ASSUME NEW d \in Dev, lastPacket[d] # None
          PROVE  lastPacket[d] <= now'
      <3>1. lastPacket[d] <= now /\ lastPacket[d] \in Nat
        BY <1>1, <2>4 DEF Clocks, Tables
      <3>2. QED
        BY <1>1, <1>3, <3>1
    <2>5. ASSUME NEW p \in Pkt, txPacket[p] # None
          PROVE  txPacket[p] <= now'
      <3>1. txPacket[p] <= now /\ txPacket[p] \in Nat
        BY <1>1, <2>5 DEF Clocks, Tables
      <3>2. QED
        BY <1>1, <1>3, <3>1
    <2>6. QED
      BY <1>1, <1>2, <1>3, <2>3, <2>4, <2>5 DEF Clocks
  <1>6. GoodSamples'
    <2>1. ASSUME NEW k \in DOMAIN m_flowsStats
          PROVE  k \in Addr \X Dev /\ GoodList(m_flowsStats[k], now', nextCheck, lastPacket[k[2]])
      <3>1. k \in Addr \X Dev /\ GoodList(m_flowsStats[k], now, nextCheck, lastPacket[k[2]])
        BY <1>1 DEF GoodSamples
      <3>2. lastPacket[k[2]] \in Nat
        BY <3>1 DEF GoodList
      <3>3. lastPacket[k[2]] <= lastPacket[k[2]]
        BY <3>2
      <3>4. QED
        BY <1>1, <1>3, <3>1, <3>2, <3>3, ListLater
    <2>2. QED
      BY <1>2, <2>1 DEF GoodSamples
  <1>7. QED
    BY <1>4, <1>5, <1>6 DEF IInv

-----------------------------------------------------------------------------
(* Every callback and every check keeps the inductive invariant. *)
THEOREM Invariance == Spec => []IInv
PROOF
  <1>1. IInv /\ [Next]_vars => IInv'
    <2> SUFFICES ASSUME IInv, [Next]_vars PROVE IInv'
      OBVIOUS
    <2>1. CASE \E d \in Dev, p \in Pkt : MonitorMacTx(d, p)
      BY <2>1, MonitorMacTxKeeps
    <2>2. CASE \E d \in Dev : MonitorSniffRx(d)
      BY <2>2, MonitorSniffRxKeeps
    <2>3. CASE \E d \in Dev, p \in Pkt : MonitorMacRx(d, p)
      BY <2>3, MonitorMacRxKeeps
    <2>4. CASE PeriodicCheckStats
      BY <2>4, PeriodicCheckStatsKeeps
    <2>5. CASE Tick
      BY <2>5, TickKeeps
    <2>6. CASE UNCHANGED vars
      BY <2>6 DEF vars, IInv, Tables, Clocks, GoodSamples
    <2>7. QED
      BY <2>1, <2>2, <2>3, <2>4, <2>5, <2>6 DEF Next
  <1>2. QED
    BY InitIInv, <1>1, PTL DEF Spec

(* Every table keeps its type. *)
THEOREM TypeCorrect == Spec => []TypeOK
PROOF
  <1>1. IInv => TypeOK
    <2> SUFFICES ASSUME IInv PROVE TypeOK
      OBVIOUS
    <2>1. \A k \in DOMAIN m_flowsStats : k \in Addr \X Dev /\ m_flowsStats[k] \in Seq(SampleType)
      BY DEF IInv, GoodSamples, GoodList
    <2>2. QED
      BY <2>1 DEF IInv, Tables, Clocks, TypeOK
  <1>2. QED
    BY <1>1, Invariance, PTL

(* The assertion in GetFlowStats, that a known flow has samples, holds. *)
THEOREM NoFlowIsEmpty == Spec => []NoEmptyFlow
PROOF
  <1>1. IInv => NoEmptyFlow
    BY DEF IInv, GoodSamples, GoodList, NoEmptyFlow
  <1>2. QED
    BY <1>1, Invariance, PTL

(* No sample and no sending time outlives its limit by more than the time   *)
(* between two checks.                                                      *)
THEOREM AgesAreBounded == Spec => []NothingOutlives
PROOF
  <1>1. IInv => NothingOutlives
    <2> SUFFICES ASSUME IInv PROVE NothingOutlives
      OBVIOUS
    <2>1. now \in Nat /\ nextCheck \in Nat /\ now <= nextCheck
      BY DEF IInv, Clocks
    <2>2. Age(m_timeslot) \in Nat /\ Age(m_max_delay) \in Nat
      BY MonitorAssumption, AgeBounds
    <2>3. ASSUME NEW k \in DOMAIN m_flowsStats, NEW i \in DOMAIN m_flowsStats[k]
          PROVE  now - m_flowsStats[k][i].receptionTime <= Age(m_timeslot)
      <3>1. GoodList(m_flowsStats[k], now, nextCheck, lastPacket[k[2]])
        BY DEF IInv, GoodSamples
      <3>2. m_flowsStats[k] \in Seq(SampleType) /\ i \in 1 .. Len(m_flowsStats[k])
        BY <3>1, LenProperties DEF GoodList
      <3>3. m_flowsStats[k][i] \in SampleType
        BY <3>2, ElementOfSeq
      <3>4. m_flowsStats[k][i].receptionTime \in Nat
        BY <3>3 DEF SampleType
      <3>5. nextCheck <= m_flowsStats[k][i].receptionTime + Age(m_timeslot)
        BY <3>1, <3>2 DEF GoodList
      <3>6. QED
        BY <2>1, <2>2, <3>4, <3>5
    <2>4. ASSUME NEW p \in Pkt, txPacket[p] # None
          PROVE  now - txPacket[p] <= Age(m_max_delay)
      <3>1. txPacket[p] \in Nat /\ nextCheck <= txPacket[p] + Age(m_max_delay)
        BY <2>4 DEF IInv, Tables, Clocks
      <3>2. QED
        BY <2>1, <2>2, <3>1
    <2>5. QED
      BY <2>3, <2>4 DEF NothingOutlives
  <1>2. QED
    BY <1>1, Invariance, PTL

(* After each check every sample left is from the last timeslot, although   *)
(* the loop looks no further than the first young one.                      *)
THEOREM Freshness == Spec => ReportsAreFresh
PROOF
  <1>1. IInv => FreshAfterCheck
    BY PeriodicCheckStatsKeeps DEF FreshAfterCheck
  <1>2. IInv /\ [Next]_vars => [FreshAfterCheck]_vars
    BY <1>1
  <1>3. QED
    BY <1>2, Invariance, PTL DEF Spec, ReportsAreFresh

=============================================================================
