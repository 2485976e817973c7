--------------------------- MODULE MeterBandProofs ---------------------------
(***************************************************************************)
(* For any bands, rates, flags, packets and interval of the timeout: types *)
(* are kept and no window of time lets through more than WindowBounded     *)
(* says.  The bound is inductive with the tokens still in the bucket, and  *)
(* those time has already earned, on the side of what was let through.     *)
(*                                                                         *)
(* For any flows, paths, rates and priorities: the rate limiter            *)
(* (RateLimiter) numbers meters afresh and orders meters before the rules  *)
(* through them, of which a recalculation loses one at most, and the rules *)
(* of an answer without a meter fit together.  Its recursions are shown to *)
(* be solved, and to stay in sets their steps stay in, by the least number *)
(* at which they would not.                                                *)
(***************************************************************************)
EXTENDS MeterBand, RateLimiter, FiniteSetTheorems, SequenceTheorems,
        WellFoundedInduction, NaturalsInduction, TLAPS

(* No bucket holds more than it can, and no refill is overdue. *)
Held ==
  /\ \A b \in Band : tokens[b] <= capacity(b)
  /\ elapsed + due <= Interval

Paid ==
  \A b \in Band : rate[b] > 0 =>
    passed + tokens[b] + rate[b] * elapsed <= capacity(b) + rate[b] * (window + Interval)

IInv == TypeOK /\ Held /\ Paid

(* Products of naturals: sign, order and a step of one factor. *)
LEMMA Products ==
  ASSUME NEW r \in Nat, NEW x \in Nat, NEW y \in Nat
  PROVE  /\ r * x \in Nat
         /\ x <= y => r * x <= r * y
         /\ r * (x + y) = r * x + r * y
         /\ r * (x + 1) = r * x + r
         /\ r * 0 = 0
<1>1. r * x \in Nat
  OBVIOUS
<1>2. ASSUME x <= y PROVE r * x <= r * y
  <2>1. PICK d \in Nat : y = x + d
    <3>1. y - x \in Nat /\ y = x + (y - x)
      BY <1>2
    <3> QED BY <3>1
  <2>2. r * y = r * x + r * d /\ r * d \in Nat /\ r * x \in Nat
    BY <2>1
  <2> QED BY <2>2
<1>3. r * (x + y) = r * x + r * y
  OBVIOUS
<1>4. r * (x + 1) = r * x + r
  OBVIOUS
<1>5. r * 0 = 0
  OBVIOUS
<1> QED BY <1>1, <1>2, <1>3, <1>4, <1>5

(* The whole part of a rate is a natural number. *)
LEMMA Parsed == ASSUME NEW r \in Rate PROVE parse32(r) \in Nat
<1>1. r \in Nat /\ Milli \in Nat /\ Milli > 0
  BY MeterAssumption
<1> QED BY <1>1 DEF parse32

LEMMA CapacityIsNat == ASSUME TypeOK, NEW b \in Band PROVE capacity(b) \in Nat
<1>1. Milli \in Nat /\ rate[b] \in Nat /\ burst[b] \in Nat
  BY MeterAssumption DEF TypeOK
<1> QED BY <1>1 DEF capacity

LEMMA PriceIsNat == ASSUME NEW n \in Size PROVE price(n) \in Nat
BY MeterAssumption DEF price

(* A meter just made: no token has been earned or spent. *)
LEMMA Fresh ==
  ASSUME TypeOK, elapsed = 0, passed = 0, window = 0, tokens = [b \in Band |-> 0]
  PROVE  Held /\ Paid
<1>1. ASSUME NEW b \in Band
      PROVE  /\ tokens[b] <= capacity(b)
             /\ passed + tokens[b] + rate[b] * elapsed <= capacity(b) + rate[b] * (window + Interval)
  <2>1. capacity(b) \in Nat /\ rate[b] \in Nat /\ Interval \in Nat
    BY CapacityIsNat, <1>1, MeterAssumption DEF TypeOK
  <2>2. rate[b] * elapsed = 0 /\ rate[b] * (window + Interval) \in Nat
    BY <2>1, Products
  <2> QED BY <2>1, <2>2
<1>2. elapsed + due <= Interval
  BY MeterAssumption DEF TypeOK
<1> QED BY <1>1, <1>2 DEF Held, Paid

LEMMA InitIInv == Init => IInv
<1> SUFFICES ASSUME Init PROVE IInv
  OBVIOUS
<1>1. PICK r \in [Band -> Rate], bs \in [Band -> Burst] :
        /\ rate = [b \in Band |-> parse32(r[b])] /\ burst = bs
        /\ tokens = [b \in Band |-> 0]
  BY DEF Init, meter_entry_create
<1>2. TypeOK
  <2>1. rate \in [Band -> Nat]
    BY <1>1, Parsed
  <2>2. burst \in [Band -> Nat] /\ tokens \in [Band -> Nat]
    BY <1>1, MeterAssumption
  <2> QED BY <2>1, <2>2, MeterAssumption DEF Init, TypeOK
<1> QED BY <1>1, <1>2, Fresh DEF Init, IInv

LEMMA ModifyIInv == IInv /\ meter_table_modify => IInv'
<1> SUFFICES ASSUME IInv, meter_table_modify PROVE IInv'
  OBVIOUS
<1>1. PICK r \in [Band -> Rate], bs \in [Band -> Burst] :
        /\ rate' = [b \in Band |-> parse32(r[b])] /\ burst' = bs
        /\ tokens' = [b \in Band |-> 0]
  BY DEF meter_table_modify, meter_entry_create
<1>2. TypeOK'
  <2>1. rate' \in [Band -> Nat]
    BY <1>1, Parsed
  <2>2. burst' \in [Band -> Nat] /\ tokens' \in [Band -> Nat]
    BY <1>1, MeterAssumption
  <2> QED BY <2>1, <2>2, MeterAssumption DEF meter_table_modify, IInv, TypeOK
<1>3. (Held /\ Paid)'
  <2>1. elapsed' = 0 /\ passed' = 0 /\ window' = 0
    BY DEF meter_table_modify
  <2>2. ASSUME NEW b \in Band
        PROVE  /\ tokens'[b] <= capacity(b)'
               /\ passed' + tokens'[b] + rate'[b] * elapsed' <= capacity(b)' + rate'[b] * (window' + Interval)
    <3>1. Milli \in Nat /\ Interval \in Nat /\ rate'[b] \in Nat /\ burst'[b] \in Nat
      BY <1>2, MeterAssumption DEF TypeOK
    <3>2. capacity(b)' \in Nat
      BY <3>1 DEF capacity
    <3>3. rate'[b] * elapsed' = 0 /\ rate'[b] * (window' + Interval) \in Nat
      BY <2>1, <3>1, Products
    <3> QED BY <1>1, <2>1, <3>1, <3>2, <3>3
  <2>3. elapsed' + due' <= Interval
    <3>1. due' = due /\ due \in 0..Interval
      BY DEF meter_table_modify, IInv, TypeOK
    <3> QED BY <2>1, <3>1, MeterAssumption
  <2> QED BY <2>2, <2>3 DEF Held, Paid
<1> QED BY <1>2, <1>3 DEF IInv

(* A packet that passes has been paid for by every band with a rate. *)
LEMMA ApplyIInv == ASSUME NEW n \in Size PROVE IInv /\ meter_entry_apply(n) => IInv'
<1> SUFFICES ASSUME IInv, meter_entry_apply(n) PROVE IInv'
  OBVIOUS
<1>0. /\ price(n) \in Nat
      /\ flags' = flags /\ rate' = rate /\ burst' = burst
      /\ elapsed' = elapsed /\ due' = due /\ window' = window
  BY PriceIsNat DEF meter_entry_apply, config
<1>1. ASSUME NEW b \in Band
      PROVE  /\ tokens'[b] \in Nat /\ tokens'[b] <= tokens[b]
             /\ affords(b, n) => tokens'[b] + price(n) = tokens[b]
  <2>1. tokens'[b] = IF affords(b, n) THEN tokens[b] - price(n) ELSE tokens[b]
    BY DEF meter_entry_apply, consume_tokens
  <2>2. tokens[b] \in Nat
    BY DEF IInv, TypeOK
  <2> QED BY <1>0, <2>1, <2>2 DEF affords
<1>2. tokens' \in [Band -> Nat]
  <2>1. tokens' = [b \in Band |-> tokens'[b]]
    BY DEF meter_entry_apply, consume_tokens
  <2> QED BY <2>1, <1>1
<1>3. \/ choose_band(n) = {} /\ passed' = passed + price(n)
      \/ passed' = passed
  BY DEF meter_entry_apply
<1>4. passed' \in Nat /\ last' \in {"created", "time", "passed", "dropped"}
  <2>1. passed \in Nat
    BY DEF IInv, TypeOK
  <2>2. last' \in {"passed", "dropped"}
    BY DEF meter_entry_apply
  <2> QED BY <2>1, <2>2, <1>0, <1>3
<1>5. TypeOK'
  BY <1>0, <1>2, <1>4 DEF IInv, TypeOK
<1>6. ASSUME NEW b \in Band PROVE capacity(b)' = capacity(b)
  BY <1>0 DEF capacity
<1>7. Held'
  <2>1. ASSUME NEW b \in Band PROVE tokens'[b] <= capacity(b)'
    <3>1. tokens[b] \in Nat /\ capacity(b) \in Nat /\ tokens[b] <= capacity(b)
      BY CapacityIsNat DEF IInv, TypeOK, Held
    <3> QED BY <3>1, <1>1, <1>6
  <2> QED BY <2>1, <1>0 DEF IInv, Held
<1>8. Paid'
  <2> SUFFICES ASSUME NEW b \in Band, rate[b] > 0
               PROVE  passed' + tokens'[b] + rate[b] * elapsed <= capacity(b) + rate[b] * (window + Interval)
    BY <1>0, <1>6 DEF Paid
  <2>1. passed + tokens[b] + rate[b] * elapsed <= capacity(b) + rate[b] * (window + Interval)
    BY DEF IInv, Paid
  <2>2. /\ passed \in Nat /\ tokens[b] \in Nat /\ capacity(b) \in Nat /\ rate[b] \in Nat
        /\ elapsed \in Nat /\ window + Interval \in Nat
    BY CapacityIsNat, MeterAssumption DEF IInv, TypeOK
  <2>3. rate[b] * elapsed \in Nat /\ rate[b] * (window + Interval) \in Nat
    BY <2>2, Products
  <2>4. passed' + tokens'[b] <= passed + tokens[b]
    <3>1. CASE choose_band(n) = {} /\ passed' = passed + price(n)
      <4>1. affords(b, n)
        BY <3>1 DEF choose_band
      <4> QED BY <4>1, <3>1, <1>0, <1>1, <2>2
    <3>2. CASE passed' = passed
      BY <3>2, <1>1, <2>2
    <3> QED BY <1>3, <3>1, <3>2
  <2> QED BY <2>1, <2>2, <2>3, <2>4, <1>1, <1>4
<1> QED BY <1>5, <1>7, <1>8 DEF IInv

(* A refill pays out at most what time has earned. *)
LEMMA TimeoutIInv == IInv /\ DatapathTimeout => IInv'
<1> SUFFICES ASSUME IInv, DatapathTimeout PROVE IInv'
  OBVIOUS
<1>0. /\ flags' = flags /\ rate' = rate /\ burst' = burst
      /\ elapsed' = 0 /\ due' = Interval /\ passed' = passed /\ window' = window /\ last' = "time"
  BY DEF DatapathTimeout, config, history
<1>1. ASSUME NEW b \in Band
      PROVE  /\ tokens'[b] \in Nat /\ tokens'[b] <= capacity(b)
             /\ tokens'[b] <= tokens[b] + rate[b] * elapsed
             /\ rate[b] * elapsed \in Nat
  <2>1. tokens'[b] = IF "KBPS" \in flags \/ filled(b) >= Milli
                     THEN MIN(filled(b), capacity(b)) ELSE tokens[b]
    BY DEF DatapathTimeout, refill_bucket
  <2>2. /\ tokens[b] \in Nat /\ rate[b] \in Nat /\ elapsed \in Nat
        /\ capacity(b) \in Nat /\ tokens[b] <= capacity(b)
    BY CapacityIsNat DEF IInv, TypeOK, Held
  <2>3. rate[b] * elapsed \in Nat
    BY <2>2, Products
  <2>4. filled(b) \in Nat /\ filled(b) = tokens[b] + rate[b] * elapsed
    BY <2>2, <2>3 DEF filled
  <2>5. \/ tokens'[b] = filled(b) /\ filled(b) < capacity(b)
        \/ tokens'[b] = capacity(b) /\ ~(filled(b) < capacity(b))
        \/ tokens'[b] = tokens[b]
    BY <2>1 DEF MIN
  <2> QED BY <2>2, <2>3, <2>4, <2>5
<1>2. tokens' \in [Band -> Nat]
  <2>1. tokens' = [b \in Band |-> tokens'[b]]
    BY DEF DatapathTimeout, refill_bucket
  <2> QED BY <2>1, <1>1
<1>3. TypeOK'
  BY <1>0, <1>2, MeterAssumption DEF IInv, TypeOK
<1>4. ASSUME NEW b \in Band PROVE capacity(b)' = capacity(b)
  BY <1>0 DEF capacity
<1>5. Held'
  BY <1>0, <1>1, <1>4, MeterAssumption DEF Held
<1>6. Paid'
  <2> SUFFICES ASSUME NEW b \in Band, rate[b] > 0
               PROVE  passed + tokens'[b] + rate[b] * 0 <= capacity(b) + rate[b] * (window + Interval)
    BY <1>0, <1>4 DEF Paid
  <2>1. passed + tokens[b] + rate[b] * elapsed <= capacity(b) + rate[b] * (window + Interval)
    BY DEF IInv, Paid
  <2>2. /\ passed \in Nat /\ tokens[b] \in Nat /\ capacity(b) \in Nat /\ rate[b] \in Nat
        /\ window + Interval \in Nat
    BY CapacityIsNat, MeterAssumption DEF IInv, TypeOK
  <2>3. rate[b] * (window + Interval) \in Nat /\ rate[b] * 0 = 0
    BY <2>2, Products
  <2> QED BY <2>1, <2>2, <2>3, <1>1
<1> QED BY <1>3, <1>5, <1>6 DEF IInv

(* The first instant of a window: the bucket is at most full. *)
LEMMA WindowStarts ==
  ASSUME NEW r \in Nat, NEW c \in Nat, NEW t \in Nat, NEW e \in Nat,
         t <= c, e <= Interval
  PROVE  0 + t + r * e <= c + r * (0 + Interval)
<1>1. r * e <= r * Interval /\ r * e \in Nat /\ r * Interval \in Nat
  BY Products, MeterAssumption
<1> QED BY <1>1, MeterAssumption

LEMMA NewWindowIInv == IInv /\ NewWindow => IInv'
<1> SUFFICES ASSUME IInv, NewWindow PROVE IInv'
  OBVIOUS
<1>0. /\ flags' = flags /\ rate' = rate /\ burst' = burst /\ tokens' = tokens
      /\ elapsed' = elapsed /\ due' = due /\ passed' = 0 /\ window' = 0 /\ last' = "time"
  BY DEF NewWindow, config
<1>1. TypeOK'
  BY <1>0, MeterAssumption DEF IInv, TypeOK
<1>2. ASSUME NEW b \in Band PROVE capacity(b)' = capacity(b)
  BY <1>0 DEF capacity
<1>3. Held'
  BY <1>0, <1>2 DEF IInv, Held
<1>4. Paid'
  <2> SUFFICES ASSUME NEW b \in Band
               PROVE  0 + tokens[b] + rate[b] * elapsed <= capacity(b) + rate[b] * (0 + Interval)
    BY <1>0, <1>2 DEF Paid
  <2>1. /\ tokens[b] \in Nat /\ capacity(b) \in Nat /\ rate[b] \in Nat /\ elapsed \in Nat
        /\ tokens[b] <= capacity(b) /\ elapsed <= Interval
    BY CapacityIsNat, MeterAssumption DEF IInv, TypeOK, Held
  <2> QED BY <2>1, WindowStarts
<1> QED BY <1>1, <1>3, <1>4 DEF IInv

LEMMA TickIInv == IInv /\ Tick => IInv'
<1> SUFFICES ASSUME IInv, Tick PROVE IInv'
  OBVIOUS
<1>0. /\ flags' = flags /\ rate' = rate /\ burst' = burst /\ tokens' = tokens
      /\ due > 0 /\ due' = due - 1 /\ elapsed' = elapsed + 1 /\ last' = "time"
  BY DEF Tick, config
<1>1. \/ window < MaxWindow /\ window' = window + 1 /\ passed' = passed
      \/ window' = 0 /\ passed' = 0
  BY DEF Tick
<1>2. TypeOK'
  BY <1>0, <1>1, MeterAssumption DEF IInv, TypeOK
<1>3. ASSUME NEW b \in Band PROVE capacity(b)' = capacity(b)
  BY <1>0 DEF capacity
<1>4. Held'
  <2>1. elapsed' + due' <= Interval
    BY <1>0, MeterAssumption DEF IInv, TypeOK, Held
  <2> QED BY <2>1, <1>0, <1>3 DEF IInv, Held
<1>5. Paid'
  <2> SUFFICES ASSUME NEW b \in Band, rate[b] > 0
               PROVE  passed' + tokens[b] + rate[b] * (elapsed + 1) <= capacity(b) + rate[b] * (window' + Interval)
    BY <1>0, <1>3 DEF Paid
  <2>1. /\ tokens[b] \in Nat /\ capacity(b) \in Nat /\ rate[b] \in Nat /\ elapsed \in Nat
        /\ window \in Nat /\ passed \in Nat /\ Interval \in Nat /\ tokens[b] <= capacity(b)
        /\ elapsed + 1 <= Interval
    BY <1>0, CapacityIsNat, MeterAssumption DEF IInv, TypeOK, Held
  <2>2. CASE window' = window + 1 /\ passed' = passed
    <3>1. passed + tokens[b] + rate[b] * elapsed <= capacity(b) + rate[b] * (window + Interval)
      BY DEF IInv, Paid
    <3>2. /\ rate[b] * elapsed \in Nat /\ rate[b] * (window + Interval) \in Nat
          /\ rate[b] * (elapsed + 1) = rate[b] * elapsed + rate[b]
          /\ rate[b] * ((window + Interval) + 1) = rate[b] * (window + Interval) + rate[b]
      BY <2>1, Products
    <3>3. window' + Interval = (window + Interval) + 1
      BY <2>1, <2>2
    <3> QED BY <2>1, <2>2, <3>1, <3>2, <3>3
  <2>3. CASE window' = 0 /\ passed' = 0
    <3>1. elapsed + 1 \in Nat
      BY <2>1
    <3> QED BY <2>1, <2>3, <3>1, WindowStarts
  <2> QED BY <1>1, <2>2, <2>3
<1> QED BY <1>2, <1>4, <1>5 DEF IInv

LEMMA StepIInv == IInv /\ [Next]_vars => IInv'
<1> SUFFICES ASSUME IInv, [Next]_vars PROVE IInv'
  OBVIOUS
<1>1. CASE meter_table_modify
  BY <1>1, ModifyIInv
<1>2. CASE DatapathTimeout
  BY <1>2, TimeoutIInv
<1>3. CASE NewWindow
  BY <1>3, NewWindowIInv
<1>4. CASE Tick
  BY <1>4, TickIInv
<1>5. CASE \E n \in Size : meter_entry_apply(n)
  BY <1>5, ApplyIInv
<1>6. CASE UNCHANGED vars
  BY <1>6 DEF vars, IInv, TypeOK, Held, Paid, capacity
<1> QED BY <1>1, <1>2, <1>3, <1>4, <1>5, <1>6 DEF Next

LEMMA IInvHolds == Spec => []IInv
BY InitIInv, StepIInv, PTL DEF Spec

(* Tables keep their types and no bucket is ever overdrawn, for any bands,  *)
(* rates, flags and packets (consume_tokens, refill_bucket).                *)
THEOREM TypeCorrect == Spec => []TypeOK
<1>1. IInv => TypeOK
  BY DEF IInv
<1> QED BY <1>1, IInvHolds, PTL

(* meter_entry_apply never lets more through in any window of time than a   *)
(* full bucket, the rate times the window and the refill of one interval.   *)
THEOREM WindowsAreBounded == Spec => []WindowBounded
<1>1. IInv => WindowBounded
  <2> SUFFICES ASSUME IInv, NEW b \in Band, rate[b] > 0
               PROVE  passed <= capacity(b) + rate[b] * (window + Interval)
    BY DEF WindowBounded
  <2>1. passed + tokens[b] + rate[b] * elapsed <= capacity(b) + rate[b] * (window + Interval)
    BY DEF IInv, Paid
  <2>2. /\ passed \in Nat /\ tokens[b] \in Nat /\ capacity(b) \in Nat /\ rate[b] \in Nat
        /\ elapsed \in Nat /\ window + Interval \in Nat
    BY CapacityIsNat, MeterAssumption DEF IInv, TypeOK
  <2>3. rate[b] * elapsed \in Nat /\ rate[b] * (window + Interval) \in Nat
    BY <2>2, Products
  <2> QED BY <2>1, <2>2, <2>3
<1> QED BY <1>1, IInvHolds, PTL

-----------------------------------------------------------------------------
(* The rate limiter, whose meters these are. *)
(* Well-ordering of the naturals. *)
LEMMA LeastNat ==
  ASSUME NEW T, T \subseteq Nat, T # {}
  PROVE  \E t \in T : \A u \in T : t <= u
<1> DEFINE R == OpToRel(<, Nat)
<1>1. IsWellFoundedOn(R, Nat)
  BY NatLessThanWellFounded
<1>2. \A i, j \in Nat : i < j => <<i, j>> \in R
  BY DEF OpToRel
<1> HIDE DEF R
<1>3. PICK t \in T : \A u \in T : ~ (<<u, t>> \in R)
  BY <1>1, WFMin
<1>4. \A u \in T : ~(u < t)
  BY <1>2, <1>3
<1> QED BY <1>4

(* A recursion on 0 .. n whose steps stay in A has values in A ... *)
LEMMA RecursionIn ==
  ASSUME NEW A, NEW n \in Nat, NEW f,
         \A m \in 0 .. n : (\A i \in 0 .. m - 1 : f[i] \in A) => f[m] \in A
  PROVE  \A m \in 0 .. n : f[m] \in A
<1> DEFINE T == {m \in 0 .. n : f[m] \notin A}
<1>1. SUFFICES ASSUME T # {} PROVE FALSE
  OBVIOUS
<1>2. T \subseteq Nat
  OBVIOUS
<1> HIDE DEF T
<1>3. PICK t \in T : \A u \in T : t <= u
  BY <1>1, <1>2, LeastNat
<1>4. t \in 0 .. n /\ f[t] \notin A
  BY <1>3 DEF T
<1>5. \A i \in 0 .. t - 1 : i \in 0 .. n /\ i \notin T
  BY <1>2, <1>3, <1>4
<1>6. \A i \in 0 .. t - 1 : f[i] \in A
  BY <1>5 DEF T
<1> QED BY <1>4, <1>6

(* ... and there is one: step m is g[m], of the value at j[m]. *)
Solves(f, A, n, b, j, g) ==
  /\ f \in [0 .. n -> A] /\ f[0] = b
  /\ \A m \in 1 .. n : f[m] = g[m][f[j[m]]]

LEMMA RecursionSolved ==
  ASSUME NEW A, NEW n \in Nat, NEW b \in A,
         NEW j, \A m \in 1 .. n : j[m] \in 0 .. m - 1,
         NEW g, \A m \in 1 .. n : \A a \in A : g[m][a] \in A
  PROVE  \E f : Solves(f, A, n, b, j, g)
<1> DEFINE T == {m \in 0 .. n : ~ \E f : Solves(f, A, m, b, j, g)}
<1>1. SUFFICES ASSUME T # {} PROVE FALSE
  OBVIOUS
<1>2. T \subseteq Nat
  OBVIOUS
<1> HIDE DEF T
<1>3. PICK t \in T : \A u \in T : t <= u
  BY <1>1, <1>2, LeastNat
<1>4. t \in 0 .. n /\ ~ \E f : Solves(f, A, t, b, j, g)
  BY <1>3 DEF T
<1>5. t # 0
  <2>1. Solves([m \in 0 .. 0 |-> b], A, 0, b, j, g)
    BY DEF Solves
  <2> QED BY <1>4, <2>1
<1>6. t - 1 \in 0 .. n /\ t - 1 \notin T
  BY <1>2, <1>3, <1>4, <1>5
<1>7. PICK f : Solves(f, A, t - 1, b, j, g)
  BY <1>6 DEF T
<1> DEFINE h == [m \in 0 .. t |-> IF m = t THEN g[t][f[j[t]]] ELSE f[m]]
<1>8. t \in 1 .. n /\ j[t] \in 0 .. t - 1 /\ f[j[t]] \in A /\ g[t][f[j[t]]] \in A
  BY <1>4, <1>5, <1>7 DEF Solves
<1>9. h \in [0 .. t -> A] /\ h[0] = b
  BY <1>5, <1>7, <1>8 DEF Solves
<1>10. ASSUME NEW m \in 1 .. t PROVE h[m] = g[m][h[j[m]]]
  <2>1. j[m] \in 0 .. t - 1 /\ j[m] # t /\ j[m] \in 0 .. t
    BY <1>8
  <2>2. h[j[m]] = f[j[m]]
    BY <2>1
  <2>3. m # t => m \in 1 .. t - 1 /\ f[m] = g[m][f[j[m]]]
    BY <1>7, <1>8 DEF Solves
  <2> QED BY <2>2, <2>3
<1>11. Solves(h, A, t, b, j, g)
  BY <1>9, <1>10 DEF Solves
<1> QED BY <1>4, <1>11

(* Of two numbers. *)
LEMMA MinMax ==
  ASSUME NEW a \in Int, NEW b \in Int
  PROVE  /\ Min({a, b}) = IF a <= b THEN a ELSE b
         /\ Max({a, b}) = IF a >= b THEN a ELSE b
BY DEF Min, Max

LEMMA MaxZero ==
  ASSUME NEW b \in Int
  PROVE  Max({0, b}) \in Nat /\ Max({b, 0}) \in Nat
BY DEF Max

LEMMA MinNat ==
  ASSUME NEW T, T \subseteq Nat, T # {}
  PROVE  Min(T) \in T
BY LeastNat DEF Min

LEMMA FirstInRange ==
  ASSUME NEW S, NEW s \in Seq(S), NEW K
  PROVE  FirstIn(s, K) \in 1 .. Len(s) + 1
<1> DEFINE T == {i \in DOMAIN s : s[i] \in K} \cup {Len(s) + 1}
<1>1. T \subseteq 1 .. Len(s) + 1 /\ T # {} /\ T \subseteq Nat
  OBVIOUS
<1> HIDE DEF T
<1>2. Min(T) \in T
  BY <1>1, MinNat
<1> QED BY <1>1, <1>2 DEF FirstIn, T

LEMMA Inserted ==
  ASSUME NEW S, NEW s \in Seq(S), NEW i \in 1 .. Len(s) + 1, NEW e \in S
  PROVE  InsertAt(s, i, e) \in Seq(S)
<1>1. SubSeq(s, 1, i - 1) \in Seq(S) /\ SubSeq(s, i, Len(s)) \in Seq(S)
  OBVIOUS
<1>2. <<e>> \in Seq(S)
  OBVIOUS
<1> QED BY <1>1, <1>2, ConcatProperties DEF InsertAt

-----------------------------------------------------------------------------
(* The recursions of RateLimiter are chosen functions; each is shown to be  *)
(* solved, so that what is chosen is a solution.                            *)
SortUnfolds(s, K, n, after) ==
  s = [m \in 0 .. n |->
         IF m = 0 THEN <<>>
         ELSE IF m \in K THEN InsertAt(s[m - 1], FirstIn(s[m - 1], after[m]), m)
         ELSE s[m - 1]]

(* A sorted list of keys has no others. *)
LEMMA SortedKeys ==
  ASSUME NEW n \in Nat, NEW K, K \subseteq 1 .. n, NEW after
  PROVE  sorted_keys(K, n, after) \in Seq(K)
<1> DEFINE A == Seq(K)
           ins(q, m) == InsertAt(q, FirstIn(q, after[m]), m)
           g == [m \in 1 .. n |-> [q \in A |-> IF m \in K THEN ins(q, m) ELSE q]]
           j == [m \in 1 .. n |-> m - 1]
<1>1. ASSUME NEW m \in K, NEW q \in A PROVE ins(q, m) \in A
  BY Inserted, FirstInRange
<1>2. <<>> \in A
  OBVIOUS
<1> HIDE DEF A, ins
<1>3. \A m \in 1 .. n : \A q \in A : g[m][q] \in A
  BY <1>1
<1>4. \A m \in 1 .. n : j[m] \in 0 .. m - 1
  OBVIOUS
<1> HIDE DEF g, j
<1>5. PICK f : Solves(f, A, n, <<>>, j, g)
  BY <1>2, <1>3, <1>4, RecursionSolved
<1>6. SortUnfolds(f, K, n, after)
  <2>1. \A m \in 1 .. n : f[m - 1] \in A /\ f[m] = IF m \in K THEN ins(f[m - 1], m) ELSE f[m - 1]
    <3> TAKE m \in 1 .. n
    <3>1. j[m] = m - 1 /\ m - 1 \in 0 .. n
      BY DEF j
    <3>2. f[m - 1] \in A /\ f[m] = g[m][f[m - 1]]
      BY <1>5, <3>1 DEF Solves
    <3> QED BY <3>2 DEF g
  <2>2. \A m \in 0 .. n : f[m] = IF m = 0 THEN <<>> ELSE IF m \in K THEN ins(f[m - 1], m) ELSE f[m - 1]
    BY <1>5, <2>1 DEF Solves
  <2> QED BY <1>5, <2>2 DEF Solves, SortUnfolds, ins
<1> DEFINE s == CHOOSE s : SortUnfolds(s, K, n, after)
<1>7. SortUnfolds(s, K, n, after)
  BY <1>6
<1>8. sorted_keys(K, n, after) = s[n]
  BY DEF sorted_keys, SortUnfolds
<1> HIDE DEF s
<1>9. /\ s[0] = <<>>
      /\ \A m \in 1 .. n : s[m] = IF m \in K THEN ins(s[m - 1], m) ELSE s[m - 1]
  BY <1>7 DEF SortUnfolds, ins
<1>10. ASSUME NEW m \in 0 .. n, \A i \in 0 .. m - 1 : s[i] \in A PROVE s[m] \in A
  <2>1. CASE m = 0
    BY <1>2, <1>9, <2>1
  <2>2. CASE m # 0
    <3>1. m - 1 \in 0 .. m - 1 /\ m \in 1 .. n
      BY <2>2
    <3> QED BY <1>1, <1>9, <1>10, <3>1
  <2> QED BY <2>1, <2>2
<1>11. \A m \in 0 .. n : s[m] \in A
  BY <1>10, RecursionIn
<1> QED BY <1>8, <1>11 DEF A

-----------------------------------------------------------------------------
(* Keys, rules and orders; ids of meters are below the counter n. *)
State == {"HAS_PATH", "LEGACY", "BROKEN"}
KeySet(n) ==
  {k \in [flow : Flow, sdn_node_req : V, transmitter : V, path : Route, state : State,
          meter_id : Nat \cup {None}, current_bw : Nat] :
     /\ k.path \in Paths[k.flow] /\ k.sdn_node_req \in OF
     /\ k.state = "HAS_PATH" => Len(k.path) > 1
     /\ k.meter_id # None => k.meter_id < n}

RuleSet == [at : V, from : V, flow : Flow, via : V, out : V \cup {None}]
Below(n) == {i \in Nat : i < n}
FlowOrder(n) ==
  {o \in [kind : {"flow"}, at : V, rule : RuleSet, meter : Below(n) \cup {None}] : o.rule.at = o.at}
MeterOrder(n) == [kind : {"meter"}, at : V, meter : Below(n), rate : Nat]
Order(n) == FlowOrder(n) \cup MeterOrder(n)

LEMMA Monotone ==
  ASSUME NEW n \in Nat, NEW m \in Nat, n <= m
  PROVE  /\ KeySet(n) \subseteq KeySet(m)
         /\ FlowOrder(n) \subseteq FlowOrder(m) /\ MeterOrder(n) \subseteq MeterOrder(m)
         /\ Order(n) \subseteq Order(m)
<1>1. \A i \in Nat : i < n => i < m
  OBVIOUS
<1>2. Below(n) \subseteq Below(m)
  BY <1>1 DEF Below
<1>3. KeySet(n) \subseteq KeySet(m)
  BY <1>1 DEF KeySet
<1>4. FlowOrder(n) \subseteq FlowOrder(m)
  BY <1>2 DEF FlowOrder
<1>5. MeterOrder(n) \subseteq MeterOrder(m)
  BY <1>2 DEF MeterOrder
<1> QED BY <1>3, <1>4, <1>5 DEF Order

(* A path is a sequence of vertices that begins at a port of a switch. *)
LEMMA RouteIs ==
  ASSUME NEW p \in Route
  PROVE  /\ p \in Seq(V) /\ Len(p) \in Nat \ {0} /\ DOMAIN p = 1 .. Len(p)
         /\ \A i \in 1 .. Len(p) : p[i] \in V
<1>1. PICK n \in 1 .. Cardinality(V) : p \in [1 .. n -> V]
  BY DEF Route, Cardinality, Cardinality
<1>2. n \in Nat
  OBVIOUS
<1>3. n # 0
  BY <1>1
<1> QED BY <1>1, <1>2, <1>3

LEMMA PathIs ==
  ASSUME NEW f \in Flow, NEW p \in Paths[f]
  PROVE  p \in Route /\ p[1] \in OF /\ p[1] \in V
<1>1. p \in Route /\ dpOf[p[1]] # None
  BY RateLimiterAssumption
<1>2. p[1] \in V
  BY <1>1, RouteIs
<1> QED BY <1>1, <1>2 DEF OF

LEMMA DataRate ==
  ASSUME NEW n, NEW k \in KeySet(n)
  PROVE  get_dataRate(k) \in Nat
<1>1. og_bw[k.flow] \in Nat /\ k.current_bw \in Nat
  BY RateLimiterAssumption DEF KeySet
<1>2. Max({0, k.current_bw}) \in Nat
  BY <1>1, MaxZero
<1> QED BY <1>1, <1>2 DEF get_dataRate

-----------------------------------------------------------------------------
(* The rules of a path.  The rule that takes what another forwards stands   *)
(* right behind it.                                                         *)
Meets(r, q) == q.at = r.out /\ q.from = r.via /\ q.flow = r.flow
Chained(s, of) ==
  \A i \in 1 .. Len(s) : /\ s[i].at \in of
                         /\ s[i].out \in of => i < Len(s) /\ Meets(s[i], s[i + 1])

LEMMA ChainedFront ==
  ASSUME NEW of, NEW b \in Seq(RuleSet), Chained(b, of), NEW r \in RuleSet, r.at \in of,
         r.out \in of => b # <<>> /\ Meets(r, b[1])
  PROVE  Chained(<<r>> \o b, of) /\ <<r>> \o b # <<>> /\ (<<r>> \o b)[1] = r
<1>1. PICK c : c = <<r>> \o b
  OBVIOUS
<1>2. /\ Len(b) \in Nat /\ Len(c) = 1 + Len(b) /\ c[1] = r /\ c # <<>>
      /\ \A i \in 1 .. Len(b) : c[i + 1] = b[i]
      /\ b # <<>> => Len(b) > 0
  BY <1>1
<1>3. ASSUME NEW j \in 1 .. Len(c)
      PROVE  /\ c[j].at \in of
             /\ c[j].out \in of => j < Len(c) /\ Meets(c[j], c[j + 1])
  <2>1. CASE j = 1
    <3>1. Len(b) > 0 => j < Len(c) /\ c[j + 1] = b[1]
      BY <1>2, <2>1
    <3> QED BY <1>2, <2>1, <3>1
  <2>2. CASE j # 1
    <3>1. PICK i \in 1 .. Len(b) : i = j - 1
      BY <1>2, <2>2
    <3>2. c[j] = b[i] /\ (i < Len(b) => j < Len(c) /\ c[j + 1] = b[i + 1])
      BY <1>2, <3>1
    <3> QED BY <3>2 DEF Chained
  <2> QED BY <2>1, <2>2
<1> QED BY <1>1, <1>2, <1>3 DEF Chained

(* The rule for vertex i forwards to the vertex the walk goes on with. *)
Forwards(of, p, trans, f, i) ==
  LET r == rule_at(of, p, trans, f, i)
      k == IF pair(of, p, i) THEN i + 2 ELSE i + 1
  IN /\ r \in RuleSet /\ r.at = p[i] /\ r.flow = f
     /\ r.from = IF i = 1 THEN trans ELSE p[i - 1]
     /\ r.out = None \/ (k \in 2 .. Len(p) /\ r.out = p[k] /\ r.via = p[k - 1])

LEMMA RuleAt ==
  ASSUME NEW of, NEW p \in Route, NEW trans \in V, NEW f \in Flow, NEW i \in 1 .. Len(p)
  PROVE  Forwards(of, p, trans, f, i)
<1>1. /\ Len(p) \in Nat
      /\ \A k \in 1 .. Len(p) : p[k] \in V
  BY RouteIs
<1> DEFINE before == IF i = 1 THEN trans ELSE p[i - 1]
           rl == rule_at(of, p, trans, f, i)
           k == IF pair(of, p, i) THEN i + 2 ELSE i + 1
<1>2. before \in V
  <2>1. i # 1 => i - 1 \in 1 .. Len(p)
    BY <1>1
  <2> QED BY <1>1, <2>1
<1>3. p[i] \in V
  BY <1>1
<1>4. i + 1 \in 1 .. Len(p) => p[i + 1] \in V
  BY <1>1
<1>5. i + 2 \in 1 .. Len(p) => p[i + 2] \in V
  BY <1>1
<1>6. \/ rl = Rule(p[i], before, f, p[i], None)
      \/ /\ i + 1 \in 1 .. Len(p) /\ i + 2 \in 1 .. Len(p) /\ pair(of, p, i)
         /\ rl = Rule(p[i], before, f, p[i + 1], p[i + 2])
      \/ /\ i + 1 \in 1 .. Len(p) /\ ~pair(of, p, i)
         /\ rl = Rule(p[i], before, f, p[i], p[i + 1])
  <2> DEFINE pr == pair(of, p, i)
             lst == i = Len(p) \/ (pr /\ i + 1 = Len(p))
  <2>1. rl = IF lst THEN Rule(p[i], before, f, p[i], None)
             ELSE IF pr THEN Rule(p[i], before, f, p[i + 1], p[i + 2])
             ELSE Rule(p[i], before, f, p[i], p[i + 1])
    BY DEF rule_at
  <2>2. ~lst => i + 1 \in 1 .. Len(p)
    BY <1>1
  <2>3. ~lst /\ pr => i + 2 \in 1 .. Len(p)
    BY <1>1
  <2>4. pr <=> pair(of, p, i)
    OBVIOUS
  <2> HIDE DEF pr, before, rl
  <2> QED BY <2>1, <2>2, <2>3, <2>4
<1> HIDE DEF before, rl, Forwards
<1>7. /\ rl \in RuleSet /\ rl.at = p[i] /\ rl.flow = f /\ rl.from = before
      /\ rl.out = None \/ (k \in 2 .. Len(p) /\ rl.out = p[k] /\ rl.via = p[k - 1])
  <2>1. rl \in RuleSet /\ rl.at = p[i] /\ rl.flow = f /\ rl.from = before
    <3>1. PICK via \in V, out \in V \cup {None} : rl = Rule(p[i], before, f, via, out)
      BY <1>3, <1>4, <1>5, <1>6
    <3> QED BY <1>2, <1>3, <3>1 DEF Rule, RuleSet
  <2>2. CASE rl = Rule(p[i], before, f, p[i], None)
    BY <2>1, <2>2 DEF Rule
  <2>3. CASE /\ i + 2 \in 1 .. Len(p) /\ pair(of, p, i)
             /\ rl = Rule(p[i], before, f, p[i + 1], p[i + 2])
    <3>1. k = i + 2 /\ k \in 2 .. Len(p) /\ k - 1 = i + 1
      BY <1>1, <2>3
    <3> QED BY <2>1, <2>3, <3>1 DEF Rule
  <2>4. CASE /\ i + 1 \in 1 .. Len(p) /\ ~pair(of, p, i)
             /\ rl = Rule(p[i], before, f, p[i], p[i + 1])
    <3>1. k = i + 1 /\ k \in 2 .. Len(p) /\ k - 1 = i
      BY <1>1, <2>4
    <3> QED BY <2>1, <2>4, <3>1 DEF Rule
  <2> QED BY <1>6, <2>2, <2>3, <2>4
<1> QED BY <1>7 DEF rl, before, Forwards

OwnRules(of, p, trans, f, m) ==
  IF p[Len(p) + 1 - m] \in of THEN <<rule_at(of, p, trans, f, Len(p) + 1 - m)>> ELSE <<>>
Skipped(of, p, m) == IF pair(of, p, Len(p) + 1 - m) THEN m - 2 ELSE m - 1
RestUnfolds(l, of, p, trans, f) ==
  l = [m \in 0 .. Len(p) |->
         IF m = 0 THEN <<>> ELSE OwnRules(of, p, trans, f, m) \o l[Skipped(of, p, m)]]

LEMMA GetOrders ==
  ASSUME NEW of, NEW p \in Route, NEW trans \in V, NEW f \in Flow
  PROVE  /\ get_orders(of, p, trans, f) \in Seq(RuleSet)
         /\ p[1] \in of => /\ get_orders(of, p, trans, f) # <<>>
                           /\ get_orders(of, p, trans, f)[1].at = p[1]
         /\ None \notin of => Chained(get_orders(of, p, trans, f), of)
<1> DEFINE n == Len(p)
           A == Seq(RuleSet)
           own == [m \in 1 .. n |-> OwnRules(of, p, trans, f, m)]
           g == [m \in 1 .. n |-> [q \in A |-> own[m] \o q]]
           j == [m \in 1 .. n |-> Skipped(of, p, m)]
<1>1. n \in Nat /\ n # 0
  BY RouteIs
<1>2. \A m \in 1 .. n : own[m] \in A
  <2> TAKE m \in 1 .. n
  <2>1. n + 1 - m \in 1 .. n
    BY <1>1
  <2>2. rule_at(of, p, trans, f, n + 1 - m) \in RuleSet
    BY <2>1, RuleAt DEF Forwards
  <2> QED BY <2>2 DEF OwnRules
<1>3. \A m \in 1 .. n : j[m] \in 0 .. m - 1
  BY <1>1 DEF Skipped, pair
<1>4. <<>> \in A
  OBVIOUS
<1> HIDE DEF A, own
<1>5. \A m \in 1 .. n : \A q \in A : g[m][q] \in A
  <2>1. \A s, q \in A : s \o q \in A
    BY ConcatProperties DEF A
  <2> QED BY <1>2, <2>1
<1> HIDE DEF g, j, n
<1>6. PICK l : Solves(l, A, n, <<>>, j, g)
  BY <1>1, <1>3, <1>4, <1>5, RecursionSolved
<1>7. RestUnfolds(l, of, p, trans, f)
  <2>1. \A m \in 1 .. n : l[m] = own[m] \o l[j[m]]
    <3> TAKE m \in 1 .. n
    <3>1. j[m] \in 0 .. n
      BY <1>1, <1>3
    <3>2. l[j[m]] \in A /\ l[m] = g[m][l[j[m]]]
      BY <1>6, <3>1 DEF Solves
    <3> QED BY <3>2 DEF g
  <2>2. l[0] = <<>>
    BY <1>6 DEF Solves
  <2>3. DOMAIN l = 0 .. n /\ l = [m \in 0 .. n |-> l[m]]
    BY <1>6 DEF Solves
  <2>4. \A m \in 0 .. n : l[m] = IF m = 0 THEN <<>> ELSE OwnRules(of, p, trans, f, m) \o l[Skipped(of, p, m)]
    <3> TAKE m \in 0 .. n
    <3>1. CASE m = 0
      BY <2>2, <3>1
    <3>2. CASE m # 0
      <4>1. m \in 1 .. n
        BY <1>1, <3>2
      <4>2. own[m] = OwnRules(of, p, trans, f, m) /\ j[m] = Skipped(of, p, m)
        BY <4>1 DEF own, j
      <4> QED BY <2>1, <3>2, <4>1, <4>2
    <3> QED BY <3>1, <3>2
  <2> QED BY <2>3, <2>4 DEF RestUnfolds, n
<1> DEFINE r == CHOOSE r : RestUnfolds(r, of, p, trans, f)
<1>8. RestUnfolds(r, of, p, trans, f)
  BY <1>7
<1>9. get_orders(of, p, trans, f) = r[n]
  BY DEF get_orders, RestUnfolds, OwnRules, Skipped, n
<1> HIDE DEF r
<1>10. /\ r[0] = <<>>
       /\ \A m \in 1 .. n : r[m] = own[m] \o r[j[m]]
  <2>1. r[0] = <<>>
    BY <1>1, <1>8 DEF RestUnfolds, n
  <2>2. ASSUME NEW m \in 1 .. n PROVE r[m] = own[m] \o r[j[m]]
    <3>1. m \in 0 .. Len(p) /\ m # 0
      BY <1>1 DEF n
    <3>2. r[m] = OwnRules(of, p, trans, f, m) \o r[Skipped(of, p, m)]
      BY <1>8, <3>1 DEF RestUnfolds
    <3>3. own[m] = OwnRules(of, p, trans, f, m) /\ j[m] = Skipped(of, p, m)
      BY DEF own, j
    <3> QED BY <3>2, <3>3
  <2> QED BY <2>1, <2>2
<1>11. ASSUME NEW m \in 0 .. n, \A i \in 0 .. m - 1 : r[i] \in A PROVE r[m] \in A
  <2>1. CASE m = 0
    BY <1>4, <1>10, <2>1
  <2>2. CASE m # 0
    <3>1. m \in 1 .. n /\ j[m] \in 0 .. m - 1
      BY <1>3, <2>2
    <3>2. r[m] = g[m][r[j[m]]]
      BY <1>10, <1>11, <3>1 DEF g
    <3> QED BY <1>5, <1>11, <3>1, <3>2
  <2> QED BY <2>1, <2>2
<1>12. \A m \in 0 .. n : r[m] \in A
  BY <1>1, <1>11, RecursionIn
<1>13. ASSUME p[1] \in of PROVE r[n] # <<>> /\ r[n][1].at = p[1]
  <2>1. n \in 1 .. n /\ j[n] \in 0 .. n /\ n + 1 - n = 1 /\ 1 \in 1 .. Len(p)
    BY <1>1, <1>3 DEF n
  <2>2. own[n] = <<rule_at(of, p, trans, f, 1)>>
    BY <1>13, <2>1 DEF own, OwnRules, n
  <2>3. r[n] = <<rule_at(of, p, trans, f, 1)>> \o r[j[n]]
    BY <1>10, <2>1, <2>2
  <2>4. PICK o : o = rule_at(of, p, trans, f, 1)
    OBVIOUS
  <2>5. o \in RuleSet /\ o.at = p[1]
    BY <2>1, <2>4, RuleAt DEF Forwards
  <2>6. r[j[n]] \in Seq(RuleSet)
    BY <1>12, <2>1 DEF A
  <2>7. <<o>> \o r[j[n]] # <<>> /\ (<<o>> \o r[j[n]])[1] = o
    BY <2>5, <2>6
  <2> QED BY <2>3, <2>4, <2>5, <2>7
<1>14. ASSUME None \notin of PROVE Chained(r[n], of)
  <2> DEFINE Right(m) ==
               /\ Chained(r[m], of)
               /\ m # 0 /\ p[n + 1 - m] \in of =>
                    r[m] # <<>> /\ r[m][1] = rule_at(of, p, trans, f, n + 1 - m)
             T == {m \in 0 .. n : ~Right(m)}
  <2>1. SUFFICES ASSUME T # {} PROVE FALSE
    BY <1>1
  <2>2. T \subseteq Nat
    BY <1>1
  <2> HIDE DEF T
  <2>3. PICK m \in T : \A u \in T : m <= u
    BY <2>1, <2>2, LeastNat
  <2>4. m \in 0 .. n /\ ~Right(m)
    BY <2>3 DEF T
  <2>5. m # 0
    <3>1. Chained(<<>>, of)
      BY DEF Chained
    <3> QED BY <1>10, <2>4, <3>1
  <2>6. PICK i \in 1 .. n : i = n + 1 - m /\ m \in 1 .. n /\ m = n + 1 - i
    BY <1>1, <2>4, <2>5
  <2>7. PICK j2 \in 0 .. m - 1 : /\ j2 = j[m] /\ j2 = IF pair(of, p, i) THEN m - 2 ELSE m - 1
                                 /\ r[m] = own[m] \o r[j2]
    <3>1. j[m] = IF pair(of, p, i) THEN m - 2 ELSE m - 1
      BY <2>6 DEF j, Skipped, n
    <3> QED BY <1>3, <1>10, <2>6, <3>1
  <2>8. Right(j2) /\ r[j2] \in Seq(RuleSet)
    <3>1. j2 \in 0 .. n /\ ~(m <= j2)
      BY <1>1, <2>6
    <3>2. Right(j2)
      BY <2>3, <3>1 DEF T
    <3> QED BY <1>12, <3>1, <3>2 DEF A
  <2>9. PICK o : o = rule_at(of, p, trans, f, i) /\ Forwards(of, p, trans, f, i)
    BY <2>6, RuleAt DEF n
  <2>10. CASE p[i] \notin of
    <3>1. own[m] = <<>>
      BY <2>6, <2>10 DEF own, OwnRules, n
    <3>2. r[m] = r[j2]
      BY <2>7, <2>8, <3>1
    <3> QED BY <2>4, <2>6, <2>8, <2>10, <3>2
  <2>11. CASE p[i] \in of
    <3>1. own[m] = <<o>>
      BY <2>6, <2>9, <2>11 DEF own, OwnRules, n
    <3>2. /\ o \in RuleSet /\ o.at = p[i] /\ o.flow = f
          /\ LET k == IF pair(of, p, i) THEN i + 2 ELSE i + 1
             IN o.out = None \/ (k \in 2 .. n /\ o.out = p[k] /\ o.via = p[k - 1])
      BY <2>9 DEF Forwards, n
    <3>3. ASSUME o.out \in of PROVE r[j2] # <<>> /\ Meets(o, r[j2][1])
      <4>1. PICK k \in 2 .. n : /\ k = n + 1 - j2 /\ j2 # 0 /\ j2 = n + 1 - k
                               /\ o.out = p[k] /\ o.via = p[k - 1]
        BY <1>1, <1>14, <2>6, <2>7, <3>2, <3>3
      <4>2. PICK q : q = rule_at(of, p, trans, f, k) /\ Forwards(of, p, trans, f, k)
        <5>1. k \in 1 .. Len(p)
          BY <1>1 DEF n
        <5> QED BY <5>1, RuleAt
      <4>3. r[j2] # <<>> /\ r[j2][1] = q
        BY <2>8, <3>3, <4>1, <4>2
      <4>4. q.at = p[k] /\ q.flow = f /\ q.from = p[k - 1]
        BY <4>2 DEF Forwards
      <4> QED BY <3>2, <4>1, <4>3, <4>4 DEF Meets
    <3>4. /\ Chained(<<o>> \o r[j2], of) /\ <<o>> \o r[j2] # <<>> /\ (<<o>> \o r[j2])[1] = o
      <4>1. PICK b \in Seq(RuleSet) : b = r[j2]
        BY <2>8
      <4>2. Chained(b, of) /\ o \in RuleSet /\ o.at \in of
            /\ (o.out \in of => b # <<>> /\ Meets(o, b[1]))
        BY <2>8, <2>11, <3>2, <3>3, <4>1
      <4> QED BY <4>1, <4>2, ChainedFront
    <3> QED BY <2>4, <2>6, <2>7, <2>9, <3>1, <3>4
  <2> QED BY <2>10, <2>11
<1> QED BY <1>1, <1>9, <1>12, <1>13, <1>14 DEF A

(* The orders for a record, as flow-mods without a meter. *)
LEMMA OrdersForPath ==
  ASSUME NEW of, NEW r, r.path \in Route, r.transmitter \in V, r.sdn_node_req \in V,
         r.flow \in Flow
  PROVE  /\ get_orders_for_path(of, r) \in Seq(RuleSet)
         /\ Len(r.path) > 1 /\ r.path[1] \in of
              => /\ get_orders_for_path(of, r) # <<>>
                 /\ get_orders_for_path(of, r)[1].at = r.path[1]
         /\ None \notin of /\ r.sdn_node_req \in of => Chained(get_orders_for_path(of, r), of)
<1>1. CASE Len(r.path) > 1
  <2>1. get_orders_for_path(of, r) = get_orders(of, r.path, r.transmitter, r.flow)
    BY <1>1 DEF get_orders_for_path, usable_path
  <2>2. PICK p, t, f : p = r.path /\ t = r.transmitter /\ f = r.flow
    OBVIOUS
  <2>3. p \in Route /\ t \in V /\ f \in Flow
    BY <2>2
  <2>4. /\ get_orders(of, p, t, f) \in Seq(RuleSet)
        /\ p[1] \in of => /\ get_orders(of, p, t, f) # <<>>
                          /\ get_orders(of, p, t, f)[1].at = p[1]
        /\ None \notin of => Chained(get_orders(of, p, t, f), of)
    BY <2>3, GetOrders
  <2> QED BY <2>1, <2>2, <2>4
<1>2. CASE ~(Len(r.path) > 1)
  <2> DEFINE rl == Rule(r.sdn_node_req, r.transmitter, r.flow, r.sdn_node_req, None)
  <2>1. rl \in RuleSet /\ rl.at = r.sdn_node_req /\ rl.out = None
    BY DEF Rule, RuleSet
  <2>2. get_orders_for_path(of, r) = <<rl>>
    BY <1>2 DEF get_orders_for_path, usable_path
  <2> HIDE DEF rl
  <2>3. None \notin of /\ r.sdn_node_req \in of => Chained(<<rl>>, of)
    BY <2>1 DEF Chained
  <2> QED BY <1>2, <2>1, <2>2, <2>3
<1> QED BY <1>1, <1>2

LEMMA LegacyOrders ==
  ASSUME NEW of, NEW r, r.path \in Route, r.transmitter \in V, r.flow \in Flow
  PROVE  /\ get_legacy_orders_for_path(of, r) \in Seq(RuleSet)
         /\ None \notin of => Chained(get_legacy_orders_for_path(of, r), of)
<1> DEFINE rules == get_orders(of, r.path, r.transmitter, r.flow)
<1>1. rules \in Seq(RuleSet) /\ (None \notin of => Chained(rules, of))
  BY GetOrders
<1>2. get_legacy_orders_for_path(of, r) = [j \in DOMAIN rules |-> normal(rules[j])]
  BY DEF get_legacy_orders_for_path
<1> HIDE DEF rules
<1>3. \A j \in DOMAIN rules : /\ normal(rules[j]) \in RuleSet
                              /\ normal(rules[j]).at = rules[j].at /\ normal(rules[j]).out = None
  <2> TAKE j \in DOMAIN rules
  <2>1. PICK q \in RuleSet : q = rules[j]
    BY <1>1
  <2> QED BY <2>1 DEF normal, RuleSet
<1>4. DOMAIN rules = 1 .. Len(rules) /\ Len(rules) \in Nat
  BY <1>1
<1>5. PICK c : c = [j \in 1 .. Len(rules) |-> normal(rules[j])]
  OBVIOUS
<1>6. c = get_legacy_orders_for_path(of, r)
  BY <1>2, <1>4, <1>5
<1>7. c \in Seq(RuleSet) /\ Len(c) = Len(rules)
  BY <1>3, <1>4, <1>5
<1>8. None \notin of => Chained(c, of)
  BY <1>1, <1>3, <1>4, <1>5, <1>7 DEF Chained
<1> QED BY <1>6, <1>7, <1>8

LEMMA FlowMods ==
  ASSUME NEW rules \in Seq(RuleSet)
  PROVE  /\ flow_mods(rules) \in Seq(FlowOrder(0))
         /\ Len(flow_mods(rules)) = Len(rules)
         /\ \A i \in 1 .. Len(rules) : flow_mods(rules)[i] = flow_mod(rules[i], None)
<1>1. \A i \in 1 .. Len(rules) : flow_mod(rules[i], None) \in FlowOrder(0)
  <2> TAKE i \in 1 .. Len(rules)
  <2>1. PICK r \in RuleSet : r = rules[i]
    OBVIOUS
  <2>2. r.at \in V
    BY DEF RuleSet
  <2>3. [kind |-> "flow", at |-> r.at, rule |-> r, meter |-> None] \in FlowOrder(0)
    BY <2>2 DEF FlowOrder
  <2> QED BY <2>1, <2>3 DEF flow_mod
<1>2. DOMAIN rules = 1 .. Len(rules) /\ Len(rules) \in Nat
  OBVIOUS
<1> QED BY <1>1, <1>2 DEF flow_mods

LEMMA NoneIsNoPort == None \notin OF
BY RateLimiterAssumption DEF OF

(* Orders fit if their rules are linked like that, from the first or from   *)
(* the second order on, unless the limiter has put a meter among them.      *)
Plain(o) == o.kind = "flow" /\ o.meter = None
Linked(s, i) ==
  /\ s[i].rule.at \in OF
  /\ s[i].rule.out \in OF => i < Len(s) /\ Meets(s[i].rule, s[i + 1].rule)
FitFrom(s, a) == (\A i \in a .. Len(s) : Plain(s[i])) => \A i \in a .. Len(s) : Linked(s, i)
Fit(s) == FitFrom(s, 1) /\ FitFrom(s, 2)
AllLinked(s) == \A i \in 1 .. Len(s) : Linked(s, i)

LEMMA FlowModsLinked ==
  ASSUME NEW rules \in Seq(RuleSet), Chained(rules, OF)
  PROVE  AllLinked(flow_mods(rules))
<1>1. PICK s : s = flow_mods(rules)
  OBVIOUS
<1>2. Len(s) = Len(rules) /\ \A i \in 1 .. Len(rules) : s[i].rule = rules[i]
  <2>1. /\ Len(flow_mods(rules)) = Len(rules)
        /\ \A i \in 1 .. Len(rules) : flow_mods(rules)[i] = flow_mod(rules[i], None)
    BY FlowMods
  <2>2. ASSUME NEW i \in 1 .. Len(rules) PROVE s[i].rule = rules[i]
    <3>1. PICK r : r = rules[i] /\ s[i] = flow_mod(r, None)
      BY <1>1, <2>1
    <3> QED BY <3>1 DEF flow_mod
  <2> QED BY <1>1, <2>1, <2>2
<1>3. Len(rules) \in Nat
  OBVIOUS
<1>4. ASSUME NEW i \in 1 .. Len(s) PROVE Linked(s, i)
  <2>1. i < Len(rules) => i + 1 \in 1 .. Len(rules)
    BY <1>2, <1>3
  <2> QED BY <1>2, <2>1 DEF Chained, Linked
<1> QED BY <1>1, <1>4 DEF AllLinked

(* Joining orders that fit gives orders that fit. *)
LEMMA FitTogether ==
  ASSUME NEW S, NEW s \in Seq(S), NEW t \in Seq(S), Fit(s), Fit(t)
  PROVE  Fit(s \o t)
<1>1. PICK q : q = s \o t
  OBVIOUS
<1>2. /\ q \in Seq(S) /\ Len(q) = Len(s) + Len(t) /\ Len(s) \in Nat /\ Len(t) \in Nat
      /\ \A i \in 1 .. Len(s) + Len(t) : q[i] = IF i <= Len(s) THEN s[i] ELSE t[i - Len(s)]
  BY <1>1, ConcatProperties
<1>3. ASSUME NEW i \in 1 .. Len(s) PROVE i \in 1 .. Len(q) /\ q[i] = s[i] /\ (Linked(s, i) => Linked(q, i))
  <2>1. i \in 1 .. Len(q) /\ q[i] = s[i]
    BY <1>2
  <2>2. i < Len(s) => i < Len(q) /\ q[i + 1] = s[i + 1]
    BY <1>2
  <2> QED BY <2>1, <2>2 DEF Linked
<1>4. ASSUME NEW h \in 1 .. Len(t)
      PROVE  /\ h + Len(s) \in 1 .. Len(q) /\ q[h + Len(s)] = t[h]
             /\ Linked(t, h) => Linked(q, h + Len(s))
  <2>1. h + Len(s) \in 1 .. Len(s) + Len(t) /\ ~(h + Len(s) <= Len(s)) /\ (h + Len(s)) - Len(s) = h
    BY <1>2
  <2>2. q[h + Len(s)] = t[h]
    BY <1>2, <2>1
  <2>3. h < Len(t) => h + Len(s) < Len(q) /\ q[(h + Len(s)) + 1] = t[h + 1]
    <3>1. SUFFICES ASSUME h < Len(t)
                   PROVE  h + Len(s) < Len(q) /\ q[(h + Len(s)) + 1] = t[h + 1]
      OBVIOUS
    <3>2. /\ (h + Len(s)) + 1 \in 1 .. Len(s) + Len(t) /\ ~((h + Len(s)) + 1 <= Len(s))
          /\ ((h + Len(s)) + 1) - Len(s) = h + 1 /\ h + Len(s) < Len(q)
      BY <1>2, <3>1
    <3> QED BY <1>2, <3>2
  <2> QED BY <1>2, <2>1, <2>2, <2>3 DEF Linked
<1>5. ASSUME NEW a \in {1, 2}, \A i \in a .. Len(q) : Plain(q[i]), NEW i \in a .. Len(q)
      PROVE  Linked(q, i)
  <2>1. CASE i <= Len(s)
    <3>1. ASSUME NEW j \in a .. Len(s) PROVE Plain(s[j])
      <4>1. j \in 1 .. Len(s) /\ j \in a .. Len(q)
        BY <1>2
      <4> QED BY <1>3, <1>5, <4>1
    <3>2. i \in a .. Len(s) /\ i \in 1 .. Len(s)
      BY <1>2, <2>1
    <3>3. Linked(s, i)
      BY <3>1, <3>2 DEF Fit, FitFrom
    <3> QED BY <1>3, <3>2, <3>3
  <2>2. CASE ~(i <= Len(s))
    <3>1. PICK h \in 1 .. Len(t) : i = h + Len(s)
      <4>1. i - Len(s) \in 1 .. Len(t) /\ i = (i - Len(s)) + Len(s)
        BY <1>2, <2>2
      <4> QED BY <4>1
    <3>2. PICK b \in {1, 2} : b <= h /\ \A j \in b .. Len(t) : j + Len(s) \in a .. Len(q)
      <4>1. CASE Len(s) = 0
        <5>1. a <= h /\ \A j \in a .. Len(t) : j + Len(s) \in a .. Len(q)
          BY <1>2, <3>1, <4>1
        <5> QED BY <5>1
      <4>2. CASE Len(s) # 0
        <5>1. 1 <= h /\ \A j \in 1 .. Len(t) : j + Len(s) \in a .. Len(q)
          BY <1>2, <4>2
        <5> QED BY <5>1
      <4> QED BY <4>1, <4>2
    <3>3. ASSUME NEW j \in b .. Len(t) PROVE Plain(t[j])
      <4>1. j \in 1 .. Len(t) /\ j + Len(s) \in a .. Len(q)
        BY <1>2, <3>2
      <4> QED BY <1>4, <1>5, <4>1
    <3>4. h \in b .. Len(t)
      BY <1>2, <3>1, <3>2
    <3>5. Linked(t, h)
      BY <3>3, <3>4 DEF Fit, FitFrom
    <3> QED BY <1>4, <3>1, <3>5
  <2> QED BY <2>1, <2>2
<1> QED BY <1>1, <1>5 DEF Fit, FitFrom

(* serialize_OPF_rules loses the first. *)
LEMMA FitRest ==
  ASSUME NEW S, NEW s \in Seq(S), Fit(s)
  PROVE  FitFrom(serialize_OPF_rules(s), 1)
<1>1. PICK q : q = SubSeq(s, 2, Len(s))
  OBVIOUS
<1>2. /\ Len(s) \in Nat /\ Len(q) \in Nat
      /\ \A i \in 1 .. Len(q) : q[i] = s[i + 1] /\ i + 1 \in 2 .. Len(s)
      /\ \A i \in 2 .. Len(s) : i - 1 \in 1 .. Len(q)
      /\ \A i \in 1 .. Len(q) : i + 1 < Len(s) => i < Len(q)
  BY <1>1
<1>3. ASSUME \A i \in 1 .. Len(q) : Plain(q[i]), NEW i \in 1 .. Len(q)
      PROVE  Linked(q, i)
  <2>1. ASSUME NEW j \in 2 .. Len(s) PROVE Plain(s[j])
    <3>1. j - 1 \in 1 .. Len(q) /\ (j - 1) + 1 = j
      BY <1>2
    <3> QED BY <1>2, <1>3, <3>1
  <2>2. Linked(s, i + 1) /\ q[i] = s[i + 1]
    BY <1>2, <2>1 DEF Fit, FitFrom
  <2>3. i + 1 < Len(s) => i < Len(q) /\ q[i + 1] = s[(i + 1) + 1]
    <3>1. SUFFICES ASSUME i + 1 < Len(s) PROVE i < Len(q) /\ q[i + 1] = s[(i + 1) + 1]
      OBVIOUS
    <3>2. i < Len(q) /\ i + 1 \in 1 .. Len(q)
      BY <1>2, <3>1
    <3> QED BY <1>2, <3>2
  <2> QED BY <2>2, <2>3 DEF Linked
<1> QED BY <1>1, <1>3 DEF FitFrom, serialize_OPF_rules

(* A key gets a meter. *)
SameBut(q, fs, k, id) ==
  /\ Len(q) = Len(fs)
  /\ \A i \in 1 .. Len(fs) :
       /\ q[i].flow = fs[i].flow /\ q[i].path = fs[i].path /\ q[i].state = fs[i].state
       /\ q[i].meter_id = IF i = k THEN id ELSE fs[i].meter_id

LEMMA GivenMeter ==
  ASSUME NEW n \in Nat, NEW fs \in Seq(KeySet(n)), NEW k \in 1 .. Len(fs), NEW id \in Nat, id < n,
         NEW bw \in Nat, None \notin Nat
  PROVE  /\ update_meter_id(fs, k, id, bw) \in Seq(KeySet(n))
         /\ SameBut(update_meter_id(fs, k, id, bw), fs, k, id)
<1>1. DOMAIN fs = 1 .. Len(fs) /\ Len(fs) \in Nat /\ fs[k] \in KeySet(n)
  OBVIOUS
<1> DEFINE a == [fs[k] EXCEPT !.meter_id = id, !.current_bw = bw]
           q == [fs EXCEPT ![k] = a]
<1>2. /\ a \in KeySet(n) /\ a.flow = fs[k].flow /\ a.path = fs[k].path /\ a.state = fs[k].state
      /\ a.meter_id = id
  BY <1>1 DEF KeySet
<1> HIDE DEF a
<1>3. q \in Seq(KeySet(n)) /\ Len(q) = Len(fs) /\ q[k] = a
      /\ \A i \in 1 .. Len(fs) : i # k => q[i] = fs[i]
  BY <1>1, <1>2
<1>4. update_meter_id(fs, k, id, bw) = q
  BY DEF update_meter_id, a
<1> HIDE DEF q
<1> QED BY <1>2, <1>3, <1>4 DEF SameBut

LEMMA GivenId ==
  ASSUME NEW n \in Nat, NEW fs \in Seq(KeySet(n)), NEW k \in 1 .. Len(fs), NEW id \in Nat, id < n,
         None \notin Nat
  PROVE  /\ [fs EXCEPT ![k].meter_id = id] \in Seq(KeySet(n))
         /\ SameBut([fs EXCEPT ![k].meter_id = id], fs, k, id)
<1>1. DOMAIN fs = 1 .. Len(fs) /\ Len(fs) \in Nat /\ fs[k] \in KeySet(n)
  OBVIOUS
<1> DEFINE a == [fs[k] EXCEPT !.meter_id = id]
           q == [fs EXCEPT ![k] = a]
<1>2. /\ a \in KeySet(n) /\ a.flow = fs[k].flow /\ a.path = fs[k].path /\ a.state = fs[k].state
      /\ a.meter_id = id
  BY <1>1 DEF KeySet
<1> HIDE DEF a
<1>3. q \in Seq(KeySet(n)) /\ Len(q) = Len(fs) /\ q[k] = a
      /\ \A i \in 1 .. Len(fs) : i # k => q[i] = fs[i]
  BY <1>1, <1>2
<1>4. [fs EXCEPT ![k].meter_id = id] = q
  BY DEF a
<1> HIDE DEF q
<1> QED BY <1>2, <1>3, <1>4 DEF SameBut

-----------------------------------------------------------------------------
(* What adjust_existing_flows finds: keys with a path, no more important    *)
(* than sp, each limited to no less than a tenth of what it asked for.      *)
LimitSet(fs, sp) ==
  {m \in [key : 1 .. Len(fs), rate : Nat] :
     /\ fs[m.key].state = "HAS_PATH" /\ Prio[fs[m.key].flow] >= sp
     /\ m.rate >= og_bw[fs[m.key].flow] \div 10}

LEMMA Dropped ==
  ASSUME NEW n, NEW fs \in Seq(KeySet(n)), NEW sp,
         NEW acc \in [overflow : Int, meters : Seq(LimitSet(fs, sp))],
         NEW k \in 1 .. Len(fs), fs[k].state = "HAS_PATH", Prio[fs[k].flow] >= sp
  PROVE  drop(fs, acc, k) \in [overflow : Int, meters : Seq(LimitSet(fs, sp))]
<1> DEFINE cur    == get_dataRate(fs[k])
           tenth  == og_bw[fs[k].flow] \div 10
           amount == Min({cur - tenth, acc.overflow})
           lim    == [key |-> k, rate |-> cur - amount]
<1>1. cur \in Nat
  BY DataRate
<1>2. tenth \in Nat
  <2>0. fs[k] \in KeySet(n)
    OBVIOUS
  <2>1. fs[k].flow \in Flow
    BY <2>0 DEF KeySet
  <2>2. PICK o \in Nat : o = og_bw[fs[k].flow]
    BY RateLimiterAssumption, <2>1
  <2>3. o \div 10 \in Nat
    OBVIOUS
  <2> QED BY <2>2, <2>3
<1>3. drop(fs, acc, k) =
        IF acc.overflow <= 0 THEN acc
        ELSE [overflow |-> acc.overflow - amount, meters |-> Append(acc.meters, lim)]
  BY DEF drop
<1>4. acc.overflow \in Int /\ acc.meters \in Seq(LimitSet(fs, sp))
  OBVIOUS
<1>5. tenth = og_bw[fs[k].flow] \div 10
  OBVIOUS
<1> HIDE DEF cur, tenth
<1>6. amount = IF cur - tenth <= acc.overflow THEN cur - tenth ELSE acc.overflow
  <2>1. cur - tenth \in Int
    BY <1>1, <1>2
  <2>2. PICK a \in Int, b \in Int : a = cur - tenth /\ b = acc.overflow
    BY <1>4, <2>1
  <2>3. Min({a, b}) = IF a <= b THEN a ELSE b
    BY MinMax
  <2> QED BY <2>2, <2>3
<1> HIDE DEF amount
<1>7. amount \in Int /\ cur - amount \in Nat /\ cur - amount >= tenth
  BY <1>1, <1>2, <1>4, <1>6
<1>8. lim \in LimitSet(fs, sp)
  BY <1>5, <1>7 DEF LimitSet
<1> HIDE DEF lim
<1>9. Append(acc.meters, lim) \in Seq(LimitSet(fs, sp))
  BY <1>4, <1>8
<1>10. acc.overflow - amount \in Int
  BY <1>4, <1>7
<1> QED BY <1>3, <1>9, <1>10

DropUnfolds(acc, fs, keys, over) ==
  acc = [n \in 0 .. Len(keys) |-> IF n = 0 THEN [overflow |-> over, meters |-> <<>>]
                                  ELSE drop(fs, acc[n - 1], keys[n])]

LEMMA Adjusted ==
  ASSUME NEW n, NEW fs \in Seq(KeySet(n)), NEW sp, NEW p,
         NEW required \in Int, NEW min_avbw \in Int
  PROVE  LET adj == adjust_existing_flows(fs, required, min_avbw, sp, p)
         IN adj.meters \in Seq(LimitSet(fs, sp)) /\ adj.rate_limit \in Nat \cup {None}
<1> DEFINE K == {k \in get_nIdx_to_fkey(fs, p) : Prio[fs[k].flow] >= sp}
           keys == filter_and_sort_f_keys(fs, p, sp)
           A == [overflow : Int, meters : Seq(LimitSet(fs, sp))]
           start == [overflow |-> required - min_avbw, meters |-> <<>>]
           g == [m \in 1 .. Len(keys) |-> [a \in A |-> drop(fs, a, keys[m])]]
           j == [m \in 1 .. Len(keys) |-> m - 1]
<1>1. DOMAIN fs = 1 .. Len(fs) /\ Len(fs) \in Nat
  OBVIOUS
<1>2. K \subseteq 1 .. Len(fs) /\ \A k \in K : fs[k].state = "HAS_PATH" /\ Prio[fs[k].flow] >= sp
  BY <1>1 DEF get_nIdx_to_fkey
<1>3. PICK after : keys = sorted_keys(K, Len(fs), after)
  BY DEF filter_and_sort_f_keys
<1> HIDE DEF K, keys
<1>4. keys \in Seq(K)
  <2>1. sorted_keys(K, Len(fs), after) \in Seq(K)
    BY <1>1, <1>2, SortedKeys
  <2> QED BY <1>3, <2>1
<1>5. Len(keys) \in Nat /\ \A m \in 1 .. Len(keys) : keys[m] \in K
  BY <1>4
<1>6. ASSUME NEW m \in 1 .. Len(keys), NEW a \in A PROVE drop(fs, a, keys[m]) \in A
  <2>1. PICK k \in 1 .. Len(fs) : k = keys[m] /\ fs[k].state = "HAS_PATH" /\ Prio[fs[k].flow] >= sp
    BY <1>2, <1>5
  <2>2. drop(fs, a, k) \in A
    BY <2>1, Dropped
  <2> QED BY <2>1, <2>2
<1>7. start \in A
  OBVIOUS
<1> HIDE DEF A, start
<1>8. \A m \in 1 .. Len(keys) : \A a \in A : g[m][a] \in A
  BY <1>6
<1>9. \A m \in 1 .. Len(keys) : j[m] \in 0 .. m - 1
  BY <1>5
<1> HIDE DEF g, j
<1>10. PICK f : Solves(f, A, Len(keys), start, j, g)
  BY <1>5, <1>7, <1>8, <1>9, RecursionSolved
<1>11. DropUnfolds(f, fs, keys, required - min_avbw)
  <2>1. ASSUME NEW m \in 1 .. Len(keys) PROVE f[m] = drop(fs, f[m - 1], keys[m])
    <3>1. j[m] = m - 1 /\ m - 1 \in 0 .. Len(keys)
      BY <1>5 DEF j
    <3>2. f[m - 1] \in A /\ f[m] = g[m][f[m - 1]]
      BY <1>10, <3>1 DEF Solves
    <3> QED BY <3>2 DEF g
  <2>2. f[0] = start /\ DOMAIN f = 0 .. Len(keys) /\ f = [m \in 0 .. Len(keys) |-> f[m]]
    BY <1>10 DEF Solves
  <2>3. \A m \in 0 .. Len(keys) : m = 0 \/ m \in 1 .. Len(keys)
    BY <1>5
  <2>4. \A m \in 0 .. Len(keys) :
          f[m] = IF m = 0 THEN start ELSE drop(fs, f[m - 1], keys[m])
    BY <2>1, <2>2, <2>3
  <2> QED BY <2>2, <2>4 DEF DropUnfolds, start
<1> DEFINE acc == CHOOSE acc : DropUnfolds(acc, fs, keys, required - min_avbw)
<1>12. DropUnfolds(acc, fs, keys, required - min_avbw)
  BY <1>11
<1> DEFINE res == acc[Len(keys)]
<1>13. adjust_existing_flows(fs, required, min_avbw, sp, p)
         = [meters |-> res.meters,
            rate_limit |-> IF res.overflow > 0 THEN Max({required - res.overflow, 0}) ELSE None]
  BY DEF adjust_existing_flows, DropUnfolds, keys
<1> HIDE DEF acc
<1>14. /\ acc[0] = start
       /\ \A m \in 1 .. Len(keys) : acc[m] = drop(fs, acc[m - 1], keys[m])
  <2>1. acc[0] = start
    BY <1>5, <1>12 DEF DropUnfolds, start
  <2>2. ASSUME NEW m \in 1 .. Len(keys) PROVE acc[m] = drop(fs, acc[m - 1], keys[m])
    <3>1. m \in 0 .. Len(keys) /\ m # 0
      BY <1>5
    <3> QED BY <1>12, <3>1 DEF DropUnfolds
  <2> QED BY <2>1, <2>2
<1>15. ASSUME NEW m \in 0 .. Len(keys), \A i \in 0 .. m - 1 : acc[i] \in A PROVE acc[m] \in A
  <2>1. CASE m = 0
    BY <1>7, <1>14, <2>1
  <2>2. CASE m # 0
    <3>1. m - 1 \in 0 .. m - 1 /\ m \in 1 .. Len(keys)
      BY <1>5, <2>2
    <3> QED BY <1>6, <1>14, <1>15, <3>1
  <2> QED BY <2>1, <2>2
<1>16. \A m \in 0 .. Len(keys) : acc[m] \in A
  BY <1>5, <1>15, RecursionIn
<1>17. res \in A
  BY <1>5, <1>16
<1> HIDE DEF res
<1>18. res.overflow \in Int /\ res.meters \in Seq(LimitSet(fs, sp))
  BY <1>17 DEF A
<1>19. Max({required - res.overflow, 0}) \in Nat
  <2>1. PICK b \in Int : b = required - res.overflow
    BY <1>18
  <2> QED BY <2>1, MaxZero
<1> QED BY <1>13, <1>18, <1>19

-----------------------------------------------------------------------------
(* A calculation in progress, with L keys, of which those of P have a path: *)
(* every rule through a meter has an order for that meter before it, at its *)
(* own vertex.                                                              *)
Raised == {None, "AssertionError", "IndexError"}
CalcRecord(n) ==
  [flows : Seq(KeySet(n)), meter_counter : {n}, orders : Seq(FlowOrder(n)), front : Seq(Order(n)),
   raised : Raised]

OrdersMeter(o, r) == o.kind = "meter" /\ o.meter = r.meter /\ o.at = r.at
Through(r) == r.kind = "flow" /\ r.meter # None
FrontBacked(front) ==
  \A i \in DOMAIN front : Through(front[i]) => \E j \in 1 .. i - 1 : OrdersMeter(front[j], front[i])
OrdersBacked(front, orders) ==
  \A i \in DOMAIN orders :
    Through(orders[i]) => \E j \in DOMAIN front : OrdersMeter(front[j], orders[i])

CalcSet(L, P) ==
  {c \in UNION {CalcRecord(n) : n \in Nat} :
     /\ Len(c.flows) = L /\ \A k \in P : c.flows[k].state = "HAS_PATH"
     /\ FrontBacked(c.front) /\ OrdersBacked(c.front, c.orders)}

LEMMA SeqMono ==
  ASSUME NEW S, NEW T, S \subseteq T, NEW s \in Seq(S)
  PROVE  s \in Seq(T)
OBVIOUS

(* A calculation begins with rules that lead through no meter. *)
LEMMA CalcStart ==
  ASSUME NEW n \in Nat, NEW fs \in Seq(KeySet(n)), NEW rules \in Seq(FlowOrder(0)),
         NEW P, \A k \in P : fs[k].state = "HAS_PATH"
  PROVE  Calculation(fs, n, rules) \in CalcSet(Len(fs), P)
<1> DEFINE c == Calculation(fs, n, rules)
<1>1. c = [flows |-> fs, meter_counter |-> n, orders |-> rules, front |-> <<>>, raised |-> None]
  BY DEF Calculation
<1>2. rules \in Seq(FlowOrder(n))
  BY Monotone, SeqMono
<1>3. <<>> \in Seq(Order(n)) /\ None \in Raised
  BY DEF Raised
<1>4. c \in CalcRecord(n)
  BY <1>1, <1>2, <1>3 DEF CalcRecord
<1>5. ASSUME NEW i \in DOMAIN rules PROVE ~Through(rules[i])
  BY DEF Through, FlowOrder, Below
<1>6. FrontBacked(<<>>) /\ OrdersBacked(<<>>, rules)
  BY <1>5 DEF FrontBacked, OrdersBacked
<1>7. /\ c.flows = fs /\ c.front = <<>> /\ c.orders = rules
  BY <1>1
<1> HIDE DEF c
<1>8. c \in CalcSet(Len(fs), P)
  BY <1>4, <1>6, <1>7 DEF CalcSet
<1> QED BY <1>8 DEF c

LEMMA MeterModIs ==
  ASSUME NEW n \in Nat, NEW v \in V, NEW id \in Nat, id < n, NEW bw \in Nat
  PROVE  meter_mod(v, id, bw) \in Order(n)
<1>1. id \in Below(n)
  BY DEF Below
<1> QED BY <1>1 DEF meter_mod, Order, MeterOrder

LEMMA FlowModIs ==
  ASSUME NEW n \in Nat, NEW r \in RuleSet, NEW id \in Nat, id < n
  PROVE  flow_mod(r, id) \in FlowOrder(n)
<1>1. id \in Below(n) /\ r.at \in V
  BY DEF Below, RuleSet
<1> QED BY <1>1 DEF flow_mod, FlowOrder

OwnMeter(d, fs, n, rules, me, bw) ==
  /\ d.flows = update_meter_id(fs, me, n, bw)
  /\ d.meter_counter = n + 1
  /\ d.front = <<meter_mod(rules[1].at, n, bw)>>
  /\ d.orders = <<flow_mod(rules[1].rule, n)>> \o Tail(rules)

LEMMA LimitOwn ==
  ASSUME None \notin Nat, NEW n \in Nat, NEW fs \in Seq(KeySet(n)), NEW rules \in Seq(FlowOrder(0)),
         rules # <<>>, NEW me \in 1 .. Len(fs), NEW bw \in Nat,
         NEW P, P \subseteq 1 .. Len(fs), \A k \in P : fs[k].state = "HAS_PATH"
  PROVE  /\ limit_own(Calculation(fs, n, rules), me, bw) \in CalcSet(Len(fs), P)
         /\ OwnMeter(limit_own(Calculation(fs, n, rules), me, bw), fs, n, rules, me, bw)
<1> DEFINE q == update_meter_id(fs, me, n, bw)
           first == flow_mod(rules[1].rule, n)
           mo == meter_mod(rules[1].at, n, bw)
           os == <<first>> \o Tail(rules)
           d == limit_own(Calculation(fs, n, rules), me, bw)
<1>1. d = [flows |-> q, meter_counter |-> n + 1, orders |-> os, front |-> <<mo>>, raised |-> None]
  <2>1. PICK c : c = Calculation(fs, n, rules)
    OBVIOUS
  <2>2. c = [flows |-> fs, meter_counter |-> n, orders |-> rules, front |-> <<>>, raised |-> None]
    BY <2>1 DEF Calculation
  <2>3. /\ c.flows = fs /\ c.meter_counter = n /\ c.orders = rules
    BY <2>2
  <2>4. c.raised = None
    BY <2>2
  <2> QED BY <2>1, <2>3, <2>4 DEF limit_own
<1>2. fs \in Seq(KeySet(n + 1)) /\ n + 1 \in Nat /\ n < n + 1
  BY Monotone, SeqMono
<1>3. /\ q \in Seq(KeySet(n + 1)) /\ Len(q) = Len(fs)
      /\ \A i \in 1 .. Len(fs) : q[i].state = fs[i].state
  <2>1. q \in Seq(KeySet(n + 1)) /\ SameBut(q, fs, me, n)
    BY <1>2, GivenMeter
  <2> QED BY <2>1 DEF SameBut
<1>4. rules[1] \in FlowOrder(0) /\ Tail(rules) \in Seq(FlowOrder(0))
  OBVIOUS
<1>5. rules[1].at \in V /\ rules[1].rule \in RuleSet /\ rules[1].rule.at = rules[1].at
  BY <1>4 DEF FlowOrder
<1>6. /\ first \in FlowOrder(n + 1) /\ first.meter = n /\ first.at = rules[1].at
      /\ mo \in Order(n + 1) /\ mo.kind = "meter" /\ mo.meter = n /\ mo.at = rules[1].at
  <2>1. PICK v \in V, r \in RuleSet : v = rules[1].at /\ r = rules[1].rule /\ r.at = v
    BY <1>5
  <2>2. meter_mod(v, n, bw) \in Order(n + 1)
    BY <1>2, MeterModIs
  <2>3. flow_mod(r, n) \in FlowOrder(n + 1)
    BY <1>2, FlowModIs
  <2> QED BY <2>1, <2>2, <2>3 DEF meter_mod, flow_mod
<1>7. Tail(rules) \in Seq(FlowOrder(n + 1))
  BY <1>2, <1>4, Monotone, SeqMono
<1> HIDE DEF q, first, mo
<1>7a. Len(Tail(rules)) \in Nat
  BY <1>7
<1>8. /\ os \in Seq(FlowOrder(n + 1)) /\ Len(os) = 1 + Len(Tail(rules)) /\ os[1] = first
      /\ \A i \in 2 .. Len(os) : os[i] = Tail(rules)[i - 1] /\ i - 1 \in 1 .. Len(Tail(rules))
  BY <1>6, <1>7
<1> HIDE DEF os
<1>9. ASSUME NEW i \in 1 .. Len(Tail(rules)) PROVE ~Through(Tail(rules)[i])
  <2>1. Tail(rules)[i] \in FlowOrder(0)
    BY <1>4
  <2> QED BY <2>1 DEF Through, FlowOrder, Below
<1>10. FrontBacked(<<mo>>)
  BY <1>6 DEF FrontBacked, Through
<1>11. OrdersBacked(<<mo>>, os)
  <2>1. ASSUME NEW i \in DOMAIN os, Through(os[i])
        PROVE  OrdersMeter(mo, os[i])
    <3>1. i \in 1 .. Len(os)
      BY <1>8, <2>1
    <3>2. i \in 2 .. Len(os) => ~Through(os[i])
      BY <1>8, <1>9
    <3>3. i = 1
      BY <2>1, <3>1, <3>2
    <3> QED BY <1>6, <1>8, <3>3 DEF OrdersMeter
  <2>2. 1 \in DOMAIN <<mo>> /\ <<mo>>[1] = mo
    OBVIOUS
  <2> QED BY <2>1, <2>2 DEF OrdersBacked
<1>12. <<mo>> \in Seq(Order(n + 1))
  BY <1>6
<1>13. d \in CalcRecord(n + 1)
  BY <1>1, <1>3, <1>8, <1>12 DEF CalcRecord, Raised
<1>14. d.flows = q /\ d.meter_counter = n + 1 /\ d.orders = os /\ d.front = <<mo>>
  BY <1>1
<1> HIDE DEF d
<1>15. d \in CalcSet(Len(fs), P)
  BY <1>2, <1>3, <1>10, <1>11, <1>13, <1>14 DEF CalcSet
<1> QED BY <1>14, <1>15 DEF OwnMeter, d, q, mo, os, first

(* What limit_other makes of a calculation: nothing but an exception, or a  *)
(* meter for k, new or not, ordered behind the orders in front.             *)
LimitedCalc(c, d, me, k, bw) ==
  LET fk   == c.flows[k]
      new  == fk.meter_id = None
      id   == IF new THEN c.meter_counter ELSE fk.meter_id
      rule == Rule(fk.sdn_node_req, fk.transmitter, c.flows[me].flow, fk.path[1], fk.path[2])
      mm   == meter_mod(fk.sdn_node_req, id, bw)
  IN /\ d.flows = update_meter_id([c.flows EXCEPT ![k].meter_id = id], me, id, bw)
     /\ d.meter_counter = IF new THEN c.meter_counter + 1 ELSE c.meter_counter
     /\ d.front = c.front \o (IF new THEN <<mm, flow_mod(rule, id)>> ELSE <<mm>>)
     /\ d.orders = c.orders \/ (new /\ c.orders # <<>> /\ d.orders = Tail(c.orders))

Outcome(c, d, n, me, k, bw) ==
  \/ d \in CalcRecord(n) /\ d.flows = c.flows /\ d.meter_counter = c.meter_counter
     /\ d.front = c.front /\ d.orders = c.orders
  \/ /\ LimitedCalc(c, d, me, k, bw)
     /\ d = [flows |-> d.flows, meter_counter |-> d.meter_counter, front |-> d.front,
             orders |-> d.orders, raised |-> c.raised]

LEMMA LimitOtherCases ==
  ASSUME NEW n \in Nat, NEW c \in CalcRecord(n), NEW me \in 1 .. Len(c.flows),
         NEW k \in 1 .. Len(c.flows), NEW bw \in Nat, Len(c.flows[k].path) > 1,
         c.flows[k].path \in Route, None \notin Nat
  PROVE  Outcome(c, limit_other(c, me, k, bw), n, me, k, bw)
<1> SUFFICES ASSUME NEW d, d = limit_other(c, me, k, bw)
             PROVE  Outcome(c, d, n, me, k, bw)
  OBVIOUS
<1> DEFINE fk   == c.flows[k]
           new  == fk.meter_id = None
           id   == IF new THEN c.meter_counter ELSE fk.meter_id
           rule == Rule(fk.sdn_node_req, fk.transmitter, c.flows[me].flow, fk.path[1], fk.path[2])
           mm   == meter_mod(fk.sdn_node_req, id, bw)
           more == IF new THEN <<mm, flow_mod(rule, id)>> ELSE <<mm>>
           q    == update_meter_id([c.flows EXCEPT ![k].meter_id = id], me, id, bw)
           full == [flows |-> q,
                    meter_counter |-> IF new THEN c.meter_counter + 1 ELSE c.meter_counter,
                    front |-> c.front \o more,
                    orders |-> IF new /\ c.orders[1].at = fk.sdn_node_req THEN Tail(c.orders) ELSE c.orders,
                    raised |-> c.raised]
<1>1. /\ c.flows \in Seq(KeySet(n)) /\ c.meter_counter = n /\ c.orders \in Seq(FlowOrder(n))
      /\ c.front \in Seq(Order(n)) /\ c.raised \in Raised
  BY DEF CalcRecord
<1>2. \/ d = c
      \/ d = [c EXCEPT !.raised = "AssertionError"]
      \/ d = [c EXCEPT !.raised = "IndexError"]
      \/ d = full /\ ~(new /\ c.orders = <<>>)
  BY DEF limit_other
<1>3. CASE d = c
  BY <1>3 DEF Outcome
<1>4. CASE d = [c EXCEPT !.raised = "AssertionError"] \/ d = [c EXCEPT !.raised = "IndexError"]
  BY <1>4 DEF Outcome, CalcRecord, Raised
<1>5. CASE d = full /\ ~(new /\ c.orders = <<>>)
  <2>1. /\ d.flows = q /\ d.meter_counter = IF new THEN c.meter_counter + 1 ELSE c.meter_counter
        /\ d.front = c.front \o more
        /\ d.orders = IF new /\ c.orders[1].at = fk.sdn_node_req THEN Tail(c.orders) ELSE c.orders
        /\ d.raised = c.raised
    <3>1. d = full
      BY <1>5
    <3> HIDE DEF q, more, new
    <3> QED BY <3>1
  <2>2. d.orders = c.orders \/ (new /\ c.orders # <<>> /\ d.orders = Tail(c.orders))
    BY <1>5, <2>1
  <2>3. d = [flows |-> d.flows, meter_counter |-> d.meter_counter, front |-> d.front,
             orders |-> d.orders, raised |-> c.raised]
    <3> HIDE DEF q, more, new
    <3>1. d = full
      BY <1>5
    <3> QED BY <2>1, <3>1
  <2>5. LimitedCalc(c, d, me, k, bw)
    <3> HIDE DEF full
    <3> QED BY <2>1, <2>2 DEF LimitedCalc
  <2> QED BY <2>3, <2>5 DEF Outcome
<1> QED BY <1>2, <1>3, <1>4, <1>5

(* What is behind an order for a meter and a rule through it stays so. *)
LEMMA FrontGrows ==
  ASSUME NEW S, NEW front \in Seq(S), NEW orders \in Seq(S), NEW mm \in S, NEW fm \in S,
         mm.kind = "meter", Through(fm) => OrdersMeter(mm, fm),
         FrontBacked(front), OrdersBacked(front, orders),
         NEW more, more = <<mm>> \/ more = <<mm, fm>>
  PROVE  /\ front \o more \in Seq(S) /\ Len(front \o more) = Len(front) + Len(more)
         /\ \A i \in 1 .. Len(front) : (front \o more)[i] = front[i]
         /\ FrontBacked(front \o more) /\ OrdersBacked(front \o more, orders)
<1>1. /\ more \in Seq(S) /\ Len(more) \in {1, 2} /\ more[1] = mm
      /\ Len(more) = 2 => more[2] = fm
  <2>1. CASE more = <<mm>>
    <3>1. Len(more) = 1 /\ more[1] = mm /\ more \in Seq(S)
      BY <2>1
    <3> QED BY <3>1
  <2>2. CASE more = <<mm, fm>>
    <3>1. Len(more) = 2 /\ more[1] = mm /\ more[2] = fm /\ more \in Seq(S)
      BY <2>2
    <3> QED BY <3>1
  <2> QED BY <2>1, <2>2
<1> DEFINE q == front \o more
<1>2. /\ q \in Seq(S) /\ Len(q) = Len(front) + Len(more)
      /\ \A i \in 1 .. Len(front) : q[i] = front[i]
      /\ \A i \in 1 .. Len(more) : q[Len(front) + i] = more[i]
  <2>1. /\ q \in Seq(S) /\ Len(q) = Len(front) + Len(more)
        /\ \A i \in 1 .. Len(front) + Len(more) : q[i] = IF i <= Len(front) THEN front[i] ELSE more[i - Len(front)]
    BY <1>1, ConcatProperties
  <2>2. Len(front) \in Nat /\ Len(more) \in Nat
    BY <1>1
  <2> HIDE DEF q
  <2>3. \A i \in 1 .. Len(front) : i \in 1 .. Len(front) + Len(more) /\ i <= Len(front)
    BY <2>2
  <2>4. \A i \in 1 .. Len(more) : /\ Len(front) + i \in 1 .. Len(front) + Len(more)
                                 /\ ~(Len(front) + i <= Len(front))
                                 /\ Len(front) + i - Len(front) = i
    BY <2>2
  <2>5. \A i \in 1 .. Len(front) : q[i] = front[i]
    BY <2>1, <2>3
  <2>6. \A i \in 1 .. Len(more) : q[Len(front) + i] = more[i]
    BY <2>1, <2>4
  <2> QED BY <2>1, <2>5, <2>6
<1>3. Len(front) \in Nat /\ DOMAIN front = 1 .. Len(front) /\ DOMAIN orders = 1 .. Len(orders)
  OBVIOUS
<1> HIDE DEF q
<1>4. DOMAIN q = 1 .. Len(q)
  BY <1>2
<1>5. FrontBacked(q)
  <2> SUFFICES ASSUME NEW i \in 1 .. Len(q), Through(q[i])
               PROVE  \E j \in 1 .. i - 1 : OrdersMeter(q[j], q[i])
    BY <1>4 DEF FrontBacked
  <2>1. CASE i <= Len(front)
    <3>1. i \in 1 .. Len(front)
      BY <1>3, <2>1
    <3>2. PICK j \in 1 .. i - 1 : OrdersMeter(front[j], front[i])
      BY <1>2, <1>3, <3>1 DEF FrontBacked
    <3>3. j \in 1 .. Len(front)
      BY <1>3, <3>1
    <3> QED BY <1>2, <3>1, <3>2, <3>3
  <2>2. CASE i = Len(front) + 1
    <3>1. q[i] = mm
      BY <1>1, <1>2, <2>2
    <3> QED BY <3>1 DEF Through
  <2>3. CASE i = Len(front) + 2
    <3>1. Len(more) = 2
      BY <1>1, <1>2, <1>3, <2>3
    <3>2. q[i] = fm /\ q[Len(front) + 1] = mm
      BY <1>1, <1>2, <2>3, <3>1
    <3>3. Len(front) + 1 \in 1 .. i - 1
      BY <1>3, <2>3
    <3> QED BY <3>2, <3>3
  <2>4. i <= Len(front) \/ i = Len(front) + 1 \/ i = Len(front) + 2
    <3>1. i \in Nat /\ i <= Len(front) + Len(more) /\ (Len(more) = 1 \/ Len(more) = 2)
      BY <1>1, <1>2, <1>3
    <3>2. CASE Len(more) = 1
      BY <1>3, <3>1, <3>2
    <3>3. CASE Len(more) = 2
      BY <1>3, <3>1, <3>3
    <3> QED BY <3>1, <3>2, <3>3
  <2> QED BY <2>1, <2>2, <2>3, <2>4
<1>6. OrdersBacked(q, orders)
  <2> SUFFICES ASSUME NEW i \in 1 .. Len(orders), Through(orders[i])
               PROVE  \E j \in 1 .. Len(q) : OrdersMeter(q[j], orders[i])
    BY <1>3, <1>4 DEF OrdersBacked
  <2>1. PICK j \in 1 .. Len(front) : OrdersMeter(front[j], orders[i])
    BY <1>3 DEF OrdersBacked
  <2>2. j \in 1 .. Len(q) /\ q[j] = front[j]
    BY <1>1, <1>2, <1>3
  <2> QED BY <2>1, <2>2
<1> QED BY <1>2, <1>5, <1>6 DEF q

LEMMA TailBacked ==
  ASSUME NEW S, NEW orders \in Seq(S), orders # <<>>, NEW front, OrdersBacked(front, orders)
  PROVE  OrdersBacked(front, Tail(orders))
<1> SUFFICES ASSUME NEW i \in DOMAIN Tail(orders), Through(Tail(orders)[i])
             PROVE  \E j \in DOMAIN front : OrdersMeter(front[j], Tail(orders)[i])
  BY DEF OrdersBacked
<1>1. i + 1 \in DOMAIN orders /\ Tail(orders)[i] = orders[i + 1]
  OBVIOUS
<1> QED BY <1>1 DEF OrdersBacked

LEMMA LimitOther ==
  ASSUME NEW L, NEW P, NEW c \in CalcSet(L, P), P \subseteq 1 .. L,
         NEW me \in 1 .. L, NEW k \in P, NEW bw \in Nat
  PROVE  /\ limit_other(c, me, k, bw) \in CalcSet(L, P)
         /\ LET d == limit_other(c, me, k, bw)
            IN \/ /\ d.flows = c.flows /\ d.meter_counter = c.meter_counter /\ d.front = c.front
                  /\ d.orders = c.orders
               \/ LimitedCalc(c, d, me, k, bw)
<1> DEFINE d == limit_other(c, me, k, bw)
<1>1. PICK n \in Nat : c \in CalcRecord(n)
  BY DEF CalcSet
<1>2. /\ Len(c.flows) = L /\ \A i \in P : c.flows[i].state = "HAS_PATH"
      /\ FrontBacked(c.front) /\ OrdersBacked(c.front, c.orders)
  BY DEF CalcSet
<1>3. /\ c.flows \in Seq(KeySet(n)) /\ c.meter_counter = n /\ c.orders \in Seq(FlowOrder(n))
      /\ c.front \in Seq(Order(n)) /\ c.raised \in Raised
  BY <1>1 DEF CalcRecord
<1>4. c.flows[k] \in KeySet(n) /\ c.flows[me] \in KeySet(n) /\ k \in 1 .. L
  BY <1>2, <1>3
<1>5. /\ c.flows[k].path \in Route /\ Len(c.flows[k].path) > 1
      /\ c.flows[k].sdn_node_req \in V /\ c.flows[k].transmitter \in V /\ c.flows[me].flow \in Flow
      /\ c.flows[k].meter_id \in Nat \cup {None}
      /\ c.flows[k].meter_id # None => c.flows[k].meter_id < n
  BY <1>2, <1>4 DEF KeySet
<1>6. None \notin Nat
  BY RateLimiterAssumption
<1>7. Outcome(c, d, n, me, k, bw)
  <2>1. me \in 1 .. Len(c.flows) /\ k \in 1 .. Len(c.flows)
    BY <1>2, <1>4
  <2> QED BY <1>1, <1>5, <1>6, <2>1, LimitOtherCases
<1> HIDE DEF d
<1>8. CASE d \in CalcRecord(n) /\ d.flows = c.flows /\ d.meter_counter = c.meter_counter
           /\ d.front = c.front /\ d.orders = c.orders
  <2>1. d \in CalcSet(L, P)
    BY <1>2, <1>8 DEF CalcSet
  <2> QED BY <1>8, <2>1 DEF d
<1>9. CASE /\ LimitedCalc(c, d, me, k, bw)
           /\ d = [flows |-> d.flows, meter_counter |-> d.meter_counter, front |-> d.front,
                   orders |-> d.orders, raised |-> c.raised]
  <2> DEFINE fk   == c.flows[k]
             new  == fk.meter_id = None
             id   == IF new THEN n ELSE fk.meter_id
             n2   == IF new THEN n + 1 ELSE n
             rule == Rule(fk.sdn_node_req, fk.transmitter, c.flows[me].flow, fk.path[1], fk.path[2])
             mm   == meter_mod(fk.sdn_node_req, id, bw)
             fm   == flow_mod(rule, id)
             fs   == [c.flows EXCEPT ![k].meter_id = id]
             q    == update_meter_id(fs, me, id, bw)
  <2>1. /\ d.flows = q /\ d.meter_counter = n2
        /\ d.front = c.front \o (IF new THEN <<mm, fm>> ELSE <<mm>>)
        /\ d.orders = c.orders \/ (c.orders # <<>> /\ d.orders = Tail(c.orders))
    BY <1>3, <1>9 DEF LimitedCalc
  <2>2. n2 \in Nat /\ n <= n2 /\ id \in Nat /\ id < n2
    BY <1>5
  <2> HIDE DEF n2, id, new
  <2>3. c.flows \in Seq(KeySet(n2)) /\ c.orders \in Seq(FlowOrder(n2)) /\ c.front \in Seq(Order(n2))
    BY <1>3, <2>2, Monotone, SeqMono
  <2>4. fs \in Seq(KeySet(n2)) /\ Len(fs) = L /\ \A i \in 1 .. L : fs[i].state = c.flows[i].state
    <3>1. fs = [c.flows EXCEPT ![k].meter_id = id] /\ k \in 1 .. Len(c.flows)
      BY <1>2, <1>4
    <3> HIDE DEF fs
    <3>2. fs \in Seq(KeySet(n2)) /\ SameBut(fs, c.flows, k, id)
      BY <1>6, <2>2, <2>3, <3>1, GivenId
    <3> QED BY <1>2, <3>2 DEF SameBut
  <2> HIDE DEF fs
  <2>5. q \in Seq(KeySet(n2)) /\ Len(q) = L /\ \A i \in 1 .. L : q[i].state = c.flows[i].state
    <3>1. q = update_meter_id(fs, me, id, bw) /\ me \in 1 .. Len(fs)
      BY <2>4
    <3> HIDE DEF q
    <3>2. q \in Seq(KeySet(n2)) /\ SameBut(q, fs, me, id)
      BY <1>6, <2>2, <2>4, <3>1, GivenMeter
    <3> QED BY <2>4, <3>2 DEF SameBut
  <2> HIDE DEF q
  <2>6. rule \in RuleSet /\ rule.at = fk.sdn_node_req
    <3>1. fk.path[1] \in V /\ fk.path[2] \in V
      BY <1>5, RouteIs
    <3> QED BY <1>5, <3>1 DEF Rule, RuleSet
  <2> HIDE DEF rule
  <2>7. /\ mm \in Order(n2) /\ mm.kind = "meter" /\ mm.meter = id /\ mm.at = fk.sdn_node_req
        /\ fm \in FlowOrder(n2) /\ fm.meter = id /\ fm.at = fk.sdn_node_req
    <3>1. PICK v \in V : v = fk.sdn_node_req
      BY <1>5
    <3>2. meter_mod(v, id, bw) \in Order(n2)
      BY <2>2, MeterModIs
    <3>3. flow_mod(rule, id) \in FlowOrder(n2)
      BY <2>2, <2>6, FlowModIs
    <3> QED BY <2>6, <3>1, <3>2, <3>3 DEF meter_mod, flow_mod
  <2> HIDE DEF mm, fm
  <2>8. fm \in Order(n2) /\ OrdersMeter(mm, fm) /\ c.orders \in Seq(Order(n2))
    BY <2>3, <2>7, SeqMono DEF OrdersMeter, Order
  <2> DEFINE more == IF new THEN <<mm, fm>> ELSE <<mm>>
  <2>9. more = <<mm>> \/ more = <<mm, fm>>
    OBVIOUS
  <2>10. d.front = c.front \o more
    BY <2>1
  <2> HIDE DEF more
  <2>11. d.front \in Seq(Order(n2)) /\ FrontBacked(d.front) /\ OrdersBacked(d.front, c.orders)
    BY <1>2, <2>3, <2>7, <2>8, <2>9, <2>10, FrontGrows
  <2>12. d.orders \in Seq(FlowOrder(n2)) /\ OrdersBacked(d.front, d.orders)
    <3>1. CASE d.orders = c.orders
      BY <2>3, <2>11, <3>1
    <3>2. CASE c.orders # <<>> /\ d.orders = Tail(c.orders)
      <4>1. Tail(c.orders) \in Seq(FlowOrder(n2))
        BY <2>3, <3>2
      <4>2. OrdersBacked(d.front, Tail(c.orders))
        BY <2>3, <2>11, <3>2, TailBacked
      <4> QED BY <3>2, <4>1, <4>2
    <3> QED BY <2>1, <3>1, <3>2
  <2>13. d \in CalcRecord(n2)
    <3>1. PICK a, b, e, g, h : /\ a = d.flows /\ b = d.meter_counter /\ e = d.front
                               /\ g = d.orders /\ h = c.raised
      OBVIOUS
    <3>2. d = [flows |-> a, meter_counter |-> b, front |-> e, orders |-> g, raised |-> h]
      BY <1>9, <3>1
    <3>3. /\ a \in Seq(KeySet(n2)) /\ b = n2 /\ e \in Seq(Order(n2)) /\ g \in Seq(FlowOrder(n2))
          /\ h \in Raised
      BY <1>3, <2>1, <2>5, <2>11, <2>12, <3>1
    <3> QED BY <3>2, <3>3 DEF CalcRecord
  <2>14. d \in CalcSet(L, P)
    BY <1>2, <2>1, <2>2, <2>5, <2>11, <2>12, <2>13 DEF CalcSet
  <2> QED BY <1>9, <2>14 DEF d
<1> QED BY <1>7, <1>8, <1>9 DEF Outcome

(* The bandwidth left along a path. *)
LEMMA MinAvbw ==
  ASSUME NEW f \in Flow, NEW p \in Paths[f], Len(p) > 1,
         NEW G \in [V -> Nat]
  PROVE  get_min_avbw(p, G) \in Nat
<1>1. p \in Route /\ p[1] \in OF
  BY PathIs
<1>2. p \in Seq(V) /\ Len(p) \in Nat
  BY <1>1, RouteIs
<1> DEFINE q == Front(p)
           T == {G[v] : v \in OF \cap Range(q)}
<1>3. q = SubSeq(p, 1, Len(p) - 1)
  BY DEF Front
<1>4. 1 \in DOMAIN q /\ q[1] = p[1]
  BY <1>2, <1>3
<1> HIDE DEF q
<1>5. p[1] \in Range(q)
  BY <1>4 DEF Range
<1>6. T # {} /\ T \subseteq Nat
  BY <1>1, <1>5 DEF OF
<1>7. get_min_avbw(p, G) = Min(T)
  BY DEF get_min_avbw, q
<1> HIDE DEF T
<1>8. Min(T) \in T
  BY <1>6, MinNat
<1> QED BY <1>6, <1>7, <1>8

LimitUnfolds(lim, own, me, ms) ==
  lim = [n \in 0 .. Len(ms) |-> IF n = 0 THEN own
                                ELSE limit_other(lim[n - 1], me, ms[n].key, ms[n].rate)]

Limits(own, me, ms) == CHOOSE lim : LimitUnfolds(lim, own, me, ms)

(* Limiting other flows one after the other stays in a set that limit_other *)
(* stays in.                                                                *)
LEMMA LimitsIn ==
  ASSUME NEW A, NEW own \in A, NEW S, NEW ms \in Seq(S), NEW me,
         \A c \in A : \A m \in S : limit_other(c, me, m.key, m.rate) \in A
  PROVE  Limits(own, me, ms)[Len(ms)] \in A
<1> DEFINE N == Len(ms)
           g == [m \in 1 .. N |-> [a \in A |-> limit_other(a, me, ms[m].key, ms[m].rate)]]
           j == [m \in 1 .. N |-> m - 1]
<1>1. N \in Nat /\ \A m \in 1 .. N : ms[m] \in S
  OBVIOUS
<1>2. ASSUME NEW m \in 1 .. N, NEW a \in A
      PROVE  limit_other(a, me, ms[m].key, ms[m].rate) \in A
  BY <1>1
<1>3. \A m \in 1 .. N : \A a \in A : g[m][a] \in A
  BY <1>2
<1>4. \A m \in 1 .. N : j[m] \in 0 .. m - 1
  BY <1>1
<1> HIDE DEF g, j, N
<1>5. PICK f : Solves(f, A, N, own, j, g)
  BY <1>1, <1>3, <1>4, RecursionSolved
<1>6. LimitUnfolds(f, own, me, ms)
  <2>1. ASSUME NEW m \in 1 .. N PROVE f[m] = limit_other(f[m - 1], me, ms[m].key, ms[m].rate)
    <3>1. j[m] = m - 1 /\ m - 1 \in 0 .. N
      BY <1>1 DEF j
    <3>2. f[m - 1] \in A /\ f[m] = g[m][f[m - 1]]
      BY <1>5, <3>1 DEF Solves
    <3> QED BY <3>2 DEF g
  <2>2. f[0] = own /\ DOMAIN f = 0 .. N /\ f = [m \in 0 .. N |-> f[m]]
    BY <1>5 DEF Solves
  <2>3. \A m \in 0 .. N : m = 0 \/ m \in 1 .. N
    BY <1>1
  <2>4. \A m \in 0 .. N :
          f[m] = IF m = 0 THEN own ELSE limit_other(f[m - 1], me, ms[m].key, ms[m].rate)
    BY <2>1, <2>2, <2>3
  <2> QED BY <2>2, <2>4 DEF LimitUnfolds, N
<1> DEFINE lim == Limits(own, me, ms)
<1>7. LimitUnfolds(lim, own, me, ms)
  BY <1>6 DEF Limits
<1> HIDE DEF lim
<1>8. /\ lim[0] = own
      /\ \A m \in 1 .. N : lim[m] = limit_other(lim[m - 1], me, ms[m].key, ms[m].rate)
  <2>1. lim[0] = own
    BY <1>1, <1>7 DEF LimitUnfolds, N
  <2>2. ASSUME NEW m \in 1 .. N
        PROVE  lim[m] = limit_other(lim[m - 1], me, ms[m].key, ms[m].rate)
    <3>1. m \in 0 .. N /\ m # 0
      BY <1>1
    <3> QED BY <1>7, <3>1 DEF LimitUnfolds, N
  <2> QED BY <2>1, <2>2
<1>9. ASSUME NEW m \in 0 .. N, \A i \in 0 .. m - 1 : lim[i] \in A PROVE lim[m] \in A
  <2>1. CASE m = 0
    BY <1>8, <2>1
  <2>2. CASE m # 0
    <3>1. m - 1 \in 0 .. m - 1 /\ m \in 1 .. N
      BY <1>1, <2>2
    <3> QED BY <1>2, <1>8, <1>9, <3>1
  <2> QED BY <2>1, <2>2
<1>10. \A m \in 0 .. N : lim[m] \in A
  BY <1>1, <1>9, RecursionIn
<1>11. lim[N] \in A
  BY <1>1, <1>10
<1> QED BY <1>11 DEF lim, N

(* update_orders_rate_limiter ends in a set that holds what it begins with, *)
(* that with a meter of its own, and what limit_other makes of its members. *)
LEMMA RateLimited ==
  ASSUME NEW n \in Nat, NEW fs \in Seq(KeySet(n)), NEW rules,
         NEW me \in 1 .. Len(fs), NEW G \in [V -> Nat], NEW A,
         Calculation(fs, n, rules) \in A,
         fs[me].state = "HAS_PATH" =>
           \A bw \in Nat : limit_own(Calculation(fs, n, rules), me, bw) \in A,
         \A c \in A : \A m \in LimitSet(fs, Prio[fs[me].flow]) :
           limit_other(c, me, m.key, m.rate) \in A
  PROVE  update_orders_rate_limiter(Calculation(fs, n, rules), me, G) \in A
<1>1. PICK c : c = Calculation(fs, n, rules)
  OBVIOUS
<1>2. c \in A /\ c.flows = fs
  BY <1>1 DEF Calculation
<1>3. PICK key : key = fs[me] /\ key \in KeySet(n)
  OBVIOUS
<1>4. /\ key.flow \in Flow /\ key.path \in Paths[key.flow] /\ og_bw[key.flow] \in Nat
      /\ key.state = "HAS_PATH" => Len(key.path) > 1
  BY RateLimiterAssumption, <1>3 DEF KeySet
<1> DEFINE min_avbw == get_min_avbw(key.path, G)
           adj == adjust_existing_flows(fs, og_bw[key.flow], min_avbw, Prio[key.flow], key.path)
           own == IF adj.rate_limit = None THEN c ELSE limit_own(c, me, adj.rate_limit)
           lim == Limits(own, me, adj.meters)
<1>5. update_orders_rate_limiter(c, me, G) =
        IF key.state # "HAS_PATH" \/ c.orders[1].rule.out = None \/ min_avbw >= og_bw[key.flow]
        THEN c ELSE lim[Len(adj.meters)]
  BY <1>2, <1>3 DEF update_orders_rate_limiter, limited, LimitUnfolds, Limits
<1>6. ASSUME key.state = "HAS_PATH" PROVE lim[Len(adj.meters)] \in A
  <2>1. min_avbw \in Nat
    BY <1>4, <1>6, MinAvbw
  <2> HIDE DEF min_avbw
  <2>2. PICK sp, p, o : sp = Prio[key.flow] /\ p = key.path /\ o = og_bw[key.flow] /\ o \in Nat
    BY <1>4
  <2>3. adj = adjust_existing_flows(fs, o, min_avbw, sp, p)
    BY <2>2
  <2> HIDE DEF adj
  <2>4. adj.meters \in Seq(LimitSet(fs, sp)) /\ adj.rate_limit \in Nat \cup {None}
    <3>1. o \in Int /\ min_avbw \in Int
      BY <2>1, <2>2
    <3> QED BY <2>3, <3>1, Adjusted
  <2>5. own \in A
    BY <1>1, <1>2, <1>3, <1>6, <2>4
  <2> HIDE DEF own
  <2>6. PICK ms : ms = adj.meters
    OBVIOUS
  <2>7. ms \in Seq(LimitSet(fs, sp))
    BY <2>4, <2>6
  <2>8. PICK S : S = LimitSet(fs, sp)
    OBVIOUS
  <2>9. \A a \in A : \A m \in S : limit_other(a, me, m.key, m.rate) \in A
    BY <1>3, <2>2, <2>8
  <2>10. Limits(own, me, ms)[Len(ms)] \in A
    <3>1. ms \in Seq(S)
      BY <2>7, <2>8
    <3> QED BY <2>5, <2>9, <3>1, LimitsIn
  <2> QED BY <2>6, <2>10
<1> HIDE DEF lim
<1> QED BY <1>1, <1>2, <1>5, <1>6

(* The keys after key k has been limited for me: both have the meter of k.  *)
SharedMeter(c, d, me, k) ==
  LET id == IF c.flows[k].meter_id = None THEN c.meter_counter ELSE c.flows[k].meter_id
  IN /\ d.meter_counter = IF c.flows[k].meter_id = None THEN c.meter_counter + 1 ELSE c.meter_counter
     /\ \A i \in 1 .. Len(c.flows) :
          /\ d.flows[i].flow = c.flows[i].flow
          /\ d.flows[i].meter_id = IF i = k \/ i = me THEN id ELSE c.flows[i].meter_id

LEMMA LimitedKeys ==
  ASSUME None \notin Nat, NEW n \in Nat, NEW c \in CalcRecord(n), NEW me \in 1 .. Len(c.flows),
         NEW k \in 1 .. Len(c.flows), NEW bw \in Nat, NEW d, LimitedCalc(c, d, me, k, bw)
  PROVE  SharedMeter(c, d, me, k)
<1> DEFINE new == c.flows[k].meter_id = None
           id  == IF new THEN n ELSE c.flows[k].meter_id
           n2  == IF new THEN n + 1 ELSE n
           fs  == [c.flows EXCEPT ![k].meter_id = id]
           q   == update_meter_id(fs, me, id, bw)
<1>1. c.flows \in Seq(KeySet(n)) /\ c.meter_counter = n
  BY DEF CalcRecord
<1>2. c.flows[k] \in KeySet(n)
  BY <1>1
<1>3. c.flows[k].meter_id # None => c.flows[k].meter_id \in Nat /\ c.flows[k].meter_id < n
  BY <1>2 DEF KeySet
<1>4. d.flows = q /\ d.meter_counter = n2
  BY <1>1 DEF LimitedCalc
<1>5. n2 \in Nat /\ n <= n2 /\ id \in Nat /\ id < n2
  BY <1>3
<1>6. /\ id = IF c.flows[k].meter_id = None THEN c.meter_counter ELSE c.flows[k].meter_id
      /\ n2 = IF c.flows[k].meter_id = None THEN c.meter_counter + 1 ELSE c.meter_counter
  BY <1>1
<1> HIDE DEF id, n2, new
<1>7. c.flows \in Seq(KeySet(n2))
  BY <1>1, <1>5, Monotone, SeqMono
<1>8. fs \in Seq(KeySet(n2)) /\ SameBut(fs, c.flows, k, id)
  BY <1>5, <1>7, GivenId
<1>9. Len(fs) = Len(c.flows)
  BY <1>8 DEF SameBut
<1> HIDE DEF fs
<1>10. SameBut(q, fs, me, id)
  <2>1. me \in 1 .. Len(fs)
    BY <1>9
  <2> QED BY <1>5, <1>8, <2>1, GivenMeter
<1> HIDE DEF q
<1>11. \A i \in 1 .. Len(c.flows) :
          /\ q[i].flow = c.flows[i].flow
          /\ q[i].meter_id = IF i = k \/ i = me THEN id ELSE c.flows[i].meter_id
  BY <1>8, <1>9, <1>10 DEF SameBut
<1> QED BY <1>4, <1>6, <1>11 DEF SharedMeter

(* The orders of a calculation are the rules it began with, with no more    *)
(* than a meter in front, or a meter stands where Fit sees it.              *)
Kept(c, rules) ==
  \/ c.front = <<>> /\ c.orders = rules
  \/ /\ Len(c.front) = 1 /\ ~Plain(c.front[1])
     /\ c.orders = rules \/ (c.orders # <<>> /\ ~Plain(c.orders[1]))
  \/ \E i \in 2 .. Len(c.front) : ~Plain(c.front[i])

LEMMA KeptOwn ==
  ASSUME None \notin Nat, NEW n \in Nat, NEW fs \in Seq(KeySet(n)), NEW rules \in Seq(FlowOrder(0)),
         rules # <<>>, NEW me \in 1 .. Len(fs), NEW bw \in Nat
  PROVE  Kept(limit_own(Calculation(fs, n, rules), me, bw), rules)
<1>1. PICK d : d = limit_own(Calculation(fs, n, rules), me, bw)
  OBVIOUS
<1>2. OwnMeter(d, fs, n, rules, me, bw)
  BY <1>1 DEF OwnMeter, limit_own, Calculation
<1>3. PICK mm, fm, t : /\ mm = meter_mod(rules[1].at, n, bw) /\ fm = flow_mod(rules[1].rule, n)
                       /\ t = Tail(rules) /\ t \in Seq(FlowOrder(0))
  <2>1. Tail(rules) \in Seq(FlowOrder(0))
    OBVIOUS
  <2> QED BY <2>1
<1>4. ~Plain(mm) /\ ~Plain(fm)
  BY <1>3 DEF Plain, meter_mod, flow_mod
<1>5. d.front = <<mm>> /\ d.orders = <<fm>> \o t
  BY <1>2, <1>3 DEF OwnMeter
<1>6. <<fm>> \o t # <<>> /\ (<<fm>> \o t)[1] = fm
  BY <1>3
<1>7. Len(d.front) = 1 /\ d.front[1] = mm
  BY <1>5
<1> QED BY <1>1, <1>4, <1>5, <1>6, <1>7 DEF Kept

LEMMA KeptOther ==
  ASSUME NEW L, NEW P, NEW c \in CalcSet(L, P), P \subseteq 1 .. L,
         NEW me \in 1 .. L, NEW k \in P, NEW bw \in Nat, NEW rules, Kept(c, rules)
  PROVE  Kept(limit_other(c, me, k, bw), rules)
<1>1. PICK d : d = limit_other(c, me, k, bw)
  OBVIOUS
<1>2. CASE d.front = c.front /\ d.orders = c.orders
  BY <1>1, <1>2 DEF Kept
<1>3. CASE LimitedCalc(c, d, me, k, bw)
  <2>1. PICK n \in Nat : c \in CalcRecord(n)
    BY DEF CalcSet
  <2>2. c.front \in Seq(Order(n)) /\ c.flows[k] \in KeySet(n) /\ c.meter_counter = n
    BY <2>1 DEF CalcRecord, CalcSet
  <2> DEFINE fk   == c.flows[k]
             new  == fk.meter_id = None
             id   == IF new THEN c.meter_counter ELSE fk.meter_id
             rule == Rule(fk.sdn_node_req, fk.transmitter, c.flows[me].flow, fk.path[1], fk.path[2])
             mm   == meter_mod(fk.sdn_node_req, id, bw)
             fm   == flow_mod(rule, id)
  <2>3. /\ d.front = c.front \o (IF new THEN <<mm, fm>> ELSE <<mm>>)
        /\ new \/ d.orders = c.orders
    BY <1>3 DEF LimitedCalc
  <2>4. ~Plain(mm)
    BY DEF Plain, meter_mod
  <2>5. new => ~Plain(fm)
    <3>1. None \notin Nat
      BY RateLimiterAssumption
    <3> QED BY <2>2, <3>1 DEF Plain, flow_mod
  <2> HIDE DEF new, mm, fm
  <2>6. PICK s : s = c.front /\ Len(s) \in Nat /\ s \in Seq(Order(n))
    BY <2>2
  <2>7. CASE new
    <3>1. PICK q : q = s \o <<mm, fm>>
      OBVIOUS
    <3>2. Len(q) = Len(s) + 2 /\ q[Len(s) + 2] = fm
      BY <2>6, <3>1
    <3>3. Len(q) \in 2 .. Len(q) /\ ~Plain(q[Len(q)])
      BY <2>5, <2>6, <2>7, <3>2
    <3> QED BY <1>1, <2>3, <2>6, <2>7, <3>1, <3>3 DEF Kept
  <2>8. CASE ~new
    <3>1. PICK q : q = s \o <<mm>>
      OBVIOUS
    <3>2. Len(q) = Len(s) + 1 /\ q[Len(s) + 1] = mm
      BY <2>6, <3>1
    <3>3. d.front = q /\ d.orders = c.orders
      BY <2>3, <2>6, <2>8, <3>1
    <3>4. CASE s = <<>>
      <4>1. Len(q) = 1 /\ ~Plain(q[1])
        BY <2>4, <3>2, <3>4
      <4>2. c.orders = rules
        BY <2>6, <3>4 DEF Kept
      <4> QED BY <1>1, <3>3, <4>1, <4>2 DEF Kept
    <3>5. CASE s # <<>>
      <4>1. Len(q) \in 2 .. Len(q) /\ ~Plain(q[Len(q)])
        BY <2>4, <2>6, <3>2, <3>5
      <4> QED BY <1>1, <3>3, <4>1 DEF Kept
    <3> QED BY <3>4, <3>5
  <2> QED BY <2>7, <2>8
<1> QED BY <1>1, <1>2, <1>3, LimitOther

LEMMA KeptFits ==
  ASSUME NEW L, NEW P, NEW c \in CalcSet(L, P), NEW rules \in Seq(FlowOrder(0)),
         AllLinked(rules), Kept(c, rules)
  PROVE  Fit(rate_limited_orders(c))
<1>1. PICK n \in Nat : c \in CalcRecord(n)
  BY DEF CalcSet
<1>2. c.front \in Seq(Order(n)) /\ c.orders \in Seq(Order(n))
  BY <1>1, SeqMono DEF CalcRecord, Order
<1>3. PICK s \in Seq(Order(n)), t \in Seq(Order(n)) : s = c.front /\ t = c.orders
  BY <1>2
<1>3a. PICK q : q = s \o t
  OBVIOUS
<1>4. /\ Len(q) = Len(s) + Len(t) /\ Len(s) \in Nat /\ Len(t) \in Nat
      /\ \A i \in 1 .. Len(s) + Len(t) : q[i] = IF i <= Len(s) THEN s[i] ELSE t[i - Len(s)]
  BY <1>3a, ConcatProperties
<1>5. CASE s = <<>> /\ t = rules
  <2>1. q = rules /\ Len(rules) \in Nat
    BY <1>3, <1>3a, <1>5
  <2> QED BY <1>3, <1>3a, <2>1 DEF Fit, FitFrom, AllLinked, rate_limited_orders
<1>6. CASE /\ Len(s) = 1 /\ ~Plain(s[1]) /\ t = rules
  <2>1. 1 \in 1 .. Len(q) /\ q[1] = s[1] /\ ~Plain(q[1])
    BY <1>4, <1>6
  <2>2. ASSUME NEW i \in 2 .. Len(q) PROVE Linked(q, i)
    <3>1. PICK h \in 1 .. Len(t) : i = h + 1 /\ q[i] = t[h]
      <4>1. i - 1 \in 1 .. Len(t) /\ q[i] = t[i - 1] /\ i = (i - 1) + 1
        BY <1>4, <1>6
      <4> QED BY <4>1
    <3>2. h < Len(t) => i < Len(q) /\ q[i + 1] = t[h + 1]
      BY <1>4, <1>6, <3>1
    <3> QED BY <1>6, <3>1, <3>2 DEF AllLinked, Linked
  <2>3. FitFrom(q, 1)
    BY <2>1 DEF FitFrom
  <2>4. FitFrom(q, 2)
    BY <2>2 DEF FitFrom
  <2> QED BY <1>3, <1>3a, <2>3, <2>4 DEF Fit, rate_limited_orders
<1>7. CASE \/ Len(s) = 1 /\ t # <<>> /\ ~Plain(t[1])
           \/ \E i \in 2 .. Len(s) : ~Plain(s[i])
  <2>1. PICK i \in 2 .. Len(q) : ~Plain(q[i])
    <3>1. CASE Len(s) = 1 /\ t # <<>> /\ ~Plain(t[1])
      <4>1. Len(t) # 0
        BY <1>3, <1>3a, <3>1
      <4>2. 2 \in 1 .. Len(s) + Len(t) /\ ~(2 <= Len(s)) /\ 2 - Len(s) = 1
        BY <1>4, <3>1, <4>1
      <4>3. 2 \in 2 .. Len(q) /\ q[2] = t[1]
        BY <1>4, <4>2
      <4> QED BY <3>1, <4>3
    <3>2. CASE \E i \in 2 .. Len(s) : ~Plain(s[i])
      <4>1. PICK i \in 2 .. Len(s) : ~Plain(s[i])
        BY <3>2
      <4>2. i \in 2 .. Len(q) /\ q[i] = s[i]
        BY <1>4
      <4> QED BY <4>1, <4>2
    <3> QED BY <1>7, <3>1, <3>2
  <2>2. i \in 1 .. Len(q)
    OBVIOUS
  <2> QED BY <1>3, <1>3a, <2>1, <2>2 DEF Fit, FitFrom, rate_limited_orders
<1> QED BY <1>3, <1>3a, <1>5, <1>6, <1>7 DEF Kept

(* Calculations for the keys fs, from the counter n on. *)
CalcFrom(fs, n) ==
  {c \in CalcSet(Len(fs), {k \in 1 .. Len(fs) : fs[k].state = "HAS_PATH"}) :
     c.meter_counter >= n /\ \A i \in 1 .. Len(fs) : c.flows[i].flow = fs[i].flow}

LEMMA FromStart ==
  ASSUME NEW n \in Nat, NEW fs \in Seq(KeySet(n)), NEW rules \in Seq(FlowOrder(0))
  PROVE  Calculation(fs, n, rules) \in CalcFrom(fs, n)
<1>1. PICK P : P = {k \in 1 .. Len(fs) : fs[k].state = "HAS_PATH"}
  OBVIOUS
<1>2. \A k \in P : fs[k].state = "HAS_PATH"
  BY <1>1
<1>3. Calculation(fs, n, rules) \in CalcSet(Len(fs), P)
  BY <1>2, CalcStart
<1>4. Calculation(fs, n, rules).flows = fs /\ Calculation(fs, n, rules).meter_counter = n
  BY DEF Calculation
<1> QED BY <1>1, <1>3, <1>4 DEF CalcFrom

LEMMA FromOwn ==
  ASSUME None \notin Nat, NEW n \in Nat, NEW fs \in Seq(KeySet(n)), NEW rules \in Seq(FlowOrder(0)),
         rules # <<>>, NEW me \in 1 .. Len(fs), NEW bw \in Nat
  PROVE  limit_own(Calculation(fs, n, rules), me, bw) \in CalcFrom(fs, n)
<1>1. PICK P : P = {k \in 1 .. Len(fs) : fs[k].state = "HAS_PATH"}
  OBVIOUS
<1>2. P \subseteq 1 .. Len(fs) /\ \A k \in P : fs[k].state = "HAS_PATH"
  BY <1>1
<1>3. PICK d : d = limit_own(Calculation(fs, n, rules), me, bw)
  OBVIOUS
<1>4. /\ d \in CalcSet(Len(fs), P) /\ d.flows = update_meter_id(fs, me, n, bw)
      /\ d.meter_counter = n + 1
  <2>1. /\ limit_own(Calculation(fs, n, rules), me, bw) \in CalcSet(Len(fs), P)
        /\ OwnMeter(limit_own(Calculation(fs, n, rules), me, bw), fs, n, rules, me, bw)
    BY <1>2, LimitOwn
  <2> QED BY <1>3, <2>1 DEF OwnMeter
<1>5. fs \in Seq(KeySet(n + 1)) /\ n + 1 \in Nat /\ n < n + 1
  BY Monotone, SeqMono
<1>6. SameBut(update_meter_id(fs, me, n, bw), fs, me, n)
  BY <1>5, GivenMeter
<1>7. \A i \in 1 .. Len(fs) : d.flows[i].flow = fs[i].flow
  BY <1>4, <1>6 DEF SameBut
<1>8. d.meter_counter >= n
  BY <1>4
<1> QED BY <1>1, <1>3, <1>4, <1>7, <1>8 DEF CalcFrom

LEMMA FromOther ==
  ASSUME NEW n \in Nat, NEW fs \in Seq(KeySet(n)),
         NEW c \in CalcFrom(fs, n), NEW me \in 1 .. Len(fs),
         NEW sp, NEW m \in LimitSet(fs, sp)
  PROVE  limit_other(c, me, m.key, m.rate) \in CalcFrom(fs, n)
<1>1. PICK P : P = {k \in 1 .. Len(fs) : fs[k].state = "HAS_PATH"}
  OBVIOUS
<1>2. PICK k, bw : k = m.key /\ bw = m.rate
  OBVIOUS
<1>3. k \in P /\ k \in 1 .. Len(fs) /\ bw \in Nat /\ P \subseteq 1 .. Len(fs)
  BY <1>1, <1>2 DEF LimitSet
<1>4. /\ c \in CalcSet(Len(fs), P) /\ c.meter_counter >= n
      /\ \A i \in 1 .. Len(fs) : c.flows[i].flow = fs[i].flow
  BY <1>1 DEF CalcFrom
<1>5. PICK d : d = limit_other(c, me, k, bw)
  OBVIOUS
<1>6. /\ d \in CalcSet(Len(fs), P)
      /\ \/ d.flows = c.flows /\ d.meter_counter = c.meter_counter /\ d.front = c.front
         \/ LimitedCalc(c, d, me, k, bw)
  <2>1. PICK L : L = Len(fs)
    OBVIOUS
  <2>2. c \in CalcSet(L, P) /\ P \subseteq 1 .. L /\ me \in 1 .. L /\ k \in P
    BY <1>3, <1>4, <2>1
  <2>3. /\ limit_other(c, me, k, bw) \in CalcSet(L, P)
        /\ LET dd == limit_other(c, me, k, bw)
           IN \/ dd.flows = c.flows /\ dd.meter_counter = c.meter_counter /\ dd.front = c.front
              \/ LimitedCalc(c, dd, me, k, bw)
    BY <1>3, <2>2, LimitOther
  <2> QED BY <1>5, <2>1, <2>3
<1>7. d.meter_counter >= n /\ \A i \in 1 .. Len(fs) : d.flows[i].flow = fs[i].flow
  <2>1. CASE d.flows = c.flows /\ d.meter_counter = c.meter_counter
    BY <1>4, <2>1
  <2>2. CASE LimitedCalc(c, d, me, k, bw)
    <3>1. PICK x \in Nat : c \in CalcRecord(x)
      BY <1>4 DEF CalcSet
    <3>2. Len(c.flows) = Len(fs) /\ c.meter_counter = x
      BY <1>4, <3>1 DEF CalcSet, CalcRecord
    <3>3. me \in 1 .. Len(c.flows) /\ k \in 1 .. Len(c.flows) /\ None \notin Nat
      BY RateLimiterAssumption, <1>3, <3>2
    <3>4. SharedMeter(c, d, me, k)
      BY <1>3, <2>2, <3>1, <3>3, LimitedKeys
    <3> QED BY <1>4, <3>2, <3>4 DEF SharedMeter
  <2> QED BY <1>6, <2>1, <2>2
<1>8. d \in CalcFrom(fs, n)
  BY <1>1, <1>6, <1>7 DEF CalcFrom
<1> QED BY <1>2, <1>5, <1>8

(* A whole calculation. *)
LEMMA Calculated ==
  ASSUME NEW n \in Nat, NEW fs \in Seq(KeySet(n)),
         NEW rules \in Seq(FlowOrder(0)), NEW me \in 1 .. Len(fs), NEW G \in [V -> Nat],
         fs[me].state = "HAS_PATH" => rules # <<>>
  PROVE  /\ update_orders_rate_limiter(Calculation(fs, n, rules), me, G) \in CalcFrom(fs, n)
         /\ Kept(update_orders_rate_limiter(Calculation(fs, n, rules), me, G), rules)
<1>1. PICK A : A = {c \in CalcFrom(fs, n) : Kept(c, rules)}
  OBVIOUS
<1>2. Calculation(fs, n, rules) \in A
  <2>1. Kept(Calculation(fs, n, rules), rules)
    BY DEF Kept, Calculation
  <2> QED BY <1>1, <2>1, FromStart
<1>3. ASSUME fs[me].state = "HAS_PATH", NEW bw \in Nat
      PROVE  limit_own(Calculation(fs, n, rules), me, bw) \in A
  <2>1. None \notin Nat
    BY RateLimiterAssumption
  <2>2. limit_own(Calculation(fs, n, rules), me, bw) \in CalcFrom(fs, n)
    BY <1>3, <2>1, FromOwn
  <2>3. Kept(limit_own(Calculation(fs, n, rules), me, bw), rules)
    BY <1>3, <2>1, KeptOwn
  <2> QED BY <1>1, <2>2, <2>3
<1>4. ASSUME NEW c \in A, NEW m \in LimitSet(fs, Prio[fs[me].flow])
      PROVE  limit_other(c, me, m.key, m.rate) \in A
  <2>1. limit_other(c, me, m.key, m.rate) \in CalcFrom(fs, n)
    BY <1>1, FromOther
  <2>2. PICK L, P : L = Len(fs) /\ P = {k \in 1 .. Len(fs) : fs[k].state = "HAS_PATH"}
    OBVIOUS
  <2>3. c \in CalcSet(L, P) /\ Kept(c, rules)
    BY <1>1, <2>2 DEF CalcFrom
  <2>4. PICK k \in P, bw \in Nat : k = m.key /\ bw = m.rate
    BY <2>2 DEF LimitSet
  <2>5. Kept(limit_other(c, me, k, bw), rules)
    BY <2>2, <2>3, KeptOther
  <2> QED BY <1>1, <2>1, <2>4, <2>5
<1>5. update_orders_rate_limiter(Calculation(fs, n, rules), me, G) \in A
  BY <1>2, <1>3, <1>4, RateLimited
<1> QED BY <1>1, <1>5

(* What the handlers use of it. *)
LEMMA CalcIs ==
  ASSUME NEW L, NEW P, NEW c \in CalcSet(L, P)
  PROVE  /\ c.meter_counter \in Nat /\ c.flows \in Seq(KeySet(c.meter_counter)) /\ Len(c.flows) = L
         /\ c.front \in Seq(Order(c.meter_counter)) /\ c.orders \in Seq(FlowOrder(c.meter_counter))
         /\ rate_limited_orders(c) \in Seq(Order(c.meter_counter))
         /\ c.raised \in Raised
<1>1. PICK n \in Nat : c \in CalcRecord(n)
  BY DEF CalcSet
<1>2. /\ c.flows \in Seq(KeySet(n)) /\ c.meter_counter = n /\ c.orders \in Seq(FlowOrder(n))
      /\ c.front \in Seq(Order(n)) /\ c.raised \in Raised
  BY <1>1 DEF CalcRecord
<1>3. c.orders \in Seq(Order(n))
  BY <1>2, SeqMono DEF Order
<1>4. c.front \o c.orders \in Seq(Order(n))
  BY <1>2, <1>3, ConcatProperties
<1> QED BY <1>2, <1>4 DEF CalcSet, rate_limited_orders

-----------------------------------------------------------------------------
(* Bandwidths are taken down to zero, never below. *)
LEMMA Taken ==
  ASSUME NEW G \in [V -> Nat], NEW vs, NEW bw \in Nat
  PROVE  update_node_avbw_for_flow(G, vs, bw) \in [V -> Nat]
<1>1. ASSUME NEW v \in V PROVE Max({0, G[v] - bw}) \in Nat
  <2>1. PICK b \in Int : b = G[v] - bw
    OBVIOUS
  <2>2. Max({0, b}) \in Nat
    BY MaxZero
  <2> QED BY <2>1, <2>2
<1> QED BY <1>1 DEF update_node_avbw_for_flow

LeftBy(G, n, keys) ==
  IF n \in keys THEN G
  ELSE update_node_avbw_for_flow(G, Range(flows[n].path), get_dataRate(flows[n]))
GraphUnfolds(G, keys) ==
  G = [n \in 0 .. Len(flows) |->
         IF n = 0 THEN max_C
         ELSE IF n \in keys THEN G[n - 1]
         ELSE update_node_avbw_for_flow(G[n - 1], Range(flows[n].path),
                                                get_dataRate(flows[n]))]

LEMMA WithoutFlows ==
  ASSUME NEW n, flows \in Seq(KeySet(n)), NEW keys
  PROVE  get_graph_without_flows(keys) \in [V -> Nat]
<1> DEFINE A == [V -> Nat]
           N == Len(flows)
           g == [m \in 1 .. N |-> [a \in A |-> LeftBy(a, m, keys)]]
           j == [m \in 1 .. N |-> m - 1]
<1>1. N \in Nat /\ \A m \in 1 .. N : flows[m] \in KeySet(n)
  OBVIOUS
<1>2. ASSUME NEW m \in 1 .. N, NEW a \in A PROVE LeftBy(a, m, keys) \in A
  <2>1. PICK bw \in Nat : bw = get_dataRate(flows[m])
    BY <1>1, DataRate
  <2>2. PICK vs : vs = Range(flows[m].path)
    OBVIOUS
  <2>3. update_node_avbw_for_flow(a, vs, bw) \in A
    BY Taken
  <2> QED BY <2>1, <2>2, <2>3 DEF LeftBy
<1>3. max_C \in A
  BY RateLimiterAssumption
<1> HIDE DEF A
<1>4. \A m \in 1 .. N : \A a \in A : g[m][a] \in A
  BY <1>2
<1>5. \A m \in 1 .. N : j[m] \in 0 .. m - 1
  BY <1>1
<1> HIDE DEF g, j, N
<1>6. PICK f : Solves(f, A, N, max_C, j, g)
  BY <1>1, <1>3, <1>4, <1>5, RecursionSolved
<1>7. GraphUnfolds(f, keys)
  <2>1. ASSUME NEW m \in 1 .. N PROVE f[m] = LeftBy(f[m - 1], m, keys)
    <3>1. j[m] = m - 1 /\ m - 1 \in 0 .. N
      BY <1>1 DEF j
    <3>2. f[m - 1] \in A /\ f[m] = g[m][f[m - 1]]
      BY <1>6, <3>1 DEF Solves
    <3> QED BY <3>2 DEF g
  <2>2. f[0] = max_C /\ DOMAIN f = 0 .. N /\ f = [m \in 0 .. N |-> f[m]]
    BY <1>6 DEF Solves
  <2>3. \A m \in 0 .. N : m = 0 \/ m \in 1 .. N
    BY <1>1
  <2>4. \A m \in 0 .. N : f[m] = IF m = 0 THEN max_C ELSE LeftBy(f[m - 1], m, keys)
    BY <2>1, <2>2, <2>3
  <2> QED BY <2>2, <2>4 DEF GraphUnfolds, LeftBy, N
<1> DEFINE G == CHOOSE G : GraphUnfolds(G, keys)
<1>8. GraphUnfolds(G, keys)
  BY <1>7
<1>9. get_graph_without_flows(keys) = G[N]
  BY DEF get_graph_without_flows, GraphUnfolds, N
<1> HIDE DEF G
<1>10. /\ G[0] = max_C
       /\ \A m \in 1 .. N : G[m] = LeftBy(G[m - 1], m, keys)
  <2>1. G[0] = max_C
    BY <1>1, <1>8 DEF GraphUnfolds, N
  <2>2. ASSUME NEW m \in 1 .. N PROVE G[m] = LeftBy(G[m - 1], m, keys)
    <3>1. m \in 0 .. N /\ m # 0
      BY <1>1
    <3> QED BY <1>8, <3>1 DEF GraphUnfolds, LeftBy, N
  <2> QED BY <2>1, <2>2
<1>11. ASSUME NEW m \in 0 .. N, \A i \in 0 .. m - 1 : G[i] \in A PROVE G[m] \in A
  <2>1. CASE m = 0
    BY <1>3, <1>10, <2>1
  <2>2. CASE m # 0
    <3>1. m - 1 \in 0 .. m - 1 /\ m \in 1 .. N
      BY <1>1, <2>2
    <3>2. PICK a \in A : a = G[m - 1]
      BY <1>11, <3>1
    <3>3. LeftBy(a, m, keys) \in A
      BY <1>2, <3>1
    <3> QED BY <1>10, <3>1, <3>2, <3>3
  <2> QED BY <2>1, <2>2
<1>12. \A m \in 0 .. N : G[m] \in A
  BY <1>1, <1>11, RecursionIn
<1> QED BY <1>1, <1>9, <1>12 DEF A

-----------------------------------------------------------------------------
(* The meters of the switches; their numbers are below n. *)
Table(n) == UNION {[D -> Nat] : D \in SUBSET Below(n)}
MeterTables(n) == [Sw -> Table(n)]

LEMMA MoreTables ==
  ASSUME NEW n \in Nat, NEW m \in Nat, n <= m
  PROVE  MeterTables(n) \subseteq MeterTables(m)
<1>1. Below(n) \subseteq Below(m)
  BY DEF Below
<1>2. Table(n) \subseteq Table(m)
  BY <1>1 DEF Table
<1> QED BY <1>2 DEF MeterTables

LEMMA MeterAdded ==
  ASSUME NEW n \in Nat, NEW ms \in MeterTables(n), NEW o \in Order(n)
  PROVE  meter_table_add(ms, o) \in MeterTables(n)
<1> DEFINE d == dpOf[o.at]
           t == [x \in DOMAIN ms[d] \cup {o.meter} |-> IF x = o.meter THEN o.rate ELSE ms[d][x]]
<1>1. CASE o.kind = "flow" \/ o.meter \in DOMAIN ms[d]
  <2>1. meter_table_add(ms, o) = ms
    BY <1>1 DEF meter_table_add
  <2> QED BY <2>1
<1>2. CASE ~(o.kind = "flow" \/ o.meter \in DOMAIN ms[d])
  <2>1. meter_table_add(ms, o) = [ms EXCEPT ![d] = t]
    BY <1>2 DEF meter_table_add
  <2>2. o.meter \in Below(n) /\ o.rate \in Nat
    BY <1>2 DEF Order, FlowOrder, MeterOrder
  <2>3. d \in Sw => t \in Table(n)
    <3>1. ASSUME d \in Sw PROVE t \in Table(n)
      <4>1. ms[d] \in Table(n)
        BY <3>1 DEF MeterTables
      <4>2. PICK D \in SUBSET Below(n) : ms[d] \in [D -> Nat]
        BY <4>1 DEF Table
      <4>3. t \in [D \cup {o.meter} -> Nat] /\ D \cup {o.meter} \in SUBSET Below(n)
        BY <2>2, <4>2
      <4> QED BY <4>3 DEF Table
    <3> QED BY <3>1
  <2> HIDE DEF d, t
  <2> QED BY <2>1, <2>3 DEF MeterTables
<1> QED BY <1>1, <1>2

TablesUnfold(ms, orders) ==
  ms = [n \in 0 .. Len(orders) |->
          IF n = 0 THEN meters ELSE meter_table_add(ms[n - 1], orders[n])]

LEMMA MetersAfter ==
  ASSUME NEW n \in Nat, meters \in MeterTables(n), NEW orders \in Seq(Order(n))
  PROVE  meters_after(orders) \in MeterTables(n)
<1> DEFINE A == MeterTables(n)
           N == Len(orders)
           g == [m \in 1 .. N |-> [a \in A |-> meter_table_add(a, orders[m])]]
           j == [m \in 1 .. N |-> m - 1]
<1>1. N \in Nat /\ \A m \in 1 .. N : orders[m] \in Order(n)
  OBVIOUS
<1>2. ASSUME NEW m \in 1 .. N, NEW a \in A PROVE meter_table_add(a, orders[m]) \in A
  BY <1>1, MeterAdded
<1>3. meters \in A
  OBVIOUS
<1> HIDE DEF A
<1>4. \A m \in 1 .. N : \A a \in A : g[m][a] \in A
  BY <1>2
<1>5. \A m \in 1 .. N : j[m] \in 0 .. m - 1
  BY <1>1
<1> HIDE DEF g, j, N
<1>6. PICK f : Solves(f, A, N, meters, j, g)
  BY <1>1, <1>3, <1>4, <1>5, RecursionSolved
<1>7. TablesUnfold(f, orders)
  <2>1. ASSUME NEW m \in 1 .. N PROVE f[m] = meter_table_add(f[m - 1], orders[m])
    <3>1. j[m] = m - 1 /\ m - 1 \in 0 .. N
      BY <1>1 DEF j
    <3>2. f[m - 1] \in A /\ f[m] = g[m][f[m - 1]]
      BY <1>6, <3>1 DEF Solves
    <3> QED BY <3>2 DEF g
  <2>2. f[0] = meters /\ DOMAIN f = 0 .. N /\ f = [m \in 0 .. N |-> f[m]]
    BY <1>6 DEF Solves
  <2>3. \A m \in 0 .. N : m = 0 \/ m \in 1 .. N
    BY <1>1
  <2>4. \A m \in 0 .. N : f[m] = IF m = 0 THEN meters ELSE meter_table_add(f[m - 1], orders[m])
    BY <2>1, <2>2, <2>3
  <2> QED BY <2>2, <2>4 DEF TablesUnfold, N
<1> DEFINE ms == CHOOSE ms : TablesUnfold(ms, orders)
<1>8. TablesUnfold(ms, orders)
  BY <1>7
<1>9. meters_after(orders) = ms[N]
  BY DEF meters_after, TablesUnfold, N
<1> HIDE DEF ms
<1>10. /\ ms[0] = meters
       /\ \A m \in 1 .. N : ms[m] = meter_table_add(ms[m - 1], orders[m])
  <2>1. ms[0] = meters
    BY <1>1, <1>8 DEF TablesUnfold, N
  <2>2. ASSUME NEW m \in 1 .. N PROVE ms[m] = meter_table_add(ms[m - 1], orders[m])
    <3>1. m \in 0 .. N /\ m # 0
      BY <1>1
    <3> QED BY <1>8, <3>1 DEF TablesUnfold, N
  <2> QED BY <2>1, <2>2
<1>11. ASSUME NEW m \in 0 .. N, \A i \in 0 .. m - 1 : ms[i] \in A PROVE ms[m] \in A
  <2>1. CASE m = 0
    BY <1>3, <1>10, <2>1
  <2>2. CASE m # 0
    <3>1. m - 1 \in 0 .. m - 1 /\ m \in 1 .. N
      BY <1>1, <2>2
    <3> QED BY <1>2, <1>10, <1>11, <3>1
  <2> QED BY <2>1, <2>2
<1>12. \A m \in 0 .. N : ms[m] \in A
  BY <1>1, <1>11, RecursionIn
<1> QED BY <1>1, <1>9, <1>12 DEF A

-----------------------------------------------------------------------------
(* Orders in which every rule through a meter has an order for it before.   *)
Backed(s) ==
  \A i \in DOMAIN s : s[i].kind = "meter" \/ s[i].meter = None
                      \/ \E j \in 1 .. i - 1 : OrdersMeter(s[j], s[i])

LEMMA BackedTogether ==
  ASSUME NEW S, NEW s \in Seq(S), NEW t \in Seq(S), Backed(s), Backed(t)
  PROVE  Backed(s \o t)
<1>1. PICK q : q = s \o t
  OBVIOUS
<1>2. /\ q \in Seq(S) /\ Len(q) = Len(s) + Len(t) /\ Len(s) \in Nat /\ Len(t) \in Nat
      /\ \A i \in 1 .. Len(s) + Len(t) : q[i] = IF i <= Len(s) THEN s[i] ELSE t[i - Len(s)]
  BY <1>1, ConcatProperties
<1>3. ASSUME NEW i \in DOMAIN q, q[i].kind # "meter", q[i].meter # None
      PROVE  \E j \in 1 .. i - 1 : OrdersMeter(q[j], q[i])
  <2>1. i \in 1 .. Len(s) + Len(t)
    BY <1>2
  <2>2. CASE i <= Len(s)
    <3>1. i \in DOMAIN s /\ q[i] = s[i]
      BY <1>2, <2>1, <2>2
    <3>2. PICK j \in 1 .. i - 1 : OrdersMeter(s[j], s[i])
      BY <1>3, <3>1 DEF Backed
    <3>3. q[j] = s[j]
      BY <1>2, <2>1, <2>2
    <3> QED BY <3>1, <3>2, <3>3
  <2>3. CASE ~(i <= Len(s))
    <3>1. PICK h \in 1 .. Len(t) : h = i - Len(s) /\ q[i] = t[h]
      <4>1. i - Len(s) \in 1 .. Len(t) /\ q[i] = t[i - Len(s)]
        BY <1>2, <2>1, <2>3
      <4> QED BY <4>1
    <3>2. PICK j \in 1 .. h - 1 : OrdersMeter(t[j], t[h])
      BY <1>3, <3>1 DEF Backed
    <3>3. j + Len(s) \in 1 .. i - 1 /\ q[j + Len(s)] = t[j]
      <4>1. j + Len(s) \in 1 .. Len(s) + Len(t) /\ ~(j + Len(s) <= Len(s))
            /\ (j + Len(s)) - Len(s) = j
        BY <1>2, <3>1
      <4>2. j + Len(s) \in 1 .. i - 1
        BY <1>2, <2>1, <3>1
      <4> QED BY <1>2, <4>1, <4>2
    <3> QED BY <3>1, <3>2, <3>3
  <2> QED BY <2>2, <2>3
<1> QED BY <1>1, <1>3 DEF Backed

(* The rules of a calculation, meters in front. *)
LEMMA BackedOrders ==
  ASSUME NEW L, NEW P, NEW c \in CalcSet(L, P), NEW s, s = rate_limited_orders(c)
  PROVE  Backed(s)
<1>1. PICK n \in Nat : c \in CalcRecord(n)
  BY DEF CalcSet
<1>2. PICK front \in Seq(Order(n)), orders \in Seq(Order(n)) :
        front = c.front /\ orders = c.orders /\ FrontBacked(front) /\ OrdersBacked(front, orders)
  <2>1. /\ c.front \in Seq(Order(n)) /\ c.orders \in Seq(FlowOrder(n))
        /\ FrontBacked(c.front) /\ OrdersBacked(c.front, c.orders)
    BY <1>1 DEF CalcSet, CalcRecord
  <2>2. c.orders \in Seq(Order(n))
    BY <2>1, SeqMono DEF Order
  <2> QED BY <2>1, <2>2
<1>3. s = front \o orders
  BY <1>2 DEF rate_limited_orders
<1>4. /\ Len(front) \in Nat /\ Len(orders) \in Nat
      /\ DOMAIN front = 1 .. Len(front) /\ DOMAIN orders = 1 .. Len(orders)
  OBVIOUS
<1>5. /\ s \in Seq(Order(n)) /\ Len(s) = Len(front) + Len(orders)
      /\ \A i \in 1 .. Len(front) + Len(orders) :
           s[i] = IF i <= Len(front) THEN front[i] ELSE orders[i - Len(front)]
  BY <1>3, ConcatProperties
<1> SUFFICES ASSUME NEW i \in DOMAIN s, s[i].kind # "meter", s[i].meter # None
             PROVE  \E j \in 1 .. i - 1 : OrdersMeter(s[j], s[i])
  BY DEF Backed
<1>6. i \in 1 .. Len(front) + Len(orders) /\ s[i] \in Order(n)
  BY <1>5
<1>7. Through(s[i])
  BY <1>6 DEF Through, Order, FlowOrder, MeterOrder
<1>8. CASE i <= Len(front)
  <2>1. i \in 1 .. Len(front) /\ s[i] = front[i]
    BY <1>4, <1>5, <1>6, <1>8
  <2>2. PICK j \in 1 .. i - 1 : OrdersMeter(front[j], front[i])
    BY <1>2, <1>4, <1>7, <2>1 DEF FrontBacked
  <2>3. j \in 1 .. Len(front) + Len(orders) /\ j <= Len(front)
    BY <1>4, <2>1
  <2>4. s[j] = front[j]
    BY <1>5, <2>3
  <2> QED BY <2>1, <2>2, <2>4
<1>9. CASE ~(i <= Len(front))
  <2>1. PICK h \in 1 .. Len(orders) : h = i - Len(front) /\ s[i] = orders[h]
    <3>1. s[i] = orders[i - Len(front)]
      BY <1>5, <1>6, <1>9
    <3>2. i - Len(front) \in 1 .. Len(orders)
      BY <1>4, <1>6, <1>9
    <3> QED BY <3>1, <3>2
  <2>2. PICK j \in 1 .. Len(front) : OrdersMeter(front[j], orders[h])
    BY <1>2, <1>4, <1>7, <2>1 DEF OrdersBacked
  <2>3. j \in 1 .. Len(front) + Len(orders) /\ j <= Len(front) /\ j \in 1 .. i - 1
    BY <1>4, <1>6, <1>9
  <2>4. s[j] = front[j]
    BY <1>5, <2>3
  <2> QED BY <2>1, <2>2, <2>3, <2>4
<1> QED BY <1>8, <1>9

-----------------------------------------------------------------------------
(* Recalculations for the keys fs, from the counter n on. *)
CalcAny(fs, n) ==
  {c \in CalcSet(Len(fs), {}) :
     c.meter_counter >= n /\ \A i \in 1 .. Len(fs) : c.flows[i].flow = fs[i].flow}
Recalculation(fs, n) ==
  {st \in [c : CalcAny(fs, n), orders : UNION {Seq(Order(m)) : m \in Nat}, G : [V -> Nat]] :
     /\ st.orders \in Seq(Order(st.c.meter_counter)) /\ Backed(st.orders)
     /\ st.c.raised = None => Fit(st.orders)}

(* A key with another path, and the orders for it. *)
Rerouted(old, p) ==
  Key(PathRecord(old.flow, old.sdn_node_req, old.transmitter, p),
              old.meter_id, old.current_bw)
OrdersFor(old, p) == flow_mods(orders_after_break(OF, old, Rerouted(old, p)))

LEMMA NewRecord ==
  ASSUME NEW n \in Nat, NEW old \in KeySet(n), NEW p \in Paths[old.flow]
  PROVE  /\ Rerouted(old, p) \in KeySet(n) /\ Rerouted(old, p).flow = old.flow
         /\ OrdersFor(old, p) \in Seq(FlowOrder(0))
         /\ Rerouted(old, p).state = "HAS_PATH" => OrdersFor(old, p) # <<>>
         /\ AllLinked(OrdersFor(old, p))
<1>1. PICK f, s, t, mi, bw : /\ f = old.flow /\ s = old.sdn_node_req /\ t = old.transmitter
                             /\ mi = old.meter_id /\ bw = old.current_bw
  OBVIOUS
<1>2. /\ f \in Flow /\ s \in V /\ s \in OF /\ t \in V /\ mi \in Nat \cup {None} /\ bw \in Nat
      /\ mi # None => mi < n
      /\ old.path \in Route
  BY <1>1 DEF KeySet
<1>3. PICK state : state = IF Len(p) > 1 THEN "HAS_PATH" ELSE "LEGACY"
  OBVIOUS
<1>4. p \in Paths[f] /\ p \in Route /\ p[1] \in OF
  BY <1>1, <1>2, PathIs
<1> DEFINE rec == [flow |-> f, sdn_node_req |-> s, transmitter |-> t, path |-> p, state |-> state,
                   meter_id |-> mi, current_bw |-> bw]
<1>5. rec = Rerouted(old, p)
  BY <1>1, <1>3 DEF Rerouted, Key, PathRecord, usable_path
<1>6. /\ rec.flow = f /\ rec.path = p /\ rec.sdn_node_req = s /\ rec.transmitter = t
      /\ rec.state = state
  OBVIOUS
<1>7. rec \in KeySet(n)
  BY <1>2, <1>3, <1>4 DEF KeySet, State
<1> HIDE DEF rec
<1> DEFINE rules == orders_after_break(OF, old, rec)
<1>8. /\ get_orders_for_path(OF, rec) \in Seq(RuleSet)
      /\ Len(rec.path) > 1 /\ rec.path[1] \in OF
              => /\ get_orders_for_path(OF, rec) # <<>>
                 /\ get_orders_for_path(OF, rec)[1].at = rec.path[1]
      /\ Chained(get_orders_for_path(OF, rec), OF)
  BY <1>2, <1>4, <1>6, OrdersForPath, NoneIsNoPort
<1>9. /\ get_legacy_orders_for_path(OF, old) \in Seq(RuleSet)
      /\ Chained(get_legacy_orders_for_path(OF, old), OF)
  BY <1>1, <1>2, LegacyOrders, NoneIsNoPort
<1>10. rules \in Seq(RuleSet) /\ Chained(rules, OF)
  BY <1>8, <1>9 DEF orders_after_break
<1>11. state = "HAS_PATH" => rules # <<>>
  <2>1. ASSUME state = "HAS_PATH" PROVE rules # <<>>
    <3>1. Len(rec.path) > 1 /\ rec.path[1] \in OF
      BY <1>3, <1>4, <1>6, <2>1
    <3> QED BY <1>8, <3>1 DEF orders_after_break, usable_path
  <2> QED BY <2>1
<1> HIDE DEF rules
<1>12. /\ flow_mods(rules) \in Seq(FlowOrder(0))
       /\ Len(flow_mods(rules)) = Len(rules)
       /\ AllLinked(flow_mods(rules))
  BY <1>10, FlowMods, FlowModsLinked
<1>13. state = "HAS_PATH" => flow_mods(rules) # <<>>
  <2>1. rules # <<>> => Len(rules) # 0
    BY <1>10
  <2> QED BY <1>11, <1>12, <2>1
<1> QED BY <1>1, <1>5, <1>6, <1>7, <1>12, <1>13 DEF rules, OrdersFor

LEMMA AfterBreak ==
  ASSUME NEW n \in Nat, NEW fs, NEW st \in Recalculation(fs, n),
         NEW k \in 1 .. Len(fs), NEW p \in Paths[fs[k].flow], Len(fs) \in Nat
  PROVE  get_path_calculation_after_break(st, k, p) \in Recalculation(fs, n)
<1>1. PICK c, os, G : c = st.c /\ os = st.orders /\ G = st.G
  OBVIOUS
<1>2. /\ c \in CalcAny(fs, n) /\ os \in Seq(Order(c.meter_counter)) /\ G \in [V -> Nat]
      /\ Backed(os) /\ (c.raised = None => Fit(os))
  BY <1>1 DEF Recalculation
<1>3. /\ c \in CalcSet(Len(fs), {}) /\ c.meter_counter >= n
      /\ \A i \in 1 .. Len(fs) : c.flows[i].flow = fs[i].flow
  BY <1>2 DEF CalcAny
<1>4. PICK x \in Nat : x = c.meter_counter /\ c.flows \in Seq(KeySet(x)) /\ Len(c.flows) = Len(fs)
  BY <1>3, CalcIs
<1>5. PICK old \in KeySet(x) : old = c.flows[k] /\ p \in Paths[old.flow] /\ old.flow = fs[k].flow
  BY <1>3, <1>4
<1>6. PICK rec \in KeySet(x), rules \in Seq(FlowOrder(0)) :
        /\ rec = Rerouted(old, p) /\ rules = OrdersFor(old, p) /\ rec.flow = old.flow
        /\ rec.state = "HAS_PATH" => rules # <<>>
        /\ AllLinked(rules)
  <2>1. /\ Rerouted(old, p) \in KeySet(x) /\ Rerouted(old, p).flow = old.flow
        /\ OrdersFor(old, p) \in Seq(FlowOrder(0))
        /\ Rerouted(old, p).state = "HAS_PATH" => OrdersFor(old, p) # <<>>
        /\ AllLinked(OrdersFor(old, p))
    BY <1>5, NewRecord
  <2> QED BY <2>1
<1> DEFINE q == [c.flows EXCEPT ![k] = rec]
           c1 == IF c.raised # None THEN c
                 ELSE update_orders_rate_limiter(Calculation(q, x, rules), k, G)
           G1 == IF usable_path(p)
                 THEN update_node_avbw_for_flow(G, Range(p), get_dataRate(c1.flows[k]))
                 ELSE G
<1>7. get_path_calculation_after_break(st, k, p)
        = [c |-> c1, orders |-> os \o rate_limited_orders(c1), G |-> G1]
  BY <1>1, <1>4, <1>5, <1>6 DEF get_path_calculation_after_break, Rerouted, OrdersFor
<1>8. /\ q \in Seq(KeySet(x)) /\ Len(q) = Len(fs) /\ q[k] = rec
      /\ \A i \in 1 .. Len(fs) : q[i].flow = fs[i].flow
  <2>1. q \in Seq(KeySet(x)) /\ Len(q) = Len(fs) /\ q[k] = rec
    BY <1>4
  <2>2. ASSUME NEW i \in 1 .. Len(fs) PROVE q[i].flow = fs[i].flow
    <3>1. i # k => q[i] = c.flows[i]
      BY <1>4
    <3> HIDE DEF q
    <3> QED BY <1>3, <1>5, <1>6, <2>1, <3>1
  <2> QED BY <2>1, <2>2
<1> HIDE DEF q
<1>9. /\ c1 \in CalcAny(fs, n) /\ c1.meter_counter >= x
      /\ c1.raised = None => c.raised = None /\ Fit(rate_limited_orders(c1))
  <2>1. CASE c.raised # None
    <3>1. c1 = c
      BY <2>1
    <3> HIDE DEF c1
    <3> QED BY <1>2, <1>4, <2>1, <3>1
  <2>2. CASE c.raised = None
    <3>1. c1 = update_orders_rate_limiter(Calculation(q, x, rules), k, G)
      BY <2>2
    <3> HIDE DEF c1
    <3>2. c1 \in CalcFrom(q, x) /\ Kept(c1, rules)
      <4>1. k \in 1 .. Len(q) /\ (q[k].state = "HAS_PATH" => rules # <<>>)
        BY <1>6, <1>8
      <4>2. /\ update_orders_rate_limiter(Calculation(q, x, rules), k, G) \in CalcFrom(q, x)
            /\ Kept(update_orders_rate_limiter(Calculation(q, x, rules), k, G), rules)
        BY <1>2, <1>8, <4>1, Calculated
      <4> QED BY <3>1, <4>2
    <3>3. /\ c1 \in CalcSet(Len(fs), {}) /\ c1.meter_counter >= x
          /\ \A i \in 1 .. Len(fs) : c1.flows[i].flow = fs[i].flow
      BY <1>8, <3>2 DEF CalcFrom, CalcSet
    <3>4. c1.meter_counter \in Nat
      BY <3>3, CalcIs
    <3>5. c1.meter_counter >= n
      BY <1>3, <1>4, <3>3, <3>4
    <3>6. Fit(rate_limited_orders(c1))
      BY <1>6, <3>2, <3>3, KeptFits
    <3> QED BY <2>2, <3>3, <3>5, <3>6 DEF CalcAny
  <2> QED BY <2>1, <2>2
<1> HIDE DEF c1
<1>10. PICK y \in Nat : /\ y = c1.meter_counter /\ y >= x /\ c1.flows \in Seq(KeySet(y))
                        /\ Len(c1.flows) = Len(fs)
                        /\ rate_limited_orders(c1) \in Seq(Order(y))
  <2>1. c1 \in CalcSet(Len(fs), {})
    BY <1>9 DEF CalcAny
  <2> QED BY <1>9, <2>1, CalcIs
<1>11. /\ os \o rate_limited_orders(c1) \in Seq(Order(y)) /\ Backed(os \o rate_limited_orders(c1))
       /\ c1.raised = None => Fit(os \o rate_limited_orders(c1))
  <2>1. os \in Seq(Order(y))
    BY <1>2, <1>4, <1>10, Monotone, SeqMono
  <2>2. PICK r \in Seq(Order(y)) : r = rate_limited_orders(c1)
    BY <1>10
  <2>3. os \o r \in Seq(Order(y))
    BY <2>1, ConcatProperties
  <2>4. Backed(r)
    BY <1>9, <2>2, BackedOrders DEF CalcAny
  <2>5. Backed(os \o r)
    BY <1>2, <2>1, <2>4, BackedTogether
  <2>6. ASSUME c1.raised = None PROVE Fit(os \o r)
    <3>1. Fit(os) /\ Fit(r)
      BY <1>2, <1>9, <2>2, <2>6
    <3> QED BY <2>1, <3>1, FitTogether
  <2> QED BY <2>2, <2>3, <2>5, <2>6
<1>12. G1 \in [V -> Nat]
  <2>1. c1.flows[k] \in KeySet(y)
    BY <1>10
  <2>2. PICK bw \in Nat : bw = get_dataRate(c1.flows[k])
    BY <2>1, DataRate
  <2>3. PICK vs : vs = Range(p)
    OBVIOUS
  <2>4. update_node_avbw_for_flow(G, vs, bw) \in [V -> Nat]
    BY <1>2, Taken
  <2> QED BY <1>2, <2>2, <2>3, <2>4
<1> HIDE DEF G1
<1>13. PICK r : r = os \o rate_limited_orders(c1)
  OBVIOUS
<1>14. /\ r \in Seq(Order(y)) /\ r \in UNION {Seq(Order(m)) : m \in Nat} /\ Backed(r)
       /\ c1.raised = None => Fit(r)
  BY <1>11, <1>13
<1>15. [c |-> c1, orders |-> r, G |-> G1] \in Recalculation(fs, n)
  BY <1>9, <1>10, <1>12, <1>14 DEF Recalculation
<1> QED BY <1>7, <1>13, <1>15

RecalculationUnfolds(st, fs, keys, new, order) ==
  st = [n \in 0 .. Len(order) |->
          IF n = 0 THEN [c |-> Calculation(fs, meter_counter, <<>>), orders |-> <<>>,
                         G |-> get_graph_without_flows(keys)]
          ELSE get_path_calculation_after_break(st[n - 1], order[n], new[order[n]])]

LEMMA Recalculated ==
  ASSUME meter_counter \in Nat, flows \in Seq(KeySet(meter_counter)),
         NEW fs \in Seq(KeySet(meter_counter)),
         NEW keys, keys \subseteq 1 .. Len(fs), NEW new, \A k \in keys : new[k] \in Paths[fs[k].flow]
  PROVE  recalculated(fs, keys, new) \in Recalculation(fs, meter_counter)
<1>1. PICK n0 : n0 = meter_counter
  OBVIOUS
<1>2. n0 \in Nat /\ fs \in Seq(KeySet(n0)) /\ Len(fs) \in Nat
  BY <1>1
<1> DEFINE start == [c |-> Calculation(fs, meter_counter, <<>>), orders |-> <<>>,
                     G |-> get_graph_without_flows(keys)]
           before(j, k) == \/ Prio[fs[j].flow] < Prio[fs[k].flow]
                           \/ Prio[fs[j].flow] = Prio[fs[k].flow] /\ j < k
           order == sorted_keys(keys, Len(fs), [k \in keys |-> {j \in keys : before(k, j)}])
           A == Recalculation(fs, n0)
           N == Len(order)
           step(a, m) == get_path_calculation_after_break(a, order[m], new[order[m]])
           g == [m \in 1 .. N |-> [a \in A |-> step(a, m)]]
           j == [m \in 1 .. N |-> m - 1]
           s == CHOOSE s : RecalculationUnfolds(s, fs, keys, new, order)
<1>3. recalculated(fs, keys, new) = s[N]
  BY DEF recalculated, RecalculationUnfolds
<1>4. order \in Seq(keys)
  <2>1. PICK after : after = [k \in keys |-> {i \in keys : before(k, i)}]
    OBVIOUS
  <2>2. sorted_keys(keys, Len(fs), after) \in Seq(keys)
    BY <1>1, <1>2, SortedKeys
  <2> QED BY <1>1, <2>1, <2>2
<1> HIDE DEF order
<1>5. N \in Nat /\ \A m \in 1 .. N : order[m] \in keys
  BY <1>4
<1>6. ASSUME NEW m \in 1 .. N, NEW a \in A PROVE step(a, m) \in A
  <2>1. PICK k \in 1 .. Len(fs) : k = order[m] /\ new[k] \in Paths[fs[k].flow]
    BY <1>1, <1>5
  <2>2. PICK p \in Paths[fs[k].flow] : p = new[k]
    BY <2>1
  <2>3. get_path_calculation_after_break(a, k, p) \in Recalculation(fs, n0)
    BY <1>2, AfterBreak
  <2> QED BY <2>1, <2>2, <2>3
<1>7. start \in A
  <2>1. PICK c, G : /\ c = Calculation(fs, meter_counter, <<>>)
                    /\ G = get_graph_without_flows(keys)
    OBVIOUS
  <2>2. \A k \in {} : fs[k].state = "HAS_PATH"
    OBVIOUS
  <2>3. Calculation(fs, n0, <<>>) \in CalcSet(Len(fs), {})
    <3>1. <<>> \in Seq(FlowOrder(0))
      OBVIOUS
    <3> QED BY <1>2, <2>2, <3>1, CalcStart
  <2>4. c.flows = fs /\ c.meter_counter = n0 /\ c \in CalcSet(Len(fs), {})
    BY <1>1, <2>1, <2>3 DEF Calculation
  <2>5. c \in CalcAny(fs, n0)
    BY <1>2, <2>4 DEF CalcAny
  <2>6. G \in [V -> Nat]
    BY <2>1, WithoutFlows
  <2>7. <<>> \in Seq(Order(c.meter_counter)) /\ <<>> \in UNION {Seq(Order(m)) : m \in Nat}
        /\ Backed(<<>>) /\ Fit(<<>>)
    <3>1. <<>> \in Seq(Order(n0)) /\ <<>> \in Seq(Order(c.meter_counter))
      OBVIOUS
    <3>2. Backed(<<>>)
      BY DEF Backed
    <3>3. Fit(<<>>)
      BY DEF Fit, FitFrom
    <3> QED BY <1>2, <3>1, <3>2, <3>3
  <2>8. [c |-> c, orders |-> <<>>, G |-> G] \in Recalculation(fs, n0)
    BY <2>5, <2>6, <2>7 DEF Recalculation
  <2> QED BY <2>1, <2>8
<1>7a. start = [c |-> Calculation(fs, meter_counter, <<>>), orders |-> <<>>,
                G |-> get_graph_without_flows(keys)]
  OBVIOUS
<1> HIDE DEF A, start, N
<1>8. \A m \in 1 .. N : \A a \in A : g[m][a] \in A
  BY <1>6
<1>9. \A m \in 1 .. N : j[m] \in 0 .. m - 1
  BY <1>5
<1> HIDE DEF g, j
<1>10. PICK f : Solves(f, A, N, start, j, g)
  BY <1>5, <1>7, <1>8, <1>9, RecursionSolved
<1>11. RecalculationUnfolds(f, fs, keys, new, order)
  <2>1. ASSUME NEW m \in 1 .. N PROVE f[m] = step(f[m - 1], m)
    <3>1. j[m] = m - 1 /\ m - 1 \in 0 .. N
      BY <1>5 DEF j
    <3>2. f[m - 1] \in A /\ f[m] = g[m][f[m - 1]]
      BY <1>10, <3>1 DEF Solves
    <3> QED BY <3>2 DEF g
  <2>2. f[0] = start /\ DOMAIN f = 0 .. N /\ f = [m \in 0 .. N |-> f[m]]
    BY <1>10 DEF Solves
  <2>3. \A m \in 0 .. N : m = 0 \/ m \in 1 .. N
    BY <1>5
  <2>4. \A m \in 0 .. N : f[m] = IF m = 0 THEN start ELSE step(f[m - 1], m)
    BY <2>1, <2>2, <2>3
  <2> QED BY <1>7a, <2>2, <2>4 DEF RecalculationUnfolds, N
<1>12. RecalculationUnfolds(s, fs, keys, new, order)
  BY <1>11
<1> HIDE DEF s
<1>13. /\ s[0] = start
       /\ \A m \in 1 .. N : s[m] = step(s[m - 1], m)
  <2>1. s[0] = start
    BY <1>5, <1>12 DEF RecalculationUnfolds, N, start
  <2>2. ASSUME NEW m \in 1 .. N PROVE s[m] = step(s[m - 1], m)
    <3>1. m \in 0 .. N /\ m # 0
      BY <1>5
    <3> QED BY <1>12, <3>1 DEF RecalculationUnfolds, N
  <2> QED BY <2>1, <2>2
<1> HIDE DEF step
<1>14. ASSUME NEW m \in 0 .. N, \A i \in 0 .. m - 1 : s[i] \in A PROVE s[m] \in A
  <2>1. CASE m = 0
    BY <1>7, <1>13, <2>1
  <2>2. CASE m # 0
    <3>1. m - 1 \in 0 .. m - 1 /\ m \in 1 .. N
      BY <1>5, <2>2
    <3>2. PICK a \in A : a = s[m - 1]
      BY <1>14, <3>1
    <3>3. step(a, m) \in A
      BY <1>6, <3>1
    <3> QED BY <1>13, <3>1, <3>2, <3>3
  <2> QED BY <2>1, <2>2
<1>15. \A m \in 0 .. N : s[m] \in A
  BY <1>5, <1>14, RecursionIn
<1>16. s[N] \in A
  BY <1>5, <1>15
<1> QED BY <1>1, <1>3, <1>16 DEF A

-----------------------------------------------------------------------------
(* The invariant: numbers of meters, in keys and in switches, are below the *)
(* counter.                                                                 *)
LimiterInv ==
  /\ meter_counter \in Nat /\ flows \in Seq(KeySet(meter_counter))
  /\ avbw \in [V -> Nat] /\ meters \in MeterTables(meter_counter)

LEMMA Removed ==
  ASSUME NEW S, NEW s \in Seq(S), NEW i \in 1 .. Len(s)
  PROVE  RemoveAt(s, i) \in Seq(S)
<1>1. SubSeq(s, 1, i - 1) \in Seq(S) /\ SubSeq(s, i + 1, Len(s)) \in Seq(S)
  OBVIOUS
<1> QED BY <1>1, ConcatProperties DEF RemoveAt

(* The calculation of a packet-in of flow f that gets path p. *)
NewKeys(fs, f, p) == Append(fs, FlowKey(f, p))
RulesOf(f, p) == flow_mods(get_orders_for_path(OF, FlowKey(f, p)))
Answer(fs, f, p) ==
  update_orders_rate_limiter(
    Calculation(NewKeys(fs, f, p), meter_counter, RulesOf(f, p)), Len(fs) + 1, avbw)

LEMMA NewKey ==
  ASSUME NEW n \in Nat, NEW fs \in Seq(KeySet(n)),
         NEW f \in Flow, NEW p \in Paths[f]
  PROVE  /\ NewKeys(fs, f, p) \in Seq(KeySet(n)) /\ Len(NewKeys(fs, f, p)) = Len(fs) + 1
         /\ RulesOf(f, p) \in Seq(FlowOrder(0))
         /\ NewKeys(fs, f, p)[Len(fs) + 1] = FlowKey(f, p)
         /\ FlowKey(f, p).state = "HAS_PATH" => RulesOf(f, p) # <<>>
         /\ AllLinked(RulesOf(f, p))
         /\ FlowKey(f, p).flow = f /\ FlowKey(f, p).meter_id = None
         /\ \A i \in 1 .. Len(fs) : NewKeys(fs, f, p)[i] = fs[i]
<1>1. p \in Route /\ p[1] \in OF /\ p[1] \in V
  BY PathIs
<1>2. Trans[f] \in V
  BY RateLimiterAssumption
<1>3. PICK t, u, state : t = Trans[f] /\ u = p[1] /\ state = IF Len(p) > 1 THEN "HAS_PATH" ELSE "LEGACY"
  OBVIOUS
<1> DEFINE rec == [flow |-> f, sdn_node_req |-> u, transmitter |-> t, path |-> p, state |-> state,
                   meter_id |-> None, current_bw |-> 0]
<1>4. rec = FlowKey(f, p)
  BY <1>3 DEF FlowKey, Key, PathRecord, usable_path
<1>5. /\ rec.flow = f /\ rec.path = p /\ rec.sdn_node_req = u /\ rec.transmitter = t
      /\ rec.state = state /\ rec.meter_id = None
  OBVIOUS
<1>6. rec \in KeySet(n)
  BY <1>1, <1>2, <1>3 DEF KeySet, State
<1> HIDE DEF rec
<1>7. /\ get_orders_for_path(OF, rec) \in Seq(RuleSet)
      /\ Len(rec.path) > 1 /\ rec.path[1] \in OF
              => /\ get_orders_for_path(OF, rec) # <<>>
                 /\ get_orders_for_path(OF, rec)[1].at = rec.path[1]
      /\ Chained(get_orders_for_path(OF, rec), OF)
  BY <1>1, <1>2, <1>3, <1>5, OrdersForPath, NoneIsNoPort
<1>8. PICK rules \in Seq(RuleSet) : /\ rules = get_orders_for_path(OF, rec) /\ Chained(rules, OF)
                                    /\ state = "HAS_PATH" => rules # <<>>
  BY <1>1, <1>3, <1>5, <1>7
<1>9. /\ flow_mods(rules) \in Seq(FlowOrder(0))
      /\ Len(flow_mods(rules)) = Len(rules)
      /\ AllLinked(flow_mods(rules))
  BY <1>8, FlowMods, FlowModsLinked
<1>10. RulesOf(f, p) = flow_mods(rules)
  BY <1>4, <1>8 DEF RulesOf
<1>11. state = "HAS_PATH" => RulesOf(f, p) # <<>>
  <2>1. rules # <<>> => Len(rules) # 0
    OBVIOUS
  <2> QED BY <1>8, <1>9, <1>10, <2>1
<1>12. NewKeys(fs, f, p) = Append(fs, rec)
  BY <1>4 DEF NewKeys
<1>13. /\ Append(fs, rec) \in Seq(KeySet(n)) /\ Len(Append(fs, rec)) = Len(fs) + 1
       /\ Append(fs, rec)[Len(fs) + 1] = rec
       /\ \A i \in 1 .. Len(fs) : Append(fs, rec)[i] = fs[i]
  BY <1>6
<1> QED BY <1>4, <1>5, <1>9, <1>10, <1>11, <1>12, <1>13

LEMMA AnswerIs ==
  ASSUME LimiterInv, NEW fs \in Seq(KeySet(meter_counter)),
         NEW f \in Flow, NEW p \in Paths[f]
  PROVE  /\ Answer(fs, f, p) \in CalcFrom(NewKeys(fs, f, p), meter_counter)
         /\ Fit(rate_limited_orders(Answer(fs, f, p)))
<1>1. PICK n \in Nat, G \in [V -> Nat] : n = meter_counter /\ G = avbw
  BY DEF LimiterInv
<1>2. PICK q, rules, me : q = NewKeys(fs, f, p) /\ rules = RulesOf(f, p) /\ me = Len(fs) + 1
  OBVIOUS
<1>3. fs \in Seq(KeySet(n)) /\ Len(fs) \in Nat
  BY <1>1
<1>4. /\ q \in Seq(KeySet(n)) /\ Len(q) = me /\ rules \in Seq(FlowOrder(0))
      /\ q[me].state = "HAS_PATH" => rules # <<>>
      /\ AllLinked(rules)
  <2>1. /\ NewKeys(fs, f, p) \in Seq(KeySet(n)) /\ Len(NewKeys(fs, f, p)) = Len(fs) + 1
        /\ RulesOf(f, p) \in Seq(FlowOrder(0))
        /\ NewKeys(fs, f, p)[Len(fs) + 1] = FlowKey(f, p)
        /\ FlowKey(f, p).state = "HAS_PATH" => RulesOf(f, p) # <<>>
        /\ AllLinked(RulesOf(f, p))
    BY <1>3, NewKey
  <2> QED BY <1>2, <2>1
<1>5. me \in 1 .. Len(q)
  BY <1>2, <1>3, <1>4
<1>6. PICK c : c = update_orders_rate_limiter(Calculation(q, n, rules), me, G)
  OBVIOUS
<1>7. c \in CalcFrom(q, n) /\ Kept(c, rules)
  BY <1>4, <1>5, <1>6, Calculated
<1>8. Fit(rate_limited_orders(c))
  <2>1. PICK L, P : c \in CalcSet(L, P)
    BY <1>7 DEF CalcFrom
  <2> QED BY <1>4, <1>7, <2>1, KeptFits
<1> QED BY <1>1, <1>2, <1>6, <1>7, <1>8 DEF Answer

(* What a packet-in does. *)
Answered(f) ==
  \E fs \in Seq(KeySet(meter_counter)) : \E p \in Paths[f] :
    /\ \/ fs = flows
       \/ \E k \in 1 .. Len(flows) : fs = RemoveAt(flows, k)
    /\ ended' = Answer(fs, f, p).raised
    /\ flows' = Answer(fs, f, p).flows
    /\ meter_counter' = Answer(fs, f, p).meter_counter
    /\ sent' = rate_limited_orders(Answer(fs, f, p))
    /\ meters' = meters_after(rate_limited_orders(Answer(fs, f, p)))
    /\ avbw' = IF usable_path(p)
               THEN update_node_avbw_for_flow(avbw, OF \cap Range(p),
                      get_dataRate(Answer(fs, f, p).flows[Len(fs) + 1]))
               ELSE avbw

LEMMA PacketInAnswered ==
  ASSUME LimiterInv, NEW f \in Flow, process_packet_in(f)
  PROVE  Answered(f)
<1> DEFINE old == {k \in get_flow_key(f) : flows[k].state # "LEGACY"}
           fs == IF old = {} THEN flows ELSE RemoveAt(flows, CHOOSE k \in old : TRUE)
<1>1. path_calculation(fs, f)
  BY DEF process_packet_in
<1>2. old \subseteq 1 .. Len(flows)
  BY DEF LimiterInv, get_flow_key, KeysOf
<1> HIDE DEF old
<1>3. fs \in Seq(KeySet(meter_counter)) /\ (fs = flows \/ \E k \in 1 .. Len(flows) : fs = RemoveAt(flows, k))
  <2>1. CASE old = {}
    BY <2>1 DEF LimiterInv
  <2>2. CASE old # {}
    <3>1. PICK k \in 1 .. Len(flows) : k = CHOOSE j \in old : TRUE
      BY <1>2, <2>2
    <3>2. flows \in Seq(KeySet(meter_counter))
      BY DEF LimiterInv
    <3>3. RemoveAt(flows, k) \in Seq(KeySet(meter_counter))
      BY <3>2, Removed
    <3> QED BY <2>2, <3>1, <3>3
  <2> QED BY <2>1, <2>2
<1> HIDE DEF fs
<1>4. PICK p \in Paths[f] : answer(Answer(fs, f, p), Len(fs) + 1, p)
  BY <1>1 DEF path_calculation, Answer, NewKeys, RulesOf
<1> QED BY <1>3, <1>4 DEF Answered, answer, exit, execute

LEMMA PacketInStep ==
  ASSUME LimiterInv, NEW f \in Flow, Answered(f)
  PROVE  LimiterInv'
<1>1. PICK fs \in Seq(KeySet(meter_counter)), p \in Paths[f] :
        /\ flows' = Answer(fs, f, p).flows
        /\ meter_counter' = Answer(fs, f, p).meter_counter
        /\ meters' = meters_after(rate_limited_orders(Answer(fs, f, p)))
        /\ avbw' = IF usable_path(p)
                   THEN update_node_avbw_for_flow(avbw, OF \cap Range(p),
                          get_dataRate(Answer(fs, f, p).flows[Len(fs) + 1]))
                   ELSE avbw
  BY DEF Answered
<1>2. PICK c, os : c = Answer(fs, f, p) /\ os = rate_limited_orders(c)
  OBVIOUS
<1>3. PICK L, P : c \in CalcSet(L, P) /\ c.meter_counter >= meter_counter /\ L = Len(fs) + 1
  <2>1. PICK q, n : q = NewKeys(fs, f, p) /\ n = meter_counter
    OBVIOUS
  <2>2. c \in CalcFrom(q, n)
    BY <1>2, <2>1, AnswerIs
  <2>3. Len(q) = Len(fs) + 1
    BY <2>1 DEF NewKeys
  <2> QED BY <2>1, <2>2, <2>3 DEF CalcFrom
<1>4. PICK m \in Nat : /\ m = c.meter_counter /\ m >= meter_counter /\ c.flows \in Seq(KeySet(m))
                       /\ Len(c.flows) = Len(fs) + 1 /\ os \in Seq(Order(m))
  BY <1>2, <1>3, CalcIs
<1>5. meters_after(os) \in MeterTables(m)
  <2>1. meter_counter \in Nat /\ meters \in MeterTables(meter_counter)
    BY DEF LimiterInv
  <2>2. meters \in MeterTables(m)
    BY <1>4, <2>1, MoreTables
  <2> QED BY <1>4, <2>2, MetersAfter
<1>6. avbw' \in [V -> Nat]
  <2>1. avbw \in [V -> Nat]
    BY DEF LimiterInv
  <2>2. c.flows[Len(fs) + 1] \in KeySet(m)
    BY <1>4
  <2>3. PICK bw \in Nat : bw = get_dataRate(c.flows[Len(fs) + 1])
    BY <2>2, DataRate
  <2>4. PICK G, vs : G = avbw /\ vs = OF \cap Range(p)
    OBVIOUS
  <2>5. update_node_avbw_for_flow(G, vs, bw) \in [V -> Nat]
    BY <2>1, <2>4, Taken
  <2> QED BY <1>1, <1>2, <2>1, <2>3, <2>4, <2>5
<1>7. /\ meter_counter' = m /\ flows' \in Seq(KeySet(m)) /\ meters' \in MeterTables(m)
  BY <1>1, <1>2, <1>4, <1>5
<1> QED BY <1>6, <1>7 DEF LimiterInv, MeterTables

(* What a recalculation does. *)
Rearranged ==
  \E os \in Seq(Order(meter_counter')) :
    /\ Backed(os) /\ (ended' = None => Fit(os)) /\ meter_counter' \in Nat /\ meter_counter' >= meter_counter
    /\ flows' \in Seq(KeySet(meter_counter'))
    /\ sent' = serialize_OPF_rules(os) /\ meters' = meters_after(serialize_OPF_rules(os))

LEMMA RecalculationRearranges ==
  ASSUME LimiterInv, NEW fs \in Seq(KeySet(meter_counter)), NEW keys, keys \subseteq 1 .. Len(fs),
         recalculation_of(fs, keys)
  PROVE  Rearranged
<1>1. PICK new : /\ \A k \in keys : new[k] \in Paths[fs[k].flow]
                 /\ recalculation(recalculated(fs, keys, new))
  BY DEF recalculation_of
<1>2. PICK st : st = recalculated(fs, keys, new)
  OBVIOUS
<1>3. /\ flows' = st.c.flows /\ meter_counter' = st.c.meter_counter
      /\ sent' = serialize_OPF_rules(st.orders)
      /\ meters' = meters_after(serialize_OPF_rules(st.orders))
      /\ ended' = st.c.raised
  BY <1>1, <1>2 DEF recalculation, execute, exit
<1>4. meter_counter \in Nat /\ flows \in Seq(KeySet(meter_counter))
  BY DEF LimiterInv
<1>5. st \in Recalculation(fs, meter_counter)
  BY <1>1, <1>2, <1>4, Recalculated
<1>6. PICK c, os : c = st.c /\ os = st.orders
  OBVIOUS
<1>7. /\ c \in CalcSet(Len(fs), {}) /\ c.meter_counter >= meter_counter
      /\ os \in Seq(Order(c.meter_counter)) /\ Backed(os) /\ (c.raised = None => Fit(os))
  BY <1>5, <1>6 DEF Recalculation, CalcAny
<1>8. PICK m \in Nat : m = c.meter_counter /\ c.flows \in Seq(KeySet(m))
  BY <1>7, CalcIs
<1> QED BY <1>3, <1>6, <1>7, <1>8 DEF Rearranged

LEMMA RecalculationStep ==
  ASSUME LimiterInv, Rearranged
  PROVE  /\ meter_counter' \in Nat /\ flows' \in Seq(KeySet(meter_counter'))
         /\ meters' \in MeterTables(meter_counter')
<1>1. PICK m, os :
        /\ m \in Nat /\ os \in Seq(Order(m)) /\ m = meter_counter' /\ m >= meter_counter /\ flows' \in Seq(KeySet(m))
        /\ meters' = meters_after(serialize_OPF_rules(os))
  BY DEF Rearranged
<1>2. PICK r : r \in Seq(Order(m)) /\ r = serialize_OPF_rules(os)
  <2>1. PICK S, q : S = Order(m) /\ q = os /\ q \in Seq(S)
    BY <1>1
  <2>2. SubSeq(q, 2, Len(q)) \in Seq(S)
    BY <2>1
  <2> QED BY <2>1, <2>2 DEF serialize_OPF_rules
<1>3. meters \in MeterTables(m)
  <2>1. meter_counter \in Nat /\ meters \in MeterTables(meter_counter)
    BY DEF LimiterInv
  <2> QED BY <1>1, <2>1, MoreTables
<1>4. meters_after(r) \in MeterTables(m)
  BY <1>1, <1>2, <1>3, MetersAfter
<1>5. meters' \in MeterTables(m)
  BY <1>1, <1>2, <1>4
<1>6. meter_counter' \in Nat /\ flows' \in Seq(KeySet(meter_counter'))
  BY <1>1
<1> QED BY <1>1, <1>5, <1>6 DEF MeterTables

LEMMA MarkedKeys ==
  ASSUME NEW n \in Nat, flows \in Seq(KeySet(n)), NEW keys
  PROVE  marked_broken(keys) \in Seq(KeySet(n)) /\ Len(marked_broken(keys)) = Len(flows)
<1>1. PICK q : q = marked_broken(keys)
  OBVIOUS
<1>2. PICK ks \in Seq(KeySet(n)) : ks = flows
  OBVIOUS
<1> DEFINE broken(k) == [ks[k] EXCEPT !.state = "BROKEN"]
           marked(k) == IF k \in keys THEN broken(k) ELSE ks[k]
<1>3. ASSUME NEW k \in 1 .. Len(ks) PROVE marked(k) \in KeySet(n)
  <2>1. ks[k] \in KeySet(n)
    OBVIOUS
  <2>2. broken(k) \in KeySet(n)
    BY <2>1 DEF KeySet, State
  <2> QED BY <2>1, <2>2
<1>4. q = [k \in 1 .. Len(ks) |-> marked(k)]
  BY <1>1, <1>2 DEF marked_broken
<1> HIDE DEF marked
<1>5. q \in Seq(KeySet(n)) /\ Len(q) = Len(ks)
  BY <1>2, <1>3, <1>4
<1> QED BY <1>1, <1>2, <1>5

(* The report of a switch. *)
LEMMA ReportStep ==
  ASSUME LimiterInv, NEW d, NEW b, parse_experimenter_message(d, b)
  PROVE  \/ UNCHANGED <<flows, meter_counter, meters>> /\ sent' = <<>>
         \/ Rearranged
<1>1. PICK n \in Nat : n = meter_counter /\ flows \in Seq(KeySet(n)) /\ DOMAIN flows = 1 .. Len(flows)
  BY DEF LimiterInv
<1>2. ASSUME NEW keys \in SUBSET {k \in DOMAIN flows : flows[k].state = "HAS_PATH"},
             recalculation_of(marked_broken(keys), keys)
      PROVE  Rearranged
  <2>1. PICK fs : fs = marked_broken(keys)
    OBVIOUS
  <2>2. fs \in Seq(KeySet(meter_counter)) /\ keys \subseteq 1 .. Len(fs)
    BY <1>1, <2>1, MarkedKeys
  <2> QED BY <1>2, <2>1, <2>2, RecalculationRearranges
<1>3. ASSUME recalculation_of(flows, {k \in DOMAIN flows : Prio[flows[k].flow] <= RECALCULATION_LEVEL})
      PROVE  Rearranged
  <2>1. PICK fs, keys : /\ fs = flows
                        /\ keys = {k \in DOMAIN flows : Prio[flows[k].flow] <= RECALCULATION_LEVEL}
    OBVIOUS
  <2>2. fs \in Seq(KeySet(meter_counter)) /\ keys \subseteq 1 .. Len(fs)
    BY <1>1, <2>1
  <2>3. recalculation_of(fs, keys)
    BY <1>3, <2>1
  <2> QED BY <2>2, <2>3, RecalculationRearranges
<1> QED BY <1>2, <1>3 DEF parse_experimenter_message

LEMMA LimiterInitOK ==
  ASSUME LimiterInit
  PROVE  LimiterInv
<1>1. flows \in Seq(KeySet(meter_counter)) /\ avbw \in [V -> Nat] /\ meter_counter \in Nat
  BY RateLimiterAssumption DEF LimiterInit
<1>2. PICK t : t = [x \in {} |-> 0]
  OBVIOUS
<1>3. t \in [{} -> Nat] /\ {} \in SUBSET Below(meter_counter)
  BY <1>2
<1>4. t \in Table(meter_counter)
  BY <1>3 DEF Table
<1>5. meters = [d \in Sw |-> t]
  BY <1>2 DEF LimiterInit
<1>6. meters \in MeterTables(meter_counter)
  BY <1>4, <1>5 DEF MeterTables
<1> QED BY <1>1, <1>6 DEF LimiterInv

LEMMA LimiterStep ==
  ASSUME LimiterInv, [LimiterNext]_limiter_vars
  PROVE  LimiterInv'
<1>1. CASE UNCHANGED limiter_vars
  BY <1>1 DEF limiter_vars, LimiterInv, MeterTables
<1>2. ASSUME NEW f \in Flow, process_packet_in(f) PROVE LimiterInv'
  <2>1. Answered(f)
    BY <1>2, PacketInAnswered
  <2> QED BY <2>1, PacketInStep
<1>3. ASSUME NEW f \in Flow, del_key(f) PROVE LimiterInv'
  <2>1. PICK k \in 1 .. Len(flows) : flows' = RemoveAt(flows, k)
    BY <1>3 DEF del_key, get_flow_key, KeysOf, LimiterInv
  <2>2. flows' \in Seq(KeySet(meter_counter))
    BY <2>1, Removed DEF LimiterInv
  <2>3. UNCHANGED <<avbw, meter_counter, meters>>
    BY <1>3 DEF del_key
  <2> QED BY <2>2, <2>3 DEF LimiterInv, MeterTables
<1>4. ASSUME NEW d \in Sw, NEW b \in [{v \in OF : dpOf[v] = d} -> Avbw],
             parse_experimenter_message(d, b)
      PROVE  LimiterInv'
  <2>1. avbw' \in [V -> Nat]
    BY RateLimiterAssumption, <1>4 DEF parse_experimenter_message, LimiterInv
  <2>2. CASE UNCHANGED <<flows, meter_counter, meters>>
    BY <2>1, <2>2 DEF LimiterInv, MeterTables
  <2>3. CASE Rearranged
    <3>1. /\ meter_counter' \in Nat /\ flows' \in Seq(KeySet(meter_counter'))
          /\ meters' \in MeterTables(meter_counter')
      BY <2>3, RecalculationStep
    <3> QED BY <2>1, <3>1 DEF LimiterInv
  <2> QED BY <1>4, <2>2, <2>3, ReportStep
<1> QED BY <1>1, <1>2, <1>3, <1>4 DEF LimiterNext

(* Whatever flows come and go, and whatever the switches report: the keys   *)
(* have paths of theirs, available bandwidth never becomes negative, and    *)
(* the number of every meter that a key or a switch knows is below          *)
(* meter_counter.                                                           *)
THEOREM LimiterInvariant == LimiterSpec => []LimiterInv
<1>1. LimiterInit => LimiterInv
  BY LimiterInitOK
<1>2. LimiterInv /\ [LimiterNext]_limiter_vars => LimiterInv'
  BY LimiterStep
<1> QED BY <1>1, <1>2, PTL DEF LimiterSpec

(* update_orders_rate_limiter never numbers a new meter with a number in    *)
(* use: meter_mod of a new meter is never refused by meter_table_add.       *)
THEOREM MeterIdsAlwaysFresh == LimiterSpec => []MeterIdsFresh
<1>1. LimiterInv => MeterIdsFresh
  <2> SUFFICES ASSUME LimiterInv PROVE MeterIdsFresh
    OBVIOUS
  <2>1. ASSUME NEW d \in Sw PROVE meter_counter \notin DOMAIN meters[d]
    <3>1. meters[d] \in Table(meter_counter)
      BY DEF LimiterInv, MeterTables
    <3>2. DOMAIN meters[d] \subseteq Below(meter_counter)
      BY <3>1 DEF Table
    <3> QED BY <3>2 DEF Below, LimiterInv
  <2>2. ASSUME NEW k \in DOMAIN flows PROVE flows[k].meter_id # meter_counter
    <3>1. flows[k] \in KeySet(meter_counter) /\ meter_counter \in Nat
      BY DEF LimiterInv
    <3>2. None \notin Nat
      BY RateLimiterAssumption
    <3>3. flows[k].meter_id # None => flows[k].meter_id \in Nat /\ flows[k].meter_id < meter_counter
      BY <3>1 DEF KeySet
    <3> QED BY <3>1, <3>2, <3>3
  <2> QED BY <2>1, <2>2 DEF MeterIdsFresh
<1> QED BY <1>1, LimiterInvariant, PTL

(* Keys, bandwidths and rates are what the handlers expect of them. *)
THEOREM LimiterTypes == LimiterSpec => []LimiterTypeOK
<1>1. LimiterInv => LimiterTypeOK
  <2> SUFFICES ASSUME LimiterInv PROVE LimiterTypeOK
    OBVIOUS
  <2>1. ASSUME NEW d \in Sw, NEW x \in DOMAIN meters[d] PROVE meters[d][x] \in Nat
    <3>1. meters[d] \in Table(meter_counter)
      BY DEF LimiterInv, MeterTables
    <3> QED BY <3>1 DEF Table
  <2>2. ASSUME NEW k \in DOMAIN flows
        PROVE  /\ flows[k].flow \in Flow /\ flows[k].path \in Paths[flows[k].flow]
               /\ flows[k].meter_id # None => flows[k].meter_id \in Nat
               /\ flows[k].current_bw \in Nat
    <3>1. flows[k] \in KeySet(meter_counter)
      BY DEF LimiterInv
    <3> QED BY <3>1 DEF KeySet
  <2>3. avbw \in [V -> Nat]
    BY DEF LimiterInv
  <2> QED BY <2>1, <2>2, <2>3 DEF LimiterTypeOK
<1> QED BY <1>1, LimiterInvariant, PTL

(* Orders that fit from the first on are what RulesMeet asks for. *)
LEMMA FitMeets ==
  ASSUME NEW n \in Nat, NEW s \in Seq(Order(n)), FitFrom(s, 1),
         \A i \in DOMAIN s : s[i].kind = "flow" /\ s[i].meter = None,
         NEW i \in DOMAIN s
  PROVE  LET r == s[i].rule
         IN /\ r.at \in OF
            /\ r.out \in OF => \E j \in DOMAIN s : /\ s[j].rule.at = r.out
                                                  /\ s[j].rule.from = r.via
                                                  /\ s[j].rule.flow = r.flow
<1>1. DOMAIN s = 1 .. Len(s) /\ Len(s) \in Nat
  OBVIOUS
<1>2. Linked(s, i)
  BY <1>1 DEF FitFrom, Plain
<1>3. s[i].rule.out \in OF => i + 1 \in DOMAIN s /\ Meets(s[i].rule, s[i + 1].rule)
  BY <1>1, <1>2 DEF Linked
<1> QED BY <1>2, <1>3 DEF Linked, Meets

(* The rules of one answer fit together in every answer without a meter:    *)
(* get_orders leaves none out between two switches, a legacy record is      *)
(* handed back as a whole, and neither the answers of several flows joined  *)
(* by a recalculation nor the order serialize_OPF_rules loses part a rule   *)
(* from the one it forwards to.  Whatever the limiter does to the rules, it *)
(* leaves a meter among them that this loss does not take away.             *)
THEOREM RulesFit == LimiterSpec => []RulesMeet
<1>1. LimiterInit => RulesMeet
  BY DEF LimiterInit, RulesMeet
<1>2. ASSUME LimiterInv, RulesMeet, [LimiterNext]_limiter_vars PROVE RulesMeet'
  <2> SUFFICES ASSUME ended' = None PROVE RulesMeet'
    BY DEF RulesMeet
  <2>1. CASE UNCHANGED limiter_vars
    BY <1>2, <2>1 DEF limiter_vars, RulesMeet
  <2>2. CASE sent' = <<>>
    BY <2>2 DEF RulesMeet
  <2>3. ASSUME NEW n \in Nat, NEW s \in Seq(Order(n)), FitFrom(s, 1), sent' = s
        PROVE  RulesMeet'
    BY <2>3, FitMeets DEF RulesMeet
  <2>4. ASSUME NEW f \in Flow, process_packet_in(f) PROVE RulesMeet'
    <3>1. PICK fs \in Seq(KeySet(meter_counter)), p \in Paths[f] :
            sent' = rate_limited_orders(Answer(fs, f, p))
      BY <1>2, <2>4, PacketInAnswered DEF Answered
    <3>2. PICK c : /\ c = Answer(fs, f, p) /\ Fit(rate_limited_orders(c))
                   /\ c \in CalcFrom(NewKeys(fs, f, p), meter_counter)
      BY <1>2, AnswerIs
    <3>3. PICK L, P : c \in CalcSet(L, P)
      BY <3>2 DEF CalcFrom
    <3>4. PICK s, n : /\ s = rate_limited_orders(c) /\ n = c.meter_counter /\ n \in Nat
                      /\ s \in Seq(Order(n))
      BY <3>3, CalcIs
    <3> QED BY <2>3, <3>1, <3>2, <3>4 DEF Fit
  <2>5. CASE Rearranged
    <3>1. PICK n, os : /\ n \in Nat /\ os \in Seq(Order(n)) /\ Fit(os)
                       /\ sent' = serialize_OPF_rules(os)
      BY <2>5 DEF Rearranged
    <3>2. PICK s : s = serialize_OPF_rules(os) /\ s \in Seq(Order(n))
      <4>1. SubSeq(os, 2, Len(os)) \in Seq(Order(n))
        BY <3>1
      <4> QED BY <4>1 DEF serialize_OPF_rules
    <3>3. FitFrom(s, 1)
      BY <3>1, <3>2, FitRest
    <3> QED BY <2>3, <3>1, <3>2, <3>3
  <2>6. ASSUME NEW f \in Flow, del_key(f) PROVE RulesMeet'
    BY <2>2, <2>6 DEF del_key
  <2>7. ASSUME NEW d \in Sw, NEW b \in [{v \in OF : dpOf[v] = d} -> Avbw],
               parse_experimenter_message(d, b)
        PROVE  RulesMeet'
    BY <1>2, <2>2, <2>5, <2>7, ReportStep
  <2> QED BY <1>2, <2>1, <2>4, <2>6, <2>7 DEF LimiterNext
<1>3. LimiterInv /\ RulesMeet /\ [LimiterNext]_limiter_vars => RulesMeet'
  BY <1>2
<1> QED BY <1>1, <1>3, LimiterInvariant, PTL DEF LimiterSpec

(* Backed orders lack no meter, and what serialize_OPF_rules leaves of them *)
(* lacks at most the one of the first order.                                *)
LEMMA NoneMissing ==
  ASSUME NEW os, Backed(os)
  PROVE  missing(os) = {}
BY DEF missing, Backed, OrdersMeter

LEMMA OneMissing ==
  ASSUME NEW n \in Nat, NEW os \in Seq(Order(n)), Backed(os)
  PROVE  Cardinality(missing(serialize_OPF_rules(os))) <= 1
<1>1. PICK r, S : r \in Seq(Order(n)) /\ r = serialize_OPF_rules(os) /\ S = missing(r)
  <2>1. SubSeq(os, 2, Len(os)) \in Seq(Order(n))
    OBVIOUS
  <2> QED BY <2>1 DEF serialize_OPF_rules
<1>2. /\ \A i \in DOMAIN r : i \in Nat \ {0} /\ r[i] = os[i + 1] /\ i + 1 \in DOMAIN os
      /\ \A i \in 1 .. Len(r) : i \in DOMAIN r
  <2>1. r = SubSeq(os, 2, Len(os))
    BY <1>1 DEF serialize_OPF_rules
  <2> QED BY <2>1
<1>3. ASSUME NEW i \in DOMAIN r, r[i].kind = "flow", r[i].meter # None,
             ~ \E j \in 1 .. i - 1 : /\ r[j].kind = "meter" /\ r[j].meter = r[i].meter
                                    /\ dpOf[r[j].at] = dpOf[r[i].at]
      PROVE  r[i].meter = os[1].meter
  <2>1. PICK j \in 1 .. (i + 1) - 1 : OrdersMeter(os[j], os[i + 1])
    BY <1>2, <1>3 DEF Backed
  <2>2. CASE j = 1
    BY <1>2, <2>1, <2>2 DEF OrdersMeter
  <2>3. CASE j # 1
    <3>1. i \in Nat /\ i \in 1 .. Len(r)
      BY <1>2
    <3>2. j - 1 \in 1 .. i - 1 /\ j - 1 \in 1 .. Len(r) /\ (j - 1) + 1 = j
      BY <2>1, <2>3, <3>1
    <3>3. r[j - 1] = os[j] /\ r[i] = os[i + 1]
      BY <1>2, <3>2
    <3> QED BY <1>3, <2>1, <3>2, <3>3 DEF OrdersMeter
  <2> QED BY <2>2, <2>3
<1>4. S \subseteq {os[1].meter}
  BY <1>1, <1>3 DEF missing
<1>5. PICK x : S \subseteq {x}
  BY <1>4
<1>6. IsFiniteSet({x}) /\ Cardinality({x}) = 1
  BY FS_Singleton
<1>7. Cardinality(S) <= Cardinality({x}) /\ Cardinality(S) \in Nat
  BY <1>5, <1>6, FS_Subset, FS_CardinalityType
<1> QED BY <1>1, <1>6, <1>7

(* A rule that a packet-in installs and that leads through a meter follows  *)
(* the order that adds the meter to the same switch, also when the flow is  *)
(* limited itself and makes room at the cost of several others.  Of the     *)
(* orders of a recalculation, of any number of flows, at most one meter is  *)
(* lost with the first order (serialize_OPF_rules).                         *)
THEOREM MetersAlwaysPrecedeRules == LimiterSpec => MetersPrecedeRules
<1> DEFINE Precede ==
             \/ /\ Cardinality(missing(sent')) <= 1
                /\ (\E f \in Flow : process_packet_in(f)) => missing(sent') = {}
             \/ ended' # None
<1>1. LimiterInv /\ [LimiterNext]_limiter_vars => [Precede]_limiter_vars
  <2>1. Cardinality({}) <= 1
    BY FS_EmptySet
  <2>2. ASSUME LimiterInv, NEW f \in Flow, process_packet_in(f) PROVE missing(sent') = {}
    <3>1. Answered(f)
      BY <2>2, PacketInAnswered
    <3>2. PICK fs \in Seq(KeySet(meter_counter)), p \in Paths[f] :
            sent' = rate_limited_orders(Answer(fs, f, p))
      BY <3>1 DEF Answered
    <3>3. PICK c, L, P : c = Answer(fs, f, p) /\ c \in CalcSet(L, P)
      <4>1. Answer(fs, f, p) \in CalcFrom(NewKeys(fs, f, p), meter_counter)
        BY <2>2, AnswerIs
      <4> QED BY <4>1 DEF CalcFrom
    <3>4. PICK s : s = sent'
      OBVIOUS
    <3>5. missing(s) = {}
      BY <3>2, <3>3, <3>4, BackedOrders, NoneMissing
    <3> QED BY <3>4, <3>5
  <2>3. missing(<<>>) = {}
    BY NoneMissing DEF Backed
  <2>4. ASSUME LimiterInv, NEW d \in Sw, NEW b \in [{v \in OF : dpOf[v] = d} -> Avbw],
               parse_experimenter_message(d, b)
        PROVE  Cardinality(missing(sent')) <= 1
    <3>1. CASE sent' = <<>>
      BY <2>1, <2>3, <3>1
    <3>2. CASE Rearranged
      <4>1. PICK m, os : /\ m \in Nat /\ os \in Seq(Order(m)) /\ Backed(os)
                         /\ sent' = serialize_OPF_rules(os)
        BY <3>2 DEF Rearranged
      <4>2. PICK s : s = sent'
        OBVIOUS
      <4>3. Cardinality(missing(s)) <= 1
        BY <4>1, <4>2, OneMissing
      <4> QED BY <4>2, <4>3
    <3> QED BY <2>4, <3>1, <3>2, ReportStep
  <2>5. ASSUME NEW f \in Flow, del_key(f) PROVE missing(sent') = {}
    BY <2>3, <2>5 DEF del_key
  <2> SUFFICES ASSUME LimiterInv, LimiterNext, ended' = None
               PROVE  /\ Cardinality(missing(sent')) <= 1
                      /\ (\E f \in Flow : process_packet_in(f)) => missing(sent') = {}
    OBVIOUS
  <2>6. (\E f \in Flow : process_packet_in(f)) => missing(sent') = {}
    BY <2>2
  <2>7. Cardinality(missing(sent')) <= 1
    BY <2>1, <2>4, <2>5, <2>6 DEF LimiterNext
  <2> QED BY <2>6, <2>7
<1>2. LimiterSpec => [][LimiterNext]_limiter_vars
  BY DEF LimiterSpec
<1>3. MetersPrecedeRules <=> [][Precede]_limiter_vars
  BY DEF MetersPrecedeRules
<1> HIDE DEF Precede
<1> QED BY <1>1, <1>2, <1>3, LimiterInvariant, PTL
=============================================================================
