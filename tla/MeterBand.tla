----------------------------- MODULE MeterBand -----------------------------
(***************************************************************************)
(* One meter of a switch: a bucket of tokens per band, refilled by every   *)
(* DatapathTimeout of the switch and emptied by the packets of the rules   *)
(* that name the meter.  The controller orders meters with one band that   *)
(* drops, in kbit/s; the rate it writes is a number of bit/s divided by    *)
(* 1000, of which the switch's parser keeps the whole part.                *)
(*                                                                         *)
(* Times are in milliseconds, so a rate in kbit/s is one in bits per unit  *)
(* of time.  Rates stay below 2^32 bit/s, the width of the bandwidths in   *)
(* reports: the product with 1000 in refill_bucket does not wrap.  Bands   *)
(* that remark packets and the counters of the statistics are left out.    *)
(***************************************************************************)
EXTENDS Integers

CONSTANTS
  Band,      \* the bands of the meter
  Rate,      \* rates a meter-mod can ask for, in bit/s (packets: per 1000 s)
  Burst,     \* burst sizes, in units of 1000 tokens
  Size,      \* sizes of packets, in bits
  Flags,     \* flags of a meter-mod, sets of "KBPS", "PKTPS" and "BURST"
  Milli,     \* 1000
  Interval,  \* m_timeout of the switch, in ms
  MaxWindow  \* bound: length of the windows of time that are measured

ASSUME MeterAssumption ==
  /\ Rate \subseteq Nat /\ Burst \subseteq Nat /\ Size \subseteq Nat
  /\ Milli \in Nat \ {0} /\ Interval \in Nat \ {0} /\ MaxWindow \in Nat

VARIABLES
  flags,    \* flags of the meter
  rate,     \* rate of each band, as the switch has parsed it
  burst,    \* burst_size of each band
  tokens,   \* tokens of each band
  elapsed,  \* time since last_fill, which all bands share
  due,      \* time to the next DatapathTimeout
  passed,   \* history: tokens paid for packets let through in this window of time
  window,   \* history: age of that window
  last      \* history: what the last step was

config == <<flags, rate, burst>>
history == <<passed, window>>
vars == <<flags, rate, burst, tokens, elapsed, due, passed, window, last>>

(* parse32 reads the decimal text of rate / 1000 up to its point. *)
parse32(r) == r \div Milli

(* What the bucket of a band can hold. *)
capacity(b) == Milli * (IF "BURST" \in flags THEN burst[b] ELSE rate[b])

(* meter_entry_create: the buckets are empty. *)
meter_entry_create(r, bs) ==
  [rate |-> [b \in Band |-> parse32(r[b])], burst |-> bs, tokens |-> [b \in Band |-> 0]]

Init ==
  /\ flags \in Flags
  /\ \E r \in [Band -> Rate], bs \in [Band -> Burst] :
       LET e == meter_entry_create(r, bs)
       IN  rate = e.rate /\ burst = e.burst /\ tokens = e.tokens
  /\ elapsed = 0 /\ due \in 1..Interval
  /\ passed = 0 /\ window = 0 /\ last = "created"

(* meter_table_modify: a new entry in the place of the old one. *)
meter_table_modify ==
  /\ flags' \in Flags
  /\ \E r \in [Band -> Rate], bs \in [Band -> Burst] :
       LET e == meter_entry_create(r, bs)
       IN  rate' = e.rate /\ burst' = e.burst /\ tokens' = e.tokens
  /\ elapsed' = 0 /\ passed' = 0 /\ window' = 0 /\ last' = "created"
  /\ UNCHANGED due

(* consume_tokens for a packet of n bits.  A meter in neither unit affords  *)
(* nothing.                                                                 *)
price(n) == IF "KBPS" \in flags THEN n ELSE Milli
affords(b, n) == flags \cap {"KBPS", "PKTPS"} # {} /\ tokens[b] >= price(n)

(* Mutant: a band pays before it is asked whether it can. *)
consume_tokens_first(n) == [b \in Band |-> tokens[b] - price(n)]

(* Every band that can pays, whatever becomes of the packet. *)
consume_tokens(n) ==
  [b \in Band |-> IF affords(b, n) THEN tokens[b] - price(n) ELSE tokens[b]]

(* choose_band: a band of the highest rate among those that cannot pay and  *)
(* have a rate above 0; there may be none.                                  *)
choose_band(n) == {b \in Band : ~affords(b, n) /\ rate[b] > 0}

(* meter_entry_apply: the packet is dropped if some band is chosen. *)
meter_entry_apply(n) ==
  /\ tokens' = consume_tokens(n)
  /\ IF choose_band(n) = {}
     THEN passed' = passed + price(n) /\ last' = "passed"
     ELSE passed' = passed /\ last' = "dropped"
  /\ UNCHANGED <<config, elapsed, due, window>>

(* refill_bucket: a sum of less than one packet is not stored. *)
filled(b) == rate[b] * elapsed + tokens[b]

MIN(x, y) == IF x < y THEN x ELSE y

(* Mutant: nothing is added to a bucket that is not empty. *)
refill_bucket_dry ==
  [b \in Band |-> IF tokens[b] > 0 THEN tokens[b] ELSE MIN(filled(b), capacity(b))]

(* Mutant: the limit of the bucket is forgotten. *)
refill_bucket_over == [b \in Band |-> filled(b)]

refill_bucket ==
  [b \in Band |-> IF "KBPS" \in flags \/ filled(b) >= Milli
                  THEN MIN(filled(b), capacity(b)) ELSE tokens[b]]

(* DatapathTimeout, as far as meters go; it schedules itself again. *)
DatapathTimeout ==
  /\ due = 0
  /\ due' = Interval
  /\ tokens' = refill_bucket
  /\ elapsed' = 0 /\ last' = "time"
  /\ UNCHANGED <<config, history>>

(* A window of time may end at any moment; the next one begins with it. *)
NewWindow ==
  /\ window > 0
  /\ passed' = 0 /\ window' = 0 /\ last' = "time"
  /\ UNCHANGED <<config, tokens, elapsed, due>>

(* A millisecond passes; a window that has reached its bound ends. *)
Tick ==
  /\ due > 0
  /\ due' = due - 1 /\ elapsed' = elapsed + 1 /\ last' = "time"
  /\ IF window < MaxWindow
     THEN window' = window + 1 /\ passed' = passed
     ELSE window' = 0 /\ passed' = 0
  /\ UNCHANGED <<config, tokens>>

Next ==
  \/ meter_table_modify \/ DatapathTimeout \/ NewWindow \/ Tick
  \/ \E n \in Size : meter_entry_apply(n)

(* Time passes and the switch's timeout is an event of the simulator.  No  *)
(* packet has to come.                                                     *)
Spec == Init /\ [][Next]_vars /\ WF_vars(Tick) /\ WF_vars(DatapathTimeout)

-----------------------------------------------------------------------------
(* Every table has an entry for every band, and no bucket is overdrawn:    *)
(* tokens are unsigned in the code.                                        *)
TypeOK ==
  /\ flags \in Flags
  /\ rate \in [Band -> Nat] /\ burst \in [Band -> Nat] /\ tokens \in [Band -> Nat]
  /\ elapsed \in Nat /\ due \in 0..Interval
  /\ passed \in Nat /\ window \in 0..MaxWindow
  /\ last \in {"created", "time", "passed", "dropped"}

(* A packet can only pay with tokens of this window or with those the       *)
(* bucket held when it began: in every window of time, wherever it begins,  *)
(* the meter lets no more through than a full bucket and what the rate of   *)
(* each band gives in the window and in one interval of the timeout, the    *)
(* refill of which may come late.                                           *)
WindowBounded ==
  \A b \in Band :
    rate[b] > 0 => passed <= capacity(b) + rate[b] * (window + Interval)

(* A meter in kbit/s with one band whose bucket can hold a packet never     *)
(* shuts a flow out: while packets keep being dropped, packets also keep    *)
(* passing, unless the meter is changed again and again.  A meter in        *)
(* packets is not promised this: a refill of less than a packet is lost.    *)
Progress ==
  (<>[](last # "created" /\ "KBPS" \in flags) /\ []<>(last = "dropped"))
    => []<>(last = "passed")
=============================================================================
