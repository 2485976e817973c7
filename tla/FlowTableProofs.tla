--------------------------- MODULE FlowTableProofs ---------------------------
(***************************************************************************)
(* The flow table keeps its lists in agreement and in order, announces     *)
(* each removal once, leaves no meter with a freed entry, and its sweep    *)
(* leaves nothing that is over: for any matches, priorities, meters,       *)
(* timeouts and sizes of the table.                                        *)
(*                                                                         *)
(* For any flows, switches and outcomes: the rule a packet meets is the    *)
(* one the controller ordered last (NewestRuleWins of RuleLife), as long   *)
(* as priorities stay within their 16-bit field.                           *)
(***************************************************************************)
EXTENDS FlowTable, RuleLife, Integers, FiniteSetTheorems, SequenceTheorems,
        WellFoundedInduction, NaturalsInduction, TLAPS

-----------------------------------------------------------------------------
(* A list in the order of the weights w. *)
InOrder(s, w) == \A i, j \in DOMAIN s : i < j => w[s[i]] <= w[s[j]]

(* match_entries is in the order of priorities, highest first, and          *)
(* hard_entries in the order of expiry.                                     *)
Falling(es) == [i \in DOMAIN es |-> 0 - es[i].priority]
Expiry(es) == [i \in DOMAIN es |-> es[i].remove_at]

PriorityOrder == InOrder(match_entries, Falling(entry))
HardOrder == InOrder(hard_entries, Expiry(entry))

(* An entry knows the meters that refer to it, so it can be taken out. *)
RefsMutual ==
  \A x \in DOMAIN flow_refs : \A i \in flow_refs[x] : x \in entry[i].meter_refs

IInv ==
  /\ TypeOK /\ ListsAgree /\ PriorityOrder /\ HardOrder
  /\ NoDanglingRefs /\ RefsMutual /\ NoticedOnce

-----------------------------------------------------------------------------
(* Well-ordering of the naturals. *)
LEMMA Least ==
  ASSUME NEW T, T \subseteq Nat, T # {}
  PROVE  \E x \in T : \A y \in T : x <= y
PROOF
  <1> DEFINE R == OpToRel(<, Nat)
  <1>1. IsWellFoundedOn(R, Nat)
    BY NatLessThanWellFounded
  <1>2. \A i, j \in Nat : i < j => <<i, j>> \in R
    BY DEF OpToRel
  <1> HIDE DEF R
  <1>3. PICK x \in T : \A y \in T : ~ (<<y, x>> \in R)
    BY <1>1, WFMin
  <1>4. ASSUME NEW y \in T PROVE x <= y
    <2>1. x \in Nat /\ y \in Nat
      OBVIOUS
    <2>2. ~(y < x)
      BY <1>2, <1>3, <2>1
    <2>3. QED
      BY <2>1, <2>2
  <1>5. QED
    BY <1>4

(* What the recursive function inside Keep is: each of its values is that   *)
(* of Body, up to m.                                                        *)
Body(f, s, K, n) ==
  IF n = 0 THEN <<>> ELSE IF s[n] \in K THEN Append(f[n - 1], s[n]) ELSE f[n - 1]
Unfolds(f, s, K, m) == f = [n \in 0 .. m |-> Body(f, s, K, n)]

(* There is such a function, so the one that Keep chooses is one. *)
LEMMA Unfolding ==
  ASSUME NEW s, NEW K, NEW m \in Nat
  PROVE  \E f : Unfolds(f, s, K, m)
PROOF
  <1> DEFINE B == {n \in Nat : ~ \E f : Unfolds(f, s, K, n)}
  <1>1. SUFFICES ASSUME B # {} PROVE FALSE
    OBVIOUS
  <1>2. PICK x \in B : \A y \in B : x <= y
    BY <1>1, Least
  <1>3. x # 0
    <2>1. Unfolds([n \in 0 .. 0 |-> <<>>], s, K, 0)
      BY DEF Unfolds, Body
    <2>2. QED
      BY <2>1
  <1>4. x - 1 \in Nat /\ x - 1 \notin B
    BY <1>2, <1>3
  <1>5. PICK f : Unfolds(f, s, K, x - 1)
    BY <1>4
  <1> DEFINE g == [n \in 0 .. x |-> IF n = x THEN Body(f, s, K, x) ELSE f[n]]
  <1>6. ASSUME NEW n \in 0 .. x PROVE g[n] = Body(g, s, K, n)
    <2>1. CASE n = 0
      BY <2>1, <1>3, <1>4, <1>5 DEF Unfolds, Body
    <2>2. CASE n # 0
      <3>1. n - 1 \in 0 .. x - 1 /\ n - 1 # x
        BY <2>2, <1>4
      <3>2. g[n - 1] = f[n - 1]
        BY <3>1, <1>4
      <3>3. Body(g, s, K, n) = Body(f, s, K, n)
        BY <3>2 DEF Body
      <3>4. n # x => f[n] = Body(f, s, K, n)
        BY <1>4, <1>5 DEF Unfolds
      <3>5. QED
        BY <3>3, <3>4
    <2>3. QED
      BY <2>1, <2>2
  <1>7. Unfolds(g, s, K, x)
    BY <1>6 DEF Unfolds
  <1>8. QED
    BY <1>7

(* Keep is its last value. *)
LEMMA KeepUnfolds ==
  ASSUME NEW s, NEW K, Len(s) \in Nat
  PROVE  \E f : Unfolds(f, s, K, Len(s)) /\ Keep(s, K) = f[Len(s)]
PROOF
  <1> DEFINE f == CHOOSE f : Unfolds(f, s, K, Len(s))
  <1>1. Unfolds(f, s, K, Len(s))
    BY Unfolding
  <1>2. Keep(s, K) = f[Len(s)]
    BY DEF Keep, Unfolds, Body
  <1>3. QED
    BY <1>1, <1>2

(* r is the part of s[1], ..., s[m] that is in K, in order: h leads from    *)
(* the positions of r to those of s.                                        *)
Embeds(h, r, s, K, m) ==
  /\ h \in [1 .. Len(r) -> 1 .. m]
  /\ \A i, j \in 1 .. Len(r) : i < j => h[i] < h[j]
  /\ \A i \in 1 .. Len(r) : r[i] = s[h[i]] /\ r[i] \in K
  /\ \A k \in 1 .. m : s[k] \in K => \E i \in 1 .. Len(r) : h[i] = k

(* Keep has the members of K of a list, in its order. *)
LEMMA KeepEmbeds ==
  ASSUME NEW S, NEW s \in Seq(S), NEW K
  PROVE  /\ Keep(s, K) \in Seq(S)
         /\ \E h : Embeds(h, Keep(s, K), s, K, Len(s))
PROOF
  <1>1. Len(s) \in Nat
    BY LenProperties
  <1>2. PICK f : Unfolds(f, s, K, Len(s)) /\ Keep(s, K) = f[Len(s)]
    BY <1>1, KeepUnfolds
  <1> DEFINE Good(n) == f[n] \in Seq(S) /\ \E h : Embeds(h, f[n], s, K, n)
             B == {n \in 0 .. Len(s) : ~Good(n)}
  <1>3. SUFFICES ASSUME B # {} PROVE FALSE
    BY <1>1, <1>2
  <1>4. PICK x \in B : \A y \in B : x <= y
    <2>1. B \subseteq Nat
      BY <1>1
    <2> HIDE DEF B
    <2>2. QED
      BY <1>3, <2>1, Least
  <1>5. \A n \in 0 .. Len(s) : f[n] = Body(f, s, K, n)
    BY <1>2 DEF Unfolds
  <1>6. x # 0
    <2>1. f[0] = <<>>
      BY <1>1, <1>5 DEF Body
    <2>2. Embeds([i \in 1 .. 0 |-> 0], <<>>, s, K, 0)
      BY DEF Embeds
    <2>3. <<>> \in Seq(S)
      OBVIOUS
    <2>4. Good(0)
      BY <2>1, <2>2, <2>3
    <2>5. QED
      BY <2>4
  <1>7. x \in 1 .. Len(s) /\ x - 1 \in 0 .. Len(s) /\ x - 1 \notin B
    BY <1>1, <1>4, <1>6
  <1> DEFINE r == f[x - 1]
  <1>8. Good(x - 1)
    BY <1>7
  <1>9. PICK h : Embeds(h, r, s, K, x - 1)
    BY <1>8
  <1>10. r \in Seq(S) /\ Len(r) \in Nat
    BY <1>8, LenProperties
  <1>11. f[x] = IF s[x] \in K THEN Append(r, s[x]) ELSE r
    BY <1>5, <1>7 DEF Body
  <1>12. s[x] \in S
    BY <1>7, ElementOfSeq
  <1> HIDE DEF r
  <1>13. CASE s[x] \in K
    <2> DEFINE t == Append(r, s[x])
               g == [i \in 1 .. Len(t) |-> IF i = Len(t) THEN x ELSE h[i]]
    <2>1. t \in Seq(S) /\ Len(t) = Len(r) + 1 /\ t[Len(t)] = s[x]
          /\ \A i \in 1 .. Len(r) : t[i] = r[i]
      BY <1>10, <1>12, AppendProperties
    <2> HIDE DEF t
    <2>2. \A i \in 1 .. Len(r) : h[i] \in 1 .. x - 1 /\ i \in 1 .. Len(t) /\ g[i] = h[i]
      <3>1. \A i \in 1 .. Len(r) : h[i] \in 1 .. x - 1
        BY <1>9 DEF Embeds
      <3>2. \A i \in 1 .. Len(r) : i \in 1 .. Len(t) /\ i # Len(t)
        BY <1>10, <2>1
      <3>3. QED
        BY <3>1, <3>2
    <2>3. Len(t) \in 1 .. Len(t) /\ g[Len(t)] = x
      BY <1>10, <2>1
    <2>4. \A i \in 1 .. Len(t) : i = Len(t) \/ i \in 1 .. Len(r)
      BY <1>10, <2>1
    <2> HIDE DEF g
    <2>5. \A i \in 1 .. Len(t) : g[i] \in 1 .. x
      BY <1>7, <2>2, <2>3, <2>4
    <2>6. \A i, j \in 1 .. Len(t) : i < j => g[i] < g[j]
      <3> SUFFICES ASSUME NEW i \in 1 .. Len(t), NEW j \in 1 .. Len(t), i < j
                   PROVE  g[i] < g[j]
        OBVIOUS
      <3>1. i \in 1 .. Len(r)
        BY <1>10, <2>1
      <3>2. CASE j = Len(t)
        BY <1>7, <2>2, <2>3, <3>1, <3>2
      <3>3. CASE j \in 1 .. Len(r)
        BY <1>9, <2>2, <3>1, <3>3 DEF Embeds
      <3>4. QED
        BY <2>4, <3>2, <3>3
    <2>7. \A i \in 1 .. Len(t) : t[i] = s[g[i]] /\ t[i] \in K
      BY <1>9, <1>13, <2>1, <2>2, <2>3, <2>4 DEF Embeds
    <2>8. \A k \in 1 .. x : s[k] \in K => \E i \in 1 .. Len(t) : g[i] = k
      <3> SUFFICES ASSUME NEW k \in 1 .. x, s[k] \in K
                   PROVE  \E i \in 1 .. Len(t) : g[i] = k
        OBVIOUS
      <3>1. CASE k = x
        BY <2>3, <3>1
      <3>2. CASE k # x
        <4>1. k \in 1 .. x - 1
          BY <1>7, <3>2
        <4>2. QED
          BY <1>9, <2>2, <4>1 DEF Embeds
      <3>3. QED
        BY <3>1, <3>2
    <2>9. g \in [1 .. Len(t) -> 1 .. x]
      BY <2>5 DEF g
    <2>10. Embeds(g, t, s, K, x)
      BY <2>6, <2>7, <2>8, <2>9 DEF Embeds
    <2>11. f[x] = t
      BY <1>11, <1>13 DEF t
    <2>12. QED
      BY <2>1, <2>10, <2>11
  <1>14. CASE s[x] \notin K
    <2>1. Embeds(h, r, s, K, x)
      BY <1>7, <1>9, <1>14 DEF Embeds
    <2>2. QED
      BY <1>10, <1>11, <1>14, <2>1
  <1>15. QED
    BY <1>13, <1>14

(* What the proofs need of it. *)
LEMMA KeepFacts ==
  ASSUME NEW S, NEW s \in Seq(S), NEW K
  PROVE  /\ Keep(s, K) \in Seq(S)
         /\ Range(Keep(s, K)) = Range(s) \cap K
         /\ \A i, j \in DOMAIN Keep(s, K) : i < j =>
              \E a, b \in DOMAIN s : a < b /\ Keep(s, K)[i] = s[a] /\ Keep(s, K)[j] = s[b]
         /\ IsInjective(s) => IsInjective(Keep(s, K))
PROOF
  <1> DEFINE r == Keep(s, K)
  <1>1. r \in Seq(S)
    BY KeepEmbeds
  <1>2. PICK h : Embeds(h, r, s, K, Len(s))
    BY KeepEmbeds
  <1> HIDE DEF r
  <1>3. DOMAIN r = 1 .. Len(r) /\ DOMAIN s = 1 .. Len(s) /\ Len(r) \in Nat /\ Len(s) \in Nat
    BY <1>1, LenProperties
  <1>4. \A i \in DOMAIN r : h[i] \in DOMAIN s
    BY <1>2, <1>3 DEF Embeds
  <1>5. Range(r) = Range(s) \cap K
    <2>1. ASSUME NEW i \in DOMAIN r PROVE r[i] \in Range(s) \cap K
      BY <1>2, <1>3, <1>4 DEF Embeds, Range
    <2>2. ASSUME NEW k \in DOMAIN s, s[k] \in K PROVE \E i \in DOMAIN r : s[k] = r[i]
      BY <1>2, <1>3, <2>2 DEF Embeds
    <2>3. QED
      BY <2>1, <2>2 DEF Range
  <1>6. ASSUME NEW i \in DOMAIN r, NEW j \in DOMAIN r, i < j
        PROVE  \E a, b \in DOMAIN s : a < b /\ r[i] = s[a] /\ r[j] = s[b]
    BY <1>2, <1>3, <1>4, <1>6 DEF Embeds
  <1>7. ASSUME IsInjective(s) PROVE IsInjective(r)
    <2>1. SUFFICES ASSUME NEW i \in DOMAIN r, NEW j \in DOMAIN r, r[i] = r[j], i # j
                   PROVE  FALSE
      BY DEF IsInjective
    <2>2. h[i] = h[j]
      BY <1>2, <1>3, <1>4, <1>7, <2>1 DEF Embeds, IsInjective
    <2>3. i < j \/ j < i
      BY <1>3, <2>1
    <2>4. h[i] < h[j] \/ h[j] < h[i]
      BY <1>2, <1>3, <2>3 DEF Embeds
    <2>5. QED
      BY <1>3, <1>4, <2>2, <2>4
  <1>8. QED
    BY <1>1, <1>5, <1>6, <1>7 DEF r

(* Without takes the entries ids out of a list. *)
LEMMA WithoutFacts ==
  ASSUME NEW S, NEW s \in Seq(S), NEW ids
  PROVE  /\ Without(s, ids) \in Seq(S)
         /\ Range(Without(s, ids)) = Range(s) \ ids
         /\ \A i, j \in DOMAIN Without(s, ids) : i < j =>
              \E a, b \in DOMAIN s : /\ a < b
                                     /\ Without(s, ids)[i] = s[a]
                                     /\ Without(s, ids)[j] = s[b]
         /\ IsInjective(s) => IsInjective(Without(s, ids))
PROOF
  <1> DEFINE K == Range(s) \ ids
  <1>1. Range(s) \cap K = Range(s) \ ids
    OBVIOUS
  <1>2. Without(s, ids) = Keep(s, K)
    BY DEF Without
  <1> HIDE DEF K
  <1>3. QED
    BY <1>1, <1>2, KeepFacts

(* FirstIn stops at the first member of K, or behind the list. *)
LEMMA FirstInFacts ==
  ASSUME NEW S, NEW s \in Seq(S), NEW K
  PROVE  /\ FirstIn(s, K) \in 1 .. Len(s) + 1
         /\ \A i \in 1 .. FirstIn(s, K) - 1 : i \in DOMAIN s /\ s[i] \notin K
         /\ FirstIn(s, K) <= Len(s) => s[FirstIn(s, K)] \in K
PROOF
  <1> DEFINE T == {i \in DOMAIN s : s[i] \in K} \cup {Len(s) + 1}
             k == FirstIn(s, K)
  <1>1. DOMAIN s = 1 .. Len(s) /\ Len(s) \in Nat
    BY LenProperties
  <1>2. T \subseteq 1 .. Len(s) + 1 /\ T # {}
    BY <1>1
  <1>3. \E x \in T : \A y \in T : x <= y
    <2> HIDE DEF T
    <2>1. T \subseteq Nat
      BY <1>1, <1>2
    <2>2. QED
      BY <1>2, <2>1, Least
  <1>4. k \in T /\ \A y \in T : k <= y
    BY <1>3 DEF FirstIn, Min
  <1> HIDE DEF k
  <1>5. k \in 1 .. Len(s) + 1
    BY <1>2, <1>4
  <1>6. ASSUME NEW i \in 1 .. k - 1 PROVE i \in DOMAIN s /\ s[i] \notin K
    <2>1. i \in DOMAIN s /\ ~(k <= i)
      BY <1>1, <1>5
    <2>2. QED
      BY <1>4, <2>1
  <1>7. k <= Len(s) => s[k] \in K
    BY <1>1, <1>4
  <1>8. QED
    BY <1>5, <1>6, <1>7 DEF k

(* Where the members of a list are after an insertion. *)
Inserted(t, S, s, k, x) ==
  /\ t \in Seq(S) /\ Len(t) = Len(s) + 1
  /\ \A i \in 1 .. Len(s) + 1 : t[i] = IF i < k THEN s[i] ELSE IF i = k THEN x ELSE s[i - 1]

LEMMA InsertFacts ==
  ASSUME NEW S, NEW s \in Seq(S), NEW k \in 1 .. Len(s) + 1, NEW x \in S
  PROVE  Inserted(InsertAt(s, k, x), S, s, k, x)
PROOF
  <1> DEFINE a == SubSeq(s, 1, k - 1)
             b == SubSeq(s, k, Len(s))
             n == Len(s)
  <1>1. n \in Nat /\ k \in Nat
    BY LenProperties
  <1>2. a \in Seq(S) /\ Len(a) = k - 1 /\ \A i \in 1 .. k - 1 : a[i] = s[i]
    <2>1. \A i \in 1 .. k - 1 : i \in 1 .. n
      BY <1>1
    <2>2. a = [i \in 1 .. k - 1 |-> s[i]]
      BY <1>1, <2>1
    <2>3. \A i \in 1 .. k - 1 : s[i] \in S
      BY <2>1, ElementOfSeq
    <2>4. QED
      BY <1>1, <2>2, <2>3, IsASeq
  <1>3. b \in Seq(S) /\ Len(b) = n - k + 1 /\ \A i \in 1 .. n - k + 1 : b[i] = s[k + i - 1]
    <2>1. \A i \in 1 .. n - k + 1 : k + i - 1 \in 1 .. n
      BY <1>1
    <2>2. b = [i \in 1 .. n - k + 1 |-> s[k + i - 1]]
      BY <1>1, <2>1
    <2>3. \A i \in 1 .. n - k + 1 : s[k + i - 1] \in S
      BY <2>1, ElementOfSeq
    <2>4. n - k + 1 \in Nat
      BY <1>1
    <2> DEFINE m == n - k + 1
    <2>5. b = [i \in 1 .. m |-> s[k + i - 1]] /\ m \in Nat /\ \A i \in 1 .. m : s[k + i - 1] \in S
      BY <2>2, <2>3, <2>4
    <2> HIDE DEF m, b
    <2>6. b \in Seq(S) /\ Len(b) = m /\ \A i \in 1 .. m : b[i] = s[k + i - 1]
      BY <2>5, IsASeq
    <2>7. QED
      BY <2>6 DEF m
  <1> HIDE DEF a, b
  <1>4. <<x>> \in Seq(S) /\ Len(<<x>>) = 1 /\ <<x>>[1] = x
    OBVIOUS
  <1> DEFINE c == a \o <<x>>
  <1>5. c \in Seq(S) /\ Len(c) = k /\ \A i \in 1 .. k : c[i] = IF i < k THEN s[i] ELSE x
    <2>1. c \in Seq(S) /\ Len(c) = Len(a) + 1
          /\ \A i \in 1 .. Len(a) + 1 : c[i] = IF i <= Len(a) THEN a[i] ELSE <<x>>[i - Len(a)]
      BY <1>2, <1>4, ConcatProperties
    <2>2. Len(c) = k /\ \A i \in 1 .. k - 1 : c[i] = a[i]
      BY <1>1, <1>2, <2>1
    <2>3. c[k] = x
      <3>1. c[k] = <<x>>[k - Len(a)]
        BY <1>1, <1>2, <2>1
      <3>2. k - Len(a) = 1
        BY <1>1, <1>2
      <3> HIDE DEF a, c
      <3>3. QED
        BY <1>4, <3>1, <3>2
    <2> HIDE DEF c
    <2>4. ASSUME NEW i \in 1 .. k PROVE c[i] = IF i < k THEN s[i] ELSE x
      <3>1. CASE i < k
        BY <1>1, <1>2, <2>2, <3>1
      <3>2. CASE i = k
        BY <1>1, <2>3, <3>2
      <3>3. QED
        BY <1>1, <3>1, <3>2
    <2>5. QED
      BY <2>1, <2>2, <2>4
  <1> HIDE DEF c
  <1> DEFINE t == c \o b
  <1>6. t \in Seq(S) /\ Len(t) = n + 1
        /\ \A i \in 1 .. n + 1 : t[i] = IF i <= k THEN c[i] ELSE b[i - k]
    <2>1. Len(c) + Len(b) = n + 1 /\ Len(c) = k
      BY <1>1, <1>3, <1>5
    <2>2. c \in Seq(S) /\ b \in Seq(S)
      BY <1>3, <1>5
    <2>3. /\ t \in Seq(S) /\ Len(t) = Len(c) + Len(b)
          /\ \A i \in 1 .. Len(c) + Len(b) :
               t[i] = IF i <= Len(c) THEN c[i] ELSE b[i - Len(c)]
      BY <2>2, ConcatProperties
    <2> HIDE DEF t, n
    <2>4. QED
      BY <2>1, <2>3
  <1> HIDE DEF t
  <1>7. ASSUME NEW i \in 1 .. n + 1
        PROVE  t[i] = IF i < k THEN s[i] ELSE IF i = k THEN x ELSE s[i - 1]
    <2>1. CASE i <= k
      BY <1>1, <1>5, <1>6, <2>1
    <2>2. CASE i > k
      <3>1. i - k \in 1 .. n - k + 1 /\ k + (i - k) - 1 = i - 1
        BY <1>1, <2>2
      <3>2. t[i] = b[i - k]
        BY <1>1, <1>6, <2>2
      <3> DEFINE j == i - k
      <3>3. j \in 1 .. n - k + 1 /\ k + j - 1 = i - 1
        BY <3>1
      <3> HIDE DEF j
      <3>4. b[j] = s[i - 1]
        BY <1>3, <3>3
      <3>5. QED
        BY <1>1, <2>2, <3>2, <3>4 DEF j
    <2>3. QED
      BY <1>1, <2>1, <2>2
  <1>8. InsertAt(s, k, x) = t
    BY DEF InsertAt, t, c, a, b
  <1>9. Inserted(t, S, s, k, x)
    BY <1>6, <1>7 DEF Inserted
  <1>10. QED
    BY <1>8, <1>9

(* The members of a list after an insertion. *)
LEMMA InsertRange ==
  ASSUME NEW S, NEW s \in Seq(S), NEW k \in 1 .. Len(s) + 1, NEW x \in S, x \notin Range(s)
  PROVE  /\ Range(InsertAt(s, k, x)) = Range(s) \cup {x}
         /\ IsInjective(s) => IsInjective(InsertAt(s, k, x))
PROOF
  <1> DEFINE t == InsertAt(s, k, x)
  <1>1. Len(s) \in Nat /\ DOMAIN s = 1 .. Len(s) /\ k \in Nat
    BY LenProperties
  <1>2. t \in Seq(S) /\ Len(t) = Len(s) + 1
        /\ \A i \in 1 .. Len(s) + 1 :
             t[i] = IF i < k THEN s[i] ELSE IF i = k THEN x ELSE s[i - 1]
    <2>1. Inserted(t, S, s, k, x)
      BY InsertFacts
    <2> HIDE DEF t
    <2>2. QED
      BY <2>1 DEF Inserted
  <1> HIDE DEF t
  <1>3. DOMAIN t = 1 .. Len(s) + 1
    BY <1>2, LenProperties
  <1>4. ASSUME NEW i \in DOMAIN t PROVE t[i] \in Range(s) \cup {x}
    <2>1. CASE i < k
      BY <1>1, <1>2, <1>3, <2>1 DEF Range
    <2>2. CASE i > k
      <3>1. i - 1 \in DOMAIN s /\ t[i] = s[i - 1]
        BY <1>1, <1>2, <1>3, <2>2
      <3>2. QED
        BY <3>1 DEF Range
    <2>3. QED
      BY <1>1, <1>2, <1>3, <2>1, <2>2
  <1>5. x \in Range(t)
    BY <1>1, <1>2, <1>3 DEF Range
  <1>6. ASSUME NEW i \in DOMAIN s PROVE s[i] \in Range(t)
    <2>1. CASE i < k
      BY <1>1, <1>2, <1>3, <2>1 DEF Range
    <2>2. CASE i >= k
      <3>1. i + 1 \in DOMAIN t /\ i + 1 > k /\ (i + 1) - 1 = i
        BY <1>1, <1>3, <2>2
      <3> DEFINE j == i + 1
      <3>2. j \in DOMAIN t /\ j > k /\ j - 1 = i
        BY <3>1
      <3> HIDE DEF j
      <3>3. t[j] = s[i]
        BY <1>1, <1>2, <1>3, <3>2
      <3>4. QED
        BY <3>2, <3>3 DEF Range
    <2>3. QED
      BY <1>1, <2>1, <2>2
  <1>7. Range(t) = Range(s) \cup {x}
    BY <1>4, <1>5, <1>6 DEF Range
  <1>8. ASSUME IsInjective(s), NEW i \in DOMAIN t, NEW j \in DOMAIN t, t[i] = t[j], i < j
        PROVE  FALSE
    <2>1. \A l \in DOMAIN s : s[l] # x
      BY DEF Range
    <2>2. i < k => i \in DOMAIN s /\ t[i] = s[i]
      BY <1>1, <1>2, <1>3
    <2>3. i > k => i - 1 \in DOMAIN s /\ t[i] = s[i - 1]
      BY <1>1, <1>2, <1>3
    <2>4. j < k => j \in DOMAIN s /\ t[j] = s[j]
      BY <1>1, <1>2, <1>3
    <2>5. j > k => j - 1 \in DOMAIN s /\ t[j] = s[j - 1]
      BY <1>1, <1>2, <1>3
    <2>6. (i = k => t[i] = x) /\ (j = k => t[j] = x)
      BY <1>1, <1>2
    <2>7. \A l, m \in DOMAIN s : s[l] = s[m] => l = m
      BY <1>8 DEF IsInjective
    <2>8. i \in Nat /\ j \in Nat
      BY <1>3
    <2>9. CASE i = k \/ j = k
      BY <1>1, <1>8, <2>1, <2>2, <2>3, <2>4, <2>5, <2>6, <2>8, <2>9
    <2>10. CASE i < k /\ j > k
      <3>1. s[i] = s[j - 1] /\ i \in DOMAIN s /\ j - 1 \in DOMAIN s
        BY <1>8, <2>2, <2>5, <2>10
      <3>2. i = j - 1
        BY <2>7, <3>1
      <3>3. k \in Nat
        BY <1>1
      <3>4. QED
        BY <2>8, <2>10, <3>2, <3>3
    <2>11. CASE i < k /\ j < k
      <3>1. s[i] = s[j] /\ i \in DOMAIN s /\ j \in DOMAIN s
        BY <1>8, <2>2, <2>4, <2>11
      <3>2. i = j
        BY <2>7, <3>1
      <3>3. QED
        BY <1>8, <2>8, <3>2
    <2>12. CASE i > k /\ j > k
      BY <1>1, <1>8, <2>3, <2>5, <2>7, <2>8, <2>12
    <2>13. QED
      BY <1>1, <1>8, <2>8, <2>9, <2>10, <2>11, <2>12
  <1>9. ASSUME IsInjective(s) PROVE IsInjective(t)
    <2>1. \A i, j \in DOMAIN t : t[i] = t[j] => ~(i < j) /\ ~(j < i)
      BY <1>8, <1>9
    <2>2. \A i, j \in DOMAIN t : ~(i < j) /\ ~(j < i) => i = j
      BY <1>3
    <2>3. QED
      BY <2>1, <2>2 DEF IsInjective
  <1>10. QED
    BY <1>7, <1>9 DEF t

(* Inserting in front of the first heavier entry keeps a list in order. *)
LEMMA InsertInOrder ==
  ASSUME NEW S, NEW s \in Seq(S), NEW w \in [S -> Int], NEW x \in S, NEW K,
         InOrder(s, w), \A y \in Range(s) : y \in K <=> w[y] > w[x]
  PROVE  InOrder(InsertAt(s, FirstIn(s, K), x), w)
PROOF
  <1> DEFINE k == FirstIn(s, K)
             t == InsertAt(s, k, x)
  <1>1. Len(s) \in Nat /\ DOMAIN s = 1 .. Len(s) /\ \A i \in DOMAIN s : s[i] \in S /\ s[i] \in Range(s)
    BY LenProperties, ElementOfSeq DEF Range
  <1>2. k \in 1 .. Len(s) + 1 /\ (\A i \in 1 .. k - 1 : i \in DOMAIN s /\ s[i] \notin K)
        /\ (k <= Len(s) => s[k] \in K)
    BY FirstInFacts
  <1> HIDE DEF k
  <1>3. t \in Seq(S) /\ Len(t) = Len(s) + 1
        /\ \A i \in 1 .. Len(s) + 1 :
             t[i] = IF i < k THEN s[i] ELSE IF i = k THEN x ELSE s[i - 1]
    <2>1. Inserted(t, S, s, k, x)
      BY <1>2, InsertFacts
    <2> HIDE DEF t
    <2>2. QED
      BY <2>1 DEF Inserted
  <1> HIDE DEF t
  <1>4. DOMAIN t = 1 .. Len(s) + 1 /\ k \in Nat
    BY <1>2, <1>3, LenProperties
  <1>5. \A i \in DOMAIN s : w[s[i]] \in Int
    BY <1>1
  <1>6. \A i \in 1 .. k - 1 : w[s[i]] <= w[x]
    BY <1>1, <1>2, <1>5
  <1>7. ASSUME NEW i \in DOMAIN s, i >= k PROVE w[x] <= w[s[i]]
    <2>1. k \in DOMAIN s /\ s[k] \in K
      BY <1>1, <1>2, <1>4, <1>7
    <2>2. w[x] < w[s[k]]
      BY <1>1, <2>1
    <2>3. w[s[k]] <= w[s[i]]
      BY <1>1, <1>4, <1>5, <1>7, <2>1 DEF InOrder
    <2>4. QED
      BY <1>5, <2>1, <2>2, <2>3
  <1>8. ASSUME NEW i \in DOMAIN t, NEW j \in DOMAIN t, i < j
        PROVE  w[t[i]] <= w[t[j]]
    <2>1. i \in Nat /\ j \in Nat
      BY <1>4
    <2>2. CASE j < k
      <3>1. i \in DOMAIN s /\ j \in DOMAIN s /\ t[i] = s[i] /\ t[j] = s[j]
        BY <1>1, <1>2, <1>3, <1>4, <1>8, <2>2
      <3>2. QED
        BY <1>8, <3>1 DEF InOrder
    <2>3. CASE j = k
      <3>1. i \in 1 .. k - 1 /\ t[i] = s[i] /\ t[j] = x
        BY <1>1, <1>2, <1>3, <1>4, <1>8, <2>3
      <3>2. QED
        BY <1>6, <3>1
    <2>4. CASE i = k
      <3>1. j - 1 \in DOMAIN s /\ j - 1 >= k /\ t[i] = x /\ t[j] = s[j - 1]
        BY <1>1, <1>2, <1>3, <1>4, <1>8, <2>4
      <3>2. QED
        BY <1>7, <3>1
    <2>5. CASE i < k /\ k < j
      <3>1. i \in DOMAIN s /\ j - 1 \in DOMAIN s /\ i < j - 1 /\ t[i] = s[i] /\ t[j] = s[j - 1]
        <4>1. i \in 1 .. k - 1 /\ j \in 1 .. Len(s) + 1 /\ i \in 1 .. Len(s) + 1
          BY <1>4, <2>1, <2>5
        <4>2. ~(j < k) /\ j # k
          BY <1>4, <2>1, <2>5
        <4>3. t[i] = s[i] /\ t[j] = s[j - 1]
          BY <1>3, <2>5, <4>1, <4>2
        <4>4. i \in DOMAIN s /\ j - 1 \in 1 .. Len(s) /\ i < j - 1
          BY <1>1, <1>2, <1>4, <2>1, <2>5, <4>1
        <4>5. QED
          BY <1>1, <4>3, <4>4
      <3>2. QED
        BY <3>1 DEF InOrder
    <2>6. CASE k < i
      <3>1. /\ i - 1 \in DOMAIN s /\ j - 1 \in DOMAIN s /\ i - 1 < j - 1
            /\ t[i] = s[i - 1] /\ t[j] = s[j - 1]
        <4>1. i \in 1 .. Len(s) + 1 /\ j \in 1 .. Len(s) + 1 /\ k < j
          BY <1>4, <1>8, <2>1, <2>6
        <4>2. t[i] = s[i - 1] /\ t[j] = s[j - 1]
          <5>1. ~(i < k) /\ i # k /\ ~(j < k) /\ j # k
            BY <1>4, <2>1, <2>6, <4>1
          <5>2. QED
            BY <1>3, <4>1, <5>1, Zenon
        <4>3. i - 1 \in 1 .. Len(s) /\ j - 1 \in 1 .. Len(s) /\ i - 1 < j - 1
          BY <1>1, <1>2, <1>4, <1>8, <2>1, <2>6, <4>1
        <4>4. QED
          BY <1>1, <4>2, <4>3
      <3>2. QED
        BY <3>1 DEF InOrder
    <2>7. QED
      BY <1>4, <1>8, <2>1, <2>2, <2>3, <2>4, <2>5, <2>6
  <1>9. QED
    BY <1>8 DEF InOrder, t, k

(* So does leaving members out. *)
LEMMA WithoutInOrder ==
  ASSUME NEW S, NEW s \in Seq(S), NEW w, NEW ids, InOrder(s, w)
  PROVE  InOrder(Without(s, ids), w)
PROOF
  <1> DEFINE t == Without(s, ids)
  <1>1. \A i, j \in DOMAIN t : i < j =>
          \E a, b \in DOMAIN s : a < b /\ t[i] = s[a] /\ t[j] = s[b]
    BY WithoutFacts
  <1> HIDE DEF t
  <1>2. InOrder(t, w)
    BY <1>1 DEF InOrder
  <1>3. QED
    BY <1>2 DEF t

-----------------------------------------------------------------------------
Reason == {"DELETE", "HARD_TIMEOUT", "IDLE_TIMEOUT", "METER_DELETE"}
Notice == [id : DOMAIN entry, reason : Reason]

(* The notices of entries that leave the table. *)
LEMMA RemovalFacts ==
  ASSUME NEW s \in Seq(DOMAIN entry), NEW reason \in Reason, IsInjective(s)
  PROVE  /\ Removal(reason, s) \in Seq(Notice)
         /\ DOMAIN Removal(reason, s) = DOMAIN s
         /\ \A i \in DOMAIN s : Removal(reason, s)[i].id = s[i]
PROOF
  <1> DEFINE r == Removal(reason, s)
  <1>1. DOMAIN s = 1 .. Len(s) /\ Len(s) \in Nat /\ \A i \in DOMAIN s : s[i] \in DOMAIN entry
    BY LenProperties, ElementOfSeq
  <1>2. r = [i \in 1 .. Len(s) |-> [id |-> s[i], reason |-> reason]]
    BY <1>1 DEF Removal
  <1>3. \A i \in 1 .. Len(s) : [id |-> s[i], reason |-> reason] \in Notice
    BY <1>1 DEF Notice
  <1> HIDE DEF r
  <1>4. r \in Seq(Notice)
    BY <1>1, <1>2, <1>3, IsASeq
  <1>5. QED
    BY <1>1, <1>2, <1>4 DEF r

(* Entries leave the table: what remove and meter_table_delete have in      *)
(* common.                                                                  *)
Leave(gone, ids) ==
  /\ notices' = notices \o gone
  /\ match_entries' = Without(match_entries, ids)
  /\ hard_entries' = Without(hard_entries, ids)
  /\ idle_entries' = Without(idle_entries, ids)
  /\ active_count' = active_count - Cardinality(ids)
  /\ \A x \in DOMAIN flow_refs' :
       /\ x \in DOMAIN flow_refs
       /\ flow_refs'[x] = flow_refs[x] \ {i \in ids : x \in entry[i].meter_refs}
  /\ UNCHANGED <<now, entry>>

(* Each of the entries ids is in the table and noticed once. *)
Announces(gone, ids) ==
  /\ gone \in Seq(Notice)
  /\ ids = {gone[i].id : i \in DOMAIN gone}
  /\ \A i, j \in DOMAIN gone : gone[i].id = gone[j].id => i = j
  /\ ids \subseteq Live

LEMMA LiveFinite ==
  ASSUME TypeOK
  PROVE  /\ Live \subseteq DOMAIN entry /\ IsFiniteSet(Live) /\ Cardinality(Live) \in Nat
         /\ DOMAIN entry = 1 .. Len(entry) /\ Len(entry) \in Nat
PROOF
  <1>1. DOMAIN entry = 1 .. Len(entry) /\ Len(entry) \in Nat
    BY LenProperties DEF TypeOK
  <1>2. Live \subseteq DOMAIN entry
    <2>1. \A i \in DOMAIN match_entries : match_entries[i] \in DOMAIN entry
      BY LenProperties, ElementOfSeq DEF TypeOK
    <2>2. QED
      BY <2>1 DEF Live, Range
  <1>3. IsFiniteSet(1 .. Len(entry))
    BY <1>1, FS_Interval
  <1>4. IsFiniteSet(Live)
    BY <1>1, <1>2, <1>3, FS_Subset
  <1>5. QED
    BY <1>1, <1>2, <1>4, FS_CardinalityType

LEMMA LeaveOK ==
  ASSUME IInv, NEW gone, NEW ids, Announces(gone, ids), Leave(gone, ids)
  PROVE  IInv'
PROOF
  <1> DEFINE D == DOMAIN entry
  <1>1. /\ match_entries \in Seq(D) /\ idle_entries \in Seq(D) /\ hard_entries \in Seq(D)
        /\ entry' = entry /\ now' = now /\ now \in Nat /\ entry \in Seq(Entry)
        /\ notices \in Seq(Notice)
    BY DEF IInv, TypeOK, Leave, Notice, Reason
  <1>2. /\ Live \subseteq D /\ IsFiniteSet(Live) /\ Cardinality(Live) \in Nat
    BY LiveFinite DEF IInv
  <1>3. ids \subseteq Live
    BY DEF Announces
  <1>4. /\ match_entries' \in Seq(D) /\ Live' = Live \ ids /\ IsInjective(match_entries')
        /\ InOrder(match_entries', Falling(entry))
    BY <1>1, WithoutFacts, WithoutInOrder DEF Leave, IInv, ListsAgree, PriorityOrder, Live
  <1>5. /\ idle_entries' \in Seq(D) /\ Range(idle_entries') = Range(idle_entries) \ ids
        /\ IsInjective(idle_entries')
    BY <1>1, WithoutFacts DEF Leave, IInv, ListsAgree
  <1>6. /\ hard_entries' \in Seq(D) /\ Range(hard_entries') = Range(hard_entries) \ ids
        /\ IsInjective(hard_entries') /\ InOrder(hard_entries', Expiry(entry))
    BY <1>1, WithoutFacts, WithoutInOrder DEF Leave, IInv, ListsAgree, HardOrder
  <1>7. /\ active_count' = Cardinality(Live') /\ active_count' \in Nat
        /\ active_count' <= max_entries
    <2>1. active_count = Cardinality(Live) /\ active_count <= max_entries
      BY DEF IInv, ListsAgree
    <2>2. Live \cap ids = ids /\ IsFiniteSet(ids)
      BY <1>2, <1>3, FS_Subset
    <2>3. Cardinality(Live \ ids) = Cardinality(Live) - Cardinality(ids)
      BY <1>2, <2>2, FS_Difference
    <2>4. Cardinality(Live \ ids) \in Nat /\ Cardinality(ids) \in Nat
      BY <1>2, <2>2, FS_Difference, FS_CardinalityType
    <2>5. QED
      BY <1>2, <1>4, <2>1, <2>3, <2>4, FlowTableAssumption DEF Leave, FlowTableAssumption
  <1>8. notices' \in Seq(Notice)
    BY <1>1, ConcatProperties DEF Announces, Leave
  <1>9. /\ DOMAIN flow_refs' \subseteq DOMAIN flow_refs
        /\ \A x \in DOMAIN flow_refs' :
             flow_refs'[x] = flow_refs[x] \ {i \in ids : x \in entry[i].meter_refs}
    BY DEF Leave
  <1>10. TypeOK'
    <2>1. /\ DOMAIN flow_refs' \subseteq Meter
          /\ \A x \in DOMAIN flow_refs' : flow_refs'[x] \subseteq D
      BY <1>9 DEF IInv, TypeOK
    <2>2. QED
      BY <1>1, <1>4, <1>5, <1>6, <1>7, <1>8, <2>1 DEF TypeOK, Notice, Reason
  <1>11. ListsAgree'
    <2>1. Range(idle_entries) = {i \in Live : entry[i].idle_timeout > 0}
          /\ Range(hard_entries) = {i \in Live : entry[i].remove_at > 0}
      BY DEF IInv, ListsAgree
    <2>2. Range(idle_entries)' = {i \in Live' : entry[i].idle_timeout > 0}
      BY <1>4, <1>5, <2>1
    <2>3. Range(hard_entries)' = {i \in Live' : entry[i].remove_at > 0}
      BY <1>4, <1>6, <2>1
    <2>4. QED
      BY <1>1, <1>4, <1>5, <1>6, <1>7, <2>2, <2>3 DEF ListsAgree
  <1>12. PriorityOrder' /\ HardOrder'
    BY <1>1, <1>4, <1>6 DEF PriorityOrder, HardOrder
  <1>13. NoDanglingRefs' /\ RefsMutual'
    <2>1. \A x \in DOMAIN flow_refs : \A i \in flow_refs[x] : i \in Live /\ x \in entry[i].meter_refs
      BY DEF IInv, NoDanglingRefs, RefsMutual
    <2>2. QED
      BY <1>1, <1>4, <1>9, <2>1 DEF NoDanglingRefs, RefsMutual
  <1>14. NoticedOnce'
    <2> DEFINE m == Len(notices)
               old == {notices[k].id : k \in DOMAIN notices}
               new == {notices'[k].id : k \in DOMAIN notices'}
    <2>1. /\ DOMAIN notices = 1 .. m /\ m \in Nat
          /\ DOMAIN gone = 1 .. Len(gone) /\ Len(gone) \in Nat
          /\ DOMAIN notices' = 1 .. m + Len(gone)
          /\ \A k \in 1 .. m : notices'[k] = notices[k]
          /\ \A k \in 1 .. m + Len(gone) : k > m => notices'[k] = gone[k - m]
      <3>1. gone \in Seq(Notice) /\ notices' = notices \o gone
        BY DEF Announces, Leave
      <3>2. Len(notices') = Len(notices) + Len(gone)
            /\ \A k \in 1 .. Len(notices) + Len(gone) :
                 notices'[k] = IF k <= Len(notices) THEN notices[k] ELSE gone[k - Len(notices)]
        BY <1>1, <3>1, ConcatProperties
      <3>3. QED
        BY <1>1, <1>8, <3>1, <3>2, LenProperties
    <2>2. new = old \cup ids
      <3>1. ASSUME NEW k \in DOMAIN notices' PROVE notices'[k].id \in old \cup ids
        <4>1. CASE k <= m
          BY <2>1, <4>1
        <4>2. CASE k > m
          <5>1. k - m \in DOMAIN gone
            BY <2>1, <4>2
          <5>2. QED
            BY <2>1, <4>2, <5>1 DEF Announces
        <4>3. QED
          BY <2>1, <4>1, <4>2
      <3>2. ASSUME NEW k \in DOMAIN notices PROVE notices[k].id \in new
        BY <2>1
      <3>3. ASSUME NEW k \in DOMAIN gone PROVE gone[k].id \in new
        <4> DEFINE l == m + k
        <4>1. l \in DOMAIN notices' /\ l > m /\ l - m = k
          BY <2>1
        <4> HIDE DEF l
        <4>2. notices'[l] = gone[k]
          BY <2>1, <4>1
        <4>3. QED
          BY <4>1, <4>2
      <3>4. QED
        BY <3>1, <3>2, <3>3 DEF Announces
    <2>3. /\ \A k, l \in DOMAIN notices : notices[k].id = notices[l].id => k = l
          /\ old \cap Live = {}
          /\ \A i \in D \ (old \cup Live) :
               \E j \in D : /\ j > i
                            /\ entry[j].match = entry[i].match
                            /\ entry[j].priority = entry[i].priority
      BY DEF IInv, NoticedOnce
    <2>4. ASSUME NEW k \in DOMAIN notices', NEW l \in DOMAIN notices',
                 notices'[k].id = notices'[l].id
          PROVE  k = l
      <3>1. CASE k <= m /\ l <= m
        BY <2>1, <2>3, <2>4, <3>1
      <3>2. CASE k > m /\ l > m
        <4>1. k - m \in DOMAIN gone /\ l - m \in DOMAIN gone
          BY <2>1, <3>2
        <4>2. gone[k - m].id = gone[l - m].id
          BY <2>1, <2>4, <3>2
        <4>3. k - m = l - m
          BY <4>1, <4>2 DEF Announces
        <4>4. QED
          BY <2>1, <4>3
      <3>3. CASE k <= m /\ l > m
        <4>1. l - m \in DOMAIN gone /\ k \in DOMAIN notices
          BY <2>1, <3>3
        <4>2. notices'[l].id \in ids /\ notices'[k].id \in old
          BY <2>1, <3>3, <4>1 DEF Announces
        <4>3. QED
          BY <1>3, <2>3, <2>4, <4>2
      <3>4. CASE k > m /\ l <= m
        <4>1. k - m \in DOMAIN gone /\ l \in DOMAIN notices
          BY <2>1, <3>4
        <4>2. notices'[k].id \in ids /\ notices'[l].id \in old
          BY <2>1, <3>4, <4>1 DEF Announces
        <4>3. QED
          BY <1>3, <2>3, <2>4, <4>2
      <3>5. QED
        BY <2>1, <3>1, <3>2, <3>3, <3>4
    <2> HIDE DEF new, old
    <2>5. new \cap Live' = {}
      BY <1>3, <1>4, <2>2, <2>3
    <2>6. D \ (new \cup Live') \subseteq D \ (old \cup Live)
      BY <1>4, <2>2
    <2>7. QED
      BY <1>1, <2>3, <2>4, <2>5, <2>6 DEF NoticedOnce, new
  <1>15. QED
    BY <1>10, <1>11, <1>12, <1>13, <1>14 DEF IInv

(* flow_entry_remove, one entry after the other. *)
LEMMA RemoveOK ==
  ASSUME IInv, NEW gone, remove(gone), UNCHANGED <<now, entry>>,
         Announces(gone, {gone[i].id : i \in DOMAIN gone})
  PROVE  IInv'
PROOF
  <1> DEFINE ids == {gone[i].id : i \in DOMAIN gone}
  <1>1. Leave(gone, ids)
    BY DEF remove, del_meter_refs, Leave
  <1> HIDE DEF ids
  <1>2. Announces(gone, ids)
    BY DEF ids
  <1>3. QED
    BY <1>1, <1>2, LeaveOK

(* The notices of a list of entries of the table announce them. *)
LEMMA RemovalAnnounces ==
  ASSUME TypeOK, NEW s \in Seq(DOMAIN entry), NEW reason \in Reason, IsInjective(s),
         Range(s) \subseteq Live
  PROVE  /\ Announces(Removal(reason, s), Range(s))
         /\ Range(s) = {Removal(reason, s)[i].id : i \in DOMAIN Removal(reason, s)}
PROOF
  <1> DEFINE r == Removal(reason, s)
  <1>1. r \in Seq(Notice) /\ DOMAIN r = DOMAIN s /\ \A i \in DOMAIN s : r[i].id = s[i]
    BY RemovalFacts
  <1> HIDE DEF r
  <1>2. Range(s) = {r[i].id : i \in DOMAIN r}
    BY <1>1 DEF Range
  <1>3. \A i, j \in DOMAIN r : r[i].id = r[j].id => i = j
    BY <1>1 DEF IsInjective
  <1>4. QED
    BY <1>1, <1>2, <1>3 DEF Announces, r

(* Deleting the entries of a set of the table. *)
LEMMA DeleteOK ==
  ASSUME IInv, NEW K, remove(Removal("DELETE", Keep(match_entries, K))),
         UNCHANGED <<now, entry>>
  PROVE  IInv'
PROOF
  <1> DEFINE s == Keep(match_entries, K)
  <1>1. s \in Seq(DOMAIN entry) /\ IsInjective(s) /\ Range(s) \subseteq Live
    <2>1. match_entries \in Seq(DOMAIN entry) /\ IsInjective(match_entries)
      BY DEF IInv, TypeOK, ListsAgree
    <2>2. QED
      BY <2>1, KeepFacts DEF Live
  <1> HIDE DEF s
  <1>2. Announces(Removal("DELETE", s), Range(s))
        /\ Range(s) = {Removal("DELETE", s)[i].id : i \in DOMAIN Removal("DELETE", s)}
    BY <1>1, RemovalAnnounces DEF IInv, Reason
  <1>3. remove(Removal("DELETE", s))
    BY DEF s
  <1>4. QED
    BY <1>2, <1>3, RemoveOK

LEMMA Fields ==
  ASSUME TypeOK, NEW i \in DOMAIN entry
  PROVE  /\ entry[i] \in Entry
         /\ entry[i].match \in Match /\ entry[i].priority \in Priority /\ entry[i].priority \in Nat
         /\ entry[i].idle_timeout \in Nat /\ entry[i].remove_at \in Nat
         /\ entry[i].last_used \in Nat
PROOF
  <1>1. entry \in Seq(Entry) /\ i \in 1 .. Len(entry)
    BY LenProperties DEF TypeOK
  <1>2. entry[i] \in Entry
    BY <1>1, ElementOfSeq
  <1>3. QED
    BY <1>2, FlowTableAssumption DEF Entry, FlowTableAssumption

(* The part of hard_entries that flow_table_timeout takes. *)
LEMMA ExpiredFacts ==
  ASSUME IInv
  PROVE  /\ expired \in Seq(DOMAIN entry) /\ IsInjective(expired)
         /\ Range(expired) = {i \in Live : hard_over(i)}
PROOF
  <1> DEFINE K == {i \in Live : ~hard_over(i)}
             k == FirstIn(hard_entries, K)
             s == hard_entries
             D == DOMAIN entry
  <1>1. s \in Seq(D) /\ Len(s) \in Nat /\ DOMAIN s = 1 .. Len(s) /\ IsInjective(s)
        /\ \A i \in DOMAIN s : s[i] \in D
    BY LenProperties, ElementOfSeq DEF IInv, TypeOK, ListsAgree
  <1>2. k \in 1 .. Len(s) + 1 /\ (\A i \in 1 .. k - 1 : i \in DOMAIN s /\ s[i] \notin K)
        /\ (k <= Len(s) => s[k] \in K)
    BY <1>1, FirstInFacts
  <1> HIDE DEF k
  <1>3. k \in Nat /\ k - 1 \in Nat
    BY <1>1, <1>2
  <1>4. expired = [i \in 1 .. k - 1 |-> s[i]]
    BY <1>1, <1>2 DEF expired, k
  <1>5. expired \in Seq(D) /\ DOMAIN expired = 1 .. k - 1 /\ \A i \in 1 .. k - 1 : expired[i] = s[i]
    <2>1. \A i \in 1 .. k - 1 : s[i] \in D
      BY <1>1, <1>2
    <2>2. QED
      BY <1>3, <1>4, <2>1, IsASeq
  <1>6. IsInjective(expired)
    BY <1>1, <1>2, <1>5 DEF IsInjective
  <1>7. Range(s) = {i \in Live : entry[i].remove_at > 0}
    BY DEF IInv, ListsAgree
  <1>8. Range(expired) \subseteq {i \in Live : hard_over(i)}
    <2>1. ASSUME NEW i \in 1 .. k - 1 PROVE s[i] \in Live /\ hard_over(s[i])
      <3>1. s[i] \in Range(s) /\ s[i] \notin K
        BY <1>2 DEF Range
      <3>2. QED
        BY <1>7, <3>1
    <2>2. QED
      BY <1>5, <2>1 DEF Range
  <1>9. ASSUME NEW x \in Live, hard_over(x), x \notin Range(expired) PROVE FALSE
    <2>1. x \in D /\ entry[x].remove_at \in Nat /\ now \in Nat
      BY LiveFinite, Fields DEF IInv, TypeOK
    <2>2. x \in Range(s)
      BY <1>7, <1>9, <2>1 DEF hard_over
    <2>3. PICK j \in DOMAIN s : s[j] = x
      BY <2>2 DEF Range
    <2>4. ~(j \in 1 .. k - 1)
      BY <1>5, <1>9, <2>3 DEF Range
    <2>5. j >= k /\ k \in DOMAIN s /\ j \in Nat
      BY <1>1, <1>2, <1>3, <2>4
    <2>6. s[k] \in K /\ s[k] \in D /\ s[k] \in Range(s)
      BY <1>1, <1>2, <2>5 DEF Range
    <2>7. entry[s[k]].remove_at \in Nat /\ entry[s[k]].remove_at > 0 /\ ~hard_over(s[k])
      BY <1>7, <2>6, Fields DEF IInv
    <2>8. k = j \/ k < j
      BY <1>3, <2>5
    <2>9. entry[s[k]].remove_at <= entry[x].remove_at
      <3>1. CASE k = j
        BY <2>1, <2>3, <3>1
      <3>2. CASE k < j
        <4>1. Expiry(entry)[s[k]] <= Expiry(entry)[s[j]]
          BY <2>5, <3>2 DEF IInv, HardOrder, InOrder
        <4>2. QED
          BY <2>1, <2>3, <2>6, <4>1 DEF Expiry
      <3>3. QED
        BY <2>8, <3>1, <3>2
    <2>10. QED
      BY <1>9, <2>1, <2>7, <2>9 DEF hard_over
  <1>10. QED
    BY <1>5, <1>6, <1>8, <1>9

LEMMA TimeoutOK ==
  ASSUME IInv, flow_table_timeout
  PROVE  /\ IInv'
         /\ \A i \in Live' : ~hard_over(i) /\ ~idle_over(i)
PROOF
  <1> DEFINE hard == expired
             stay == Without(idle_entries, Range(hard))
             idle == Keep(stay, {i \in Live : idle_over(i)})
             a == Removal("HARD_TIMEOUT", hard)
             b == Removal("IDLE_TIMEOUT", idle)
             D == DOMAIN entry
  <1>1. remove(a \o b) /\ UNCHANGED <<now, entry>>
    BY DEF flow_table_timeout
  <1>2. hard \in Seq(D) /\ IsInjective(hard) /\ Range(hard) = {i \in Live : hard_over(i)}
    BY ExpiredFacts
  <1> HIDE DEF hard
  <1>3. idle_entries \in Seq(D) /\ IsInjective(idle_entries)
        /\ Range(idle_entries) = {i \in Live : entry[i].idle_timeout > 0}
    BY DEF IInv, TypeOK, ListsAgree
  <1>4. stay \in Seq(D) /\ IsInjective(stay) /\ Range(stay) = Range(idle_entries) \ Range(hard)
    BY <1>3, WithoutFacts
  <1> HIDE DEF stay
  <1>5. idle \in Seq(D) /\ IsInjective(idle)
        /\ Range(idle) = Range(stay) \cap {i \in Live : idle_over(i)}
    BY <1>4, KeepFacts
  <1> HIDE DEF idle
  <1>6. Range(hard) \subseteq Live /\ Range(idle) \subseteq Live /\ Range(hard) \cap Range(idle) = {}
    BY <1>2, <1>4, <1>5
  <1>7. /\ Announces(a, Range(hard)) /\ Range(hard) = {a[i].id : i \in DOMAIN a}
        /\ Announces(b, Range(idle)) /\ Range(idle) = {b[i].id : i \in DOMAIN b}
    BY <1>2, <1>5, <1>6, RemovalAnnounces DEF IInv, Reason
  <1> HIDE DEF a, b
  <1> DEFINE c == a \o b
             ids == {c[i].id : i \in DOMAIN c}
             m == Len(a)
             n == Len(b)
  <1>8. /\ c \in Seq(Notice) /\ DOMAIN c = 1 .. m + n /\ m \in Nat /\ n \in Nat
        /\ DOMAIN a = 1 .. m /\ DOMAIN b = 1 .. n
        /\ \A i \in 1 .. m + n : c[i] = IF i <= m THEN a[i] ELSE b[i - m]
    <2>1. a \in Seq(Notice) /\ b \in Seq(Notice)
      BY <1>7 DEF Announces
    <2>2. QED
      BY <2>1, ConcatProperties, LenProperties
  <1> HIDE DEF c
  <1>9. \A i \in DOMAIN c : (i <= m => i \in DOMAIN a /\ c[i] = a[i])
                             /\ (i > m => i - m \in DOMAIN b /\ c[i] = b[i - m])
    BY <1>8
  <1>10. ids = Range(hard) \cup Range(idle)
    <2>1. ASSUME NEW i \in DOMAIN c PROVE c[i].id \in Range(hard) \cup Range(idle)
      <3>1. i <= m \/ i > m
        BY <1>8
      <3>2. QED
        BY <1>7, <1>9, <3>1
    <2>2. ASSUME NEW i \in DOMAIN a PROVE a[i].id \in ids
      <3>1. i \in DOMAIN c /\ i <= m
        BY <1>8
      <3>2. QED
        BY <1>9, <3>1
    <2>3. ASSUME NEW i \in DOMAIN b PROVE b[i].id \in ids
      <3> DEFINE j == m + i
      <3>1. j \in DOMAIN c /\ j > m /\ j - m = i
        BY <1>8
      <3> HIDE DEF j
      <3>2. QED
        BY <1>9, <3>1
    <2>4. QED
      BY <1>7, <2>1, <2>2, <2>3
  <1>11. ASSUME NEW i \in DOMAIN c, NEW j \in DOMAIN c, c[i].id = c[j].id
         PROVE  i = j
    <2>1. i \in Nat /\ j \in Nat
      BY <1>8
    <2>2. CASE i <= m /\ j <= m
      BY <1>7, <1>9, <1>11, <2>2 DEF Announces
    <2>3. CASE i > m /\ j > m
      <3>1. i - m \in DOMAIN b /\ j - m \in DOMAIN b /\ b[i - m].id = b[j - m].id
        BY <1>9, <1>11, <2>3
      <3>2. i - m = j - m
        BY <1>7, <3>1 DEF Announces
      <3>3. QED
        BY <1>8, <2>1, <3>2
    <2>4. CASE i <= m /\ j > m
      <3>1. c[i].id \in Range(hard) /\ c[j].id \in Range(idle)
        BY <1>7, <1>9, <2>4
      <3>2. QED
        BY <1>6, <1>11, <3>1
    <2>5. CASE i > m /\ j <= m
      <3>1. c[j].id \in Range(hard) /\ c[i].id \in Range(idle)
        BY <1>7, <1>9, <2>5
      <3>2. QED
        BY <1>6, <1>11, <3>1
    <2>6. QED
      BY <1>8, <2>1, <2>2, <2>3, <2>4, <2>5
  <1>12. Announces(c, ids)
    BY <1>6, <1>8, <1>10, <1>11 DEF Announces
  <1>13. remove(c)
    BY <1>1 DEF c
  <1>14. IInv'
    BY <1>1, <1>12, <1>13, RemoveOK
  <1>15. Live' = Live \ ids
    <2>1. match_entries \in Seq(D) /\ match_entries' = Without(match_entries, ids)
      BY <1>13 DEF remove, IInv, TypeOK
    <2> HIDE DEF ids
    <2>2. QED
      BY <2>1, WithoutFacts DEF Live
  <1>16. ASSUME NEW i \in Live' PROVE ~hard_over(i) /\ ~idle_over(i)
    <2>1. i \in Live /\ i \notin Range(hard) /\ i \notin Range(idle)
      BY <1>10, <1>15
    <2>2. ~hard_over(i)
      BY <1>2, <2>1
    <2>3. entry[i].idle_timeout \in Nat
      BY <2>1, LiveFinite, Fields DEF IInv
    <2>4. idle_over(i) => i \in Range(stay)
      BY <1>3, <1>4, <2>1, <2>3 DEF idle_over
    <2>5. QED
      BY <1>5, <2>1, <2>2, <2>4
  <1>17. QED
    BY <1>14, <1>16

LEMMA MeterDeleteOK ==
  ASSUME IInv, NEW x \in DOMAIN flow_refs, meter_table_delete(x)
  PROVE  IInv'
PROOF
  <1> DEFINE D == DOMAIN entry
             all == [i \in DOMAIN entry |-> i]
             ids == flow_refs[x]
             s == Keep(all, ids)
             gone == Removal("METER_DELETE", s)
  <1>1. D = 1 .. Len(entry) /\ Len(entry) \in Nat
    BY LiveFinite DEF IInv
  <1>2. ids \subseteq Live /\ ids \subseteq D
    BY DEF IInv, TypeOK, NoDanglingRefs
  <1>3. all \in Seq(D) /\ Range(all) = D /\ IsInjective(all)
    <2>1. all \in Seq(D)
      BY <1>1, IsASeq
    <2>2. QED
      BY <2>1 DEF Range, IsInjective
  <1>4. Leave(gone, ids)
    BY DEF meter_table_delete, del_meter_refs, Leave
  <1> HIDE DEF all, ids
  <1>5. s \in Seq(D) /\ IsInjective(s) /\ Range(s) = ids
    <2>1. D \cap ids = ids
      BY <1>2
    <2> HIDE DEF D
    <2>2. s \in Seq(D) /\ IsInjective(s) /\ Range(s) = Range(all) \cap ids
      BY <1>3, KeepFacts
    <2>3. QED
      BY <1>3, <2>1, <2>2
  <1> HIDE DEF s
  <1>6. Announces(gone, ids)
    BY <1>2, <1>5, RemovalAnnounces DEF IInv, Reason
  <1>7. QED
    BY <1>4, <1>6, LeaveOK

(* Steps that leave the lists alone and change of an entry neither what     *)
(* orders it nor what refers to it: flow_table_modify, flow_table_lookup.   *)
LEMMA TouchOK ==
  ASSUME IInv, UNCHANGED <<now, lists, active_count, flow_refs, notices>>,
         DOMAIN entry' = DOMAIN entry,
         \A i \in DOMAIN entry :
           /\ entry'[i] \in Entry
           /\ entry'[i].match = entry[i].match /\ entry'[i].priority = entry[i].priority
           /\ entry'[i].idle_timeout = entry[i].idle_timeout
           /\ entry'[i].remove_at = entry[i].remove_at
           /\ entry'[i].meter_refs = entry[i].meter_refs,
         entry' = [i \in DOMAIN entry |-> entry'[i]]
  PROVE  IInv'
PROOF
  <1> DEFINE D == DOMAIN entry
  <1>1. D = 1 .. Len(entry) /\ Len(entry) \in Nat /\ Live \subseteq D
    BY LiveFinite DEF IInv
  <1>2. entry' \in Seq(Entry)
    <2> DEFINE es == entry'
    <2>1. es = [i \in 1 .. Len(entry) |-> es[i]] /\ \A i \in 1 .. Len(entry) : es[i] \in Entry
      BY <1>1
    <2> HIDE DEF es
    <2>2. es \in Seq(Entry)
      BY <1>1, <2>1, IsASeq
    <2>3. QED
      BY <2>2 DEF es
  <1>3. /\ now' = now /\ match_entries' = match_entries /\ idle_entries' = idle_entries
        /\ hard_entries' = hard_entries /\ active_count' = active_count
        /\ flow_refs' = flow_refs /\ notices' = notices /\ Live' = Live
    BY DEF lists, Live
  <1>4. TypeOK'
    BY <1>2, <1>3 DEF IInv, TypeOK
  <1>5. ListsAgree'
    <2>1. {i \in Live : entry'[i].idle_timeout > 0} = {i \in Live : entry[i].idle_timeout > 0}
          /\ {i \in Live : entry'[i].remove_at > 0} = {i \in Live : entry[i].remove_at > 0}
      BY <1>1
    <2>2. QED
      BY <1>3, <2>1 DEF IInv, ListsAgree
  <1>6. Falling(entry') = Falling(entry) /\ Expiry(entry') = Expiry(entry)
    BY DEF Falling, Expiry
  <1>7. PriorityOrder' /\ HardOrder'
    BY <1>3, <1>6 DEF IInv, PriorityOrder, HardOrder
  <1>8. NoDanglingRefs' /\ RefsMutual'
    BY <1>3 DEF IInv, NoDanglingRefs, RefsMutual, TypeOK
  <1>9. NoticedOnce'
    BY <1>3 DEF IInv, NoticedOnce
  <1>10. QED
    BY <1>4, <1>5, <1>7, <1>8, <1>9 DEF IInv

LEMMA ModifyOK ==
  ASSUME IInv, flow_table_modify
  PROVE  IInv'
PROOF
  <1>1. PICK m \in Match, meter \in {NoMeter} \cup Meter :
          entry' = [i \in DOMAIN entry |->
                      IF i \in Live /\ entry[i].match \subseteq m
                      THEN [entry[i] EXCEPT !.meter = meter] ELSE entry[i]]
    BY DEF flow_table_modify
  <1>2. UNCHANGED <<now, lists, active_count, flow_refs, notices>>
    BY DEF flow_table_modify
  <1>3. \A i \in DOMAIN entry :
          /\ entry'[i] \in Entry
          /\ entry'[i].match = entry[i].match /\ entry'[i].priority = entry[i].priority
          /\ entry'[i].idle_timeout = entry[i].idle_timeout
          /\ entry'[i].remove_at = entry[i].remove_at
          /\ entry'[i].meter_refs = entry[i].meter_refs
    <2> SUFFICES ASSUME NEW i \in DOMAIN entry
                 PROVE  /\ entry'[i] \in Entry
                        /\ entry'[i].match = entry[i].match
                        /\ entry'[i].priority = entry[i].priority
                        /\ entry'[i].idle_timeout = entry[i].idle_timeout
                        /\ entry'[i].remove_at = entry[i].remove_at
                        /\ entry'[i].meter_refs = entry[i].meter_refs
      OBVIOUS
    <2>1. entry[i] \in Entry
      BY Fields DEF IInv
    <2>2. entry'[i] = entry[i] \/ entry'[i] = [entry[i] EXCEPT !.meter = meter]
      BY <1>1
    <2>3. QED
      BY <2>1, <2>2 DEF Entry
  <1>4. DOMAIN entry' = DOMAIN entry /\ entry' = [i \in DOMAIN entry |-> entry'[i]]
    BY <1>1
  <1>5. QED
    BY <1>2, <1>3, <1>4, TouchOK

LEMMA LookupOK ==
  ASSUME IInv, flow_table_lookup
  PROVE  IInv'
PROOF
  <1>1. PICK p \in Packet : hits(p) # <<>>
                            /\ entry' = [entry EXCEPT ![Head(hits(p))].last_used = now]
    BY DEF flow_table_lookup
  <1>2. UNCHANGED <<now, lists, active_count, flow_refs, notices>>
    BY DEF flow_table_lookup
  <1> DEFINE h == Head(hits(p))
  <1>3. entry' = [entry EXCEPT ![h] = [entry[h] EXCEPT !.last_used = now]]
    BY <1>1
  <1> HIDE DEF h
  <1>4. \A i \in DOMAIN entry :
          /\ entry'[i] \in Entry
          /\ entry'[i].match = entry[i].match /\ entry'[i].priority = entry[i].priority
          /\ entry'[i].idle_timeout = entry[i].idle_timeout
          /\ entry'[i].remove_at = entry[i].remove_at
          /\ entry'[i].meter_refs = entry[i].meter_refs
    <2> SUFFICES ASSUME NEW i \in DOMAIN entry
                 PROVE  /\ entry'[i] \in Entry
                        /\ entry'[i].match = entry[i].match
                        /\ entry'[i].priority = entry[i].priority
                        /\ entry'[i].idle_timeout = entry[i].idle_timeout
                        /\ entry'[i].remove_at = entry[i].remove_at
                        /\ entry'[i].meter_refs = entry[i].meter_refs
      OBVIOUS
    <2>1. entry[i] \in Entry /\ now \in Nat
      BY Fields DEF IInv, TypeOK
    <2>2. entry'[i] = entry[i] \/ entry'[i] = [entry[i] EXCEPT !.last_used = now]
      BY <1>3
    <2>3. QED
      BY <2>1, <2>2 DEF Entry
  <1>5. DOMAIN entry' = DOMAIN entry /\ entry' = [i \in DOMAIN entry |-> entry'[i]]
    BY <1>3
  <1>6. QED
    BY <1>2, <1>4, <1>5, TouchOK

-----------------------------------------------------------------------------
(* The entry that a flow-mod creates. *)
LEMMA CreateFacts ==
  ASSUME IInv, NEW m \in Match, NEW p \in Priority, NEW t \in FlowMods
  PROVE  /\ flow_entry_create(m, p, t) \in Entry
         /\ flow_entry_create(m, p, t).match = m /\ flow_entry_create(m, p, t).priority = p
         /\ p \in Nat /\ flow_entry_create(m, p, t).remove_at \in Nat
         /\ flow_entry_create(m, p, t).idle_timeout \in Nat
PROOF
  <1>1. t \in Nat \X Nat \X (Meter \cup {NoMeter}) /\ p \in Nat
    BY FlowTableAssumption DEF FlowTableAssumption
  <1>2. t[1] \in Nat /\ t[2] \in Nat /\ t[3] \in Meter \cup {NoMeter}
    BY <1>1
  <1>3. now \in Nat
    BY DEF IInv, TypeOK
  <1>4. {t[3]} \ {NoMeter} \in SUBSET Meter
    BY <1>2
  <1> DEFINE r == IF t[2] = 0 THEN 0 ELSE now + t[2]
             refs == {t[3]} \ {NoMeter}
  <1>5. r \in Nat
    BY <1>2, <1>3
  <1>6. flow_entry_create(m, p, t) =
          [match |-> m, priority |-> p, idle_timeout |-> t[1], remove_at |-> r,
           last_used |-> now, meter |-> t[3], meter_refs |-> refs]
    BY DEF flow_entry_create
  <1> HIDE DEF r, refs
  <1>7. refs \in SUBSET Meter
    BY <1>4 DEF refs
  <1>8. QED
    BY <1>1, <1>2, <1>3, <1>5, <1>6, <1>7 DEF Entry

(* The numbers and fields of the others stay. *)
LEMMA AppendFacts ==
  ASSUME IInv, NEW e \in Entry, entry' = Append(entry, e)
  PROVE  /\ entry' \in Seq(Entry)
         /\ DOMAIN entry' = DOMAIN entry \cup {NewId} /\ NewId \notin DOMAIN entry
         /\ NewId \in Nat /\ \A i \in DOMAIN entry : i \in Nat /\ i < NewId
         /\ entry'[NewId] = e /\ \A i \in DOMAIN entry : entry'[i] = entry[i]
         /\ Falling(entry') \in [DOMAIN entry' -> Int]
         /\ Expiry(entry') \in [DOMAIN entry' -> Int]
         /\ \A i \in DOMAIN entry : /\ Falling(entry')[i] = Falling(entry)[i]
                                    /\ Expiry(entry')[i] = Expiry(entry)[i]
PROOF
  <1>1. entry \in Seq(Entry) /\ DOMAIN entry = 1 .. Len(entry) /\ Len(entry) \in Nat
    BY LiveFinite DEF IInv, TypeOK
  <1>2. /\ entry' \in Seq(Entry) /\ Len(entry') = Len(entry) + 1
        /\ \A i \in 1 .. Len(entry) : entry'[i] = entry[i]
        /\ entry'[Len(entry) + 1] = e
    BY <1>1, AppendProperties
  <1>3. DOMAIN entry' = 1 .. Len(entry) + 1
    BY <1>2, LenProperties
  <1>4. DOMAIN entry' = DOMAIN entry \cup {NewId} /\ NewId \notin DOMAIN entry
        /\ NewId \in Nat /\ \A i \in DOMAIN entry : i \in Nat /\ i < NewId
    BY <1>1, <1>3 DEF NewId
  <1>5. entry'[NewId] = e /\ \A i \in DOMAIN entry : entry'[i] = entry[i]
    BY <1>1, <1>2 DEF NewId
  <1>6. \A i \in DOMAIN entry' : entry'[i] \in Entry
    BY <1>2, <1>3, ElementOfSeq
  <1>7. \A i \in DOMAIN entry' : 0 - entry'[i].priority \in Int /\ entry'[i].remove_at \in Int
    <2>1. \A i \in DOMAIN entry' : entry'[i].priority \in Nat /\ entry'[i].remove_at \in Nat
      BY <1>6, FlowTableAssumption DEF Entry, FlowTableAssumption
    <2>2. QED
      BY <2>1
  <1>8. Falling(entry') \in [DOMAIN entry' -> Int] /\ Expiry(entry') \in [DOMAIN entry' -> Int]
    BY <1>7 DEF Falling, Expiry
  <1>9. \A i \in DOMAIN entry : /\ Falling(entry')[i] = Falling(entry)[i]
                                /\ Expiry(entry')[i] = Expiry(entry)[i]
    BY <1>4, <1>5 DEF Falling, Expiry
  <1>10. QED
    BY <1>2, <1>4, <1>5, <1>8, <1>9

LEMMA WiderSeq ==
  ASSUME NEW S, NEW T, S \subseteq T, NEW s \in Seq(S)
  PROVE  s \in Seq(T)
PROOF
  <1>1. Len(s) \in Nat /\ s = [i \in 1 .. Len(s) |-> s[i]] /\ \A i \in 1 .. Len(s) : s[i] \in T
    BY LenProperties, ElementOfSeq
  <1>2. QED
    BY <1>1, IsASeq

LEMMA SameWeights ==
  ASSUME NEW S, NEW s \in Seq(S), NEW v, NEW w, \A x \in S : v[x] = w[x], InOrder(s, v)
  PROVE  InOrder(s, w)
PROOF
  <1>1. \A i \in DOMAIN s : s[i] \in S
    BY LenProperties, ElementOfSeq
  <1>2. QED
    BY <1>1 DEF InOrder

(* The new entry in the lists of timeouts, from which the replaced ones are *)
(* gone.                                                                    *)
LEMMA TimeoutLists ==
  ASSUME IInv, NEW e \in Entry, entry' = Append(entry, e), e.remove_at \in Nat,
         e.idle_timeout \in Nat, NEW old,
         NEW idle \in Seq(DOMAIN entry), IsInjective(idle),
         Range(idle) = Range(idle_entries) \ old,
         NEW hard \in Seq(DOMAIN entry), IsInjective(hard), InOrder(hard, Expiry(entry)),
         Range(hard) = Range(hard_entries) \ old,
         idle_entries' = add_to_idle(idle, NewId, e),
         hard_entries' = add_to_hard(hard, NewId, e)
  PROVE  /\ idle_entries' \in Seq(DOMAIN entry') /\ hard_entries' \in Seq(DOMAIN entry')
         /\ IsInjective(idle_entries') /\ IsInjective(hard_entries') /\ HardOrder'
         /\ Range(idle_entries') = {i \in (Live \ old) \cup {NewId} : entry'[i].idle_timeout > 0}
         /\ Range(hard_entries') = {i \in (Live \ old) \cup {NewId} : entry'[i].remove_at > 0}
PROOF
  <1> DEFINE D == DOMAIN entry
             E == DOMAIN entry'
  <1>1. /\ E = D \cup {NewId} /\ NewId \notin D
        /\ entry'[NewId] = e /\ \A i \in D : entry'[i] = entry[i]
        /\ Expiry(entry') \in [E -> Int]
        /\ \A i \in D : Expiry(entry')[i] = Expiry(entry)[i]
    BY AppendFacts
  <1>2. Live \subseteq D
    BY LiveFinite DEF IInv
  <1>3. Range(idle_entries) = {i \in Live : entry[i].idle_timeout > 0}
        /\ Range(hard_entries) = {i \in Live : entry[i].remove_at > 0}
    BY DEF IInv, ListsAgree
  <1>4. NewId \notin Range(idle) /\ NewId \notin Range(hard)
    BY <1>1, <1>2, <1>3
  <1>5. idle \in Seq(E) /\ hard \in Seq(E) /\ NewId \in E
    BY <1>1, WiderSeq
  <1>6. InOrder(hard, Expiry(entry'))
    <2> DEFINE v == Expiry(entry)
               w == Expiry(entry')
    <2>1. \A x \in D : v[x] = w[x]
      BY <1>1
    <2> HIDE DEF v, w
    <2>2. InOrder(hard, v)
      BY DEF v
    <2>3. InOrder(hard, w)
      BY <2>1, <2>2, SameWeights
    <2>4. QED
      BY <2>3 DEF w
  <1>7. /\ idle_entries' \in Seq(E) /\ IsInjective(idle_entries')
        /\ Range(idle_entries') = {i \in (Live \ old) \cup {NewId} : entry'[i].idle_timeout > 0}
    <2>1. CASE e.idle_timeout > 0
      <3> DEFINE s == Append(idle, NewId)
      <3>1. idle_entries' = s
        BY <2>1 DEF add_to_idle
      <3>2. /\ s \in Seq(E) /\ DOMAIN s = 1 .. Len(idle) + 1 /\ DOMAIN idle = 1 .. Len(idle)
            /\ Len(idle) \in Nat /\ s[Len(idle) + 1] = NewId
            /\ \A i \in 1 .. Len(idle) : s[i] = idle[i]
        BY <1>5, AppendProperties, LenProperties
      <3> HIDE DEF s
      <3>3. \A i \in DOMAIN idle : idle[i] # NewId
        BY <1>4 DEF Range
      <3>4. Range(s) = Range(idle) \cup {NewId}
        <4> DEFINE l == Len(idle) + 1
        <4>1. DOMAIN s = DOMAIN idle \cup {l} /\ s[l] = NewId /\ \A i \in DOMAIN idle : s[i] = idle[i]
          BY <3>2
        <4> HIDE DEF l
        <4>2. \A x : (\E i \in DOMAIN s : x = s[i]) <=> x = NewId \/ \E i \in DOMAIN idle : x = idle[i]
          BY <4>1
        <4>3. QED
          BY <4>2 DEF Range
      <3>5. IsInjective(s)
        <4>1. ASSUME NEW i \in DOMAIN s, NEW j \in DOMAIN s, s[i] = s[j] PROVE i = j
          <5>1. \A k \in DOMAIN s : k \in DOMAIN idle \/ k = Len(idle) + 1
            BY <3>2
          <5>2. i \in DOMAIN idle => s[i] = idle[i] /\ s[i] # NewId
            BY <3>2, <3>3
          <5>3. j \in DOMAIN idle => s[j] = idle[j] /\ s[j] # NewId
            BY <3>2, <3>3
          <5>4. i \in DOMAIN idle /\ j \in DOMAIN idle => i = j
            BY <4>1, <5>2, <5>3 DEF IsInjective
          <5>5. QED
            BY <3>2, <4>1, <5>1, <5>2, <5>3, <5>4
        <4>2. QED
          BY <4>1 DEF IsInjective
      <3>6. QED
        BY <1>1, <1>2, <1>3, <2>1, <3>1, <3>2, <3>4, <3>5
    <2>2. CASE ~(e.idle_timeout > 0)
      BY <1>1, <1>2, <1>3, <1>5, <2>2 DEF add_to_idle
    <2>3. QED
      BY <2>1, <2>2
  <1>8. /\ hard_entries' \in Seq(E) /\ IsInjective(hard_entries') /\ HardOrder'
        /\ Range(hard_entries') = {i \in (Live \ old) \cup {NewId} : entry'[i].remove_at > 0}
    <2>1. CASE e.remove_at = 0
      <3>1. hard_entries' = hard
        BY <2>1 DEF add_to_hard
      <3>2. HardOrder'
        BY <1>6, <3>1 DEF HardOrder
      <3>3. QED
        BY <1>1, <1>2, <1>3, <1>5, <2>1, <3>1, <3>2
    <2>2. CASE e.remove_at # 0
      <3> DEFINE K == {i \in Live : entry[i].remove_at > e.remove_at}
                 k == FirstIn(hard, K)
                 w == Expiry(entry')
      <3>1. hard_entries' = InsertAt(hard, k, NewId)
        BY <2>2 DEF add_to_hard
      <3>2. \A y \in Range(hard) : y \in K <=> w[y] > w[NewId]
        BY <1>1, <1>2, <1>3 DEF Expiry
      <3>3. w \in [E -> Int] /\ InOrder(hard, w)
        BY <1>1, <1>6
      <3> HIDE DEF K, w
      <3>4. InOrder(InsertAt(hard, k, NewId), w)
        BY <1>5, <3>2, <3>3, InsertInOrder
      <3>5. k \in 1 .. Len(hard) + 1
        BY <1>5, FirstInFacts
      <3> HIDE DEF k
      <3>6. InsertAt(hard, k, NewId) \in Seq(E)
        BY <1>5, <3>5, InsertFacts DEF Inserted
      <3>7. Range(InsertAt(hard, k, NewId)) = Range(hard) \cup {NewId}
            /\ IsInjective(InsertAt(hard, k, NewId))
        BY <1>4, <1>5, <3>5, InsertRange
      <3>8. HardOrder'
        BY <3>1, <3>4 DEF HardOrder, w
      <3>9. Range(hard) \cup {NewId} = {i \in (Live \ old) \cup {NewId} : entry'[i].remove_at > 0}
        BY <1>1, <1>2, <1>3, <2>2
      <3>10. QED
        BY <3>1, <3>6, <3>7, <3>8, <3>9
    <2>3. QED
      BY <2>1, <2>2
  <1>9. QED
    BY <1>7, <1>8

(* A flow-mod that creates the entry e, in place of old or of none; idle,   *)
(* hard and refs are the lists and references without old.                  *)
Enters(e, old, idle, hard, refs) ==
  /\ e \in Entry /\ e.remove_at \in Nat /\ e.idle_timeout \in Nat
  /\ entry' = Append(entry, e) /\ UNCHANGED <<now, notices>>
  /\ old \subseteq same(e.match, e.priority)
  /\ idle \in Seq(DOMAIN entry) /\ IsInjective(idle)
  /\ Range(idle) = Range(idle_entries) \ old
  /\ hard \in Seq(DOMAIN entry) /\ IsInjective(hard) /\ InOrder(hard, Expiry(entry))
  /\ Range(hard) = Range(hard_entries) \ old
  /\ idle_entries' = add_to_idle(idle, NewId, e)
  /\ hard_entries' = add_to_hard(hard, NewId, e)
  /\ DOMAIN refs = DOMAIN flow_refs
  /\ \A x \in DOMAIN flow_refs :
       refs[x] = flow_refs[x] \ {i \in old : x \in entry[i].meter_refs}
  /\ flow_refs' = add_flow_ref(refs, NewId, e)
  /\ match_entries' \in Seq(DOMAIN entry') /\ IsInjective(match_entries')
  /\ Live' = (Live \ old) \cup {NewId} /\ PriorityOrder'
  /\ active_count' = Cardinality(Live') /\ active_count' \in Nat
  /\ active_count' <= max_entries

LEMMA EnterOK ==
  ASSUME IInv, NEW e, NEW old, NEW idle, NEW hard, NEW refs, Enters(e, old, idle, hard, refs)
  PROVE  IInv'
PROOF
  <1> DEFINE D == DOMAIN entry
             E == DOMAIN entry'
  <1> USE DEF Enters
  <1>1. /\ entry' \in Seq(Entry) /\ E = D \cup {NewId} /\ NewId \notin D
        /\ entry'[NewId] = e /\ (\A i \in D : entry'[i] = entry[i] /\ NewId > i)
    <2>1. /\ entry' \in Seq(Entry) /\ E = D \cup {NewId} /\ NewId \notin D
          /\ entry'[NewId] = e /\ (\A i \in D : entry'[i] = entry[i])
      BY AppendFacts
    <2>2. NewId \in Nat /\ \A i \in D : i \in Nat /\ i < NewId
      BY AppendFacts
    <2>3. \A i \in D : NewId > i
      BY <2>2
    <2>4. QED
      BY <2>1, <2>3
  <1>2. Live \subseteq D /\ old \subseteq Live
    BY LiveFinite DEF IInv, same
  <1>3. /\ idle_entries' \in Seq(E) /\ hard_entries' \in Seq(E)
        /\ IsInjective(idle_entries') /\ IsInjective(hard_entries') /\ HardOrder'
        /\ Range(idle_entries') = {i \in Live' : entry'[i].idle_timeout > 0}
        /\ Range(hard_entries') = {i \in Live' : entry'[i].remove_at > 0}
    BY TimeoutLists
  <1>4. /\ DOMAIN flow_refs' = DOMAIN flow_refs
        /\ \A x \in DOMAIN flow_refs :
             flow_refs'[x] = IF x \in e.meter_refs THEN refs[x] \cup {NewId} ELSE refs[x]
    BY DEF add_flow_ref
  <1>5. \A x \in DOMAIN flow_refs : \A i \in refs[x] :
          i \in Live \ old /\ i \in D /\ x \in entry[i].meter_refs
    BY <1>2 DEF IInv, NoDanglingRefs, RefsMutual
  <1>6. NoDanglingRefs' /\ RefsMutual'
    <2>1. ASSUME NEW x \in DOMAIN flow_refs', NEW i \in flow_refs'[x]
          PROVE  i \in Live' /\ x \in entry'[i].meter_refs
      <3>1. CASE i \in refs[x]
        BY <1>1, <1>4, <1>5, <3>1
      <3>2. CASE i \notin refs[x]
        <4>1. i = NewId /\ x \in e.meter_refs
          BY <1>4, <3>2
        <4>2. QED
          BY <1>1, <4>1
      <3>3. QED
        BY <3>1, <3>2
    <2>2. QED
      BY <2>1 DEF NoDanglingRefs, RefsMutual
  <1>7. notices \in Seq(Notice) /\ \A k \in DOMAIN notices : notices[k] \in Notice
    <2>1. notices \in Seq(Notice)
      BY DEF IInv, TypeOK, Notice, Reason
    <2>2. QED
      BY <2>1, LenProperties, ElementOfSeq
  <1>8. TypeOK'
    <2>1. notices' \in Seq([id : E, reason : Reason])
      <3>1. Notice \subseteq [id : E, reason : Reason]
        BY <1>1 DEF Notice
      <3>2. QED
        BY <1>7, <3>1, WiderSeq
    <2>2. \A x \in DOMAIN flow_refs' : flow_refs'[x] \subseteq E
      BY <1>1, <1>4, <1>5
    <2>3. DOMAIN flow_refs' \subseteq Meter
      BY <1>4 DEF IInv, TypeOK
    <2>4. now' \in Nat
      BY DEF IInv, TypeOK
    <2>5. QED
      BY <1>1, <1>3, <2>1, <2>2, <2>3, <2>4 DEF TypeOK, Reason
  <1>9. ListsAgree'
    BY <1>3 DEF ListsAgree
  <1>10. NoticedOnce'
    <2> DEFINE noticed == {notices[k].id : k \in DOMAIN notices}
    <2>1. /\ \A k, l \in DOMAIN notices : notices[k].id = notices[l].id => k = l
          /\ noticed \cap Live = {}
          /\ \A i \in D \ (noticed \cup Live) :
               \E j \in D : /\ j > i
                            /\ entry[j].match = entry[i].match
                            /\ entry[j].priority = entry[i].priority
      BY DEF IInv, NoticedOnce
    <2>2. noticed \subseteq D
      BY <1>7 DEF Notice
    <2> HIDE DEF noticed
    <2>3. noticed \cap Live' = {}
      BY <1>1, <2>1, <2>2
    <2>4. ASSUME NEW i \in E \ (noticed \cup Live')
          PROVE  \E j \in E : /\ j > i
                              /\ entry'[j].match = entry'[i].match
                              /\ entry'[j].priority = entry'[i].priority
      <3>1. i \in D /\ (i \in Live => i \in old)
        BY <1>1
      <3>2. CASE i \in Live
        <4>1. entry[i].match = e.match /\ entry[i].priority = e.priority
          BY <3>1, <3>2 DEF same
        <4>2. QED
          BY <1>1, <3>1, <4>1
      <3>3. CASE i \notin Live
        <4>1. i \in D \ (noticed \cup Live)
          BY <3>1, <3>3
        <4>2. PICK j \in D : /\ j > i
                             /\ entry[j].match = entry[i].match
                             /\ entry[j].priority = entry[i].priority
          BY <2>1, <4>1
        <4>3. QED
          BY <1>1, <3>1, <4>2
      <3>4. QED
        BY <3>2, <3>3
    <2> DEFINE new == {notices'[k].id : k \in DOMAIN notices'}
               Later(i) == \E j \in E : /\ j > i
                                       /\ entry'[j].match = entry'[i].match
                                       /\ entry'[j].priority = entry'[i].priority
    <2>5. /\ new = noticed
          /\ \A k, l \in DOMAIN notices' : notices'[k].id = notices'[l].id => k = l
      <3>1. notices' = notices
        OBVIOUS
      <3>2. QED
        BY <2>1, <3>1 DEF noticed
    <2>6. \A i \in E \ (noticed \cup Live') : Later(i)
      BY <2>4
    <2>7. NoticedOnce' <=> /\ \A k, l \in DOMAIN notices' : notices'[k].id = notices'[l].id => k = l
                           /\ new \cap Live' = {}
                           /\ \A i \in E \ (new \cup Live') : Later(i)
      BY DEF NoticedOnce
    <2> HIDE DEF new, Later
    <2>8. QED
      BY <2>3, <2>5, <2>6, <2>7
  <1>11. QED
    BY <1>3, <1>6, <1>8, <1>9, <1>10 DEF IInv

LEMMA InsertOK ==
  ASSUME IInv, NEW m \in Match, NEW p \in Priority, NEW t \in FlowMods,
         flow_table_insert(m, p, t)
  PROVE  IInv'
PROOF
  <1> DEFINE e == flow_entry_create(m, p, t)
             K == {i \in Live : p > entry[i].priority}
             k == FirstIn(match_entries, K)
             D == DOMAIN entry
             E == DOMAIN entry'
             w == Falling(entry')
  <1>1. /\ active_count # max_entries /\ active_count' = active_count + 1
        /\ entry' = Append(entry, e)
        /\ match_entries' = InsertAt(match_entries, k, NewId)
        /\ idle_entries' = add_to_idle(idle_entries, NewId, e)
        /\ hard_entries' = add_to_hard(hard_entries, NewId, e)
        /\ flow_refs' = add_flow_ref(flow_refs, NewId, e)
        /\ UNCHANGED <<now, notices>>
    BY DEF flow_table_insert
  <1>2. e \in Entry /\ e.match = m /\ e.priority = p /\ p \in Nat /\ e.remove_at \in Nat
        /\ e.idle_timeout \in Nat
    BY CreateFacts
  <1> HIDE DEF e
  <1>3. /\ E = D \cup {NewId} /\ NewId \notin D /\ entry'[NewId] = e
        /\ (\A i \in D : entry'[i] = entry[i]) /\ w \in [E -> Int]
        /\ (\A i \in D : w[i] = Falling(entry)[i])
    BY <1>1, <1>2, AppendFacts
  <1>4. match_entries \in Seq(D) /\ IsInjective(match_entries) /\ InOrder(match_entries, Falling(entry))
        /\ Live \subseteq D
    BY LiveFinite DEF IInv, TypeOK, ListsAgree, PriorityOrder
  <1>5. match_entries \in Seq(E) /\ NewId \in E /\ NewId \notin Range(match_entries)
    BY <1>3, <1>4, WiderSeq DEF Live
  <1>6. \A y \in Range(match_entries) : y \in K <=> w[y] > w[NewId]
    <2> SUFFICES ASSUME NEW y \in Range(match_entries) PROVE y \in K <=> w[y] > w[NewId]
      OBVIOUS
    <2>1. y \in Live /\ y \in D /\ entry[y].priority \in Nat
      BY <1>4, Fields DEF Live, IInv
    <2>2. w[y] = 0 - entry[y].priority /\ w[NewId] = 0 - p
      BY <1>2, <1>3, <2>1 DEF Falling
    <2> HIDE DEF w
    <2>3. QED
      BY <1>2, <2>1, <2>2
  <1> DEFINE v == Falling(entry)
  <1>7. \A x \in D : v[x] = w[x]
    BY <1>3
  <1> HIDE DEF w, v, K
  <1>8. InOrder(match_entries, w)
    <2>1. InOrder(match_entries, v)
      BY <1>4 DEF v
    <2>2. QED
      BY <1>4, <1>7, <2>1, SameWeights
  <1>9. InOrder(match_entries', w)
    BY <1>1, <1>3, <1>5, <1>6, <1>8, InsertInOrder
  <1>10. k \in 1 .. Len(match_entries) + 1
    BY <1>4, FirstInFacts
  <1> HIDE DEF k
  <1>11. /\ match_entries' \in Seq(E) /\ IsInjective(match_entries')
         /\ Range(match_entries') = Range(match_entries) \cup {NewId}
    <2> HIDE DEF E
    <2>1. InsertAt(match_entries, k, NewId) \in Seq(E)
      BY <1>5, <1>10, InsertFacts DEF Inserted
    <2>2. /\ IsInjective(InsertAt(match_entries, k, NewId))
          /\ Range(InsertAt(match_entries, k, NewId)) = Range(match_entries) \cup {NewId}
      BY <1>4, <1>5, <1>10, InsertRange
    <2>3. QED
      BY <1>1, <2>1, <2>2
  <1> DEFINE none == {}
  <1>12. Live' = (Live \ none) \cup {NewId}
    BY <1>11 DEF Live
  <1>13. active_count' = Cardinality(Live') /\ active_count' \in Nat /\ active_count' <= max_entries
    <2>1. active_count = Cardinality(Live) /\ active_count <= max_entries /\ active_count \in Nat
          /\ IsFiniteSet(Live)
      BY LiveFinite DEF IInv, ListsAgree, TypeOK
    <2>2. NewId \notin Live /\ Live' = Live \cup {NewId}
      BY <1>3, <1>4, <1>12
    <2>3. Cardinality(Live') = Cardinality(Live) + 1
      BY <2>1, <2>2, FS_AddElement
    <2>4. QED
      BY <1>1, <2>1, <2>3, FlowTableAssumption DEF FlowTableAssumption
  <1>14. PriorityOrder'
    BY <1>9 DEF PriorityOrder, w
  <1>15. /\ idle_entries \in Seq(D) /\ IsInjective(idle_entries)
         /\ Range(idle_entries) = Range(idle_entries) \ none
         /\ hard_entries \in Seq(D) /\ IsInjective(hard_entries)
         /\ InOrder(hard_entries, Expiry(entry))
         /\ Range(hard_entries) = Range(hard_entries) \ none
    BY DEF IInv, TypeOK, ListsAgree, HardOrder
  <1>16. none \subseteq same(e.match, e.priority)
    OBVIOUS
  <1>17. \A x \in DOMAIN flow_refs :
           flow_refs[x] = flow_refs[x] \ {i \in none : x \in entry[i].meter_refs}
    OBVIOUS
  <1> HIDE DEF none
  <1>18. Enters(e, none, idle_entries, hard_entries, flow_refs)
    BY <1>1, <1>2, <1>11, <1>12, <1>13, <1>14, <1>15, <1>16, <1>17 DEF Enters
  <1>19. QED
    BY <1>18, EnterOK

LEMMA ReplaceOK ==
  ASSUME IInv, NEW m \in Match, NEW p \in Priority, NEW t \in FlowMods,
         flow_table_replace(m, p, t)
  PROVE  IInv'
PROOF
  <1> DEFINE e == flow_entry_create(m, p, t)
             D == DOMAIN entry
             E == DOMAIN entry'
             s == match_entries
  <1>1. entry' = Append(entry, e) /\ UNCHANGED <<now, active_count, notices>>
    BY DEF flow_table_replace
  <1>2. PICK old \in same(m, p) :
          /\ match_entries' = [i \in DOMAIN s |-> IF s[i] = old THEN NewId ELSE s[i]]
          /\ idle_entries' = add_to_idle(Without(idle_entries, {old}), NewId, e)
          /\ hard_entries' = add_to_hard(Without(hard_entries, {old}), NewId, e)
          /\ flow_refs' = add_flow_ref(del_meter_refs(flow_refs, {old}), NewId, e)
    BY DEF flow_table_replace
  <1>3. e \in Entry /\ e.match = m /\ e.priority = p /\ p \in Nat /\ e.remove_at \in Nat
        /\ e.idle_timeout \in Nat
    BY CreateFacts
  <1> HIDE DEF e
  <1>4. /\ E = D \cup {NewId} /\ NewId \notin D /\ entry'[NewId] = e
        /\ (\A i \in D : Falling(entry')[i] = Falling(entry)[i])
    BY <1>1, <1>3, AppendFacts
  <1>5. /\ s \in Seq(D) /\ DOMAIN s = 1 .. Len(s) /\ Len(s) \in Nat
        /\ (\A i \in DOMAIN s : s[i] \in D /\ s[i] \in Live) /\ IsInjective(s) /\ Live \subseteq D
    <2>1. s \in Seq(D) /\ IsInjective(s) /\ Live \subseteq D
      BY LiveFinite DEF IInv, TypeOK, ListsAgree
    <2>2. QED
      BY <2>1, LenProperties, ElementOfSeq DEF Live, Range
  <1>6. old \in Live /\ old \in D /\ entry[old].match = m /\ entry[old].priority = p
    BY <1>5 DEF same
  <1> DEFINE r == [i \in DOMAIN s |-> IF s[i] = old THEN NewId ELSE s[i]]
  <1>7. r \in Seq(E) /\ DOMAIN r = DOMAIN s
        /\ \A i \in DOMAIN s : r[i] = IF s[i] = old THEN NewId ELSE s[i]
    <2>1. r = [i \in 1 .. Len(s) |-> IF s[i] = old THEN NewId ELSE s[i]]
      BY <1>5
    <2>2. \A i \in 1 .. Len(s) : (IF s[i] = old THEN NewId ELSE s[i]) \in E
      BY <1>4, <1>5
    <2>3. r \in Seq(E)
      BY <1>5, <2>1, <2>2, IsASeq
    <2>4. QED
      BY <2>3
  <1>8. match_entries' = r
    BY <1>2
  <1> HIDE DEF r
  <1>9. IsInjective(r)
    BY <1>4, <1>5, <1>7 DEF IsInjective
  <1>10. Live' = (Live \ {old}) \cup {NewId}
    <2>1. PICK k \in DOMAIN s : s[k] = old
      BY <1>6 DEF Live, Range
    <2>2. NewId \in Range(r)
      BY <1>7, <2>1 DEF Range
    <2>3. \A i \in DOMAIN s : r[i] \in (Live \ {old}) \cup {NewId}
      BY <1>5, <1>7
    <2>4. ASSUME NEW x \in Live \ {old} PROVE x \in Range(r)
      <3>1. PICK i \in DOMAIN s : s[i] = x
        BY DEF Live, Range
      <3>2. r[i] = x
        BY <1>7, <3>1
      <3>3. QED
        BY <1>7, <3>2 DEF Range
    <2>5. Range(r) = (Live \ {old}) \cup {NewId}
      BY <1>7, <2>2, <2>3, <2>4 DEF Range
    <2>6. QED
      BY <1>8, <2>5 DEF Live
  <1>11. PriorityOrder'
    <2> DEFINE v == Falling(entry)
               w == Falling(entry')
    <2>1. v[old] = w[NewId]
      BY <1>3, <1>4, <1>6 DEF Falling
    <2>2. \A i \in DOMAIN s : w[r[i]] = v[s[i]]
      BY <1>4, <1>5, <1>7, <2>1
    <2>3. \A i, j \in DOMAIN s : i < j => v[s[i]] <= v[s[j]]
      BY DEF IInv, PriorityOrder, InOrder
    <2> HIDE DEF v, w
    <2>4. \A i, j \in DOMAIN r : i < j => w[r[i]] <= w[r[j]]
      BY <1>7, <2>2, <2>3
    <2>5. QED
      BY <1>8, <2>4 DEF PriorityOrder, InOrder, w
  <1>12. active_count' = Cardinality(Live') /\ active_count' \in Nat /\ active_count' <= max_entries
    <2>1. active_count = Cardinality(Live) /\ active_count <= max_entries /\ active_count \in Nat
          /\ IsFiniteSet(Live)
      BY LiveFinite DEF IInv, ListsAgree, TypeOK
    <2>2. IsFiniteSet(Live \ {old}) /\ Cardinality(Live \ {old}) = Cardinality(Live) - 1
      BY <1>6, <2>1, FS_RemoveElement
    <2>3. NewId \notin Live \ {old}
      BY <1>4, <1>5
    <2>4. Cardinality((Live \ {old}) \cup {NewId}) = Cardinality(Live \ {old}) + 1
      BY <2>2, <2>3, FS_AddElement
    <2>5. QED
      BY <1>1, <1>10, <2>1, <2>2, <2>4
  <1> DEFINE gone == {old}
             idle == Without(idle_entries, gone)
             hard == Without(hard_entries, gone)
             refs == del_meter_refs(flow_refs, gone)
  <1>13. DOMAIN refs = DOMAIN flow_refs
         /\ \A x \in DOMAIN flow_refs :
              refs[x] = flow_refs[x] \ {i \in gone : x \in entry[i].meter_refs}
    BY DEF del_meter_refs
  <1>14. gone \subseteq same(e.match, e.priority)
    BY <1>2, <1>3
  <1>15. Live' = (Live \ gone) \cup {NewId}
    BY <1>10
  <1>16. /\ idle_entries' = add_to_idle(idle, NewId, e)
         /\ hard_entries' = add_to_hard(hard, NewId, e)
         /\ flow_refs' = add_flow_ref(refs, NewId, e)
    BY <1>2
  <1> HIDE DEF gone
  <1>17. /\ idle \in Seq(D) /\ IsInjective(idle) /\ Range(idle) = Range(idle_entries) \ gone
         /\ hard \in Seq(D) /\ IsInjective(hard) /\ Range(hard) = Range(hard_entries) \ gone
         /\ InOrder(hard, Expiry(entry))
    <2>1. /\ idle_entries \in Seq(D) /\ IsInjective(idle_entries)
          /\ hard_entries \in Seq(D) /\ IsInjective(hard_entries)
          /\ InOrder(hard_entries, Expiry(entry))
      BY DEF IInv, TypeOK, ListsAgree, HardOrder
    <2>2. QED
      BY <2>1, WithoutFacts, WithoutInOrder
  <1> HIDE DEF idle, hard, refs
  <1>18. Enters(e, gone, idle, hard, refs)
    BY <1>1, <1>3, <1>7, <1>8, <1>9, <1>11, <1>12, <1>13, <1>14, <1>15, <1>16, <1>17 DEF Enters
  <1>19. QED
    BY <1>18, EnterOK

-----------------------------------------------------------------------------
LEMMA InitOK == Init => IInv
PROOF
  <1> SUFFICES ASSUME Init PROVE IInv
    OBVIOUS
  <1>1. DOMAIN entry = {} /\ DOMAIN match_entries = {} /\ DOMAIN idle_entries = {}
        /\ DOMAIN hard_entries = {} /\ DOMAIN notices = {} /\ DOMAIN flow_refs = {}
    BY DEF Init
  <1>2. Range(match_entries) = {} /\ Range(idle_entries) = {} /\ Range(hard_entries) = {} /\ Live = {}
    BY <1>1 DEF Range, Live
  <1>3. TypeOK
    BY <1>1 DEF Init, TypeOK
  <1>4. ListsAgree
    <2>1. IsInjective(match_entries) /\ IsInjective(idle_entries) /\ IsInjective(hard_entries)
      BY <1>1 DEF IsInjective
    <2>2. active_count = Cardinality(Live) /\ active_count <= max_entries
      BY <1>2, FS_EmptySet, FlowTableAssumption DEF Init, FlowTableAssumption
    <2>3. QED
      BY <1>2, <2>1, <2>2 DEF ListsAgree
  <1>5. PriorityOrder /\ HardOrder
    BY <1>1 DEF PriorityOrder, HardOrder, InOrder
  <1>6. NoDanglingRefs /\ RefsMutual
    BY <1>1 DEF NoDanglingRefs, RefsMutual
  <1>7. NoticedOnce
    BY <1>1 DEF NoticedOnce
  <1>8. QED
    BY <1>3, <1>4, <1>5, <1>6, <1>7 DEF IInv

LEMMA NextOK == IInv /\ [Next]_vars => IInv'
PROOF
  <1> SUFFICES ASSUME IInv, [Next]_vars PROVE IInv'
    OBVIOUS
  <1>1. CASE flow_table_add
    BY <1>1, ReplaceOK, InsertOK DEF flow_table_add
  <1>2. CASE flow_table_modify
    BY <1>2, ModifyOK
  <1>3. CASE flow_table_delete
    BY <1>3, DeleteOK DEF flow_table_delete
  <1>4. CASE flow_table_delete_strict
    BY <1>4, DeleteOK DEF flow_table_delete_strict
  <1>5. CASE flow_table_lookup
    BY <1>5, LookupOK
  <1>6. CASE flow_table_timeout
    BY <1>6, TimeoutOK
  <1>7. CASE meter_table_add
    <2>1. PICK x \in Meter \ DOMAIN flow_refs :
            flow_refs' = [y \in DOMAIN flow_refs \cup {x} |-> IF y = x THEN {} ELSE flow_refs[y]]
      BY <1>7 DEF meter_table_add
    <2>2. /\ now' = now /\ entry' = entry /\ match_entries' = match_entries
          /\ idle_entries' = idle_entries /\ hard_entries' = hard_entries
          /\ active_count' = active_count /\ notices' = notices /\ Live' = Live
      BY <1>7 DEF meter_table_add, lists, Live
    <2>3. DOMAIN flow_refs' = DOMAIN flow_refs \cup {x}
          /\ \A y \in DOMAIN flow_refs' : flow_refs'[y] = IF y = x THEN {} ELSE flow_refs[y]
      BY <2>1
    <2>4. TypeOK'
      BY <2>2, <2>3 DEF IInv, TypeOK
    <2>5. NoDanglingRefs' /\ RefsMutual'
      BY <2>2, <2>3 DEF IInv, NoDanglingRefs, RefsMutual
    <2>6. ListsAgree' /\ PriorityOrder' /\ HardOrder' /\ NoticedOnce'
      BY <2>2 DEF IInv, ListsAgree, PriorityOrder, HardOrder, NoticedOnce
    <2>7. QED
      BY <2>4, <2>5, <2>6 DEF IInv
  <1>8. CASE \E x \in DOMAIN flow_refs : meter_table_delete(x)
    BY <1>8, MeterDeleteOK
  <1>9. CASE Tick \/ UNCHANGED vars
    <2>1. /\ entry' = entry /\ match_entries' = match_entries
          /\ idle_entries' = idle_entries /\ hard_entries' = hard_entries
          /\ active_count' = active_count /\ notices' = notices /\ Live' = Live
          /\ flow_refs' = flow_refs
      BY <1>9 DEF Tick, vars, lists, Live
    <2>2. now' \in Nat
      BY <1>9 DEF Tick, vars, IInv, TypeOK
    <2>3. TypeOK'
      BY <2>1, <2>2 DEF IInv, TypeOK
    <2>4. ListsAgree' /\ PriorityOrder' /\ HardOrder' /\ NoticedOnce'
      BY <2>1 DEF IInv, ListsAgree, PriorityOrder, HardOrder, NoticedOnce
    <2>5. NoDanglingRefs' /\ RefsMutual'
      BY <2>1 DEF IInv, NoDanglingRefs, RefsMutual
    <2>6. QED
      BY <2>3, <2>4, <2>5 DEF IInv
  <1>10. QED
    BY <1>1, <1>2, <1>3, <1>4, <1>5, <1>6, <1>7, <1>8, <1>9 DEF Next

(* The orders of the two lists and the mutual references are what keeps the *)
(* other parts invariant.                                                   *)
THEOREM FlowTableInvariant == Spec => []IInv
PROOF
  <1>1. Init => IInv
    BY InitOK
  <1>2. IInv /\ [Next]_vars => IInv'
    BY NextOK
  <1>3. QED
    BY <1>1, <1>2, PTL DEF Spec

(* The fields of entries and the lists have their types. *)
THEOREM TypeCorrect == Spec => []TypeOK
PROOF
  <1>1. IInv => TypeOK
    BY DEF IInv
  <1>2. QED
    BY <1>1, FlowTableInvariant, PTL

(* Each entry is in the lists of its timeouts and in no other, once, and    *)
(* active_count, which decides whether the table is full, counts them:      *)
(* whatever is created, replaced, deleted or timed out.                     *)
THEOREM ListsAlwaysAgree == Spec => []ListsAgree
PROOF
  <1>1. IInv => ListsAgree
    BY DEF IInv
  <1>2. QED
    BY <1>1, FlowTableInvariant, PTL

(* An entry is reported removed once, and one that left without a report    *)
(* was replaced by one of the same match and priority.                      *)
THEOREM RemovalsNoticedOnce == Spec => []NoticedOnce
PROOF
  <1>1. IInv => NoticedOnce
    BY DEF IInv
  <1>2. QED
    BY <1>1, FlowTableInvariant, PTL

(* No meter refers to an entry that flow_entry_destroy has freed. *)
THEOREM RefsNeverDangle == Spec => []NoDanglingRefs
PROOF
  <1>1. IInv => NoDanglingRefs
    BY DEF IInv
  <1>2. QED
    BY <1>1, FlowTableInvariant, PTL

LEMMA LookupHighest == IInv => HighestPriorityWins
PROOF
  <1> SUFFICES ASSUME IInv, NEW p \in Packet, hits(p) # <<>>, NEW x \in Range(hits(p))
               PROVE  entry[x].priority <= entry[Head(hits(p))].priority
    BY DEF HighestPriorityWins
  <1> DEFINE h == hits(p)
             s == match_entries
             D == DOMAIN entry
             K == {i \in Live : p \in entry[i].match}
  <1>1. s \in Seq(D)
    BY DEF IInv, TypeOK
  <1>2. h = Keep(s, K)
    BY DEF hits
  <1> HIDE DEF h, K
  <1>3. h \in Seq(D) /\ \A i, j \in DOMAIN h : i < j =>
                          \E a, b \in DOMAIN s : a < b /\ h[i] = s[a] /\ h[j] = s[b]
    BY <1>1, <1>2, KeepFacts
  <1>4. DOMAIN h = 1 .. Len(h) /\ Len(h) \in Nat /\ h # <<>> /\ x \in Range(h)
    BY <1>3, LenProperties DEF h
  <1>5. 1 \in DOMAIN h /\ Head(h) = h[1]
    BY <1>3, <1>4, EmptySeq, HeadTailProperties
  <1>6. PICK j \in DOMAIN h : h[j] = x
    BY <1>4 DEF Range
  <1>7. h[1] \in D /\ x \in D
    BY <1>3, <1>4, <1>5, <1>6, ElementOfSeq
  <1>8. entry[h[1]].priority \in Nat /\ entry[x].priority \in Nat
    BY <1>7, Fields DEF IInv
  <1>9. entry[x].priority <= entry[h[1]].priority
    <2>1. CASE j = 1
      BY <1>6, <1>8, <2>1
    <2>2. CASE j # 1
      <3>1. 1 < j
        BY <1>4, <2>2
      <3>2. PICK a, b \in DOMAIN s : a < b /\ h[1] = s[a] /\ h[j] = s[b]
        BY <1>3, <1>5, <3>1
      <3>3. Falling(entry)[h[1]] <= Falling(entry)[x]
        BY <1>6, <3>2 DEF IInv, PriorityOrder, InOrder
      <3>4. 0 - entry[h[1]].priority <= 0 - entry[x].priority
        BY <1>7, <3>3 DEF Falling
      <3>5. QED
        BY <1>8, <3>4
    <2>3. QED
      BY <2>1, <2>2
  <1>10. QED
    BY <1>5, <1>9 DEF h

(* The first entry that flow_table_lookup finds is of the highest priority  *)
(* of all that accept the packet, for any number of entries and            *)
(* priorities.                                                              *)
THEOREM LookupFindsHighest == Spec => []HighestPriorityWins
PROOF
  <1>1. QED
    BY LookupHighest, FlowTableInvariant, PTL

(* Stopping at the first entry of hard_entries that is not over leaves no   *)
(* entry in the table whose time is over, hard or idle.                     *)
THEOREM SweepsLeaveNothing == Spec => SweptClean
PROOF
  <1>1. IInv /\ [Next]_vars =>
          [flow_table_timeout => \A i \in Live' : ~hard_over(i) /\ ~idle_over(i)]_vars
    BY TimeoutOK
  <1>2. QED
    BY <1>1, FlowTableInvariant, PTL DEF Spec, SweptClean

-----------------------------------------------------------------------------
(* RuleLife: the table of a switch with the controller and the connection   *)
(* around it.  Its lists are walked in the same way, so the lemmas about    *)
(* FirstIn, Keep and InsertAt serve here too.                               *)
RecordOf == [sdn_node_req : {portOf[t] : t \in Trans}, transmitter : Trans,
             state : {"HAS_PATH", "LEGACY"}]
OrderOf(p) == [n : 1 .. p, from : Trans]
RuleOf(p) == [n : 1 .. p, from : Trans, age : 0 .. Idle + 1, life : 0 .. Hard + 1]
MessageOf == [kind : {"packet_in", "IDLE_TIMEOUT", "HARD_TIMEOUT"}, from : Trans]

(* What a lookup relies on: the rules are in the order of their numbers,    *)
(* and no two of one interface have the same number.                        *)
NewestFirst(s) ==
  \A i, j \in DOMAIN s : i < j =>
    /\ s[i].n >= s[j].n
    /\ s[i].from = s[j].from => s[i].n > s[j].n

(* Every packet-in under way may use up a number. *)
LifeInv ==
  /\ LifeTypeOK
  /\ priority + packet_ins <= MaxPriority
  /\ NewestFirst(table)

(* Leaving rules out keeps the order. *)
LEMMA KeepNewestFirst ==
  ASSUME NEW S, NEW s \in Seq(S), NEW K, NewestFirst(s)
  PROVE  NewestFirst(Keep(s, K))
PROOF
  <1> DEFINE t == Keep(s, K)
  <1>1. \A i, j \in DOMAIN t : i < j =>
          \E a, b \in DOMAIN s : a < b /\ t[i] = s[a] /\ t[j] = s[b]
    BY KeepFacts
  <1> HIDE DEF t
  <1>2. NewestFirst(t)
    BY <1>1 DEF NewestFirst
  <1>3. QED
    BY <1>2 DEF t

(* So does changing nothing but ages. *)
LEMMA SameNewestFirst ==
  ASSUME NEW s, NEW t, NewestFirst(s), DOMAIN t = DOMAIN s,
         \A i \in DOMAIN s : t[i].n = s[i].n /\ t[i].from = s[i].from
  PROVE  NewestFirst(t)
PROOF
  BY DEF NewestFirst

(* And inserting a rule whose number no rule of its interface has in front  *)
(* of the first lower one.                                                  *)
LEMMA InsertNewestFirst ==
  ASSUME NEW p \in Nat, NEW s \in Seq(RuleOf(p)), NEW x \in RuleOf(p), NEW K,
         NewestFirst(s), \A r \in Range(s) : r \in K <=> r.n < x.n,
         \A i \in DOMAIN s : ~(s[i].from = x.from /\ s[i].n = x.n)
  PROVE  NewestFirst(InsertAt(s, FirstIn(s, K), x))
PROOF
  <1> DEFINE k == FirstIn(s, K)
             t == InsertAt(s, k, x)
             S == RuleOf(p)
  <1>1. Len(s) \in Nat /\ DOMAIN s = 1 .. Len(s)
        /\ \A i \in DOMAIN s : s[i] \in S /\ s[i] \in Range(s)
    <2>1. s \in Seq(S)
      OBVIOUS
    <2> HIDE DEF S
    <2>2. QED
      BY <2>1, LenProperties, ElementOfSeq DEF Range
  <1>2. x.n \in Nat /\ \A i \in DOMAIN s : s[i].n \in Nat
    BY <1>1 DEF RuleOf
  <1> HIDE DEF S
  <1>3. k \in 1 .. Len(s) + 1 /\ (\A i \in 1 .. k - 1 : i \in DOMAIN s /\ s[i] \notin K)
        /\ (k <= Len(s) => s[k] \in K)
    BY FirstInFacts
  <1> HIDE DEF k
  <1>4. Inserted(t, S, s, k, x)
    BY <1>3, InsertFacts DEF S
  <1> HIDE DEF t
  <1>5. k \in Nat /\ Len(t) = Len(s) + 1 /\ DOMAIN t = 1 .. Len(s) + 1
        /\ \A i \in 1 .. Len(s) + 1 : t[i] = IF i < k THEN s[i] ELSE IF i = k THEN x ELSE s[i - 1]
    <2>1. t \in Seq(S) /\ Len(t) = Len(s) + 1
      BY <1>4 DEF Inserted
    <2>2. DOMAIN t = 1 .. Len(t)
      BY <2>1, LenProperties
    <2>3. QED
      BY <1>3, <1>4, <2>1, <2>2 DEF Inserted
  <1>6. ASSUME NEW i \in 1 .. k - 1
        PROVE  s[i].n >= x.n /\ (s[i].from = x.from => s[i].n > x.n)
    <2>1. i \in DOMAIN s /\ ~(s[i].n < x.n) /\ s[i].n \in Nat
      BY <1>1, <1>2, <1>3
    <2>2. QED
      BY <1>2, <2>1
  <1>7. ASSUME NEW i \in DOMAIN s, i >= k PROVE x.n > s[i].n
    <2>1. k \in DOMAIN s /\ s[k].n < x.n
      BY <1>1, <1>3, <1>5, <1>7
    <2>2. s[k].n >= s[i].n
      BY <1>1, <1>2, <1>5, <1>7, <2>1 DEF NewestFirst
    <2>3. QED
      BY <1>2, <2>1, <2>2
  <1>8. ASSUME NEW i \in DOMAIN t, NEW j \in DOMAIN t, i < j
        PROVE  t[i].n >= t[j].n /\ (t[i].from = t[j].from => t[i].n > t[j].n)
    <2>1. i \in Nat /\ j \in Nat /\ i \in 1 .. Len(s) + 1 /\ j \in 1 .. Len(s) + 1
      BY <1>1, <1>5
    <2>2. CASE j < k
      <3>1. i \in DOMAIN s /\ j \in DOMAIN s
        BY <1>1, <1>3, <1>5, <1>8, <2>1, <2>2
      <3>2. i < k
        BY <1>5, <1>8, <2>1, <2>2
      <3>3. t[i] = s[i] /\ t[j] = s[j]
        BY <1>5, <2>1, <2>2, <3>2
      <3>4. QED
        BY <1>8, <3>1, <3>3 DEF NewestFirst
    <2>3. CASE j = k
      <3>1. i \in 1 .. k - 1 /\ i < k /\ ~(j < k)
        BY <1>5, <1>8, <2>1, <2>3
      <3>2. t[i] = s[i] /\ t[j] = x
        BY <1>5, <2>1, <2>3, <3>1
      <3>3. QED
        BY <1>6, <3>1, <3>2
    <2>4. CASE k < j
      <3>1. ~(j < k) /\ j # k
        BY <1>5, <2>1, <2>4
      <3>2. t[j] = s[j - 1]
        BY <1>5, <2>1, <3>1
      <3>3. PICK b : b = j - 1
        OBVIOUS
      <3>4. b \in DOMAIN s /\ b >= k
        BY <1>1, <1>3, <1>5, <2>1, <2>4, <3>3
      <3>5. CASE i < k
        <4>1. i \in 1 .. k - 1 /\ t[i] = s[i] /\ i \in DOMAIN s /\ i < b
          BY <1>1, <1>3, <1>5, <2>1, <3>4, <3>5
        <4>2. QED
          BY <3>2, <3>3, <3>4, <4>1 DEF NewestFirst
      <3>6. CASE i = k
        <4>1. t[i] = x
          BY <1>5, <2>1, <3>6
        <4>2. x.n > s[b].n
          BY <1>7, <3>4
        <4>3. QED
          BY <1>2, <3>2, <3>3, <3>4, <4>1, <4>2
      <3>7. CASE k < i
        <4>1. ~(i < k) /\ i # k
          BY <1>5, <2>1, <3>7
        <4>2. t[i] = s[i - 1]
          BY <1>5, <2>1, <4>1
        <4>3. PICK a : a = i - 1
          OBVIOUS
        <4>4. a \in DOMAIN s /\ a < b
          BY <1>1, <1>3, <1>5, <1>8, <2>1, <3>3, <3>7, <4>3
        <4>5. QED
          BY <3>2, <3>3, <3>4, <4>2, <4>3, <4>4 DEF NewestFirst
      <3>8. QED
        BY <1>5, <2>1, <3>5, <3>6, <3>7
    <2>5. QED
      BY <1>5, <2>1, <2>2, <2>3, <2>4
  <1>9. NewestFirst(t)
    BY <1>8 DEF NewestFirst
  <1>10. QED
    BY <1>9 DEF t, k

(* The packet-ins of a queue, and how their number changes with it. *)
PacketIns(q) == {i \in DOMAIN q : q[i].kind = "packet_in"}

LEMMA PacketInsFinite ==
  ASSUME NEW q \in Seq(MessageOf)
  PROVE  IsFiniteSet(PacketIns(q)) /\ Cardinality(PacketIns(q)) \in Nat
PROOF
  <1>1. Len(q) \in Nat /\ DOMAIN q = 1 .. Len(q)
    BY LenProperties
  <1>2. IsFiniteSet(1 .. Len(q))
    BY <1>1, FS_Interval
  <1>3. PacketIns(q) \in SUBSET (1 .. Len(q))
    BY <1>1 DEF PacketIns
  <1>4. QED
    BY <1>2, <1>3, FS_Subset, FS_CardinalityType

LEMMA PacketInsAppend ==
  ASSUME NEW q \in Seq(MessageOf), NEW m \in MessageOf
  PROVE  Cardinality(PacketIns(Append(q, m))) <= Cardinality(PacketIns(q)) + 1
PROOF
  <1> DEFINE a == Append(q, m)
             n == Len(q)
  <1>1. n \in Nat /\ DOMAIN q = 1 .. n
    BY LenProperties
  <1>2. a \in Seq(MessageOf) /\ DOMAIN a = 1 .. n + 1 /\ \A i \in 1 .. n : a[i] = q[i]
    BY AppendProperties, LenProperties
  <1> HIDE DEF a
  <1>3. PacketIns(a) \subseteq PacketIns(q) \cup {n + 1}
    BY <1>1, <1>2 DEF PacketIns
  <1> DEFINE A == PacketIns(a)
             T == PacketIns(q) \cup {n + 1}
  <1>4. IsFiniteSet(T) /\ Cardinality(T) <= Cardinality(PacketIns(q)) + 1
        /\ Cardinality(T) \in Nat /\ Cardinality(PacketIns(q)) \in Nat
    <2>1. IsFiniteSet(PacketIns(q)) /\ Cardinality(PacketIns(q)) \in Nat
      BY PacketInsFinite
    <2>2. IsFiniteSet(T) /\ Cardinality(T) = IF n + 1 \in PacketIns(q) THEN Cardinality(PacketIns(q))
                                             ELSE Cardinality(PacketIns(q)) + 1
      BY <2>1, FS_AddElement
    <2> HIDE DEF T
    <2>3. QED
      BY <2>1, <2>2
  <1>5. A \in SUBSET T
    BY <1>3
  <1> HIDE DEF A, T
  <1>6. Cardinality(A) <= Cardinality(T) /\ Cardinality(A) \in Nat
    BY <1>4, <1>5, FS_Subset, FS_CardinalityType
  <1>7. QED
    BY <1>4, <1>6 DEF A, a

LEMMA PacketInsTail ==
  ASSUME NEW q \in Seq(MessageOf), q # <<>>
  PROVE  /\ Cardinality(PacketIns(Tail(q))) <= Cardinality(PacketIns(q))
         /\ Head(q).kind = "packet_in" =>
              Cardinality(PacketIns(Tail(q))) + 1 <= Cardinality(PacketIns(q))
PROOF
  <1> DEFINE t == Tail(q)
             n == Len(q)
             P == PacketIns(q)
             T == PacketIns(t)
  <1>1. n \in Nat \ {0} /\ DOMAIN q = 1 .. n
    BY LenProperties, EmptySeq
  <1>2. t \in Seq(MessageOf) /\ DOMAIN t = 1 .. n - 1 /\ \A i \in 1 .. n - 1 : t[i] = q[i + 1]
    BY HeadTailProperties, LenProperties
  <1>3. IsFiniteSet(P) /\ Cardinality(P) \in Nat /\ IsFiniteSet(T) /\ Cardinality(T) \in Nat
    BY <1>2, PacketInsFinite
  <1> HIDE DEF t
  <1> DEFINE R == P \ {1}
             f == [i \in T |-> i + 1]
  <1>4. f \in Injection(T, R)
    <2>1. \A i \in T : i \in Nat /\ i + 1 \in R
      BY <1>1, <1>2 DEF PacketIns
    <2>2. f \in [T -> R]
      BY <2>1
    <2>3. \A i, j \in T : f[i] = f[j] => i = j
      BY <2>1
    <2>4. QED
      BY <2>2, <2>3 DEF Injection, IsInjective
  <1>5. IsFiniteSet(R) /\ Cardinality(R) = IF 1 \in P THEN Cardinality(P) - 1 ELSE Cardinality(P)
    BY <1>3, FS_RemoveElement
  <1> HIDE DEF f, R
  <1>6. Cardinality(T) <= Cardinality(R)
    BY <1>4, <1>5, FS_Injection
  <1>7. Head(q).kind = "packet_in" => 1 \in P
    BY <1>1, HeadTailProperties DEF PacketIns
  <1> HIDE DEF P, T
  <1>8. /\ Cardinality(T) <= Cardinality(P)
        /\ Head(q).kind = "packet_in" => Cardinality(T) + 1 <= Cardinality(P)
    BY <1>3, <1>5, <1>6, <1>7
  <1>9. QED
    BY <1>8 DEF T, P, t

LEMMA PacketInsConcat ==
  ASSUME NEW q \in Seq(MessageOf), NEW r \in Seq(MessageOf),
         \A i \in DOMAIN r : r[i].kind # "packet_in"
  PROVE  PacketIns(q \o r) = PacketIns(q)
PROOF
  <1> DEFINE c == q \o r
             n == Len(q)
             m == Len(r)
  <1>1. n \in Nat /\ DOMAIN q = 1 .. n /\ m \in Nat /\ DOMAIN r = 1 .. m
    BY LenProperties
  <1>2. c \in Seq(MessageOf) /\ Len(c) = n + m
        /\ \A i \in 1 .. n + m : c[i] = IF i <= n THEN q[i] ELSE r[i - n]
    BY ConcatProperties
  <1> HIDE DEF c
  <1>3. DOMAIN c = 1 .. n + m
    BY <1>2, LenProperties
  <1> HIDE DEF n, m
  <1>4. ASSUME NEW i \in 1 .. n + m, ~(i <= n) PROVE c[i].kind # "packet_in"
    <2>1. i - n \in 1 .. m
      BY <1>1, <1>4
    <2>2. c[i] = r[i - n]
      BY <1>2, <1>4
    <2>3. QED
      BY <1>1, <2>1, <2>2
  <1>5. \A i \in 1 .. n : i \in 1 .. n + m /\ c[i] = q[i]
    BY <1>1, <1>2
  <1>6. \A i \in 1 .. n + m : i \in 1 .. n \/ ~(i <= n)
    BY <1>1
  <1>7. PacketIns(c) = PacketIns(q)
    BY <1>1, <1>3, <1>4, <1>5, <1>6 DEF PacketIns
  <1>8. QED
    BY <1>7 DEF c

LEMMA PacketInsCount == packet_ins = Cardinality(PacketIns(up))
PROOF
  BY DEF packet_ins, PacketIns, Cardinality, Cardinality

(* The parts of the invariant, and what follows when they hold again. *)
LEMMA LifeParts ==
  ASSUME LifeInv
  PROVE  /\ records \in Seq(RecordOf) /\ priority \in 1 .. MaxPriority
         /\ down \in Seq(OrderOf(priority)) /\ table \in Seq(RuleOf(priority))
         /\ up \in Seq(MessageOf) /\ NewestFirst(table)
         /\ priority + Cardinality(PacketIns(up)) <= MaxPriority
         /\ Cardinality(PacketIns(up)) \in Nat /\ MaxPriority \in Nat \ {0}
         /\ Idle \in Nat /\ Hard \in Nat
PROOF
  <1>1. /\ records \in Seq(RecordOf) /\ priority \in 1 .. MaxPriority
        /\ down \in Seq(OrderOf(priority)) /\ table \in Seq(RuleOf(priority))
        /\ up \in Seq(MessageOf)
    BY DEF LifeInv, LifeTypeOK, RecordOf, OrderOf, RuleOf, MessageOf
  <1>2. NewestFirst(table) /\ priority + Cardinality(PacketIns(up)) <= MaxPriority
    BY PacketInsCount DEF LifeInv
  <1>3. MaxPriority \in Nat \ {0} /\ Idle \in Nat /\ Hard \in Nat
    BY RuleLifeAssumption
  <1>4. QED
    BY <1>1, <1>2, <1>3, PacketInsFinite

LEMMA LifeAgain ==
  ASSUME records' \in Seq(RecordOf), priority' \in 1 .. MaxPriority,
         down' \in Seq(OrderOf(priority')), table' \in Seq(RuleOf(priority')),
         up' \in Seq(MessageOf), NewestFirst(table'),
         priority' + Cardinality(PacketIns(up')) <= MaxPriority
  PROVE  LifeInv'
PROOF
  <1>1. LifeTypeOK'
    BY DEF LifeTypeOK, RecordOf, OrderOf, RuleOf, MessageOf
  <1>2. (priority + packet_ins <= MaxPriority)'
    BY DEF packet_ins, PacketIns, Cardinality, Cardinality
  <1>3. QED
    BY <1>1, <1>2 DEF LifeInv

(* Rules that change nothing but their age. *)
LEMMA SeqAgain ==
  ASSUME NEW S, NEW s \in Seq(S), NEW t, t = [i \in DOMAIN s |-> t[i]], \A i \in DOMAIN s : t[i] \in S
  PROVE  t \in Seq(S)
PROOF
  <1>1. Len(s) \in Nat /\ DOMAIN s = 1 .. Len(s)
    BY LenProperties
  <1>2. QED
    BY <1>1, IsASeq

LEMMA AgesOK ==
  ASSUME LifeInv, UNCHANGED <<records, priority, down, up>>,
         table' = [i \in DOMAIN table |-> table'[i]],
         \A i \in DOMAIN table : /\ table'[i] \in RuleOf(priority)
                                 /\ table'[i].n = table[i].n /\ table'[i].from = table[i].from
  PROVE  LifeInv'
PROOF
  <1>1. table' \in Seq(RuleOf(priority))
    BY LifeParts, SeqAgain
  <1>2. NewestFirst(table')
    BY LifeParts, SameNewestFirst
  <1>3. QED
    BY <1>1, <1>2, LifeParts, LifeAgain

LEMMA HitOK ==
  ASSUME LifeInv, NEW t, Hit(t)
  PROVE  LifeInv'
PROOF
  <1>1. PICK k : table' = [table EXCEPT ![k].age = 0]
    BY DEF Hit
  <1>2. UNCHANGED <<records, priority, down, up>>
    BY DEF Hit
  <1>3. \A i \in DOMAIN table : table[i] \in RuleOf(priority)
    BY LifeParts, ElementOfSeq, LenProperties
  <1>4. ASSUME NEW i \in DOMAIN table
        PROVE  /\ table'[i] \in RuleOf(priority)
               /\ table'[i].n = table[i].n /\ table'[i].from = table[i].from
    <2>1. 0 \in 0 .. Idle + 1
      BY LifeParts
    <2>2. table'[i] = IF i = k THEN [table[i] EXCEPT !.age = 0] ELSE table[i]
      BY <1>1
    <2>3. QED
      BY <1>3, <2>1, <2>2 DEF RuleOf
  <1>5. QED
    BY <1>1, <1>2, <1>4, AgesOK

LEMMA Lesser ==
  ASSUME NEW a \in Nat, NEW b \in Nat
  PROVE  Min({a, b}) \in {a, b} /\ Min({a, b}) <= b
PROOF
  <1>1. \E x \in {a, b} : \A y \in {a, b} : x <= y
    BY a <= b \/ b <= a
  <1>2. QED
    BY <1>1 DEF Min

LEMMA TickOK ==
  ASSUME LifeInv, RulesAge
  PROVE  LifeInv'
PROOF
  <1>1. table' = [i \in DOMAIN table |->
                    [table[i] EXCEPT !.age = Min({@ + 1, Idle + 1}),
                                     !.life = Min({@ + 1, Hard + 1})]]
    BY DEF RulesAge
  <1>2. UNCHANGED <<records, priority, down, up>>
    BY DEF RulesAge
  <1>3. \A i \in DOMAIN table : table[i] \in RuleOf(priority)
    BY LifeParts, ElementOfSeq, LenProperties
  <1>4. ASSUME NEW i \in DOMAIN table
        PROVE  /\ table'[i] \in RuleOf(priority)
               /\ table'[i].n = table[i].n /\ table'[i].from = table[i].from
    <2>1. PICK a, b : /\ a = Min({table[i].age + 1, Idle + 1})
                      /\ b = Min({table[i].life + 1, Hard + 1})
      OBVIOUS
    <2>2. table'[i] = [table[i] EXCEPT !.age = a, !.life = b]
      BY <1>1, <2>1
    <2>3. table[i].age \in Nat /\ table[i].life \in Nat /\ Idle \in Nat /\ Hard \in Nat
      <3>1. Idle \in Nat /\ Hard \in Nat
        BY LifeParts
      <3>2. table[i].age \in 0 .. Idle + 1 /\ table[i].life \in 0 .. Hard + 1
        BY <1>3 DEF RuleOf
      <3>3. QED
        BY <3>1, <3>2
    <2>4. a \in 0 .. Idle + 1 /\ b \in 0 .. Hard + 1
      <3>1. PICK c, d : c = table[i].age + 1 /\ d = table[i].life + 1
        OBVIOUS
      <3>2. c \in Nat /\ d \in Nat /\ Idle + 1 \in Nat /\ Hard + 1 \in Nat
        BY <2>3, <3>1
      <3>3. a = Min({c, Idle + 1}) /\ b = Min({d, Hard + 1})
        BY <2>1, <3>1
      <3>4. /\ a \in {c, Idle + 1} /\ a <= Idle + 1
            /\ b \in {d, Hard + 1} /\ b <= Hard + 1
        BY <3>2, <3>3, Lesser
      <3>5. QED
        BY <3>2, <3>4
    <2>5. QED
      BY <1>3, <2>2, <2>4 DEF RuleOf
  <1>5. QED
    BY <1>1, <1>2, <1>4, AgesOK

LEMMA MissOK ==
  ASSUME LifeInv, NEW t \in Trans, Miss(t)
  PROVE  LifeInv'
PROOF
  <1> DEFINE m == [kind |-> "packet_in", from |-> t]
  <1>1. up' = Append(up, m) /\ UNCHANGED <<records, priority, down, table>>
        /\ priority + packet_ins < MaxPriority
    BY DEF Miss, within
  <1>2. m \in MessageOf
    BY DEF MessageOf
  <1> HIDE DEF m
  <1>3. up' \in Seq(MessageOf)
    BY <1>1, <1>2, LifeParts, AppendProperties
  <1>4. Cardinality(PacketIns(up')) <= Cardinality(PacketIns(up)) + 1
    BY <1>1, <1>2, LifeParts, PacketInsAppend
  <1>5. priority + Cardinality(PacketIns(up)) < MaxPriority
    BY <1>1, PacketInsCount
  <1>6. priority' + Cardinality(PacketIns(up')) <= MaxPriority
    <2>1. Cardinality(PacketIns(up')) \in Nat
      BY <1>3, PacketInsFinite
    <2>2. QED
      BY <1>1, <1>4, <1>5, <2>1, LifeParts
  <1>7. QED
    BY <1>1, <1>3, <1>6, LifeParts, LifeAgain

(* flow_table_add.  While numbers fit the priority field, a rule of the     *)
(* same match and priority has the same number.                             *)
LEMMA AddOK ==
  ASSUME LifeInv, MaxPriority < Modulus, flow_table_flow_mod
  PROVE  LifeInv'
PROOF
  <1> DEFINE h == Head(down)
             new == [n |-> h.n, from |-> h.from, age |-> 0, life |-> 0]
             S == RuleOf(priority)
             alike == {i \in DOMAIN table : table[i].from = new.from
                                           /\ table[i].n % Modulus = new.n % Modulus}
             less == {r \in Range(table) : r.n % Modulus < new.n % Modulus}
  <1>1. down # <<>> /\ down' = Tail(down) /\ UNCHANGED <<records, priority, up>>
    BY DEF flow_table_flow_mod
  <1>2. table' = IF alike # {} THEN [table EXCEPT ![Min(alike)] = new]
                 ELSE InsertAt(table, FirstIn(table, less), new)
    BY DEF flow_table_flow_mod
  <1>3. h \in OrderOf(priority) /\ down' \in Seq(OrderOf(priority))
    BY <1>1, LifeParts, HeadTailProperties
  <1>4. new \in S
    <2>1. 0 \in 0 .. Idle + 1 /\ 0 \in 0 .. Hard + 1
      BY LifeParts
    <2>2. h.n \in 1 .. priority /\ h.from \in Trans
      BY <1>3 DEF OrderOf
    <2> HIDE DEF h
    <2>3. QED
      BY <2>1, <2>2 DEF RuleOf
  <1>5. table \in Seq(S) /\ \A i \in DOMAIN table : table[i] \in S
    BY LifeParts, ElementOfSeq, LenProperties
  <1>6. priority \in Nat /\ priority < Modulus /\ Modulus \in Nat \ {0}
    BY RuleLifeAssumption, LifeParts
  <1>7. \A r \in S : r.n \in Nat /\ r.n % Modulus = r.n
    <2>1. \A n \in 1 .. priority : n \in Nat /\ n < Modulus
      BY <1>6
    <2>2. \A n \in Nat : n < Modulus => n % Modulus = n
      BY <1>6
    <2>3. \A r \in S : r.n \in 1 .. priority
      BY DEF RuleOf
    <2>4. QED
      BY <2>1, <2>2, <2>3
  <1> HIDE DEF new, S
  <1>8. table' \in Seq(S) /\ NewestFirst(table')
    <2>1. CASE alike # {}
      <3>1. \E x \in alike : \A y \in alike : x <= y
        <4>1. alike \subseteq Nat
          BY LifeParts, LenProperties
        <4> HIDE DEF alike
        <4>2. QED
          BY <2>1, <4>1, Least
      <3>2. PICK k : k = Min(alike)
        OBVIOUS
      <3>3. k \in alike
        BY <3>1, <3>2 DEF Min
      <3>4. k \in DOMAIN table /\ table[k].from = new.from /\ table[k].n = new.n
        BY <1>4, <1>5, <1>7, <3>3
      <3> HIDE DEF alike
      <3>5. table' = [table EXCEPT ![k] = new]
        BY <1>2, <2>1, <3>2
      <3>6. DOMAIN table' = DOMAIN table /\ table' = [i \in DOMAIN table |-> table'[i]]
        BY <3>5
      <3>7. \A i \in DOMAIN table : table'[i] = IF i = k THEN new ELSE table[i]
        BY <3>5
      <3>8. \A i \in DOMAIN table : table'[i] \in S
        BY <1>4, <1>5, <3>7
      <3>9. \A i \in DOMAIN table : table'[i].n = table[i].n /\ table'[i].from = table[i].from
        BY <3>4, <3>7
      <3>10. table' \in Seq(S)
        BY <1>5, <3>6, <3>8, SeqAgain
      <3>11. NewestFirst(table')
        BY <3>6, <3>9, LifeParts, SameNewestFirst
      <3>12. QED
        BY <3>10, <3>11
    <2>2. CASE alike = {}
      <3>1. \A i \in DOMAIN table : ~(table[i].from = new.from /\ table[i].n = new.n)
        BY <2>2
      <3>2. \A r \in Range(table) : r \in S
        BY <1>5 DEF Range
      <3>3. \A r \in Range(table) : r \in less <=> r.n < new.n
        BY <1>4, <1>7, <3>2
      <3> HIDE DEF alike
      <3>4. table' = InsertAt(table, FirstIn(table, less), new)
        BY <1>2, <2>2
      <3> HIDE DEF less
      <3>5. NewestFirst(table')
        BY <1>4, <1>5, <1>6, <3>1, <3>3, <3>4, LifeParts, InsertNewestFirst DEF S
      <3>6. FirstIn(table, less) \in 1 .. Len(table) + 1
        BY <1>5, FirstInFacts
      <3>7. Inserted(table', S, table, FirstIn(table, less), new)
        BY <1>4, <1>5, <3>4, <3>6, InsertFacts
      <3>8. QED
        BY <3>5, <3>7 DEF Inserted
    <2>3. QED
      BY <2>1, <2>2
  <1>9. QED
    BY <1>1, <1>3, <1>8, LifeParts, LifeAgain DEF S

(* The rules that end, as messages. *)
LEMMA ToldOK ==
  ASSUME NEW p, NEW s \in Seq(RuleOf(p)), NEW K, NEW why \in {"IDLE_TIMEOUT", "HARD_TIMEOUT"},
         NEW m, m = [i \in DOMAIN Keep(s, K) |-> [kind |-> why, from |-> Keep(s, K)[i].from]]
  PROVE  m \in Seq(MessageOf) /\ \A i \in DOMAIN m : m[i].kind # "packet_in"
PROOF
  <1> DEFINE t == Keep(s, K)
             S == RuleOf(p)
  <1>1. t \in Seq(S)
    BY KeepFacts
  <1> HIDE DEF t
  <1>2. Len(t) \in Nat /\ DOMAIN t = 1 .. Len(t) /\ \A i \in DOMAIN t : t[i] \in S
    <2> HIDE DEF S
    <2>1. QED
      BY <1>1, LenProperties, ElementOfSeq
  <1>3. m = [i \in 1 .. Len(t) |-> [kind |-> why, from |-> t[i].from]]
    BY <1>2 DEF t
  <1>4. DOMAIN m = 1 .. Len(t) /\ m = [i \in 1 .. Len(t) |-> m[i]]
        /\ \A i \in 1 .. Len(t) : m[i] = [kind |-> why, from |-> t[i].from]
    BY <1>3
  <1>5. \A i \in 1 .. Len(t) : t[i].from \in Trans
    BY <1>2 DEF RuleOf
  <1>6. \A i \in 1 .. Len(t) : m[i] \in MessageOf /\ m[i].kind # "packet_in"
    BY <1>4, <1>5 DEF MessageOf
  <1>7. m \in Seq(MessageOf)
    BY <1>2, <1>4, <1>6, IsASeq
  <1>8. QED
    BY <1>4, <1>6, <1>7

LEMMA EndOK ==
  ASSUME LifeInv, pipeline_timeout
  PROVE  LifeInv'
PROOF
  <1> DEFINE hard == {r \in Range(table) : r.life > Hard}
             idle == {r \in Range(table) : r.age > Idle} \ hard
             K == Range(table) \ (hard \cup idle)
  <1>1. PICK a, b :
          /\ a = [i \in DOMAIN Keep(table, hard) |->
                    [kind |-> "HARD_TIMEOUT", from |-> Keep(table, hard)[i].from]]
          /\ b = [i \in DOMAIN Keep(table, idle) |->
                    [kind |-> "IDLE_TIMEOUT", from |-> Keep(table, idle)[i].from]]
    OBVIOUS
  <1>2. up' = up \o (a \o b) /\ table' = Keep(table, K) /\ UNCHANGED <<records, priority, down>>
    BY <1>1 DEF pipeline_timeout
  <1> HIDE DEF hard, idle, K
  <1>3. /\ a \in Seq(MessageOf) /\ \A i \in DOMAIN a : a[i].kind # "packet_in"
        /\ b \in Seq(MessageOf) /\ \A i \in DOMAIN b : b[i].kind # "packet_in"
    BY <1>1, LifeParts, ToldOK
  <1>4. up' \in Seq(MessageOf)
    BY <1>2, <1>3, LifeParts, ConcatProperties
  <1>5. PacketIns(up') = PacketIns(up)
    <2> DEFINE c == a \o b
    <2>1. c \in Seq(MessageOf) /\ Len(c) = Len(a) + Len(b) /\ DOMAIN c = 1 .. Len(c)
          /\ \A i \in 1 .. Len(a) + Len(b) : c[i] = IF i <= Len(a) THEN a[i] ELSE b[i - Len(a)]
      BY <1>3, ConcatProperties, LenProperties
    <2>2. /\ Len(a) \in Nat /\ DOMAIN a = 1 .. Len(a)
          /\ Len(b) \in Nat /\ DOMAIN b = 1 .. Len(b)
      BY <1>3, LenProperties
    <2> HIDE DEF c
    <2>3. ASSUME NEW i \in DOMAIN c PROVE c[i].kind # "packet_in"
      <3>1. CASE i <= Len(a)
        <4>1. i \in DOMAIN a /\ c[i] = a[i]
          BY <2>1, <2>2, <3>1
        <4>2. QED
          BY <1>3, <4>1
      <3>2. CASE ~(i <= Len(a))
        <4>1. i - Len(a) \in DOMAIN b /\ c[i] = b[i - Len(a)]
          BY <2>1, <2>2, <3>2
        <4>2. QED
          BY <1>3, <4>1
      <3>3. QED
        BY <3>1, <3>2
    <2>4. up' = up \o c
      BY <1>2 DEF c
    <2>5. QED
      BY <2>1, <2>3, <2>4, LifeParts, PacketInsConcat
  <1>6. table' \in Seq(RuleOf(priority)) /\ NewestFirst(table')
    BY <1>2, LifeParts, KeepFacts, KeepNewestFirst
  <1>7. QED
    BY <1>2, <1>4, <1>5, <1>6, LifeParts, LifeAgain

(* Orders and rules keep their type when the counter advances. *)
LEMMA Widen ==
  ASSUME NEW p \in Nat, NEW q \in Nat, p <= q
  PROVE  /\ \A s \in Seq(OrderOf(p)) : s \in Seq(OrderOf(q))
         /\ \A s \in Seq(RuleOf(p)) : s \in Seq(RuleOf(q))
PROOF
  <1>1. 1 .. p \subseteq 1 .. q
    OBVIOUS
  <1>2. OrderOf(p) \subseteq OrderOf(q) /\ RuleOf(p) \subseteq RuleOf(q)
    BY <1>1 DEF OrderOf, RuleOf
  <1>3. QED
    BY <1>2, WiderSeq

(* A calculated path advances the counter by one at most. *)
LEMMA OrderOK ==
  ASSUME LifeInv, NEW t \in Trans, NEW counted, NEW s,
         priority < MaxPriority, order(t, counted, s), UNCHANGED table
  PROVE  /\ priority' \in 1 .. MaxPriority /\ priority' \in {priority, priority + 1}
         /\ down' \in Seq(OrderOf(priority')) /\ table' \in Seq(RuleOf(priority'))
         /\ NewestFirst(table')
PROOF
  <1> DEFINE o == [n |-> priority, from |-> t]
  <1>1. /\ down' = IF s THEN Append(down, o) ELSE down
        /\ priority' = IF counted THEN priority + 1 ELSE priority
    BY DEF order
  <1>2. priority \in 1 .. MaxPriority /\ MaxPriority \in Nat
    BY LifeParts
  <1>3. priority' \in {priority, priority + 1}
    BY <1>1
  <1>4. priority' \in 1 .. MaxPriority /\ priority \in Nat /\ priority' \in Nat /\ priority <= priority'
    BY <1>2, <1>3
  <1>5. o \in OrderOf(priority)
    BY <1>2 DEF OrderOf
  <1> HIDE DEF o
  <1>6. down' \in Seq(OrderOf(priority))
    BY <1>1, <1>5, LifeParts, AppendProperties
  <1>7. down' \in Seq(OrderOf(priority')) /\ table' \in Seq(RuleOf(priority'))
    BY <1>4, <1>6, LifeParts, Widen
  <1>8. QED
    BY <1>3, <1>4, <1>7, LifeParts

LEMMA PacketInOK ==
  ASSUME LifeInv, process_packet_in
  PROVE  LifeInv'
PROOF
  <1> DEFINE t == Head(up).from
             kept == IF records # <<>> /\ Head(records).state # "LEGACY" THEN Tail(records) ELSE records
  <1>1. up # <<>> /\ Head(up).kind = "packet_in" /\ up' = Tail(up) /\ UNCHANGED table
    BY DEF process_packet_in, is
  <1>2. PICK o \in Outcome : /\ records' = Append(kept, Record(t, o))
                             /\ order(t, o = "HAS_PATH", TRUE)
    BY DEF process_packet_in
  <1>3. t \in Trans /\ up' \in Seq(MessageOf)
    <2>1. Head(up) \in MessageOf /\ Tail(up) \in Seq(MessageOf)
      BY <1>1, LifeParts, HeadTailProperties
    <2>2. QED
      BY <1>1, <2>1 DEF MessageOf
  <1>4. Cardinality(PacketIns(up')) + 1 <= Cardinality(PacketIns(up))
        /\ Cardinality(PacketIns(up')) \in Nat
    BY <1>1, <1>3, LifeParts, PacketInsTail, PacketInsFinite
  <1>5. priority < MaxPriority
    <2>1. priority \in Nat /\ MaxPriority \in Nat /\ Cardinality(PacketIns(up)) \in Nat
          /\ priority + Cardinality(PacketIns(up)) <= MaxPriority
      BY LifeParts
    <2>2. QED
      BY <1>4, <2>1
  <1>6. Record(t, o) \in RecordOf
    BY RuleLifeAssumption, <1>3 DEF Record, RecordOf
  <1>7. kept \in Seq(RecordOf)
    BY LifeParts, HeadTailProperties
  <1> HIDE DEF kept, t
  <1>8. records' \in Seq(RecordOf)
    BY <1>2, <1>6, <1>7, AppendProperties
  <1>9. /\ priority' \in 1 .. MaxPriority /\ priority' \in {priority, priority + 1}
        /\ down' \in Seq(OrderOf(priority')) /\ table' \in Seq(RuleOf(priority'))
        /\ NewestFirst(table')
    BY <1>1, <1>2, <1>3, <1>5, OrderOK
  <1>10. priority' + Cardinality(PacketIns(up')) <= MaxPriority
    <2>1. priority \in Nat /\ MaxPriority \in Nat /\ Cardinality(PacketIns(up)) \in Nat
          /\ priority + Cardinality(PacketIns(up)) <= MaxPriority
      BY LifeParts
    <2>2. QED
      BY <1>4, <1>9, <2>1
  <1>11. QED
    BY <1>3, <1>8, <1>9, <1>10, LifeAgain

(* The handlers of timeouts take a message and perhaps the oldest record. *)
LEMMA ForgetOK ==
  ASSUME LifeInv,
         process_idle_timeout \/ process_hard_timeout
  PROVE  LifeInv'
PROOF
  <1>1. /\ up # <<>> /\ up' = Tail(up) /\ UNCHANGED <<priority, down, table>>
        /\ records' = records \/ (records # <<>> /\ records' = Tail(records))
    BY DEF process_idle_timeout, process_hard_timeout, is
  <1>2. up' \in Seq(MessageOf) /\ records' \in Seq(RecordOf)
    BY <1>1, LifeParts, HeadTailProperties
  <1>3. Cardinality(PacketIns(up')) <= Cardinality(PacketIns(up))
        /\ Cardinality(PacketIns(up')) \in Nat
    BY <1>1, <1>2, LifeParts, PacketInsTail, PacketInsFinite
  <1>4. priority' + Cardinality(PacketIns(up')) <= MaxPriority
    <2>1. priority \in Nat /\ MaxPriority \in Nat /\ Cardinality(PacketIns(up)) \in Nat
          /\ priority + Cardinality(PacketIns(up)) <= MaxPriority
      BY LifeParts
    <2>2. QED
      BY <1>1, <1>3, <2>1
  <1>5. QED
    BY <1>1, <1>2, <1>4, LifeParts, LifeAgain

LEMMA RecalculateOK ==
  ASSUME LifeInv, recalculation
  PROVE  LifeInv'
PROOF
  <1>1. PICK k \in DOMAIN records, o \in Outcome, s \in BOOLEAN :
          /\ records' = [records EXCEPT ![k].state = o]
          /\ order(records[k].transmitter,
                        o = "HAS_PATH" \/ records[k].state = "HAS_PATH", s)
          /\ UNCHANGED <<table, up>>
    BY DEF recalculation
  <1>2. priority + Cardinality(PacketIns(up)) < MaxPriority
    BY PacketInsCount DEF recalculation, within
  <1>3. \A i \in DOMAIN records : records[i] \in RecordOf
    BY LifeParts, LenProperties, ElementOfSeq
  <1>4. records' \in Seq(RecordOf)
    <2>1. DOMAIN records' = DOMAIN records /\ records' = [i \in DOMAIN records |-> records'[i]]
          /\ \A i \in DOMAIN records :
               records'[i] = IF i = k THEN [records[i] EXCEPT !.state = o] ELSE records[i]
      BY <1>1
    <2>2. o \in {"HAS_PATH", "LEGACY"}
      BY RuleLifeAssumption
    <2>3. \A i \in DOMAIN records : records'[i] \in RecordOf
      BY <1>3, <2>1, <2>2 DEF RecordOf
    <2>4. QED
      BY <2>1, <2>3, LifeParts, SeqAgain
  <1>5. priority \in Nat /\ MaxPriority \in Nat /\ Cardinality(PacketIns(up)) \in Nat
    BY LifeParts
  <1>6. priority < MaxPriority /\ records[k].transmitter \in Trans
    BY <1>2, <1>3, <1>5 DEF RecordOf
  <1>7. /\ priority' \in 1 .. MaxPriority /\ priority' \in {priority, priority + 1}
        /\ down' \in Seq(OrderOf(priority')) /\ table' \in Seq(RuleOf(priority'))
        /\ NewestFirst(table')
    BY <1>1, <1>6, OrderOK
  <1>8. priority' + Cardinality(PacketIns(up')) <= MaxPriority
    BY <1>1, <1>2, <1>5, <1>7
  <1>9. QED
    BY <1>1, <1>4, <1>7, <1>8, LifeParts, LifeAgain

LEMMA LifeInitOK ==
  ASSUME LifeInit
  PROVE  LifeInv
PROOF
  <1>1. records = <<>> /\ priority = 1 /\ down = <<>> /\ table = <<>> /\ up = <<>>
    BY DEF LifeInit
  <1>2. MaxPriority \in Nat \ {0}
    BY RuleLifeAssumption
  <1>3. \A S : <<>> \in Seq(S)
    OBVIOUS
  <1>4. LifeTypeOK
    <2>1. priority \in 1 .. MaxPriority
      BY <1>1, <1>2
    <2>2. QED
      BY <1>1, <1>3, <2>1 DEF LifeTypeOK
  <1>5. PacketIns(up) = {}
    BY <1>1 DEF PacketIns
  <1>6. priority + packet_ins <= MaxPriority
    <2>1. packet_ins = 0
      BY <1>5, PacketInsCount, FS_EmptySet
    <2>2. QED
      BY <1>1, <1>2, <2>1
  <1>7. NewestFirst(table)
    BY <1>1 DEF NewestFirst
  <1>8. QED
    BY <1>4, <1>6, <1>7 DEF LifeInv

LEMMA LifeNextOK ==
  ASSUME MaxPriority < Modulus, LifeInv, [LifeNext]_life_vars
  PROVE  LifeInv'
PROOF
  <1>1. ASSUME NEW t \in Trans, Hit(t) PROVE LifeInv'
    BY <1>1, HitOK
  <1>2. ASSUME NEW t \in Trans, Miss(t) PROVE LifeInv'
    BY <1>2, MissOK
  <1>3. CASE flow_table_flow_mod
    BY <1>3, AddOK
  <1>4. CASE DatapathTimeout
    BY <1>4, EndOK DEF DatapathTimeout
  <1>5. CASE RulesAge
    BY <1>5, TickOK
  <1>6. CASE StopTraffic \/ UNCHANGED life_vars
    <2>1. UNCHANGED <<records, priority, down, table, up>>
      BY <1>6 DEF StopTraffic, life_vars
    <2>2. QED
      BY <2>1, LifeParts, LifeAgain
  <1>7. CASE process_packet_in
    BY <1>7, PacketInOK
  <1>8. CASE process_idle_timeout \/ process_hard_timeout
    BY <1>8, ForgetOK
  <1>9. CASE recalculation
    BY <1>9, RecalculateOK
  <1>10. QED
    BY <1>1, <1>2, <1>3, <1>4, <1>5, <1>6, <1>7, <1>8, <1>9 DEF LifeNext, Controller

(* The invariant of RuleLife, whose types are those of its records, rules   *)
(* and messages: as long as the numbers fit the field for priorities, the   *)
(* switch keeps its rules in the order of their numbers.                    *)
THEOREM RuleLifeInvariant ==
  ASSUME MaxPriority < Modulus
  PROVE  LifeSpec => []LifeInv
PROOF
  <1>1. LifeInit => LifeInv
    BY LifeInitOK
  <1>2. LifeInv /\ [LifeNext]_life_vars => LifeInv'
    BY LifeNextOK
  <1>3. QED
    BY <1>1, <1>2, PTL DEF LifeSpec

(* Of the rules that match a packet, the switch uses the one the controller *)
(* made last, in every order of packet-ins, recalculations, timeouts and    *)
(* deliveries, until the counter outgrows the field for priorities.         *)
THEOREM NewestRuleAlwaysWins ==
  ASSUME MaxPriority < Modulus
  PROVE  LifeSpec => []NewestRuleWins
PROOF
  <1>1. LifeInv => NewestRuleWins
    BY DEF LifeInv, NewestFirst, NewestRuleWins
  <1>2. QED
    BY <1>1, RuleLifeInvariant, PTL
=============================================================================
