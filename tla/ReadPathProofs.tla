--------------------------- MODULE ReadPathProofs ---------------------------
(***************************************************************************)
(* Proofs about ReadPath: TypeOK and the three properties of a reply, from *)
(* one inductive invariant, for any finite set of memories, any query and  *)
(* any limits.  The loops of ContextBudget are recursive functions; the    *)
(* first half of the module says what they compute.                        *)
(***************************************************************************)
EXTENDS ReadPath, FiniteSetTheorems, SequenceTheorems, WellFoundedInduction, TLAPS

(* Induction over the naturals in the form a set gives it. *)
Below == {p \in Nat \X Nat : p[1] < p[2]}

(* Induction from the least number outside S; a loop of N rounds. *)
LEMMA SetInduction ==
  ASSUME NEW S, 0 \in S, \A n \in Nat : n \in S => n + 1 \in S
  PROVE  Nat \subseteq S
<1> DEFINE T == Nat \ S
<1>1. SUFFICES ASSUME T # {} PROVE FALSE
  OBVIOUS
<1>2. IsWellFoundedOn(Below, Nat)
  BY NatLessThanWellFounded, Zenon DEF OpToRel, Below
<1>3. PICK x \in T : \A y \in T : ~ (<<y, x>> \in Below)
  BY <1>1, <1>2, WFMin
<1>4. x # 0 /\ x - 1 \in Nat /\ x = (x - 1) + 1
  BY <1>3
<1>5. x - 1 \notin T
  <2>1. <<x - 1, x>> \in Below
    BY <1>4 DEF Below
  <2> HIDE DEF T
  <2> QED  BY <1>3, <2>1
<1> QED  BY <1>3, <1>4, <1>5

LEMMA LoopInduction ==
  ASSUME NEW N \in Nat, NEW S, 0 \in S, \A n \in 0..(N - 1) : n \in S => n + 1 \in S
  PROVE  0..N \subseteq S
<1> DEFINE T == {n \in Nat : n <= N => n \in S}
<1>1. 0 \in T
  OBVIOUS
<1>2. ASSUME NEW n \in Nat, n \in T
      PROVE  n + 1 \in T
  BY <1>2
<1> HIDE DEF T
<1>3. Nat \subseteq T
  BY <1>1, <1>2, SetInduction
<1> QED  BY <1>3 DEF T

(* A loop over the first N items, from zero, by step. *)
Runs(f, n, S, zero, step) ==
  /\ f \in [0..n -> S]
  /\ f[0] = zero
  /\ \A k \in 1..n : f[k] = step[<<k, f[k - 1]>>]

(* The recursive function of a loop is defined on all its steps. *)
LEMMA LoopRuns ==
  ASSUME NEW N \in Nat, NEW S, NEW zero \in S, NEW step \in [(1..N) \X S -> S]
  PROVE  \E f : Runs(f, N, S, zero, step)
<1> DEFINE T == {n \in Nat : \E f : Runs(f, n, S, zero, step)}
<1>1. 0 \in T
  <2>1. Runs([k \in 0..0 |-> zero], 0, S, zero, step)
    BY DEF Runs
  <2> QED  BY <2>1
<1>2. ASSUME NEW n \in 0..(N - 1), n \in T
      PROVE  n + 1 \in T
  <2>1. PICK f : Runs(f, n, S, zero, step)
    BY <1>2
  <2> DEFINE g == [k \in 0..(n + 1) |-> IF k = n + 1 THEN step[<<n + 1, f[n]>>] ELSE f[k]]
  <2>2. step[<<n + 1, f[n]>>] \in S
    BY <2>1 DEF Runs
  <2>3. g \in [0..(n + 1) -> S]
    BY <2>1, <2>2 DEF Runs
  <2>4. g[0] = zero
    BY <2>1 DEF Runs
  <2>5. ASSUME NEW k \in 1..(n + 1)
        PROVE  g[k] = step[<<k, g[k - 1]>>]
    <3>1. CASE k = n + 1
      <4>1. g[n + 1] = step[<<n + 1, f[n]>>] /\ g[n] = f[n]
        OBVIOUS
      <4> HIDE DEF g
      <4> QED  BY <3>1, <4>1
    <3>2. CASE k # n + 1
      <4>1. k \in 1..n /\ k - 1 \in 0..n /\ k - 1 # n + 1
        BY <3>2
      <4>2. g[k] = f[k] /\ g[k - 1] = f[k - 1]
        BY <4>1, <3>2
      <4> HIDE DEF g
      <4> QED  BY <4>1, <4>2, <2>1 DEF Runs
    <3> QED  BY <3>1, <3>2
  <2> HIDE DEF g
  <2>6. Runs(g, n + 1, S, zero, step)
    BY <2>3, <2>4, <2>5 DEF Runs
  <2> QED  BY <2>6
<1> HIDE DEF T
<1>3. 0..N \subseteq T
  BY <1>1, <1>2, LoopInduction
<1> QED  BY <1>3 DEF T

-----------------------------------------------------------------------------
Cost(items, lengths, n) == EstimateTokens(lengths[items[n]])

(* The tokens of the first n items. *)
SumLoop(items, lengths) ==
  CHOOSE sum : sum = [n \in 0..Len(items) |->
                        IF n = 0 THEN 0 ELSE sum[n - 1] + EstimateTokens(lengths[items[n]])]

LEMMA TotalIsSum ==
  ASSUME NEW items, NEW lengths
  PROVE  TotalTokenCount(items, lengths) = SumLoop(items, lengths)[Len(items)]
BY Zenon DEF TotalTokenCount, SumLoop

(* An estimate of tokens is a natural number. *)
LEMMA EstimateType == \A l \in Nat : EstimateTokens(l) \in Nat
BY DEF EstimateTokens

(* The total of a list is what its loop accumulates. *)
LEMMA SumLoopIs ==
  ASSUME NEW items \in Seq(Mems), NEW lengths \in [Mems -> Nat]
  PROVE  LET sum == SumLoop(items, lengths)
         IN  /\ sum \in [0..Len(items) -> Nat]
             /\ sum[0] = 0
             /\ \A n \in 1..Len(items) : sum[n] = sum[n - 1] + Cost(items, lengths, n)
<1> DEFINE N == Len(items)
           cost == [n \in 1..N |-> Cost(items, lengths, n)]
           step == [p \in (1..N) \X Nat |-> p[2] + cost[p[1]]]
           Loops(sum) == sum = [n \in 0..Len(items) |->
                        IF n = 0 THEN 0 ELSE sum[n - 1] + EstimateTokens(lengths[items[n]])]
<1>1. cost \in [1..N -> Nat]
  <2> SUFFICES ASSUME NEW n \in 1..N PROVE Cost(items, lengths, n) \in Nat
    OBVIOUS
  <2>1. items[n] \in Mems
    OBVIOUS
  <2>2. lengths[items[n]] \in Nat
    BY <2>1
  <2> QED  BY <2>2, EstimateType DEF Cost
<1>2. N \in Nat
  OBVIOUS
<1>3. step \in [(1..N) \X Nat -> Nat]
  <2> HIDE DEF cost
  <2> QED BY <1>1
<1>4. PICK f : Runs(f, N, Nat, 0, step)
  <2>1. 0 \in Nat
    OBVIOUS
  <2> HIDE DEF step, N
  <2> QED  BY <1>2, <1>3, <2>1, LoopRuns
<1>5. \A n \in 1..N : f[n] = f[n - 1] + Cost(items, lengths, n)
  <2> SUFFICES ASSUME NEW n \in 1..N PROVE f[n] = f[n - 1] + Cost(items, lengths, n)
    OBVIOUS
  <2>1. n - 1 \in 0..N /\ f[n - 1] \in Nat
    BY <1>2, <1>4 DEF Runs
  <2>2. step[<<n, f[n - 1]>>] = f[n - 1] + cost[n]
    BY <2>1
  <2> QED  BY <1>4, <2>2 DEF Runs
<1>6. Loops(f)
  BY <1>4, <1>5 DEF Cost, Runs
<1>7. Loops(SumLoop(items, lengths))
  <2> DEFINE s == CHOOSE sum : Loops(sum)
  <2> HIDE DEF Loops
  <2>1. Loops(s)
    BY <1>6, Zenon
  <2>2. s = SumLoop(items, lengths)
    BY Zenon DEF Loops, SumLoop
  <2> QED BY <2>1, <2>2, Zenon
<1> DEFINE sum == SumLoop(items, lengths)
<1>8. /\ sum = [n \in 0..N |-> sum[n]] /\ sum[0] = 0
      /\ \A n \in 1..N : sum[n] = sum[n - 1] + Cost(items, lengths, n)
  <2> HIDE DEF sum
  <2> USE DEF Cost
  <2>1. Loops(sum)
    BY <1>7 DEF sum
  <2> QED BY <2>1, <1>2
<1>9. ASSUME NEW n \in 0..(N-1), sum[n] \in Nat PROVE sum[n+1] \in Nat
  <2>1. n + 1 \in 1..N /\ (n + 1) - 1 = n
    BY <1>2
  <2>2. sum[n+1] = sum[n] + cost[n + 1]
    BY <1>8, <2>1
  <2> HIDE DEF sum, cost
  <2> QED BY <1>1, <2>1, <2>2, <1>9
<1> DEFINE T == {n \in 0..N : sum[n] \in Nat}
<1>10. 0 \in T
  BY <1>8, <1>2
<1>11. \A n \in 0..(N-1) : n \in T => n + 1 \in T
  BY <1>9, <1>2
<1> HIDE DEF T, sum, N
<1>12. 0..N \subseteq T
  BY <1>10, <1>11, <1>2, LoopInduction
<1>13. \A n \in 0..N : sum[n] \in Nat
  BY <1>12 DEF T
<1> QED  BY <1>8, <1>13 DEF sum, N

(* The first n items of a list. *)
LEMMA Prefix ==
  ASSUME NEW S, NEW s \in Seq(S), NEW n \in 0..Len(s)
  PROVE  /\ SubSeq(s, 1, n) \in Seq(S) /\ Len(SubSeq(s, 1, n)) = n
         /\ DOMAIN SubSeq(s, 1, n) = 1..n
         /\ \A i \in 1..n : SubSeq(s, 1, n)[i] = s[i]
<1>1. n \in Nat /\ Len(s) \in Nat
  OBVIOUS
<1>2. \A i \in 1..n : s[i] \in S
  BY <1>1
<1>3. SubSeq(s, 1, n) \in Seq(S) /\ Len(SubSeq(s, 1, n)) = n
  BY <1>1, <1>2, SubSeqProperties
<1> QED  BY <1>1, <1>3

(* What a total depends on. *)
LEMMA SumOfPrefix ==
  ASSUME NEW s \in Seq(Mems), NEW t \in Seq(Mems), NEW lengths \in [Mems -> Nat],
         NEW n \in Nat, n <= Len(s), n <= Len(t), \A i \in 1..n : s[i] = t[i]
  PROVE  SumLoop(s, lengths)[n] = SumLoop(t, lengths)[n]
<1> DEFINE a == SumLoop(s, lengths)
           b == SumLoop(t, lengths)
           T == {k \in 0..n : a[k] = b[k]}
<1>1. /\ a \in [0..Len(s) -> Nat] /\ b \in [0..Len(t) -> Nat]
      /\ a[0] = 0 /\ b[0] = 0
      /\ \A k \in 1..Len(s) : a[k] = a[k - 1] + Cost(s, lengths, k)
      /\ \A k \in 1..Len(t) : b[k] = b[k - 1] + Cost(t, lengths, k)
  BY SumLoopIs
<1>2. \A k \in 1..n : Cost(s, lengths, k) = Cost(t, lengths, k)
  BY DEF Cost
<1> HIDE DEF a, b
<1>3. 0 \in T
  BY <1>1
<1>4. ASSUME NEW k \in 0..(n - 1), k \in T
      PROVE  k + 1 \in T
  <2>1. k + 1 \in 1..n /\ k + 1 \in 1..Len(s) /\ k + 1 \in 1..Len(t) /\ (k + 1) - 1 = k
    OBVIOUS
  <2> QED  BY <1>1, <1>2, <1>4, <2>1
<1> HIDE DEF T
<1>5. 0..n \subseteq T
  BY <1>3, <1>4, LoopInduction
<1> QED  BY <1>5 DEF T, a, b

LEMMA SumOfUpdate ==
  ASSUME NEW s \in Seq(Mems), NEW lengths \in [Mems -> Nat], NEW k \in 1..Len(s), NEW m \in Mems
  PROVE  \A n \in k..Len(s) :
           SumLoop([s EXCEPT ![k] = m], lengths)[n] + EstimateTokens(lengths[s[k]])
             = SumLoop(s, lengths)[n] + EstimateTokens(lengths[m])
<1> DEFINE t == [s EXCEPT ![k] = m]
           a == SumLoop(s, lengths)
           b == SumLoop(t, lengths)
           x == EstimateTokens(lengths[s[k]])
           y == EstimateTokens(lengths[m])
           T == {n \in 0..Len(s) : /\ n < k => a[n] = b[n]
                                   /\ k <= n => b[n] + x = a[n] + y}
<1>0. Len(s) \in Nat /\ k \in Nat /\ k >= 1
  OBVIOUS
<1>1. t \in Seq(Mems) /\ Len(t) = Len(s) /\ \A i \in 1..Len(s) : t[i] = IF i = k THEN m ELSE s[i]
  BY ExceptSeq
<1>2. x \in Nat /\ y \in Nat
  <2>1. s[k] \in Mems
    OBVIOUS
  <2> QED  BY <2>1, EstimateType
<1>3. /\ \A i \in 1..Len(s) : i # k => Cost(t, lengths, i) = Cost(s, lengths, i)
      /\ Cost(t, lengths, k) = y /\ Cost(s, lengths, k) = x
  BY <1>1 DEF Cost
<1>4. /\ a \in [0..Len(s) -> Nat] /\ b \in [0..Len(s) -> Nat]
      /\ a[0] = 0 /\ b[0] = 0
      /\ \A i \in 1..Len(s) : a[i] = a[i - 1] + Cost(s, lengths, i)
      /\ \A i \in 1..Len(s) : b[i] = b[i - 1] + Cost(t, lengths, i)
  <2> HIDE DEF t
  <2> QED  BY <1>1, SumLoopIs
<1>5. \A i \in 1..Len(s) : Cost(s, lengths, i) \in Nat
  <2> SUFFICES ASSUME NEW i \in 1..Len(s) PROVE Cost(s, lengths, i) \in Nat
    OBVIOUS
  <2>1. s[i] \in Mems
    OBVIOUS
  <2> QED  BY <2>1, EstimateType DEF Cost
<1> HIDE DEF a, b, x, y, t
<1>6. 0 \in T
  BY <1>4
<1>7. ASSUME NEW n \in 0..(Len(s) - 1), n \in T
      PROVE  n + 1 \in T
  <2>1. n + 1 \in 1..Len(s) /\ (n + 1) - 1 = n /\ n \in 0..Len(s) /\ n + 1 \in 0..Len(s)
    BY <1>0
  <2>2. a[n] \in Nat /\ b[n] \in Nat /\ a[n + 1] \in Nat /\ b[n + 1] \in Nat
    BY <1>4, <2>1
  <2>3. a[n + 1] = a[n] + Cost(s, lengths, n + 1) /\ b[n + 1] = b[n] + Cost(t, lengths, n + 1)
    BY <1>4, <2>1
  <2>i. n < k => a[n] = b[n]
    BY <1>7
  <2>4. CASE n + 1 < k
    <3>1. n < k /\ n + 1 # k
      BY <1>0, <2>1, <2>4
    <3>2. a[n + 1] = b[n + 1]
      BY <3>1, <1>3, <2>i, <2>1, <2>3
    <3> QED  BY <3>2, <2>1, <2>4
  <2>5. CASE n + 1 = k
    <3>1. n < k /\ ~ (n + 1 < k)
      BY <1>0, <2>1, <2>5
    <3>2. Cost(s, lengths, n + 1) = x /\ Cost(t, lengths, n + 1) = y
      BY <1>3, <2>5
    <3>3. b[n + 1] + x = a[n + 1] + y
      BY <1>2, <3>1, <3>2, <2>i, <2>2, <2>3
    <3> QED  BY <3>1, <3>3, <2>1
  <2>6. CASE n + 1 > k
    <3>1. k <= n /\ n + 1 # k /\ ~ (n + 1 < k)
      BY <1>0, <2>1, <2>6
    <3>2. b[n] + x = a[n] + y
      BY <1>7, <3>1
    <3>3. Cost(t, lengths, n + 1) = Cost(s, lengths, n + 1) /\ Cost(s, lengths, n + 1) \in Nat
      BY <1>3, <1>5, <2>1, <3>1
    <3>4. b[n + 1] + x = a[n + 1] + y
      <4>1. PICK c \in Nat : a[n + 1] = a[n] + c /\ b[n + 1] = b[n] + c
        BY <2>3, <3>3
      <4>2. PICK p \in Nat, q \in Nat : p = b[n] /\ q = a[n]
        BY <2>2
      <4>3. p + x = q + y
        BY <3>2, <4>2
      <4>4. (p + c) + x = (q + c) + y
        BY <1>2, <4>3
      <4>5. b[n + 1] = p + c /\ a[n + 1] = q + c
        BY <4>1, <4>2
      <4> QED  BY <4>4, <4>5
    <3> QED  BY <3>1, <3>4, <2>1
  <2> QED  BY <2>4, <2>5, <2>6
<1> HIDE DEF T
<1>8. 0..Len(s) \subseteq T
  BY <1>0, <1>6, <1>7, LoopInduction
<1>9. \A n \in k..Len(s) : b[n] + x = a[n] + y
  BY <1>0, <1>8 DEF T
<1> QED  BY <1>9 DEF a, b, x, y, t

Distinct(s) == \A i, k \in 1..Len(s) : s[i] = s[k] => i = k

(* Two lists of the same memories, each once, cost the same. *)
LEMMA SumOfReordering ==
  ASSUME NEW lengths \in [Mems -> Nat]
  PROVE  \A n \in Nat : \A s, t \in Seq(Mems) :
           /\ Len(s) = n /\ Len(t) = n /\ Distinct(s) /\ Distinct(t) /\ ToSet(s) = ToSet(t)
           => SumLoop(s, lengths)[n] = SumLoop(t, lengths)[n]
<1> DEFINE Same(n, s, t) == Len(s) = n /\ Len(t) = n /\ Distinct(s) /\ Distinct(t) /\ ToSet(s) = ToSet(t)
           Sum(s) == SumLoop(s, lengths)
           T == {n \in Nat : \A s, t \in Seq(Mems) : Same(n, s, t) => Sum(s)[n] = Sum(t)[n]}
<1>1. 0 \in T
  BY SumLoopIs
<1>2. ASSUME NEW n \in Nat, n \in T
      PROVE  n + 1 \in T
  <2> SUFFICES ASSUME NEW s \in Seq(Mems), NEW t \in Seq(Mems), Same(n + 1, s, t)
               PROVE  Sum(s)[n + 1] = Sum(t)[n + 1]
    OBVIOUS
  <2>a. /\ DOMAIN s = 1..(n + 1) /\ DOMAIN t = 1..(n + 1)
        /\ Len(s) = n + 1 /\ Len(t) = n + 1
    OBVIOUS
  <2>c. /\ \A i, j \in 1..(n + 1) : s[i] = s[j] => i = j
        /\ \A i, j \in 1..(n + 1) : t[i] = t[j] => i = j
    BY <2>a DEF Distinct
  <2>d. /\ \A i \in 1..(n + 1) : \E q \in 1..(n + 1) : t[q] = s[i]
        /\ \A i \in 1..(n + 1) : \E q \in 1..(n + 1) : s[q] = t[i]
    <3>1. ToSet(s) = {s[i] : i \in 1..(n + 1)} /\ ToSet(t) = {t[i] : i \in 1..(n + 1)}
      BY <2>a DEF ToSet
    <3>2. ToSet(s) = ToSet(t)
      OBVIOUS
    <3> QED  BY <3>1, <3>2
  <2>1. PICK k \in 1..(n + 1) : t[k] = s[n + 1]
    <3>1. n + 1 \in 1..(n + 1)
      OBVIOUS
    <3> QED  BY <3>1, <2>d
  <2> DEFINE v == [t EXCEPT ![k] = t[n + 1]]
             u == [v EXCEPT ![n + 1] = t[k]]
             s1 == SubSeq(s, 1, n)
             u1 == SubSeq(u, 1, n)
  <2>b. t[k] \in Mems /\ t[n + 1] \in Mems
    BY <2>a
  <2>2. /\ v \in Seq(Mems) /\ Len(v) = n + 1
        /\ \A i \in 1..(n + 1) : v[i] = IF i = k THEN t[n + 1] ELSE t[i]
    BY <2>a, <2>b, ExceptSeq
  <2>3. /\ u \in Seq(Mems) /\ Len(u) = n + 1
        /\ \A i \in 1..(n + 1) : u[i] = IF i = n + 1 THEN t[k] ELSE v[i]
    <3> HIDE DEF v
    <3> QED  BY <2>a, <2>b, <2>2, ExceptSeq
  <2> HIDE DEF v, u
  <2>4. /\ s1 \in Seq(Mems) /\ Len(s1) = n /\ \A i \in 1..n : s1[i] = s[i]
        /\ u1 \in Seq(Mems) /\ Len(u1) = n /\ \A i \in 1..n : u1[i] = u[i]
    <3>1. n \in 0..Len(s) /\ n \in 0..Len(u)
      BY <2>a, <2>3
    <3>2. /\ SubSeq(s, 1, n) \in Seq(Mems) /\ Len(SubSeq(s, 1, n)) = n
          /\ \A i \in 1..n : SubSeq(s, 1, n)[i] = s[i]
      BY <3>1, Prefix
    <3>3. /\ SubSeq(u, 1, n) \in Seq(Mems) /\ Len(SubSeq(u, 1, n)) = n
          /\ \A i \in 1..n : SubSeq(u, 1, n)[i] = u[i]
      BY <3>1, <2>3, Prefix
    <3> QED  BY <3>2, <3>3
  <2> HIDE DEF s1, u1
  <2>5. \A i \in 1..n : u[i] = IF i = k THEN t[n + 1] ELSE t[i]
    BY <2>2, <2>3
  <2>6. Same(n, s1, u1)
    <3>n. n + 1 \in 1..(n + 1) /\ \A i \in 1..n : i \in 1..(n + 1) /\ i # n + 1
      OBVIOUS
    <3>1. Distinct(s1)
      BY <3>n, <2>c, <2>4 DEF Distinct
    <3>2. Distinct(u1)
      <4> SUFFICES ASSUME NEW i \in 1..n, NEW j \in 1..n, u1[i] = u1[j] PROVE i = j
        BY <2>4 DEF Distinct
      <4>1. u[i] = u[j] /\ n + 1 \in 1..(n + 1)
        BY <2>4
      <4> QED  BY <4>1, <3>n, <2>c, <2>5
    <3>d. ToSet(s1) = {s1[i] : i \in 1..n} /\ ToSet(u1) = {u1[i] : i \in 1..n}
      <4>1. DOMAIN s1 = 1..n /\ DOMAIN u1 = 1..n
        BY <2>4
      <4> QED  BY <4>1 DEF ToSet
    <3>3. ASSUME NEW i \in 1..n PROVE \E q \in 1..n : u1[q] = s1[i]
      <4>1. s[i] # s[n + 1] /\ s1[i] = s[i]
        BY <3>n, <2>c, <2>4
      <4>2. PICK q \in 1..(n + 1) : t[q] = s[i]
        BY <3>n, <2>d
      <4>3. q # k
        BY <4>1, <4>2, <2>1
      <4>4. CASE q = n + 1
        <5>1. k \in 1..n
          BY <4>3, <4>4
        <5> QED  BY <5>1, <4>1, <4>2, <4>4, <2>4, <2>5
      <4>5. CASE q # n + 1
        <5>1. q \in 1..n
          BY <4>5
        <5> QED  BY <5>1, <4>1, <4>2, <4>3, <2>4, <2>5
      <4> QED  BY <4>4, <4>5
    <3>4. ASSUME NEW i \in 1..n PROVE \E q \in 1..n : s1[q] = u1[i]
      <4>1. PICK j \in 1..(n + 1) : u1[i] = t[j] /\ j # k
        <5>1. CASE i = k
          BY <3>n, <5>1, <2>4, <2>5
        <5>2. CASE i # k
          BY <3>n, <5>2, <2>4, <2>5
        <5> QED  BY <5>1, <5>2
      <4>2. PICK q \in 1..(n + 1) : s[q] = t[j]
        BY <2>d
      <4>3. q # n + 1
        BY <2>1, <2>c, <4>1, <4>2
      <4>4. q \in 1..n
        BY <4>3
      <4> QED  BY <4>1, <4>2, <4>4, <2>4
    <3>5. ToSet(s1) = ToSet(u1)
      BY <3>d, <3>3, <3>4
    <3> QED  BY <3>1, <3>2, <3>5, <2>4
  <2>7. Sum(s1)[n] = Sum(u1)[n]
    <3> HIDE DEF Same
    <3> QED  BY <1>2, <2>4, <2>6
  <2>8. Sum(s)[n] = Sum(s1)[n] /\ Sum(u)[n] = Sum(u1)[n] /\ Sum(u)[n] = Sum(v)[n]
    <3>1. n <= n + 1 /\ n <= n
      OBVIOUS
    <3>2. Sum(s)[n] = Sum(s1)[n]
      BY <3>1, <2>a, <2>4, SumOfPrefix
    <3>3. Sum(u)[n] = Sum(u1)[n]
      BY <3>1, <2>3, <2>4, SumOfPrefix
    <3>4. \A i \in 1..n : u[i] = v[i]
      BY <2>3
    <3>5. Sum(u)[n] = Sum(v)[n]
      BY <3>1, <3>4, <2>2, <2>3, SumOfPrefix
    <3> QED  BY <3>2, <3>3, <3>5
  <2>9. /\ Sum(s)[n + 1] = Sum(s)[n] + EstimateTokens(lengths[s[n + 1]])
        /\ Sum(u)[n + 1] = Sum(u)[n] + EstimateTokens(lengths[t[k]])
        /\ Sum(t)[n + 1] = Sum(t)[n] + EstimateTokens(lengths[t[n + 1]])
    <3>1. n + 1 \in 1..(n + 1) /\ (n + 1) - 1 = n
      OBVIOUS
    <3>2. \A r \in Seq(Mems) : Len(r) = n + 1 =>
             Sum(r)[n + 1] = Sum(r)[n] + EstimateTokens(lengths[r[n + 1]])
      <4> SUFFICES ASSUME NEW r \in Seq(Mems), Len(r) = n + 1
                   PROVE  Sum(r)[n + 1] = Sum(r)[n] + EstimateTokens(lengths[r[n + 1]])
        OBVIOUS
      <4>1. \A i \in 1..(n + 1) : Sum(r)[i] = Sum(r)[i - 1] + Cost(r, lengths, i)
        BY SumLoopIs
      <4> HIDE DEF Sum
      <4> QED  BY <3>1, <4>1 DEF Cost
    <3>3. u[n + 1] = t[k]
      BY <3>1, <2>3
    <3> HIDE DEF Sum
    <3> QED  BY <3>2, <3>3, <2>a, <2>3
  <2>10. Sum(t)[n] \in Nat /\ Sum(v)[n] \in Nat
    <3>1. \A r \in Seq(Mems) : Len(r) = n + 1 => Sum(r)[n] \in Nat
      <4>1. n \in 0..(n + 1)
        OBVIOUS
      <4> QED  BY <4>1, SumLoopIs
    <3> QED  BY <3>1, <2>a, <2>2
  <2>11. EstimateTokens(lengths[t[k]]) \in Nat /\ EstimateTokens(lengths[t[n + 1]]) \in Nat
    BY <2>b, EstimateType
  <2>12. CASE k = n + 1
    <3>1. Sum(t)[n] = Sum(u)[n]
      <4>1. n <= n + 1 /\ \A i \in 1..n : t[i] = u[i]
        BY <2>5, <2>12
      <4> QED  BY <4>1, <2>a, <2>3, SumOfPrefix
    <3> QED  BY <3>1, <2>1, <2>7, <2>8, <2>9, <2>12
  <2>13. CASE k # n + 1
    <3>1. k \in 1..n /\ n \in k..Len(t) /\ k \in 1..Len(t)
      BY <2>a, <2>13
    <3>2. Sum(v)[n] + EstimateTokens(lengths[t[k]]) = Sum(t)[n] + EstimateTokens(lengths[t[n + 1]])
      BY <2>a, <2>b, <3>1, SumOfUpdate DEF v
    <3> HIDE DEF Sum
    <3> QED  BY <3>2, <2>1, <2>7, <2>8, <2>9, <2>10, <2>11
  <2> QED  BY <2>12, <2>13
<1> HIDE DEF T
<1>3. Nat \subseteq T
  BY <1>1, <1>2, SetInduction
<1> QED  BY <1>3 DEF T

PackNext(last, item, cost, budg) ==
  IF last.open /\ last.used + cost <= budg
  THEN [packed |-> Append(last.packed, item), used |-> last.used + cost, open |-> TRUE]
  ELSE [last EXCEPT !.open = FALSE]

PackLoops(loop, items, lengths, budg) ==
  loop = [n \in 0..Len(items) |->
            IF n = 0 THEN [packed |-> <<>>, used |-> 0, open |-> TRUE]
            ELSE PackNext(loop[n - 1], items[n], Cost(items, lengths, n), budg)]
PackLoop(items, lengths, budg) == CHOOSE loop : PackLoops(loop, items, lengths, budg)

LEMMA PackIsLoop ==
  ASSUME NEW items, NEW lengths, NEW budg
  PROVE  PackIntoBudget(items, lengths, budg) = PackLoop(items, lengths, budg)[Len(items)].packed
BY Zenon DEF PackIntoBudget, PackLoop, PackLoops, PackNext, Cost

PackStates == [packed : Seq(Mems), used : Nat, open : BOOLEAN]

LEMMA PackNextType ==
  ASSUME NEW last \in PackStates, NEW item \in Mems, NEW cost \in Nat, NEW budg
  PROVE  PackNext(last, item, cost, budg) \in PackStates
<1>1. last.packed \in Seq(Mems) /\ last.used \in Nat
  BY DEF PackStates
<1>2. Append(last.packed, item) \in Seq(Mems) /\ last.used + cost \in Nat
  BY <1>1
<1>3. [packed |-> Append(last.packed, item), used |-> last.used + cost, open |-> TRUE] \in PackStates
  BY <1>2 DEF PackStates
<1>4. [last EXCEPT !.open = FALSE] \in PackStates
  BY DEF PackStates
<1> QED  BY <1>3, <1>4 DEF PackNext

LEMMA CostType ==
  ASSUME NEW items \in Seq(Mems), NEW lengths \in [Mems -> Nat]
  PROVE  \A n \in 1..Len(items) : items[n] \in Mems /\ Cost(items, lengths, n) \in Nat
<1> SUFFICES ASSUME NEW n \in 1..Len(items)
             PROVE  items[n] \in Mems /\ Cost(items, lengths, n) \in Nat
  OBVIOUS
<1>1. items[n] \in Mems
  OBVIOUS
<1> QED  BY <1>1, EstimateType DEF Cost

LEMMA PackLoopIs ==
  ASSUME NEW items \in Seq(Mems), NEW lengths \in [Mems -> Nat], NEW budg \in Nat
  PROVE  LET loop == PackLoop(items, lengths, budg)
         IN  /\ loop[0] = [packed |-> <<>>, used |-> 0, open |-> TRUE]
             /\ \A n \in 1..Len(items) :
                  loop[n] = PackNext(loop[n - 1], items[n], Cost(items, lengths, n), budg)
<1> DEFINE N == Len(items)
           zero == [packed |-> <<>>, used |-> 0, open |-> TRUE]
           step == [p \in (1..N) \X PackStates |->
                      PackNext(p[2], items[p[1]], Cost(items, lengths, p[1]), budg)]
<1>1. N \in Nat
  OBVIOUS
<1>2. zero \in PackStates
  BY DEF PackStates
<1>3. step \in [(1..N) \X PackStates -> PackStates]
  <2> SUFFICES ASSUME NEW p \in (1..N) \X PackStates
               PROVE  PackNext(p[2], items[p[1]], Cost(items, lengths, p[1]), budg) \in PackStates
    OBVIOUS
  <2> QED  BY PackNextType, CostType
<1>4. PICK f : Runs(f, N, PackStates, zero, step)
  <2> HIDE DEF step, N, zero
  <2> QED  BY <1>1, <1>2, <1>3, LoopRuns
<1>5. /\ f = [n \in 0..N |-> f[n]] /\ f[0] = zero
      /\ \A n \in 1..N : f[n] = PackNext(f[n - 1], items[n], Cost(items, lengths, n), budg)
  <2>1. f \in [0..N -> PackStates] /\ f[0] = zero /\ \A n \in 1..N : f[n] = step[<<n, f[n - 1]>>]
    BY <1>4 DEF Runs
  <2> SUFFICES ASSUME NEW n \in 1..N
               PROVE  f[n] = PackNext(f[n - 1], items[n], Cost(items, lengths, n), budg)
    <3> HIDE DEF step, zero
    <3> QED BY <2>1
  <2>2. n - 1 \in 0..N /\ f[n - 1] \in PackStates
    BY <1>1, <2>1
  <2>3. step[<<n, f[n - 1]>>] = PackNext(f[n - 1], items[n], Cost(items, lengths, n), budg)
    BY <2>2
  <2> QED  BY <2>1, <2>3
<1>6. \E loop : PackLoops(loop, items, lengths, budg)
  <2>1. PackLoops(f, items, lengths, budg)
    <3>1. \A n \in 0..N : f[n] = IF n = 0 THEN zero
                                ELSE PackNext(f[n - 1], items[n], Cost(items, lengths, n), budg)
      <4> SUFFICES ASSUME NEW n \in 0..N, n # 0 PROVE n \in 1..N
        <5> HIDE DEF step, zero, N
        <5> QED  BY <1>5, Zenon
      <4> QED  BY <1>1
    <3> HIDE DEF step
    <3> QED  BY <1>5, <3>1, Zenon DEF PackLoops
  <2> QED  BY <2>1
<1> DEFINE loop == PackLoop(items, lengths, budg)
<1>7. PackLoops(loop, items, lengths, budg)
  BY <1>6, Zenon DEF PackLoop
<1> HIDE DEF loop
<1>8. loop[0] = zero
  BY <1>1, <1>7 DEF PackLoops
<1>9. \A n \in 1..N : loop[n] = PackNext(loop[n - 1], items[n], Cost(items, lengths, n), budg)
  <2> SUFFICES ASSUME NEW n \in 1..N
               PROVE  loop[n] = PackNext(loop[n - 1], items[n], Cost(items, lengths, n), budg)
    OBVIOUS
  <2>1. n \in 0..N /\ n # 0
    BY <1>1
  <2> QED  BY <1>7, <2>1 DEF PackLoops
<1> QED  BY <1>8, <1>9 DEF loop

(* The loop has taken the first items, and stopped at the first that did   *)
(* not fit.                                                                *)
LEMMA Packing ==
  ASSUME NEW items \in Seq(Mems), NEW lengths \in [Mems -> Nat], NEW budg \in Nat
  PROVE  \E n \in 0..Len(items) :
           /\ PackIntoBudget(items, lengths, budg) = SubSeq(items, 1, n)
           /\ SumLoop(items, lengths)[n] <= budg
           /\ n < Len(items) => SumLoop(items, lengths)[n + 1] > budg
<1> DEFINE N == Len(items)
           sum == SumLoop(items, lengths)
           loop == PackLoop(items, lengths, budg)
           Good(v, k) == /\ v.packed = SubSeq(items, 1, Len(v.packed))
                         /\ Len(v.packed) <= k
                         /\ v.used = sum[Len(v.packed)] /\ v.used <= budg
                         /\ v.open => Len(v.packed) = k
                         /\ ~ v.open => Len(v.packed) < k /\ sum[Len(v.packed) + 1] > budg
           T == {k \in 0..N : loop[k] \in PackStates /\ Good(loop[k], k)}
<1>1. N \in Nat
  OBVIOUS
<1>2. /\ sum \in [0..N -> Nat] /\ sum[0] = 0
      /\ \A n \in 1..N : sum[n] = sum[n - 1] + Cost(items, lengths, n)
  BY SumLoopIs
<1>3. /\ loop[0] = [packed |-> <<>>, used |-> 0, open |-> TRUE]
      /\ \A n \in 1..N : loop[n] = PackNext(loop[n - 1], items[n], Cost(items, lengths, n), budg)
  BY PackLoopIs
<1> HIDE DEF sum, loop
<1>4. 0 \in T
  <2>1. Len(<<>>) = 0 /\ SubSeq(items, 1, 0) = <<>>
    BY SubSeqEmpty
  <2>2. loop[0].packed = <<>> /\ loop[0].used = 0 /\ loop[0].open = TRUE
    BY <1>3
  <2>3. loop[0] \in PackStates
    BY <1>3 DEF PackStates
  <2>4. /\ Len(loop[0].packed) = 0 /\ SubSeq(items, 1, Len(loop[0].packed)) = loop[0].packed
        /\ loop[0].used = sum[0] /\ loop[0].used <= budg
    BY <1>2, <2>1, <2>2
  <2>5. Good(loop[0], 0)
    BY <2>2, <2>4
  <2> HIDE DEF Good, N
  <2> QED  BY <1>1, <2>3, <2>5
<1>5. ASSUME NEW k \in 0..(N - 1), k \in T
      PROVE  k + 1 \in T
  <2> DEFINE v == loop[k]
             c == Len(v.packed)
             cost == Cost(items, lengths, k + 1)
             w == PackNext(v, items[k + 1], cost, budg)
  <2>1. k + 1 \in 1..N /\ (k + 1) - 1 = k /\ k + 1 \in 0..N /\ k \in Nat
    BY <1>1
  <2>2. loop[k + 1] = w
    BY <1>3, <2>1
  <2>3. items[k + 1] \in Mems /\ cost \in Nat
    BY <2>1, CostType
  <2>4. v \in PackStates /\ Good(v, k)
    BY <1>5
  <2>5. w \in PackStates
    <3> HIDE DEF v, cost
    <3> QED  BY <2>3, <2>4, PackNextType
  <2>6. Good(w, k + 1)
    <3>t. /\ v.packed \in Seq(Mems) /\ v.used \in Nat /\ v.open \in BOOLEAN
          /\ c \in Nat /\ c <= k /\ v.used = sum[c] /\ v.packed = SubSeq(items, 1, c)
          /\ v.used <= budg
      <4> HIDE DEF v
      <4> QED BY <2>4 DEF PackStates
    <3>1. CASE v.open /\ v.used + cost <= budg
      <4>1. /\ w.packed = Append(v.packed, items[k + 1]) /\ w.used = v.used + cost
            /\ w.open = TRUE
        <5> HIDE DEF v, cost
        <5> QED  BY <3>1 DEF PackNext
      <4>2. c = k
        BY <2>4, <3>1
      <4>3. Len(w.packed) = k + 1
        <5> HIDE DEF v, w, c
        <5> QED  BY <2>3, <4>1, <4>2, <3>t DEF c
      <4>4. SubSeq(items, 1, k + 1) = Append(SubSeq(items, 1, k), items[k + 1])
        BY <2>1
      <4>5. sum[k + 1] = sum[k] + cost
        BY <1>2, <2>1
      <4> HIDE DEF v, w, c, cost
      <4> QED  BY <3>t, <4>1, <4>2, <4>3, <4>4, <4>5, <3>1
    <3>2. CASE ~ (v.open /\ v.used + cost <= budg)
      <4>1. w = [v EXCEPT !.open = FALSE]
        <5> HIDE DEF v, cost
        <5> QED  BY <3>2 DEF PackNext
      <4>2. w.packed = v.packed /\ w.used = v.used /\ w.open = FALSE
        <5> HIDE DEF v, w
        <5> QED  BY <4>1, <2>4 DEF PackStates
      <4>3. sum[c + 1] > budg
        <5>1. CASE ~ v.open
          BY <2>4, <5>1
        <5>2. CASE v.open
          <6>1. c = k /\ sum[k + 1] = sum[k] + cost
            BY <2>4, <5>2, <1>2, <2>1
          <6> HIDE DEF v, c, cost
          <6> QED  BY <6>1, <3>2, <3>t, <5>2, <2>3
        <5> QED  BY <5>1, <5>2
      <4>4. c < k + 1 /\ Len(w.packed) = c
        <5> HIDE DEF v, w
        <5> QED  BY <3>t, <4>2, <2>1
      <4> HIDE DEF v, w, cost
      <4> QED  BY <3>t, <4>2, <4>3, <4>4
    <3> QED  BY <3>1, <3>2
  <2> HIDE DEF w, Good
  <2> QED  BY <2>1, <2>2, <2>5, <2>6
<1> HIDE DEF T
<1>6. 0..N \subseteq T
  BY <1>1, <1>4, <1>5, LoopInduction
<1>7. loop[N] \in PackStates /\ Good(loop[N], N)
  <2>1. N \in T
    BY <1>1, <1>6
  <2> HIDE DEF Good
  <2> QED  BY <2>1 DEF T
<1> DEFINE n == Len(loop[N].packed)
<1>8. n \in 0..N
  <2>1. loop[N].packed \in Seq(Mems)
    BY <1>7 DEF PackStates
  <2>2. n \in Nat
    BY <2>1
  <2> QED  BY <1>1, <1>7, <2>2
<1>9. PackIntoBudget(items, lengths, budg) = SubSeq(items, 1, n)
  BY <1>7, PackIsLoop DEF loop
<1>10. sum[n] <= budg /\ (n < N => sum[n + 1] > budg)
  <2>1. loop[N].open \in BOOLEAN
    BY <1>7 DEF PackStates
  <2> HIDE DEF N
  <2> QED  BY <1>7, <1>8, <2>1, <1>1
<1> QED  BY <1>8, <1>9, <1>10 DEF sum

PlaceNext(last, item, k) ==
  IF k % 2 = 1
  THEN [last EXCEPT !.placed[last.left] = item, !.left = @ + 1]
  ELSE [last EXCEPT !.placed[last.right] = item, !.right = @ - 1]

PlaceLoops(loop, items) ==
  loop = [n \in 0..Len(items) |->
            IF n = 0 THEN [placed |-> items, left |-> 1, right |-> Len(items)]
            ELSE PlaceNext(loop[n - 1], items[n], n)]
PlaceLoop(items) == CHOOSE loop : PlaceLoops(loop, items)

LEMMA PlaceIsLoop ==
  ASSUME NEW items
  PROVE  PlaceHeadTail(items) = PlaceLoop(items)[Len(items)].placed
BY Zenon DEF PlaceHeadTail, PlaceLoop, PlaceLoops, PlaceNext

PlaceStates(N) == [placed : [1..N -> Mems], left : Int, right : Int]

LEMMA PlaceNextIs ==
  ASSUME NEW N \in Nat, NEW last \in PlaceStates(N), NEW item \in Mems, NEW k \in Nat
  PROVE  LET w == PlaceNext(last, item, k)
         IN  /\ w \in PlaceStates(N)
             /\ k % 2 = 1 => /\ w.placed = [last.placed EXCEPT ![last.left] = item]
                             /\ w.left = last.left + 1 /\ w.right = last.right
             /\ k % 2 # 1 => /\ w.placed = [last.placed EXCEPT ![last.right] = item]
                             /\ w.right = last.right - 1 /\ w.left = last.left
<1>1. /\ last.placed \in [1..N -> Mems] /\ last.left \in Int /\ last.right \in Int
  BY DEF PlaceStates
<1>2. CASE k % 2 = 1
  <2>1. PlaceNext(last, item, k) = [last EXCEPT !.placed[last.left] = item, !.left = @ + 1]
    BY <1>2 DEF PlaceNext
  <2>2. PlaceNext(last, item, k) = [placed |-> [last.placed EXCEPT ![last.left] = item],
                                    left |-> last.left + 1, right |-> last.right]
    BY <2>1 DEF PlaceStates
  <2> HIDE DEF PlaceNext
  <2>3. [last.placed EXCEPT ![last.left] = item] \in [1..N -> Mems]
    BY <1>1
  <2>4. PlaceNext(last, item, k) \in PlaceStates(N)
    BY <1>1, <2>2, <2>3 DEF PlaceStates
  <2> QED  BY <1>2, <2>2, <2>4
<1>3. CASE k % 2 # 1
  <2>1. PlaceNext(last, item, k) = [last EXCEPT !.placed[last.right] = item, !.right = @ - 1]
    BY <1>3 DEF PlaceNext
  <2>2. PlaceNext(last, item, k) = [placed |-> [last.placed EXCEPT ![last.right] = item],
                                    left |-> last.left, right |-> last.right - 1]
    BY <2>1 DEF PlaceStates
  <2>3. [last.placed EXCEPT ![last.right] = item] \in [1..N -> Mems]
    BY <1>1
  <2>4. PlaceNext(last, item, k) \in PlaceStates(N)
    BY <1>1, <2>2, <2>3 DEF PlaceStates
  <2> QED  BY <1>3, <2>2, <2>4
<1> QED  BY <1>2, <1>3

LEMMA PlaceLoopIs ==
  ASSUME NEW items \in Seq(Mems)
  PROVE  LET loop == PlaceLoop(items)
         IN  /\ loop[0] = [placed |-> items, left |-> 1, right |-> Len(items)]
             /\ \A n \in 1..Len(items) : loop[n] = PlaceNext(loop[n - 1], items[n], n)
<1> DEFINE N == Len(items)
           zero == [placed |-> items, left |-> 1, right |-> Len(items)]
           step == [p \in (1..N) \X PlaceStates(N) |-> PlaceNext(p[2], items[p[1]], p[1])]
<1>1. N \in Nat
  OBVIOUS
<1>2. zero \in PlaceStates(N)
  BY DEF PlaceStates
<1>3. step \in [(1..N) \X PlaceStates(N) -> PlaceStates(N)]
  <2> SUFFICES ASSUME NEW k \in 1..N, NEW v \in PlaceStates(N)
               PROVE  PlaceNext(v, items[k], k) \in PlaceStates(N)
    OBVIOUS
  <2>1. items[k] \in Mems /\ k \in Nat
    OBVIOUS
  <2> QED  BY <1>1, <2>1, PlaceNextIs
<1>4. PICK f : Runs(f, N, PlaceStates(N), zero, step)
  <2> HIDE DEF step, N, zero
  <2> QED  BY <1>1, <1>2, <1>3, LoopRuns
<1>5. /\ f = [n \in 0..N |-> f[n]] /\ f[0] = zero
      /\ \A n \in 1..N : f[n] = PlaceNext(f[n - 1], items[n], n)
  <2>1. f \in [0..N -> PlaceStates(N)] /\ f[0] = zero /\ \A n \in 1..N : f[n] = step[<<n, f[n - 1]>>]
    BY <1>4 DEF Runs
  <2> SUFFICES ASSUME NEW n \in 1..N
               PROVE  f[n] = PlaceNext(f[n - 1], items[n], n)
    <3> HIDE DEF step, zero
    <3> QED BY <2>1
  <2>2. n - 1 \in 0..N /\ f[n - 1] \in PlaceStates(N)
    BY <1>1, <2>1
  <2>3. step[<<n, f[n - 1]>>] = PlaceNext(f[n - 1], items[n], n)
    BY <2>2
  <2> QED  BY <2>1, <2>3
<1>6. \E loop : PlaceLoops(loop, items)
  <2>1. PlaceLoops(f, items)
    <3>1. \A n \in 0..N : f[n] = IF n = 0 THEN zero ELSE PlaceNext(f[n - 1], items[n], n)
      <4> SUFFICES ASSUME NEW n \in 0..N, n # 0 PROVE n \in 1..N
        <5> HIDE DEF step, zero, N
        <5> QED  BY <1>5, Zenon
      <4> QED  BY <1>1
    <3> HIDE DEF step
    <3> QED  BY <1>5, <3>1, Zenon DEF PlaceLoops
  <2> QED  BY <2>1
<1> DEFINE loop == PlaceLoop(items)
<1>7. PlaceLoops(loop, items)
  BY <1>6, Zenon DEF PlaceLoop
<1> HIDE DEF loop
<1>8. loop[0] = zero
  BY <1>1, <1>7 DEF PlaceLoops
<1>9. \A n \in 1..N : loop[n] = PlaceNext(loop[n - 1], items[n], n)
  <2> SUFFICES ASSUME NEW n \in 1..N
               PROVE  loop[n] = PlaceNext(loop[n - 1], items[n], n)
    OBVIOUS
  <2>1. n \in 0..N /\ n # 0
    BY <1>1
  <2> QED  BY <1>7, <2>1 DEF PlaceLoops
<1> QED  BY <1>8, <1>9 DEF loop

(* Even and odd numbers. *)
LEMMA Parity == \A k \in Nat : \E j \in Nat : k = 2 * j \/ k = 2 * j + 1
<1> DEFINE T == {k \in Nat : \E j \in Nat : k = 2 * j \/ k = 2 * j + 1}
<1>1. 0 \in T
  <2>1. 0 \in Nat /\ 0 = 2 * 0
    OBVIOUS
  <2> QED  BY <2>1
<1>2. ASSUME NEW k \in Nat, k \in T
      PROVE  k + 1 \in T
  <2>1. PICK j \in Nat : k = 2 * j \/ k = 2 * j + 1
    BY <1>2
  <2>2. j + 1 \in Nat /\ k + 1 \in Nat
    OBVIOUS
  <2>3. k + 1 = 2 * j + 1 \/ k + 1 = 2 * (j + 1)
    BY <2>1
  <2> QED  BY <2>2, <2>3
<1> HIDE DEF T
<1>3. Nat \subseteq T
  BY <1>1, <1>2, SetInduction
<1> QED  BY <1>3 DEF T

LEMMA Remainders == \A j \in Nat : (2 * j) % 2 = 0 /\ (2 * j + 1) % 2 = 1
OBVIOUS

(* Where the items end up: odd ones count from the left, even ones from    *)
(* the right.                                                              *)
LEMMA Placement ==
  ASSUME NEW items \in Seq(Mems)
  PROVE  LET N == Len(items)
             p == PlaceHeadTail(items)
         IN  /\ p \in [1..N -> Mems]
             /\ \A q \in 1..N : 2 * q - 1 <= N => p[q] = items[2 * q - 1]
             /\ \A q \in 1..N : 2 * q - 1 > N => p[q] = items[2 * (N + 1 - q)]
<1> DEFINE N == Len(items)
           loop == PlaceLoop(items)
           Good(v, k) == /\ \A j \in Nat : k = 2 * j => v.left = j + 1 /\ v.right = N - j
                         /\ \A j \in Nat : k = 2 * j + 1 => v.left = j + 2 /\ v.right = N - j
                         /\ \A q \in 1..N : q < v.left => v.placed[q] = items[2 * q - 1]
                         /\ \A q \in 1..N : q > v.right => v.placed[q] = items[2 * (N + 1 - q)]
           T == {k \in 0..N : loop[k] \in PlaceStates(N) /\ Good(loop[k], k)}
<1>1. N \in Nat
  OBVIOUS
<1>2. /\ loop[0] = [placed |-> items, left |-> 1, right |-> N]
      /\ \A n \in 1..N : loop[n] = PlaceNext(loop[n - 1], items[n], n)
  BY PlaceLoopIs
<1> HIDE DEF loop
<1>3. 0 \in T
  <2>1. loop[0].placed = items /\ loop[0].left = 1 /\ loop[0].right = N
    BY <1>2
  <2>2. loop[0] \in PlaceStates(N)
    BY <1>2 DEF PlaceStates
  <2>3. Good(loop[0], 0)
    <3> HIDE DEF N
    <3> QED  BY <1>1, <2>1
  <2> HIDE DEF Good, N
  <2> QED  BY <1>1, <2>2, <2>3
<1>4. ASSUME NEW k \in 0..(N - 1), k \in T
      PROVE  k + 1 \in T
  <2> DEFINE v == loop[k]
             w == loop[k + 1]
             item == items[k + 1]
  <2>1. k + 1 \in 1..N /\ (k + 1) - 1 = k /\ k + 1 \in 0..N /\ k \in Nat /\ k + 1 \in Nat /\ item \in Mems
    OBVIOUS
  <2>2. w = PlaceNext(v, item, k + 1)
    BY <1>2, <2>1
  <2>3. v \in PlaceStates(N) /\ Good(v, k)
    BY <1>4
  <2>4. /\ w \in PlaceStates(N)
        /\ (k + 1) % 2 = 1 => /\ w.placed = [v.placed EXCEPT ![v.left] = item]
                              /\ w.left = v.left + 1 /\ w.right = v.right
        /\ (k + 1) % 2 # 1 => /\ w.placed = [v.placed EXCEPT ![v.right] = item]
                              /\ w.right = v.right - 1 /\ w.left = v.left
    <3> HIDE DEF v, w, N, item
    <3> QED  BY <1>1, <2>1, <2>2, <2>3, PlaceNextIs
  <2>5. /\ v.left \in Int /\ v.right \in Int /\ v.placed \in [1..N -> Mems]
        /\ \A j \in Nat : k = 2 * j => v.left = j + 1 /\ v.right = N - j
        /\ \A j \in Nat : k = 2 * j + 1 => v.left = j + 2 /\ v.right = N - j
        /\ \A q \in 1..N : q < v.left => v.placed[q] = items[2 * q - 1]
        /\ \A q \in 1..N : q > v.right => v.placed[q] = items[2 * (N + 1 - q)]
    <3> HIDE DEF v
    <3> QED  BY <2>3 DEF PlaceStates
  <2>6. PICK j \in Nat : k = 2 * j \/ k = 2 * j + 1
    BY <2>1, Parity
  <2>7. CASE k = 2 * j
    <3>1. (k + 1) % 2 = 1 /\ v.left = j + 1 /\ v.right = N - j
      <4> HIDE DEF v, N
      <4> QED  BY <2>5, <2>7, Remainders
    <3>2. w.placed = [v.placed EXCEPT ![j + 1] = item] /\ w.left = j + 2 /\ w.right = N - j
      <4> HIDE DEF v, w, item, N
      <4> QED  BY <2>4, <3>1
    <3>3. \A q \in 1..N : q < w.left => w.placed[q] = items[2 * q - 1]
      <4> SUFFICES ASSUME NEW q \in 1..N, q < j + 2 PROVE w.placed[q] = items[2 * q - 1]
        BY <3>2
      <4>1. CASE q = j + 1
        <5>1. 2 * q - 1 = k + 1
          BY <4>1, <2>7
        <5> HIDE DEF v, w, N
        <5> QED  BY <5>1, <4>1, <3>2, <2>5
      <4>2. CASE q # j + 1
        <5>1. q < j + 1
          BY <4>2
        <5> HIDE DEF v, w, N
        <5> QED  BY <5>1, <4>2, <3>1, <3>2, <2>5
      <4> QED  BY <4>1, <4>2
    <3>4. \A q \in 1..N : q > w.right => w.placed[q] = items[2 * (N + 1 - q)]
      <4> SUFFICES ASSUME NEW q \in 1..N, q > N - j PROVE w.placed[q] = items[2 * (N + 1 - q)]
        BY <3>2
      <4>1. q # j + 1
        <5> HIDE DEF N
        <5> QED  BY <1>1, <2>1, <2>7
      <4> HIDE DEF v, w, N
      <4> QED  BY <4>1, <3>1, <3>2, <2>5
    <3>5. Good(w, k + 1)
      <4> HIDE DEF v, w, N
      <4> QED  BY <1>1, <2>1, <2>7, <3>1, <3>2, <3>3, <3>4
    <3> HIDE DEF Good, N
    <3> QED  BY <2>1, <2>4, <3>5
  <2>8. CASE k = 2 * j + 1
    <3>1. (k + 1) % 2 # 1 /\ v.left = j + 2 /\ v.right = N - j
      <4>1. k + 1 = 2 * (j + 1) /\ j + 1 \in Nat
        BY <2>8
      <4> HIDE DEF v, N
      <4> QED  BY <2>5, <2>8, <4>1, Remainders
    <3>2. w.placed = [v.placed EXCEPT ![N - j] = item] /\ w.left = j + 2 /\ w.right = N - j - 1
      <4> HIDE DEF v, w, item, N
      <4> QED  BY <2>4, <3>1
    <3>3. \A q \in 1..N : q < w.left => w.placed[q] = items[2 * q - 1]
      <4> SUFFICES ASSUME NEW q \in 1..N, q < j + 2 PROVE w.placed[q] = items[2 * q - 1]
        BY <3>2
      <4>1. q # N - j
        <5> HIDE DEF N
        <5> QED  BY <1>1, <2>1, <2>8
      <4> HIDE DEF v, w, N
      <4> QED  BY <4>1, <3>1, <3>2, <2>5
    <3>4. \A q \in 1..N : q > w.right => w.placed[q] = items[2 * (N + 1 - q)]
      <4> SUFFICES ASSUME NEW q \in 1..N, q > N - j - 1 PROVE w.placed[q] = items[2 * (N + 1 - q)]
        BY <3>2
      <4>1. CASE q = N - j
        <5>1. 2 * (N + 1 - q) = k + 1
          BY <1>1, <4>1, <2>8
        <5> HIDE DEF v, w, N
        <5> QED  BY <5>1, <4>1, <3>2, <2>5
      <4>2. CASE q # N - j
        <5>1. q > N - j
          BY <1>1, <4>2
        <5> HIDE DEF v, w, N
        <5> QED  BY <5>1, <4>2, <3>1, <3>2, <2>5
      <4> QED  BY <4>1, <4>2
    <3>5. Good(w, k + 1)
      <4> HIDE DEF v, w, N
      <4> QED  BY <1>1, <2>1, <2>8, <3>1, <3>2, <3>3, <3>4
    <3> HIDE DEF Good, N
    <3> QED  BY <2>1, <2>4, <3>5
  <2> QED  BY <2>6, <2>7, <2>8
<1> HIDE DEF T
<1>5. 0..N \subseteq T
  BY <1>1, <1>3, <1>4, LoopInduction
<1>6. loop[N] \in PlaceStates(N) /\ Good(loop[N], N)
  <2>1. N \in T
    BY <1>1, <1>5
  <2> HIDE DEF Good
  <2> QED  BY <2>1 DEF T
<1> DEFINE p == PlaceHeadTail(items)
           v == loop[N]
<1>7. p = v.placed
  BY PlaceIsLoop DEF loop
<1>8. /\ v.left \in Int /\ v.right \in Int /\ v.placed \in [1..N -> Mems]
      /\ \A j \in Nat : N = 2 * j => v.left = j + 1 /\ v.right = N - j
      /\ \A j \in Nat : N = 2 * j + 1 => v.left = j + 2 /\ v.right = N - j
      /\ \A q \in 1..N : q < v.left => v.placed[q] = items[2 * q - 1]
      /\ \A q \in 1..N : q > v.right => v.placed[q] = items[2 * (N + 1 - q)]
  <2>1. v \in PlaceStates(N) /\ Good(v, N)
    BY <1>6
  <2> HIDE DEF v, N
  <2> QED  BY <2>1 DEF PlaceStates
<1>9. PICK j \in Nat : N = 2 * j \/ N = 2 * j + 1
  BY <1>1, Parity
<1>10. \A q \in 1..N : (2 * q - 1 <= N => q < v.left) /\ (2 * q - 1 > N => q > v.right)
  <2> HIDE DEF v, N
  <2> SUFFICES ASSUME NEW q \in 1..N
               PROVE  (2 * q - 1 <= N => q < v.left) /\ (2 * q - 1 > N => q > v.right)
    OBVIOUS
  <2>1. CASE N = 2 * j
    <3>1. v.left = j + 1 /\ v.right = N - j
      BY <1>8, <2>1
    <3> QED  BY <1>1, <2>1, <3>1
  <2>2. CASE N = 2 * j + 1
    <3>1. v.left = j + 2 /\ v.right = N - j
      BY <1>8, <2>2
    <3> QED  BY <1>1, <2>2, <3>1
  <2> QED  BY <1>9, <2>1, <2>2
<1> HIDE DEF v, N
<1>11. /\ p \in [1..N -> Mems]
       /\ \A q \in 1..N : 2 * q - 1 <= N => p[q] = items[2 * q - 1]
       /\ \A q \in 1..N : 2 * q - 1 > N => p[q] = items[2 * (N + 1 - q)]
  <2> HIDE DEF p
  <2> QED  BY <1>7, <1>8, <1>10
<1> QED  BY <1>11 DEF N

(* Lists without repetitions and the enumerations of finite sets. *)
LEMMA FunctionIsList ==
  ASSUME NEW S, NEW n \in Nat, NEW f \in [1..n -> S]
  PROVE  f \in Seq(S) /\ Len(f) = n /\ DOMAIN f = 1..n
OBVIOUS

(* What it is to be an enumeration. *)
LEMMA Enumeration ==
  ASSUME NEW S \in SUBSET Mems, NEW s \in SetToSeqs(S)
  PROVE  /\ s \in Seq(Mems) /\ Distinct(s)
         /\ ToSet(s) = S /\ Len(s) = Cardinality(S) /\ Cardinality(S) \in Nat
<1> DEFINE n == Cardinality(S)
<1>1. IsFiniteSet(S) /\ n \in Nat
  BY ReadAssumption, FS_Subset, FS_CardinalityType
<1>2. s \in [1..n -> S] /\ \A i, k \in 1..n : i # k => s[i] # s[k]
  BY Zenon DEF SetToSeqs
<1> HIDE DEF n
<1>3. s \in Seq(S) /\ Len(s) = n /\ DOMAIN s = 1..n
  BY <1>1, <1>2, FunctionIsList
<1>4. s \in Seq(Mems)
  BY <1>1, <1>2, FunctionIsList
<1>5. Distinct(s)
  BY <1>2, <1>3 DEF Distinct
<1>6. s \in Injection(1..n, S)
  BY <1>2 DEF Injection, IsInjective
<1>7. Cardinality(1..n) = n
  BY <1>1, FS_Interval
<1>8. s \in Surjection(1..n, S)
  BY <1>1, <1>6, <1>7, FS_Injection DEF n
<1>9. ToSet(s) = S
  BY <1>2, <1>3, <1>8 DEF Surjection, ToSet
<1> QED  BY <1>1, <1>3, <1>4, <1>5, <1>9 DEF n

LEMMA ListIsEnumeration ==
  ASSUME NEW s \in Seq(Mems), Distinct(s)
  PROVE  /\ s \in SetToSeqs(ToSet(s)) /\ ToSet(s) \subseteq Mems
         /\ Cardinality(ToSet(s)) = Len(s) /\ s \in Orders
<1> DEFINE n == Len(s)
           S == ToSet(s)
<1>1. n \in Nat /\ DOMAIN s = 1..n
  OBVIOUS
<1>2. S = {s[i] : i \in 1..n} /\ S \subseteq Mems
  BY <1>1 DEF ToSet
<1>3. s \in [1..n -> S]
  BY <1>1, <1>2
<1>4. s \in Injection(1..n, S) /\ s \in Surjection(1..n, S)
  BY <1>1, <1>2, <1>3 DEF Injection, IsInjective, Surjection, Distinct
<1>5. IsFiniteSet(S)
  BY <1>2, ReadAssumption, FS_Subset
<1>6. Cardinality(1..n) = n
  BY <1>1, FS_Interval
<1>7. Cardinality(S) = n
  BY <1>4, <1>5, <1>6, FS_Injection
<1>8. \A i, k \in 1..n : i # k => s[i] # s[k]
  BY DEF Distinct
<1> HIDE DEF n, S
<1>9. s \in SetToSeqs(S)
  BY <1>3, <1>7, <1>8, Zenon DEF SetToSeqs
<1>10. s \in Orders
  BY <1>2, <1>9, Zenon DEF Orders
<1> QED  BY <1>2, <1>7, <1>9, <1>10 DEF n, S

LEMMA PrefixIsDistinct ==
  ASSUME NEW s \in Seq(Mems), Distinct(s), NEW n \in 0..Len(s)
  PROVE  Distinct(SubSeq(s, 1, n))
<1>1. /\ Len(SubSeq(s, 1, n)) = n /\ \A i \in 1..n : SubSeq(s, 1, n)[i] = s[i]
  BY Prefix
<1>2. 1..n \subseteq 1..Len(s)
  OBVIOUS
<1> QED  BY <1>1, <1>2 DEF Distinct

LEMMA WholeIsPrefix ==
  ASSUME NEW s \in Seq(Mems)
  PROVE  SubSeq(s, 1, Len(s)) = s
<1>1. Len(s) \in Nat /\ Len(s) \in 0..Len(s) /\ DOMAIN s = 1..Len(s)
  OBVIOUS
<1>2. /\ SubSeq(s, 1, Len(s)) \in Seq(Mems) /\ Len(SubSeq(s, 1, Len(s))) = Len(s)
      /\ \A i \in 1..Len(s) : SubSeq(s, 1, Len(s))[i] = s[i]
  BY <1>1, Prefix
<1> QED  BY <1>1, <1>2

(* place_head_tail loses nothing, repeats nothing and invents nothing. *)
LEMMA PlacedIsReordering ==
  ASSUME NEW items \in Seq(Mems), Distinct(items)
  PROVE  LET p == PlaceHeadTail(items)
         IN  /\ p \in Seq(Mems) /\ Len(p) = Len(items)
             /\ Distinct(p) /\ ToSet(p) = ToSet(items)
<1> DEFINE N == Len(items)
           p == PlaceHeadTail(items)
<1>1. N \in Nat /\ DOMAIN items = 1..N
  OBVIOUS
<1>2. /\ p \in [1..N -> Mems]
      /\ \A q \in 1..N : 2 * q - 1 <= N => p[q] = items[2 * q - 1]
      /\ \A q \in 1..N : 2 * q - 1 > N => p[q] = items[2 * (N + 1 - q)]
  BY Placement
<1> HIDE DEF p, N
<1>3. p \in Seq(Mems) /\ Len(p) = N /\ DOMAIN p = 1..N
  BY <1>1, <1>2, FunctionIsList
<1>4. \A i, k \in 1..N : items[i] = items[k] => i = k
  BY DEF Distinct, N
<1>5. Distinct(p)
  <2> SUFFICES ASSUME NEW q \in 1..N, NEW r \in 1..N, p[q] = p[r] PROVE q = r
    BY <1>3 DEF Distinct
  <2>1. CASE 2 * q - 1 <= N /\ 2 * r - 1 <= N
    <3>1. 2 * q - 1 \in 1..N /\ 2 * r - 1 \in 1..N
      BY <1>1, <2>1
    <3>2. 2 * q - 1 = 2 * r - 1
      BY <1>2, <1>4, <2>1, <3>1
    <3> QED  BY <3>2
  <2>2. CASE 2 * q - 1 <= N /\ 2 * r - 1 > N
    <3>1. 2 * q - 1 \in 1..N /\ 2 * (N + 1 - r) \in 1..N
      BY <1>1, <2>2
    <3>2. 2 * q - 1 = 2 * (N + 1 - r)
      BY <1>2, <1>4, <2>2, <3>1
    <3> QED  BY <1>1, <3>2
  <2>3. CASE 2 * q - 1 > N /\ 2 * r - 1 <= N
    <3>1. 2 * (N + 1 - q) \in 1..N /\ 2 * r - 1 \in 1..N
      BY <1>1, <2>3
    <3>2. 2 * (N + 1 - q) = 2 * r - 1
      BY <1>2, <1>4, <2>3, <3>1
    <3> QED  BY <1>1, <3>2
  <2>4. CASE 2 * q - 1 > N /\ 2 * r - 1 > N
    <3>1. 2 * (N + 1 - q) \in 1..N /\ 2 * (N + 1 - r) \in 1..N
      BY <1>1, <2>4
    <3>2. 2 * (N + 1 - q) = 2 * (N + 1 - r)
      BY <1>2, <1>4, <2>4, <3>1
    <3> QED  BY <1>1, <3>2
  <2> QED  BY <1>1, <2>1, <2>2, <2>3, <2>4
<1>6. \A q \in 1..N : \E i \in 1..N : p[q] = items[i]
  <2> SUFFICES ASSUME NEW q \in 1..N PROVE \E i \in 1..N : p[q] = items[i]
    OBVIOUS
  <2>1. CASE 2 * q - 1 <= N
    <3>1. 2 * q - 1 \in 1..N
      BY <1>1, <2>1
    <3> QED  BY <1>2, <2>1, <3>1
  <2>2. CASE 2 * q - 1 > N
    <3>1. 2 * (N + 1 - q) \in 1..N
      BY <1>1, <2>2
    <3> QED  BY <1>2, <2>2, <3>1
  <2> QED  BY <1>1, <2>1, <2>2
<1>7. \A i \in 1..N : \E q \in 1..N : p[q] = items[i]
  <2> SUFFICES ASSUME NEW i \in 1..N PROVE \E q \in 1..N : p[q] = items[i]
    OBVIOUS
  <2>0. i \in Nat
    BY <1>1
  <2>1. PICK j \in Nat : i = 2 * j \/ i = 2 * j + 1
    BY <2>0, Parity
  <2>2. CASE i = 2 * j
    <3>1. N + 1 - j \in 1..N /\ 2 * (N + 1 - j) - 1 > N /\ 2 * (N + 1 - (N + 1 - j)) = i
      BY <1>1, <2>2
    <3> QED  BY <1>2, <3>1
  <2>3. CASE i = 2 * j + 1
    <3>1. j + 1 \in 1..N /\ 2 * (j + 1) - 1 <= N /\ 2 * (j + 1) - 1 = i
      BY <1>1, <2>3
    <3> QED  BY <1>2, <3>1
  <2> QED  BY <2>1, <2>2, <2>3
<1>8. ToSet(p) = ToSet(items)
  <2>1. ToSet(p) = {p[q] : q \in 1..N} /\ ToSet(items) = {items[i] : i \in 1..N}
    BY <1>1, <1>3, Zenon DEF ToSet
  <2> QED  BY <1>6, <1>7, <2>1
<1> QED  BY <1>3, <1>5, <1>8 DEF p, N

(* The sum of a list only grows with the list. *)
LEMMA SumGrows ==
  ASSUME NEW s \in Seq(Mems), NEW lengths \in [Mems -> Nat], NEW n \in 0..Len(s)
  PROVE  /\ SumLoop(s, lengths)[n] \in Nat
         /\ SumLoop(s, lengths)[n] <= SumLoop(s, lengths)[Len(s)]
<1> DEFINE N == Len(s)
           a == SumLoop(s, lengths)
           T == {k \in 0..N : k >= n => a[n] <= a[k]}
<1>1. N \in Nat /\ n \in Nat
  OBVIOUS
<1>2. a \in [0..N -> Nat] /\ a[0] = 0 /\ \A k \in 1..N : a[k] = a[k - 1] + Cost(s, lengths, k)
  BY SumLoopIs
<1>3. \A k \in 1..N : Cost(s, lengths, k) \in Nat
  <2> SUFFICES ASSUME NEW k \in 1..N PROVE Cost(s, lengths, k) \in Nat
    OBVIOUS
  <2>1. s[k] \in Mems
    OBVIOUS
  <2>2. lengths[s[k]] \in Nat
    BY <2>1
  <2> QED  BY <2>2, EstimateType DEF Cost
<1> HIDE DEF N, a
<1>4. 0 \in T
  BY <1>1, <1>2
<1>5. ASSUME NEW k \in 0..(N - 1), k \in T
      PROVE  k + 1 \in T
  <2>1. k + 1 \in 1..N /\ (k + 1) - 1 = k /\ k + 1 \in 0..N /\ k \in 0..N /\ k \in Nat
    BY <1>1
  <2>2. a[k + 1] = a[k] + Cost(s, lengths, k + 1)
    BY <1>2, <2>1
  <2>3. PICK x \in Nat : x = a[k]
    BY <1>2, <2>1
  <2>4. PICK y \in Nat : y = Cost(s, lengths, k + 1)
    BY <1>3, <2>1
  <2>5. PICK z \in Nat : z = a[n]
    BY <1>2, <1>1 DEF N
  <2>6. CASE k >= n
    <3>1. z <= x
      BY <1>5, <2>3, <2>5, <2>6
    <3>2. a[n] <= a[k + 1]
      BY <2>2, <2>3, <2>4, <2>5, <3>1
    <3> QED  BY <2>1, <3>2
  <2>7. CASE k + 1 = n
    <3>1. a[n] <= a[k + 1]
      BY <2>5, <2>7
    <3> QED  BY <2>1, <3>1
  <2>8. CASE k + 1 < n
    BY <1>1, <2>1, <2>8
  <2> QED  BY <1>1, <2>1, <2>6, <2>7, <2>8
<1> HIDE DEF T
<1>6. 0..N \subseteq T
  BY <1>1, <1>4, <1>5, LoopInduction
<1>7. N \in T /\ N >= n
  BY <1>1, <1>6 DEF N
<1> QED  BY <1>2, <1>7 DEF T, N, a

-----------------------------------------------------------------------------
(* The inductive invariant *)

(* The keyword phase is behind the request and the reply will be, or is,   *)
(* made of what the signals found.                                         *)
Ranking == phase \in {"graph", "rank", "pack"}
Answered == phase = "pack" \/ (Replied /\ reply # DegradedResponse)

KeywordsKept ==
  (Ranking \/ Answered) /\ "keyword" \notin failed =>
    before \cap Match \subseteq pool \/ limit <= Cardinality(pool)

Cut(order) == SubSeq(order, 1, IF Len(order) < limit THEN Len(order) ELSE limit)
RankedIsPool == Answered => \E order \in SetToSeqs(pool) : ranked = Cut(order)

FullReply == [memories |-> PlaceHeadTail(Packed),
              token_count |-> TotalTokenCount(PlaceHeadTail(Packed), length),
              degraded |-> failed # {}]
ReplyIsBuilt == Replied => reply = DegradedResponse \/ reply = FullReply

ReadInv == TypeOK /\ KeywordsKept /\ RankedIsPool /\ ReplyIsBuilt

(* What the proofs below use of the type invariant. *)
LEMMA TypesUsed ==
  ASSUME TypeOK
  PROVE  /\ length \in [Mems -> Nat] /\ budget \in Nat /\ limit \in Nat \ {0}
         /\ CandidateLimit \in Nat /\ limit <= CandidateLimit
         /\ ranked \in Seq(Mems) /\ Distinct(ranked) /\ ranked \in Orders
         /\ IsFiniteSet(committed) /\ IsFiniteSet(pool) /\ pool \subseteq Mems
         /\ Cardinality(pool) \in Nat
<1>1. length \in [Mems -> Nat] /\ budget \in Nat /\ limit \in Nat \ {0}
  BY ReadAssumption DEF TypeOK
<1>2. CandidateLimit \in Nat /\ limit <= CandidateLimit
  <2>1. CASE Multiplier = 0
    BY <1>1, <2>1 DEF CandidateLimit
  <2>2. CASE Multiplier # 0
    <3>1. Multiplier \in Nat /\ Multiplier - 1 \in Nat /\ limit \in Nat
      BY <1>1, <2>2, ReadAssumption
    <3>2. limit * Multiplier = limit * (Multiplier - 1) + limit /\ limit * (Multiplier - 1) \in Nat
      BY <3>1
    <3>3. PICK k \in Nat : limit * Multiplier = k + limit
      BY <3>2
    <3> QED  BY <2>2, <3>1, <3>3 DEF CandidateLimit
  <2> QED  BY <2>1, <2>2
<1>3. ranked \in Orders
  BY DEF TypeOK
<1>4. PICK S \in SUBSET Mems : ranked \in SetToSeqs(S)
  BY <1>3, Zenon DEF Orders
<1>5. ranked \in Seq(Mems) /\ Distinct(ranked)
  BY <1>4, Enumeration
<1>6. committed \in SUBSET Mems /\ pool \in SUBSET Mems
  BY DEF TypeOK
<1>7. IsFiniteSet(committed) /\ IsFiniteSet(pool) /\ Cardinality(pool) \in Nat
  BY <1>6, ReadAssumption, FS_Subset, FS_CardinalityType
<1> QED  BY <1>1, <1>2, <1>3, <1>5, <1>6, <1>7

(* What pack_into_budget keeps of the ranked list. *)
LEMMA PackedIsPrefix ==
  ASSUME TypeOK
  PROVE  \E n \in 0..Len(ranked) :
           /\ Packed = SubSeq(ranked, 1, n)
           /\ Packed \in Seq(Mems) /\ Len(Packed) = n /\ Distinct(Packed)
           /\ \A i \in 1..n : Packed[i] = ranked[i]
           /\ SumLoop(ranked, length)[n] <= budget
           /\ n < Len(ranked) => SumLoop(ranked, length)[n + 1] > budget
<1>1. /\ ranked \in Seq(Mems) /\ Distinct(ranked) /\ length \in [Mems -> Nat] /\ budget \in Nat
  BY TypesUsed
<1>2. PICK n \in 0..Len(ranked) :
        /\ Packed = SubSeq(ranked, 1, n)
        /\ SumLoop(ranked, length)[n] <= budget
        /\ n < Len(ranked) => SumLoop(ranked, length)[n + 1] > budget
  BY <1>1, Packing DEF Packed
<1>3. /\ Packed \in Seq(Mems) /\ Len(Packed) = n /\ Distinct(Packed)
      /\ \A i \in 1..n : Packed[i] = ranked[i]
  BY <1>1, <1>2, Prefix, PrefixIsDistinct
<1> QED  BY <1>2, <1>3

(* What a reply holds. *)
LEMMA FullReplyIs ==
  ASSUME TypeOK
  PROVE  LET p == FullReply.memories
         IN  /\ p \in Seq(Mems) /\ Distinct(p) /\ p \in Orders
             /\ Len(p) = Len(Packed) /\ ToSet(p) = ToSet(Packed)
             /\ p = PlaceHeadTail(Packed)
             /\ FullReply.token_count = SumLoop(Packed, length)[Len(Packed)]
             /\ FullReply.token_count \in Nat
             /\ FullReply.degraded = (failed # {})
<1> DEFINE p == PlaceHeadTail(Packed)
<1>1. Packed \in Seq(Mems) /\ Distinct(Packed) /\ Len(Packed) \in Nat
  <2>1. Packed \in Seq(Mems) /\ Distinct(Packed)
    BY PackedIsPrefix
  <2> QED  BY <2>1
<1>2. p \in Seq(Mems) /\ Len(p) = Len(Packed) /\ Distinct(p) /\ ToSet(p) = ToSet(Packed)
  BY <1>1, PlacedIsReordering
<1>3. p \in Orders
  BY <1>2, ListIsEnumeration
<1>4. length \in [Mems -> Nat]
  BY TypesUsed
<1>5. FullReply.memories = p /\ FullReply.token_count = TotalTokenCount(p, length)
      /\ FullReply.degraded = (failed # {})
  BY Zenon DEF FullReply
<1> HIDE DEF p
<1>6. TotalTokenCount(p, length) = SumLoop(p, length)[Len(p)]
  BY TotalIsSum
<1>7. SumLoop(p, length)[Len(Packed)] = SumLoop(Packed, length)[Len(Packed)]
  BY <1>1, <1>2, <1>4, SumOfReordering
<1>8. SumLoop(Packed, length)[Len(Packed)] \in Nat
  <2>1. Len(Packed) \in 0..Len(Packed)
    BY <1>1
  <2> QED  BY <1>1, <1>4, <2>1, SumGrows
<1> QED  BY <1>1, <1>2, <1>3, <1>5, <1>6, <1>7, <1>8 DEF p

LEMMA EmptyList == <<>> \in Orders
<1>1. <<>> \in Seq(Mems) /\ Distinct(<<>>)
  BY DEF Distinct
<1> QED  BY <1>1, ListIsEnumeration

(* The inductive invariant, one lemma for each action. *)
LEMMA InitReadInv == Init => ReadInv
<1> SUFFICES ASSUME Init PROVE ReadInv
  OBVIOUS
<1>1. phase = "idle" /\ reply = NoReply /\ ranked = <<>> /\ pool = {} /\ failed = {}
      /\ committed = {} /\ before = {}
  BY DEF Init
<1>2. reply.memories = <<>> /\ reply.token_count = 0 /\ reply.degraded = FALSE
  BY <1>1 DEF NoReply
<1>3. TypeOK
  <2>1. length \in [Mems -> Lengths] /\ budget \in Budgets /\ limit \in Limits
    BY DEF Init
  <2>2. reply.memories \in Orders /\ ranked \in Orders
    BY <1>1, <1>2, EmptyList
  <2>3. reply.degraded \in BOOLEAN /\ reply.token_count \in Nat
    <3>1. reply.degraded \in BOOLEAN
      BY <1>2, Zenon
    <3> QED  BY <1>2, <3>1
  <2> QED  BY <1>1, <2>1, <2>2, <2>3, Zenon DEF TypeOK
<1>4. KeywordsKept /\ RankedIsPool /\ ReplyIsBuilt
  BY <1>1 DEF KeywordsKept, RankedIsPool, ReplyIsBuilt, Ranking, Answered, Replied
<1> QED  BY <1>3, <1>4 DEF ReadInv

LEMMA CommitMemoryInv == ReadInv /\ CommitMemory => ReadInv'
<1> SUFFICES ASSUME ReadInv, CommitMemory PROVE ReadInv'
  OBVIOUS
<1>1. committed \subseteq committed' /\ committed' \subseteq Mems
  BY DEF CommitMemory, ReadInv, TypeOK
<1>2. /\ length' = length /\ budget' = budget /\ limit' = limit /\ before' = before /\ phase' = phase
      /\ pool' = pool /\ failed' = failed /\ ranked' = ranked /\ reply' = reply
  BY DEF CommitMemory, request
<1>3. TypeOK'
  BY <1>1, <1>2 DEF ReadInv, TypeOK
<1>4. KeywordsKept'
  BY <1>2 DEF ReadInv, KeywordsKept, Ranking, Answered, Replied
<1>5. RankedIsPool'
  BY <1>2 DEF ReadInv, RankedIsPool, Answered, Replied, Cut
<1>6. ReplyIsBuilt'
  BY <1>2 DEF ReadInv, ReplyIsBuilt, Replied, FullReply, Packed
<1> QED  BY <1>3, <1>4, <1>5, <1>6 DEF ReadInv

LEMMA AskInv == ReadInv /\ Ask => ReadInv'
<1> SUFFICES ASSUME ReadInv, Ask PROVE ReadInv'
  OBVIOUS
<1>1. TypeOK'
  BY DEF ReadInv, TypeOK, Ask
<1>2. phase' = "encode"
  BY DEF Ask
<1>3. KeywordsKept' /\ RankedIsPool' /\ ReplyIsBuilt'
  BY <1>2 DEF KeywordsKept, RankedIsPool, ReplyIsBuilt, Ranking, Answered, Replied
<1> QED  BY <1>1, <1>3 DEF ReadInv

LEMMA EncodeQueryInv == ReadInv /\ EncodeQuery => ReadInv'
<1> SUFFICES ASSUME ReadInv, EncodeQuery PROVE ReadInv'
  OBVIOUS
<1>1. TypeOK'
  BY DEF ReadInv, TypeOK, EncodeQuery, request
<1>2. phase' = "vector"
  BY DEF EncodeQuery
<1>3. KeywordsKept' /\ RankedIsPool' /\ ReplyIsBuilt'
  BY <1>2 DEF KeywordsKept, RankedIsPool, ReplyIsBuilt, Ranking, Answered, Replied
<1> QED  BY <1>1, <1>3 DEF ReadInv

(* A signal of committed memories. *)
LEMMA SignalTypes ==
  ASSUME TypeOK, NEW s \in Signals,
         NEW next \in {"keyword", "graph", "rank"}, NEW hits \in SUBSET (SUBSET committed),
         Signal(s, next, hits)
  PROVE  TypeOK' /\ pool \subseteq pool' /\ failed \subseteq failed'
         /\ before' = before /\ limit' = limit
<1>1. /\ committed' = committed /\ length' = length /\ budget' = budget /\ limit' = limit
      /\ before' = before /\ phase' = next /\ ranked' = ranked /\ reply' = reply
  BY DEF Signal, request
<1>2. pool \subseteq pool' /\ pool' \subseteq committed
  BY DEF Signal, TypeOK
<1>3. failed \subseteq failed' /\ failed' \subseteq Signals
  BY DEF Signal, TypeOK
<1>4. TypeOK'
  BY <1>1, <1>2, <1>3 DEF TypeOK
<1> QED  BY <1>1, <1>2, <1>3, <1>4

LEMMA VectorSignalInv == ReadInv /\ VectorSignal => ReadInv'
<1> SUFFICES ASSUME ReadInv, VectorSignal PROVE ReadInv'
  OBVIOUS
<1>1. UpTo(CandidateLimit, committed) \in SUBSET (SUBSET committed)
  BY DEF UpTo
<1>2. TypeOK'
  BY <1>1, SignalTypes DEF VectorSignal, ReadInv, Signals
<1>3. phase' = "keyword"
  BY DEF VectorSignal, Signal
<1>4. KeywordsKept' /\ RankedIsPool' /\ ReplyIsBuilt'
  BY <1>3 DEF KeywordsKept, RankedIsPool, ReplyIsBuilt, Ranking, Answered, Replied
<1> QED  BY <1>2, <1>4 DEF ReadInv

LEMMA KeywordSignalInv == ReadInv /\ KeywordSignal => ReadInv'
<1> SUFFICES ASSUME ReadInv, KeywordSignal PROVE ReadInv'
  OBVIOUS
<1> DEFINE matches == committed \cap Match
           hits == IF Cardinality(matches) <= CandidateLimit THEN {matches}
                   ELSE {h \in SUBSET matches : Cardinality(h) = CandidateLimit}
           next == IF HasEntities THEN "graph" ELSE "rank"
<1>1. Signal("keyword", next, hits)
  BY DEF KeywordSignal
<1>2. hits \in SUBSET (SUBSET committed) /\ next \in {"keyword", "graph", "rank"} /\ "keyword" \in Signals
  BY DEF Signals
<1>3. /\ TypeOK' /\ pool \subseteq pool' /\ before' = before /\ limit' = limit
      /\ committed' = committed /\ phase' = next /\ next \in {"graph", "rank"}
  <2>1. committed' = committed /\ phase' = next
    BY <1>1 DEF Signal
  <2>2. TypeOK
    BY DEF ReadInv
  <2> HIDE DEF hits, next
  <2>3. next \in {"graph", "rank"}
    BY DEF next
  <2> QED  BY <1>1, <1>2, <2>1, <2>2, <2>3, SignalTypes
<1>4. KeywordsKept'
  <2> SUFFICES ASSUME "keyword" \notin failed'
               PROVE  before \cap Match \subseteq pool' \/ limit <= Cardinality(pool')
    BY <1>3 DEF KeywordsKept
  <2>1. PICK h \in hits : pool' = pool \cup h
    <3> HIDE DEF hits, next
    <3> QED  BY <1>1 DEF Signal
  <2>2. before \subseteq committed /\ limit \in Nat /\ CandidateLimit \in Nat /\ limit <= CandidateLimit
    <3>1. TypeOK
      BY DEF ReadInv
    <3>2. before \subseteq committed
      BY <3>1 DEF TypeOK
    <3> QED  BY <3>1, <3>2, TypesUsed
  <2>3. CASE Cardinality(matches) <= CandidateLimit
    <3>1. h = matches
      BY <2>1, <2>3
    <3> HIDE DEF hits, next
    <3> QED  BY <2>1, <2>2, <3>1
  <2>4. CASE ~ (Cardinality(matches) <= CandidateLimit)
    <3>1. Cardinality(h) = CandidateLimit
      BY <2>1, <2>4
    <3>2. pool' \subseteq Mems
      BY <1>3 DEF TypeOK
    <3>3. IsFiniteSet(pool') /\ h \in SUBSET pool'
      BY <2>1, <3>2, ReadAssumption, FS_Subset
    <3>4. Cardinality(h) <= Cardinality(pool') /\ Cardinality(pool') \in Nat
      BY <3>3, FS_Subset, FS_CardinalityType
    <3> HIDE DEF hits, next
    <3> QED  BY <2>2, <3>1, <3>4
  <2> QED  BY <2>3, <2>4
<1>5. RankedIsPool' /\ ReplyIsBuilt'
  BY <1>3 DEF RankedIsPool, ReplyIsBuilt, Answered, Replied
<1> QED  BY <1>3, <1>4, <1>5 DEF ReadInv

LEMMA GraphSignalInv == ReadInv /\ GraphSignal => ReadInv'
<1> SUFFICES ASSUME ReadInv, GraphSignal PROVE ReadInv'
  OBVIOUS
<1>1. UpTo(CandidateLimit, committed) \in SUBSET (SUBSET committed)
  BY DEF UpTo
<1>2. TypeOK' /\ pool \subseteq pool' /\ failed \subseteq failed' /\ before' = before /\ limit' = limit
  BY <1>1, SignalTypes DEF GraphSignal, ReadInv, Signals
<1>3. phase = "graph" /\ phase' = "rank"
  BY DEF GraphSignal, Signal
<1>4. KeywordsKept'
  <2> SUFFICES ASSUME "keyword" \notin failed'
               PROVE  before \cap Match \subseteq pool' \/ limit <= Cardinality(pool')
    BY <1>2 DEF KeywordsKept
  <2>1. before \cap Match \subseteq pool \/ limit <= Cardinality(pool)
    BY <1>2, <1>3 DEF ReadInv, KeywordsKept, Ranking
  <2>2. CASE before \cap Match \subseteq pool
    BY <1>2, <2>2
  <2>3. CASE limit <= Cardinality(pool)
    <3>1. pool' \subseteq Mems
      BY <1>2 DEF TypeOK
    <3>2. IsFiniteSet(pool') /\ pool \in SUBSET pool'
      BY <1>2, <3>1, ReadAssumption, FS_Subset
    <3>3. Cardinality(pool) <= Cardinality(pool') /\ Cardinality(pool') \in Nat
          /\ Cardinality(pool) \in Nat
      BY <3>2, FS_Subset, FS_CardinalityType
    <3>4. limit \in Nat
      BY TypesUsed DEF ReadInv
    <3> QED  BY <2>3, <3>3, <3>4
  <2> QED  BY <2>1, <2>2, <2>3
<1>5. RankedIsPool' /\ ReplyIsBuilt'
  BY <1>3 DEF RankedIsPool, ReplyIsBuilt, Answered, Replied
<1> QED  BY <1>2, <1>4, <1>5 DEF ReadInv

(* The cut of an enumeration of the pool is a list of memories. *)
LEMMA CutIsList ==
  ASSUME NEW S \in SUBSET Mems, NEW order \in SetToSeqs(S), NEW lim \in Nat
  PROVE  LET n == IF Len(order) < lim THEN Len(order) ELSE lim
         IN  /\ n \in 0..Len(order)
             /\ SubSeq(order, 1, n) \in Seq(Mems)
             /\ Distinct(SubSeq(order, 1, n)) /\ SubSeq(order, 1, n) \in Orders
<1> DEFINE n == IF Len(order) < lim THEN Len(order) ELSE lim
<1>1. order \in Seq(Mems) /\ Distinct(order)
  BY Enumeration
<1>2. n \in 0..Len(order)
  <2>1. Len(order) \in Nat
    BY <1>1
  <2> QED  BY <2>1
<1> HIDE DEF n
<1>3. SubSeq(order, 1, n) \in Seq(Mems) /\ Distinct(SubSeq(order, 1, n))
  BY <1>1, <1>2, Prefix, PrefixIsDistinct
<1>4. SubSeq(order, 1, n) \in Orders
  BY <1>3, ListIsEnumeration
<1> QED  BY <1>2, <1>3, <1>4 DEF n

LEMMA RankHitsInv == ReadInv /\ RankHits => ReadInv'
<1> SUFFICES ASSUME ReadInv, RankHits PROVE ReadInv'
  OBVIOUS
<1>1. /\ committed' = committed /\ length' = length /\ budget' = budget /\ limit' = limit
      /\ before' = before /\ phase = "rank" /\ phase' = "pack"
      /\ pool' = pool /\ failed' = failed /\ reply' = reply
  BY DEF RankHits, request
<1>2. PICK order \in SetToSeqs(pool) : ranked' = Cut(order)
  BY Zenon DEF RankHits, Cut
<1>3. TypeOK /\ pool \in SUBSET Mems /\ limit \in Nat
  BY TypesUsed DEF ReadInv
<1>4. Cut(order) \in Orders
  BY <1>3, CutIsList DEF Cut
<1>5. TypeOK'
  BY <1>1, <1>2, <1>3, <1>4 DEF TypeOK
<1>6. KeywordsKept'
  BY <1>1 DEF ReadInv, KeywordsKept, Ranking, Answered, Replied
<1>7. RankedIsPool'
  BY <1>1, <1>2 DEF RankedIsPool, Cut
<1>8. ReplyIsBuilt'
  BY <1>1 DEF ReplyIsBuilt, Replied
<1> QED  BY <1>5, <1>6, <1>7, <1>8 DEF ReadInv

LEMMA RepliedTypes ==
  ASSUME TypeOK, phase' = "replied",
         committed' = committed, length' = length, budget' = budget, limit' = limit, before' = before,
         pool' = pool, failed' = failed, ranked' = ranked,
         reply'.memories \in Orders, reply'.token_count \in Nat, reply'.degraded \in BOOLEAN
  PROVE  TypeOK'
<1>1. /\ committed' \subseteq Mems /\ before' \subseteq committed'
      /\ length' \in [Mems -> Lengths] /\ budget' \in Budgets /\ limit' \in Limits
      /\ pool' \subseteq committed' /\ failed' \subseteq Signals /\ ranked' \in Orders
  BY DEF TypeOK
<1>2. phase' \in {"idle", "encode", "vector", "keyword", "graph", "rank", "pack", "replied"}
  OBVIOUS
<1> QED  BY <1>1, <1>2, Zenon DEF TypeOK

LEMMA RespondInv == ReadInv /\ Respond => ReadInv'
<1> SUFFICES ASSUME ReadInv, Respond PROVE ReadInv'
  OBVIOUS
<1>1. /\ committed' = committed /\ length' = length /\ budget' = budget /\ limit' = limit
      /\ before' = before /\ phase = "pack" /\ phase' = "replied"
      /\ pool' = pool /\ failed' = failed /\ ranked' = ranked
  BY DEF Respond, request
<1>2. reply' = FullReply
  BY Zenon DEF Respond, FullReply
<1>3. TypeOK
  BY DEF ReadInv
<1>4. FullReply.memories \in Orders /\ FullReply.token_count \in Nat /\ FullReply.degraded \in BOOLEAN
  BY <1>3, FullReplyIs
<1>5. TypeOK'
  BY <1>1, <1>2, <1>3, <1>4, RepliedTypes
<1>6. KeywordsKept'
  BY <1>1 DEF ReadInv, KeywordsKept, Ranking, Answered, Replied
<1>7. RankedIsPool'
  BY <1>1 DEF ReadInv, RankedIsPool, Cut, Answered
<1>8. FullReply' = FullReply
  BY <1>1 DEF FullReply, Packed
<1>9. ReplyIsBuilt'
  BY <1>2, <1>8 DEF ReplyIsBuilt
<1> QED  BY <1>5, <1>6, <1>7, <1>9 DEF ReadInv

LEMMA DegradeInv == ReadInv /\ Degrade => ReadInv'
<1> SUFFICES ASSUME ReadInv, Degrade PROVE ReadInv'
  OBVIOUS
<1>1. /\ committed' = committed /\ length' = length /\ budget' = budget /\ limit' = limit
      /\ before' = before /\ phase' = "replied" /\ reply' = DegradedResponse
      /\ pool' = pool /\ failed' = failed /\ ranked' = ranked
  BY DEF Degrade, request
<1>2. reply'.memories = <<>> /\ reply'.token_count = 0 /\ reply'.degraded = TRUE
  BY <1>1 DEF DegradedResponse
<1>3. TypeOK'
  <2>1. reply'.degraded \in BOOLEAN
    BY <1>2, Zenon
  <2> QED  BY <1>1, <1>2, <2>1, EmptyList, RepliedTypes DEF ReadInv
<1>4. ~ Answered' /\ ~ Ranking'
  BY <1>1 DEF Answered, Ranking, Replied, DegradedResponse
<1>5. KeywordsKept' /\ RankedIsPool'
  BY <1>4 DEF KeywordsKept, RankedIsPool
<1>6. ReplyIsBuilt'
  BY <1>1 DEF ReplyIsBuilt, DegradedResponse
<1> QED  BY <1>3, <1>5, <1>6 DEF ReadInv

LEMMA StutterInv == ReadInv /\ UNCHANGED vars => ReadInv'
<1> SUFFICES ASSUME ReadInv, UNCHANGED vars PROVE ReadInv'
  OBVIOUS
<1>1. /\ committed' = committed /\ length' = length /\ budget' = budget /\ limit' = limit
      /\ before' = before /\ phase' = phase /\ reply' = reply
      /\ pool' = pool /\ failed' = failed /\ ranked' = ranked
  BY DEF vars
<1>2. TypeOK'
  BY <1>1 DEF ReadInv, TypeOK
<1>3. KeywordsKept'
  BY <1>1 DEF ReadInv, KeywordsKept, Ranking, Answered, Replied
<1>4. RankedIsPool'
  BY <1>1 DEF ReadInv, RankedIsPool, Answered, Replied, Cut
<1>5. ReplyIsBuilt'
  BY <1>1 DEF ReadInv, ReplyIsBuilt, Replied, FullReply, Packed
<1> QED  BY <1>2, <1>3, <1>4, <1>5 DEF ReadInv

LEMMA ReadInvIsInvariant == Spec => []ReadInv
<1>1. Init => ReadInv
  BY InitReadInv
<1>2. ReadInv /\ [Next]_vars => ReadInv'
  BY CommitMemoryInv, AskInv, EncodeQueryInv, VectorSignalInv, KeywordSignalInv, GraphSignalInv,
     RankHitsInv, RespondInv, DegradeInv, StutterInv DEF Next
<1> QED  BY <1>1, <1>2, PTL DEF Spec

LEMMA SetToSeqEnumerates ==
  ASSUME NEW S \in SUBSET Mems
  PROVE  SetToSeq(S) \in SetToSeqs(S)
<1> DEFINE n == Cardinality(S)
<1>1. IsFiniteSet(S) /\ n \in Nat /\ ExistsBijection(1..n, S)
  BY ReadAssumption, FS_Subset, FS_CardinalityType
<1> HIDE DEF n
<1>2. \E f \in [1..n -> S] : IsInjective(f)
  BY <1>1 DEF ExistsBijection, Bijection, Injection
<1> DEFINE f == CHOOSE f \in [1..n -> S] : IsInjective(f)
<1>3. f \in [1..n -> S] /\ IsInjective(f)
  BY <1>2
<1>4. f = SetToSeq(S)
  BY Zenon DEF SetToSeq, n
<1> HIDE DEF f
<1>5. \A i, k \in 1..n : i # k => f[i] # f[k]
  BY <1>3 DEF IsInjective
<1>6. f \in SetToSeqs(S)
  BY <1>3, <1>5, Zenon DEF SetToSeqs, n
<1> QED  BY <1>4, <1>6

(* TypeOK, whatever the memories, the query, the budget and the limits. *)
THEOREM TypeCorrect == Spec => []TypeOK
<1>1. ReadInv => TypeOK
  BY DEF ReadInv
<1> QED  BY <1>1, ReadInvIsInvariant, PTL

(* A reply that is not the empty degraded one is the one Respond builds. *)
LEMMA ReplyIs ==
  ASSUME ReadInv, Replied, reply # DegradedResponse
  PROVE  /\ reply = FullReply /\ TypeOK
         /\ reply.memories = PlaceHeadTail(Packed)
         /\ reply.memories \in Seq(Mems) /\ Distinct(reply.memories)
         /\ Len(reply.memories) = Len(Packed) /\ ToSet(reply.memories) = ToSet(Packed)
         /\ reply.token_count = SumLoop(Packed, length)[Len(Packed)]
         /\ reply.degraded = (failed # {})
<1>1. reply = FullReply /\ TypeOK
  BY DEF ReadInv, ReplyIsBuilt
<1> QED  BY <1>1, FullReplyIs

(* An invariant implies NothingLostSilently. *)
LEMMA NothingIsLost == ReadInv => NothingLostSilently
<1> SUFFICES ASSUME ReadInv, Replied, reply # DegradedResponse
             PROVE  /\ reply.degraded <=> failed # {}
                    /\ "keyword" \notin failed /\ Cardinality(pool) < limit /\ Tokens(pool) <= budget
                       => before \cap Match \subseteq ToSet(reply.memories)
  BY DEF NothingLostSilently
<1>1. /\ reply = FullReply /\ TypeOK /\ ToSet(reply.memories) = ToSet(Packed)
      /\ reply.degraded = (failed # {})
  BY ReplyIs
<1>2. ASSUME "keyword" \notin failed, Cardinality(pool) < limit, Tokens(pool) <= budget
      PROVE  before \cap Match \subseteq ToSet(reply.memories)
  <2>1. /\ length \in [Mems -> Nat] /\ budget \in Nat /\ limit \in Nat /\ Cardinality(pool) \in Nat
        /\ pool \in SUBSET Mems /\ ranked \in Seq(Mems)
    BY <1>1, TypesUsed
  <2>2. PICK order \in SetToSeqs(pool) : ranked = Cut(order)
    BY DEF ReadInv, RankedIsPool, Answered
  <2>3. /\ order \in Seq(Mems) /\ Distinct(order) /\ ToSet(order) = pool
        /\ Len(order) = Cardinality(pool)
    BY <2>1, Enumeration
  <2>4. ranked = order
    <3>1. Cut(order) = SubSeq(order, 1, Len(order))
      BY <1>2, <2>3 DEF Cut
    <3> QED  BY <2>2, <2>3, <3>1, WholeIsPrefix
  <2>5. SumLoop(ranked, length)[Len(ranked)] = Tokens(pool)
    <3> DEFINE s == SetToSeq(pool)
    <3>1. s \in Seq(Mems) /\ Distinct(s) /\ ToSet(s) = pool /\ Len(s) = Cardinality(pool)
      BY <2>1, SetToSeqEnumerates, Enumeration
    <3>2. Tokens(pool) = SumLoop(s, length)[Len(s)]
      BY TotalIsSum DEF Tokens
    <3> HIDE DEF s
    <3> QED  BY <2>1, <2>3, <2>4, <3>1, <3>2, SumOfReordering
  <2>6. PICK n \in 0..Len(ranked) :
          /\ Packed = SubSeq(ranked, 1, n)
          /\ n < Len(ranked) => SumLoop(ranked, length)[n + 1] > budget
    BY <1>1, PackedIsPrefix
  <2>7. n = Len(ranked)
    <3> SUFFICES ASSUME n < Len(ranked) PROVE FALSE
      BY <2>1
    <3>1. n + 1 \in 0..Len(ranked)
      BY <2>1
    <3>2. /\ SumLoop(ranked, length)[n + 1] \in Nat
          /\ SumLoop(ranked, length)[n + 1] <= SumLoop(ranked, length)[Len(ranked)]
      BY <2>1, <3>1, SumGrows
    <3>3. PICK x \in Nat : x = SumLoop(ranked, length)[n + 1]
      BY <3>2
    <3>4. PICK y \in Nat : y = SumLoop(ranked, length)[Len(ranked)]
      <4>1. Len(ranked) \in 0..Len(ranked)
        BY <2>1
      <4> QED  BY <2>1, <4>1, SumGrows
    <3>5. x > budget /\ x <= y /\ y <= budget
      BY <1>2, <2>5, <2>6, <3>2, <3>3, <3>4
    <3> QED  BY <2>1, <3>3, <3>4, <3>5
  <2>8. Packed = ranked
    BY <2>1, <2>6, <2>7, WholeIsPrefix
  <2>9. ToSet(reply.memories) = pool
    BY <1>1, <2>3, <2>4, <2>8
  <2>10. before \cap Match \subseteq pool \/ limit <= Cardinality(pool)
    BY <1>2 DEF ReadInv, KeywordsKept, Answered
  <2> QED  BY <1>2, <2>1, <2>9, <2>10
<1> QED  BY <1>1, <1>2

(* NothingLostSilently: what degraded = false promises. *)
THEOREM NothingIsLostSilently == Spec => []NothingLostSilently
BY ReadInvIsInvariant, NothingIsLost, PTL

(* The inductive invariant implies the properties of replies. *)
LEMMA LongestFittingPrefix == ReadInv => ReplyIsLongestFittingPrefix
<1> SUFFICES ASSUME ReadInv, Replied, reply # DegradedResponse
             PROVE  LET n == Len(reply.memories)
                    IN  /\ ToSet(reply.memories) = ToSet(SubSeq(ranked, 1, n))
                        /\ reply.token_count = TotalTokenCount(SubSeq(ranked, 1, n), length)
                        /\ reply.token_count <= budget
                        /\ n < Len(ranked) => TotalTokenCount(SubSeq(ranked, 1, n + 1), length) > budget
  BY DEF ReplyIsLongestFittingPrefix
<1>1. /\ TypeOK /\ Len(reply.memories) = Len(Packed) /\ ToSet(reply.memories) = ToSet(Packed)
      /\ reply.token_count = SumLoop(Packed, length)[Len(Packed)]
  BY ReplyIs
<1>2. ranked \in Seq(Mems) /\ length \in [Mems -> Nat] /\ Len(ranked) \in Nat
  <2>1. ranked \in Seq(Mems) /\ length \in [Mems -> Nat]
    BY <1>1, TypesUsed
  <2> QED  BY <2>1
<1>3. PICK n \in 0..Len(ranked) :
        /\ Packed = SubSeq(ranked, 1, n) /\ Len(Packed) = n
        /\ SumLoop(ranked, length)[n] <= budget
        /\ n < Len(ranked) => SumLoop(ranked, length)[n + 1] > budget
  BY <1>1, PackedIsPrefix
<1>4. ASSUME NEW k \in 0..Len(ranked)
      PROVE  /\ TotalTokenCount(SubSeq(ranked, 1, k), length) = SumLoop(ranked, length)[k]
             /\ SumLoop(SubSeq(ranked, 1, k), length)[k] = SumLoop(ranked, length)[k]
  <2> DEFINE t == SubSeq(ranked, 1, k)
  <2>1. t \in Seq(Mems) /\ Len(t) = k /\ \A i \in 1..k : t[i] = ranked[i]
    BY <1>2, Prefix
  <2>2. TotalTokenCount(t, length) = SumLoop(t, length)[Len(t)]
    BY TotalIsSum
  <2>3. k \in Nat /\ k <= Len(ranked)
    BY <1>2
  <2>a. k <= Len(t)
    BY <2>1, <2>3
  <2> HIDE DEF t
  <2>4. SumLoop(t, length)[k] = SumLoop(ranked, length)[k]
    BY <1>2, <2>1, <2>3, <2>a, SumOfPrefix
  <2> QED  BY <2>1, <2>2, <2>4 DEF t
<1>5. n < Len(ranked) => n + 1 \in 0..Len(ranked)
  BY <1>2
<1> QED  BY <1>1, <1>3, <1>4, <1>5

(* ReplyIsLongestFittingPrefix: what pack_into_budget keeps. *)
THEOREM RepliesFillTheBudget == Spec => []ReplyIsLongestFittingPrefix
BY ReadInvIsInvariant, LongestFittingPrefix, PTL

(* How far from an end the i-th best memory lands: i halved, rounded up. *)
LEMMA EdgeDistanceIs ==
  ASSUME ReadInv, Replied, reply # DegradedResponse,
         NEW i \in 1..Len(reply.memories), NEW j \in Nat
  PROVE  /\ i = 2 * j => EdgeDistance(ranked[i]) = j
                         /\ reply.memories[Len(reply.memories) + 1 - j] = ranked[i]
         /\ i = 2 * j + 1 => EdgeDistance(ranked[i]) = j + 1
                             /\ reply.memories[j + 1] = ranked[i]
<1> DEFINE p == reply.memories
           n == Len(p)
           at(m) == CHOOSE q \in 1..n : p[q] = m
<1>1. /\ TypeOK /\ p = PlaceHeadTail(Packed) /\ p \in Seq(Mems) /\ Distinct(p) /\ n = Len(Packed)
  BY ReplyIs
<1>2. /\ Packed \in Seq(Mems) /\ \A k \in 1..n : Packed[k] = ranked[k]
  BY <1>1, PackedIsPrefix
<1>3. n \in Nat /\ i \in 1..n
  BY <1>1
<1>4. /\ \A q \in 1..n : 2 * q - 1 <= n => p[q] = Packed[2 * q - 1]
      /\ \A q \in 1..n : 2 * q - 1 > n => p[q] = Packed[2 * (n + 1 - q)]
  <2> HIDE DEF p
  <2> QED  BY <1>1, <1>2, Placement
<1>5. \A m : EdgeDistance(m) = IF at(m) <= n + 1 - at(m) THEN at(m) ELSE n + 1 - at(m)
  BY Zenon DEF EdgeDistance
<1>6. ASSUME NEW q \in 1..n, NEW m, p[q] = m
      PROVE  at(m) = q
  <2>1. \A r \in 1..n : p[r] = m => r = q
    <3> HIDE DEF p
    <3> QED  BY <1>1, <1>6 DEF Distinct
  <2> HIDE DEF p, n
  <2> QED  BY <1>6, <2>1
<1> HIDE DEF p, n, at
<1>7. CASE i = 2 * j
  <2> DEFINE q == n + 1 - j
  <2>1. q \in 1..n /\ 2 * q - 1 > n /\ 2 * (n + 1 - q) = i
    BY <1>3, <1>7
  <2>2. p[q] = ranked[i]
    BY <1>2, <1>3, <1>4, <2>1
  <2>3. at(ranked[i]) = q
    BY <1>6, <2>1, <2>2
  <2>4. EdgeDistance(ranked[i]) = IF q <= n + 1 - q THEN q ELSE n + 1 - q
    BY <1>5, <2>3
  <2>5. ~ (q <= n + 1 - q) /\ n + 1 - q = j
    BY <1>3, <1>7
  <2> HIDE DEF q
  <2>6. EdgeDistance(ranked[i]) = j
    BY <2>4, <2>5
  <2> QED  BY <1>7, <2>2, <2>6, <1>3 DEF q, n, p
<1>8. CASE i = 2 * j + 1
  <2>1. j + 1 \in 1..n /\ 2 * (j + 1) - 1 <= n /\ 2 * (j + 1) - 1 = i
    BY <1>3, <1>8
  <2>2. p[j + 1] = ranked[i]
    BY <1>2, <1>3, <1>4, <2>1
  <2>3. at(ranked[i]) = j + 1
    BY <1>6, <2>1, <2>2
  <2>4. EdgeDistance(ranked[i]) = IF j + 1 <= n + 1 - (j + 1) THEN j + 1 ELSE n + 1 - (j + 1)
    BY <1>5, <2>3
  <2>5. j + 1 <= n + 1 - (j + 1)
    BY <1>3, <1>8
  <2>6. EdgeDistance(ranked[i]) = j + 1
    BY <2>4, <2>5
  <2> QED  BY <1>8, <2>2, <2>6, <1>3 DEF p
<1> QED  BY <1>7, <1>8 DEF p, n

LEMMA EdgesHoldTheBest == ReadInv => BestAtTheEdges
<1> DEFINE n == Len(reply.memories)
<1> SUFFICES ASSUME ReadInv, Replied
             PROVE  /\ \A i, k \in 1..n : i < k => EdgeDistance(ranked[i]) <= EdgeDistance(ranked[k])
                    /\ n >= 2 => reply.memories[1] = ranked[1] /\ reply.memories[n] = ranked[2]
  BY DEF BestAtTheEdges
<1>1. CASE reply = DegradedResponse
  <2>1. n = 0
    BY <1>1 DEF DegradedResponse
  <2> HIDE DEF n
  <2> QED  BY <2>1
<1>2. CASE reply # DegradedResponse
  <2>1. n \in Nat
    <3>1. reply.memories \in Seq(Mems)
      BY <1>2, ReplyIs
    <3> QED  BY <3>1
  <2>2. ASSUME NEW i \in 1..n, NEW j \in Nat
        PROVE  /\ i = 2 * j => EdgeDistance(ranked[i]) = j /\ reply.memories[n + 1 - j] = ranked[i]
               /\ i = 2 * j + 1 => EdgeDistance(ranked[i]) = j + 1 /\ reply.memories[j + 1] = ranked[i]
    BY <1>2, EdgeDistanceIs
  <2> HIDE DEF n
  <2>3. ASSUME NEW i \in 1..n, NEW k \in 1..n, i < k
        PROVE  EdgeDistance(ranked[i]) <= EdgeDistance(ranked[k])
    <3>1. i \in Nat /\ k \in Nat
      BY <2>1
    <3>2. PICK a \in Nat : i = 2 * a \/ i = 2 * a + 1
      BY <3>1, Parity
    <3>3. PICK b \in Nat : k = 2 * b \/ k = 2 * b + 1
      BY <3>1, Parity
    <3>4. EdgeDistance(ranked[i]) = IF i = 2 * a THEN a ELSE a + 1
      BY <2>2, <3>2
    <3>5. EdgeDistance(ranked[k]) = IF k = 2 * b THEN b ELSE b + 1
      BY <2>2, <3>3
    <3>6. (IF i = 2 * a THEN a ELSE a + 1) <= (IF k = 2 * b THEN b ELSE b + 1)
      BY <2>3, <3>2, <3>3
    <3> QED  BY <3>4, <3>5, <3>6
  <2>4. ASSUME n >= 2 PROVE reply.memories[1] = ranked[1] /\ reply.memories[n] = ranked[2]
    <3>1. 1 \in 1..n /\ 2 \in 1..n /\ 1 = 2 * 0 + 1 /\ 2 = 2 * 1 /\ n + 1 - 1 = n /\ 0 + 1 = 1
      BY <2>1, <2>4
    <3>2. reply.memories[0 + 1] = ranked[1]
      BY <2>2, <3>1
    <3>3. reply.memories[n + 1 - 1] = ranked[2]
      BY <2>2, <3>1
    <3> QED  BY <3>1, <3>2, <3>3
  <2> QED  BY <2>3, <2>4
<1> QED  BY <1>1, <1>2

(* BestAtTheEdges: what place_head_tail does. *)
THEOREM BestMemoriesAtTheEdges == Spec => []BestAtTheEdges
BY ReadInvIsInvariant, EdgesHoldTheBest, PTL
=============================================================================
