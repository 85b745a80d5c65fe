---------------------------- MODULE RankingProofs ----------------------------
(***************************************************************************)
(* Theorems about Ranking for every set of memories, every list of every   *)
(* signal, and all weights, boosts and limits.                             *)
(*                                                                         *)
(* Fused scores of a finite pool have a least and a greatest value, so the *)
(* relevance of a memory lies between 0 and Scale and the score grows with *)
(* it.  Score and first entry order the pool strictly and totally; the     *)
(* number of memories before a memory is then its place, every place is    *)
(* taken, and the sorted list Sorted chooses exists.  What remains is to   *)
(* show that the order of two memories in that list survives the cut.      *)
(***************************************************************************)
EXTENDS Ranking, FiniteSetTheorems, SequenceTheorems, WellFoundedInduction, TLAPS

Below == {p \in Nat \X Nat : p[1] < p[2]}

(* A set of naturals has a least element, and a bounded one a greatest. *)
LEMMA LeastNatural ==
  ASSUME NEW S \in SUBSET Nat, S # {}
  PROVE  \E x \in S : \A y \in S : x <= y
<1>1. IsWellFoundedOn(Below, Nat)
  BY NatLessThanWellFounded, Zenon DEF OpToRel, Below
<1>2. PICK x \in S : \A y \in S : ~ (<<y, x>> \in Below)
  BY <1>1, WFMin
<1>3. \A y \in S : x <= y
  <2> SUFFICES ASSUME NEW y \in S, y < x PROVE FALSE
    OBVIOUS
  <2>1. <<y, x>> \in Below
    BY DEF Below
  <2> QED  BY <1>2, <2>1
<1> QED  BY <1>3

LEMMA GreatestNatural ==
  ASSUME NEW b \in Nat, NEW S \in SUBSET (0..b), S # {}
  PROVE  \E x \in S : \A y \in S : x >= y
<1> DEFINE T == {b - y : y \in S}
<1>1. T \in SUBSET Nat /\ T # {}
  <2>1. \A y \in S : b - y \in Nat
    OBVIOUS
  <2> QED  BY <2>1
<1> HIDE DEF T
<1>2. PICK t \in T : \A u \in T : t <= u
  BY <1>1, LeastNatural
<1> USE DEF T
<1>3. PICK x \in S : t = b - x
  BY <1>2
<1>4. \A y \in S : x >= y
  <2> SUFFICES ASSUME NEW y \in S PROVE x >= y
    OBVIOUS
  <2>1. b - y \in T
    OBVIOUS
  <2>2. b - x <= b - y
    BY <1>2, <1>3, <2>1
  <2> QED  BY <2>2
<1> QED  BY <1>4

(* Products and integer quotients are monotone. *)
LEMMA ProductGrows ==
  \A a, b, x, y \in Nat : a <= b /\ x <= y => a * x <= b * y
<1> SUFFICES ASSUME NEW a \in Nat, NEW b \in Nat, NEW x \in Nat, NEW y \in Nat, a <= b, x <= y
             PROVE  a * x <= b * y
  OBVIOUS
<1>1. PICK c \in Nat : b = a + c
  <2>1. b - a \in Nat /\ b = a + (b - a)
    OBVIOUS
  <2> QED  BY <2>1
<1>2. PICK z \in Nat : y = x + z
  <2>1. y - x \in Nat /\ y = x + (y - x)
    OBVIOUS
  <2> QED  BY <2>1
<1>3. b * y = a * x + a * z + c * y
  <2>1. b * y = a * y + c * y
    BY <1>1
  <2>2. a * y = a * x + a * z
    BY <1>2
  <2>3. a * y \in Nat /\ c * y \in Nat /\ a * x \in Nat /\ a * z \in Nat
    OBVIOUS
  <2> QED  BY <2>1, <2>2, <2>3
<1>4. a * z \in Nat /\ c * y \in Nat /\ a * x \in Nat
  OBVIOUS
<1>5. PICK p \in Nat, q \in Nat, r \in Nat : p = a * x /\ q = a * z /\ r = c * y
  BY <1>4
<1> QED  BY <1>3, <1>5

LEMMA QuotientFalls ==
  \A d \in Nat, i, k \in Nat \ {0} : i <= k => d \div k \in Nat /\ d \div k <= d \div i
<1> SUFFICES ASSUME NEW d \in Nat, NEW i \in Nat \ {0}, NEW k \in Nat \ {0}, i <= k
             PROVE  d \div k \in Nat /\ d \div k <= d \div i
  OBVIOUS
<1> DEFINE q == d \div k
           p == d \div i
<1>1. q \in Int /\ p \in Int /\ k * q <= d /\ d < k * (q + 1) /\ i * p <= d /\ d < i * (p + 1)
  OBVIOUS
<1> HIDE DEF p, q
<1>2. q \in Nat
  <2> SUFFICES ASSUME q + 1 <= 0 PROVE FALSE
    BY <1>1
  <2>1. k * (q + 1) <= 0
    <3>1. PICK r \in Nat : q + 1 = - r
      <4>1. - (q + 1) \in Nat
        BY <1>1
      <4> QED  BY <1>1, <4>1
    <3>2. k * (q + 1) = - (k * r) /\ k * r \in Nat
      BY <3>1
    <3> QED  BY <3>2
  <2> QED  BY <1>1, <2>1
<1>3. q <= p
  <2> SUFFICES ASSUME p + 1 <= q PROVE FALSE
    BY <1>1
  <2>1. p + 1 \in Nat
    <3> SUFFICES ASSUME p + 1 <= 0 PROVE FALSE
      BY <1>1
    <3>1. PICK r \in Nat : p + 1 = - r
      <4>1. - (p + 1) \in Nat
        BY <1>1
      <4> QED  BY <1>1, <4>1
    <3>2. i * (p + 1) = - (i * r) /\ i * r \in Nat
      BY <3>1
    <3>3. i * (p + 1) <= 0
      BY <3>2
    <3> QED  BY <1>1, <3>3
  <2>2. i * (p + 1) <= k * q
    BY <1>2, <2>1, ProductGrows
  <2>3. PICK a \in Int, b \in Int : a = i * (p + 1) /\ b = k * q
    BY <1>1
  <2> QED  BY <1>1, <2>2, <2>3
<1> QED  BY <1>2, <1>3 DEF p, q

-----------------------------------------------------------------------------
(* The lists of the signals. *)

Given == hits \in [ToSet(Signals) -> Rankings] /\ boost \in [Mems -> Boosts]
Injective(l) == \A i, k \in 1..Len(l) : l[i] = l[k] => i = k

LEMMA SignalNames == ToSet(Signals) = {"vector", "keyword", "graph"}
<1>1. Len(Signals) = 3 /\ DOMAIN Signals = 1..3
  BY DEF Signals
<1>2. Signals[1] = "vector" /\ Signals[2] = "keyword" /\ Signals[3] = "graph"
  BY DEF Signals
<1>3. 1..3 = {1, 2, 3}
  OBVIOUS
<1> QED  BY <1>1, <1>2, <1>3 DEF ToSet

(* A ranking is a list of memories without repetitions. *)
LEMMA RankingIsList ==
  ASSUME NEW l \in Rankings
  PROVE  l \in Seq(Mems) /\ Injective(l) /\ Len(l) \in Nat /\ ToSet(l) \subseteq Mems
         /\ ToSet(l) = {l[i] : i \in 1..Len(l)}
<1>1. PICK S \in SUBSET Mems : l \in SetToSeqs(S)
  BY Zenon DEF Rankings
<1> DEFINE n == Cardinality(S)
<1>2. n \in Nat
  BY ExactAssumption, FS_Subset, FS_CardinalityType
<1>3. l \in [1..n -> S] /\ \A i, k \in 1..n : i # k => l[i] # l[k]
  BY <1>1, Zenon DEF SetToSeqs
<1> HIDE DEF n
<1>4. l \in Seq(Mems) /\ Len(l) = n /\ DOMAIN l = 1..n
  BY <1>2, <1>3
<1>5. Injective(l)
  BY <1>3, <1>4 DEF Injective
<1>6. ToSet(l) \subseteq Mems /\ ToSet(l) = {l[i] : i \in 1..Len(l)}
  BY <1>3, <1>4 DEF ToSet
<1> QED  BY <1>2, <1>4, <1>5, <1>6

(* The position of a member of a list without repetitions. *)
LEMMA RankInIs ==
  ASSUME NEW l \in Seq(Mems), Injective(l), NEW m \in ToSet(l)
  PROVE  /\ RankIn(l, m) \in 1..Len(l) /\ l[RankIn(l, m)] = m
         /\ \A i \in 1..Len(l) : l[i] = m => i = RankIn(l, m)
<1>1. \E i \in 1..Len(l) : l[i] = m
  BY DEF ToSet
<1>2. RankIn(l, m) \in 1..Len(l) /\ l[RankIn(l, m)] = m
  BY <1>1 DEF RankIn
<1> QED  BY <1>2 DEF Injective

LEMMA ListsGiven ==
  ASSUME Given, NEW sig \in ToSet(Signals)
  PROVE  /\ hits[sig] \in Seq(Mems) /\ Injective(hits[sig]) /\ Len(hits[sig]) \in Nat
         /\ ToSet(hits[sig]) \subseteq Mems /\ ToSet(hits[sig]) \subseteq Pool
         /\ ToSet(hits[sig]) = {hits[sig][i] : i \in 1..Len(hits[sig])}
<1>1. hits[sig] \in Rankings
  BY DEF Given
<1>2. ToSet(hits[sig]) \subseteq Pool
  BY DEF Pool
<1> QED  BY <1>1, <1>2, RankingIsList

(* The pool is what the signals returned of finitely many memories. *)
LEMMA PoolIsFinite ==
  ASSUME Given
  PROVE  Pool \subseteq Mems /\ IsFiniteSet(Pool) /\ Cardinality(Pool) \in Nat
<1>1. Pool \in SUBSET Mems
  BY ListsGiven DEF Pool
<1> QED  BY <1>1, ExactAssumption, FS_Subset, FS_CardinalityType

-----------------------------------------------------------------------------
(* Fused scores. *)

(* What a signal adds falls with the position in its list. *)
LEMMA ShareIs ==
  ASSUME Given, NEW sig \in ToSet(Signals), NEW m
  PROVE  /\ Share(sig, m) \in Nat
         /\ \A n \in ToSet(hits[sig]) : AheadIn(sig, m, n) => Share(sig, n) <= Share(sig, m)
<1>1. Weight[sig] \in Nat /\ Denominator \in Nat /\ RrfK \in Nat \ {0}
  BY WeightAssumption, ExactAssumption, BoostAssumption
<1> DEFINE q(x) == Denominator \div (RrfK + RankIn(hits[sig], x))
<1>2. ASSUME NEW x \in ToSet(hits[sig])
      PROVE  /\ RankIn(hits[sig], x) \in Nat /\ RrfK + RankIn(hits[sig], x) \in Nat \ {0}
             /\ Share(sig, x) = Weight[sig] * q(x) /\ q(x) \in Nat /\ Share(sig, x) \in Nat
  <2>1. RankIn(hits[sig], x) \in 1..Len(hits[sig]) /\ Len(hits[sig]) \in Nat
    BY ListsGiven, RankInIs
  <2>2. RrfK + RankIn(hits[sig], x) \in Nat \ {0}
    BY <1>1, <2>1
  <2>3. q(x) \in Nat
    BY <1>1, <2>2, QuotientFalls
  <2>4. Share(sig, x) = Weight[sig] * q(x)
    BY DEF Share
  <2> HIDE DEF q
  <2>5. Weight[sig] * q(x) \in Nat
    BY <1>1, <2>3
  <2> QED  BY <2>1, <2>2, <2>3, <2>4, <2>5
<1>3. Share(sig, m) \in Nat
  <2>1. CASE m \in ToSet(hits[sig])
    BY <1>2, <2>1
  <2>2. CASE m \notin ToSet(hits[sig])
    BY <2>2 DEF Share
  <2> QED  BY <2>1, <2>2
<1>4. ASSUME NEW n \in ToSet(hits[sig]), AheadIn(sig, m, n)
      PROVE  Share(sig, n) <= Share(sig, m)
  <2>1. m \in ToSet(hits[sig]) /\ RankIn(hits[sig], m) < RankIn(hits[sig], n)
    BY <1>4 DEF AheadIn
  <2>2. /\ RankIn(hits[sig], m) \in Nat /\ RankIn(hits[sig], n) \in Nat
        /\ RrfK + RankIn(hits[sig], m) \in Nat \ {0} /\ RrfK + RankIn(hits[sig], n) \in Nat \ {0}
    BY <1>2, <2>1
  <2>3. RrfK + RankIn(hits[sig], m) <= RrfK + RankIn(hits[sig], n)
    BY <1>1, <2>1, <2>2
  <2>4. q(n) <= q(m)
    BY <1>1, <2>2, <2>3, QuotientFalls
  <2>5. q(m) \in Nat /\ q(n) \in Nat /\ Share(sig, m) = Weight[sig] * q(m) /\ Share(sig, n) = Weight[sig] * q(n)
    BY <1>2, <2>1
  <2> HIDE DEF q
  <2>6. Weight[sig] * q(n) <= Weight[sig] * q(m)
    <3>1. Weight[sig] <= Weight[sig]
      BY <1>1
    <3> QED  BY <1>1, <2>4, <2>5, <3>1, ProductGrows
  <2> QED  BY <2>5, <2>6
<1> QED  BY <1>3, <1>4

(* Who is nowhere behind another memory has no smaller fused score. *)
LEMMA FusedIs ==
  ASSUME Given, NEW m
  PROVE  /\ Fused(m) \in Nat
         /\ \A n : Dominates(m, n) => Fused(n) <= Fused(m)
<1>1. ASSUME NEW sig \in ToSet(Signals), NEW n, Dominates(m, n)
      PROVE  Share(sig, n) <= Share(sig, m)
  <2>1. CASE n \in ToSet(hits[sig])
    BY <1>1, <2>1, ShareIs DEF Dominates
  <2>2. CASE n \notin ToSet(hits[sig])
    <3>1. Share(sig, n) = 0 /\ Share(sig, m) \in Nat
      BY <2>2, ShareIs DEF Share
    <3> QED  BY <3>1
  <2> QED  BY <2>1, <2>2
<1>2. \A x : Share("vector", x) \in Nat /\ Share("keyword", x) \in Nat /\ Share("graph", x) \in Nat
  BY SignalNames, ShareIs
<1>3. Fused(m) \in Nat
  BY <1>2 DEF Fused
<1>4. ASSUME NEW n, Dominates(m, n)
      PROVE  Fused(n) <= Fused(m)
  <2>1. /\ Share("vector", n) <= Share("vector", m)
        /\ Share("keyword", n) <= Share("keyword", m)
        /\ Share("graph", n) <= Share("graph", m)
    BY <1>1, <1>4, SignalNames
  <2> QED  BY <1>2, <2>1 DEF Fused
<1> QED  BY <1>3, <1>4

-----------------------------------------------------------------------------
(* The order in which a memory enters the dictionary. *)

LEMMA TwoLists ==
  ASSUME NEW x \in Seq(Mems), NEW y \in Seq(Mems)
  PROVE  /\ x \o y \in Seq(Mems) /\ Len(x \o y) = Len(x) + Len(y)
         /\ \A i \in 1..(Len(x) + Len(y)) : (x \o y)[i] = IF i <= Len(x) THEN x[i] ELSE y[i - Len(x)]
  BY ConcatProperties

(* The entries are the three lists, one after the other. *)
LEMMA EntriesAre ==
  ASSUME Given
  PROVE  LET v == hits["vector"]
             k == hits["keyword"]
             g == hits["graph"]
         IN  /\ Entries \in Seq(Mems) /\ Len(Entries) = Len(v) + Len(k) + Len(g)
             /\ \A i \in 1..Len(v) : Entries[i] = v[i]
             /\ \A i \in 1..Len(k) : Entries[Len(v) + i] = k[i]
             /\ \A i \in 1..Len(g) : Entries[Len(v) + Len(k) + i] = g[i]
<1> DEFINE v == hits["vector"]
           k == hits["keyword"]
           g == hits["graph"]
<1>1. /\ v \in Seq(Mems) /\ k \in Seq(Mems) /\ g \in Seq(Mems)
      /\ Len(v) \in Nat /\ Len(k) \in Nat /\ Len(g) \in Nat
  BY SignalNames, ListsGiven
<1>2. Entries = (v \o k) \o g
  BY DEF Entries
<1> HIDE DEF v, k, g
<1>3. /\ v \o k \in Seq(Mems) /\ Len(v \o k) = Len(v) + Len(k)
      /\ \A i \in 1..(Len(v) + Len(k)) : (v \o k)[i] = IF i <= Len(v) THEN v[i] ELSE k[i - Len(v)]
  BY <1>1, ConcatProperties
<1> DEFINE w == v \o k
<1>4. Len(w) = Len(v) + Len(k) /\ w \in Seq(Mems) /\ Len(w) \in Nat
  BY <1>1, <1>3
<1>5. \A i \in 1..Len(v) : w[i] = v[i]
  BY <1>1, <1>3
<1>6. \A i \in 1..Len(k) : w[Len(v) + i] = k[i]
  <2> SUFFICES ASSUME NEW i \in 1..Len(k) PROVE w[Len(v) + i] = k[i]
    OBVIOUS
  <2>1. Len(v) + i \in 1..(Len(v) + Len(k)) /\ ~ (Len(v) + i <= Len(v)) /\ (Len(v) + i) - Len(v) = i
    BY <1>1
  <2> QED  BY <1>3, <2>1
<1> HIDE DEF w
<1>7. /\ w \o g \in Seq(Mems) /\ Len(w \o g) = Len(w) + Len(g)
      /\ \A i \in 1..(Len(w) + Len(g)) : (w \o g)[i] = IF i <= Len(w) THEN w[i] ELSE g[i - Len(w)]
  BY <1>1, <1>4, TwoLists
<1>8. Entries = w \o g
  BY <1>2 DEF w
<1>9. \A i \in 1..Len(w) : Entries[i] = w[i]
  BY <1>1, <1>4, <1>7, <1>8
<1>10. \A i \in 1..Len(g) : Entries[Len(w) + i] = g[i]
  <2> SUFFICES ASSUME NEW i \in 1..Len(g) PROVE Entries[Len(w) + i] = g[i]
    OBVIOUS
  <2>1. Len(w) + i \in 1..(Len(w) + Len(g)) /\ ~ (Len(w) + i <= Len(w)) /\ (Len(w) + i) - Len(w) = i
    BY <1>1, <1>4
  <2> QED  BY <1>7, <1>8, <2>1
<1>11. \A i \in 1..Len(v) : Entries[i] = v[i]
  BY <1>1, <1>4, <1>5, <1>9
<1>12. \A i \in 1..Len(k) : Entries[Len(v) + i] = k[i]
  <2> SUFFICES ASSUME NEW i \in 1..Len(k) PROVE Entries[Len(v) + i] = k[i]
    OBVIOUS
  <2>1. Len(v) + i \in 1..Len(w)
    BY <1>1, <1>4
  <2> QED  BY <1>6, <1>9, <2>1
<1> QED  BY <1>4, <1>7, <1>8, <1>10, <1>11, <1>12 DEF v, k, g

(* Where the list of a signal begins among the entries. *)
Offset(sig) == CASE sig = "vector" -> 0
                 [] sig = "keyword" -> Len(hits["vector"])
                 [] OTHER -> Len(hits["vector"]) + Len(hits["keyword"])

LEMMA OffsetIs ==
  /\ Offset("vector") = 0 /\ Offset("keyword") = Len(hits["vector"])
  /\ Offset("graph") = Len(hits["vector"]) + Len(hits["keyword"])
  BY DEF Offset

LEMMA Lengths ==
  ASSUME Given
  PROVE  \E v, k, g, e \in Nat :
           /\ v = Len(hits["vector"]) /\ k = Len(hits["keyword"]) /\ g = Len(hits["graph"])
           /\ e = Len(Entries) /\ e = v + k + g
           /\ Offset("vector") = 0 /\ Offset("keyword") = v /\ Offset("graph") = v + k
<1>1. /\ Len(hits["vector"]) \in Nat /\ Len(hits["keyword"]) \in Nat /\ Len(hits["graph"]) \in Nat
  BY SignalNames, ListsGiven
<1>2. Len(Entries) = Len(hits["vector"]) + Len(hits["keyword"]) + Len(hits["graph"])
  BY EntriesAre, Zenon
<1>3. Len(Entries) \in Nat
  <2>1. Entries \in Seq(Mems)
    BY EntriesAre, Zenon
  <2> QED  BY <2>1
<1> QED  BY <1>1, <1>2, <1>3, OffsetIs, Zenon

(* Every place in a list is an entry, and every entry a place in a list. *)
LEMMA EntryOfSignal ==
  ASSUME Given, NEW sig \in ToSet(Signals)
  PROVE  /\ Offset(sig) \in Nat
         /\ \A i \in 1..Len(hits[sig]) : /\ Offset(sig) + i \in 1..Len(Entries)
                                         /\ Entries[Offset(sig) + i] = hits[sig][i]
<1>1. PICK v, k, g, e \in Nat :
        /\ v = Len(hits["vector"]) /\ k = Len(hits["keyword"]) /\ g = Len(hits["graph"])
        /\ e = Len(Entries) /\ e = v + k + g
        /\ Offset("vector") = 0 /\ Offset("keyword") = v /\ Offset("graph") = v + k
  BY Lengths
<1>2. /\ \A i \in 1..v : Entries[i] = hits["vector"][i]
      /\ \A i \in 1..k : Entries[v + i] = hits["keyword"][i]
      /\ \A i \in 1..g : Entries[v + k + i] = hits["graph"][i]
  BY <1>1, EntriesAre, Zenon
<1>3. /\ \A i \in 1..v : 0 + i = i /\ 0 + i \in 1..e
      /\ \A i \in 1..k : v + i \in 1..e
      /\ \A i \in 1..g : v + k + i \in 1..e
  <2>1. e = v + k + g
    BY <1>1
  <2> QED  BY <2>1
<1>4. 0 \in Nat /\ v + k \in Nat
  OBVIOUS
<1>5. CASE sig = "vector"
  BY <1>1, <1>2, <1>3, <1>4, <1>5, Zenon
<1>6. CASE sig = "keyword"
  BY <1>1, <1>2, <1>3, <1>6, Zenon
<1>7. CASE sig = "graph"
  BY <1>1, <1>2, <1>3, <1>4, <1>7, Zenon
<1> QED  BY <1>5, <1>6, <1>7, SignalNames

LEMMA SignalOfEntry ==
  ASSUME Given, NEW x \in 1..Len(Entries)
  PROVE  \E sig \in ToSet(Signals) : \E i \in 1..Len(hits[sig]) :
           x = Offset(sig) + i /\ Entries[x] = hits[sig][i]
<1>1. PICK v, k, g, e \in Nat :
        /\ v = Len(hits["vector"]) /\ k = Len(hits["keyword"]) /\ g = Len(hits["graph"])
        /\ e = Len(Entries) /\ e = v + k + g
        /\ Offset("vector") = 0 /\ Offset("keyword") = v /\ Offset("graph") = v + k
  BY Lengths
<1>2. \/ \E i \in 1..v : x = 0 + i
      \/ \E i \in 1..k : x = v + i
      \/ \E i \in 1..g : x = v + k + i
  <2>1. e = v + k + g /\ x \in 1..e
    BY <1>1
  <2>2. CASE x <= v
    <3>1. x \in 1..v /\ x = 0 + x
      BY <2>1, <2>2
    <3> QED  BY <3>1
  <2>3. CASE v < x /\ x <= v + k
    <3>1. x - v \in 1..k /\ x = v + (x - v)
      BY <2>1, <2>3
    <3> QED  BY <3>1
  <2>4. CASE v + k < x
    <3>1. x - (v + k) \in 1..g /\ x = v + k + (x - (v + k))
      BY <2>1, <2>4
    <3> QED  BY <3>1
  <2> QED  BY <2>1, <2>2, <2>3, <2>4
<1>3. \E sig \in ToSet(Signals) : \E i \in 1..Len(hits[sig]) : x = Offset(sig) + i
  BY <1>1, <1>2, SignalNames, Zenon
<1> QED  BY <1>3, EntryOfSignal

(* A memory of the pool has a first entry. *)
LEMMA FirstEntryIs ==
  ASSUME Given, NEW m \in Pool
  PROVE  /\ FirstEntry(m) \in 1..Len(Entries) /\ Entries[FirstEntry(m)] = m
         /\ FirstEntry(m) \in Nat
         /\ \A e \in 1..Len(Entries) : Entries[e] = m => FirstEntry(m) <= e
<1> DEFINE S == {e \in 1..Len(Entries) : Entries[e] = m}
<1>1. Len(Entries) \in Nat
  BY EntriesAre
<1>2. S \in SUBSET Nat
  BY <1>1
<1>3. S # {}
  <2>1. PICK sig \in ToSet(Signals) : m \in ToSet(hits[sig])
    BY DEF Pool
  <2>2. PICK i \in 1..Len(hits[sig]) : hits[sig][i] = m
    BY <2>1, ListsGiven
  <2> QED  BY <2>2, EntryOfSignal
<1>4. PICK x \in S : \A y \in S : x <= y
  <2> HIDE DEF S
  <2> QED  BY <1>2, <1>3, LeastNatural
<1>5. \A k \in 1..(x - 1) : Entries[k] # m
  <2> SUFFICES ASSUME NEW k \in 1..(x - 1), Entries[k] = m PROVE FALSE
    OBVIOUS
  <2>1. x \in Nat /\ x <= Len(Entries)
    BY <1>1
  <2>2. k \in S
    BY <1>1, <2>1
  <2>3. x <= k
    BY <1>4, <2>2
  <2> QED  BY <2>1, <2>3
<1>6. /\ FirstEntry(m) \in 1..Len(Entries) /\ Entries[FirstEntry(m)] = m
      /\ \A k \in 1..(FirstEntry(m) - 1) : Entries[k] # m
  BY <1>4, <1>5 DEF FirstEntry
<1> DEFINE f == FirstEntry(m)
<1>7. f \in Nat /\ \A e \in 1..Len(Entries) : Entries[e] = m => f <= e
  <2> HIDE DEF f
  <2>1. f \in 1..Len(Entries) /\ \A k \in 1..(f - 1) : Entries[k] # m
    BY <1>6 DEF f
  <2> QED  BY <1>1, <2>1
<1> QED  BY <1>6, <1>7

(* Who is ahead wherever the other is has entered the dictionary earlier. *)
LEMMA DominatorEntersFirst ==
  ASSUME Given, NEW m \in Pool, NEW n \in Pool, Dominates(m, n)
  PROVE  FirstEntry(m) < FirstEntry(n)
<1>1. FirstEntry(n) \in 1..Len(Entries) /\ Entries[FirstEntry(n)] = n /\ FirstEntry(n) \in Nat
  BY FirstEntryIs
<1>2. PICK sig \in ToSet(Signals) : \E i \in 1..Len(hits[sig]) :
        FirstEntry(n) = Offset(sig) + i /\ hits[sig][i] = n
  BY <1>1, SignalOfEntry
<1>0. PICK i \in 1..Len(hits[sig]) : FirstEntry(n) = Offset(sig) + i /\ hits[sig][i] = n
  BY <1>2
<1>3. hits[sig] \in Seq(Mems) /\ Injective(hits[sig]) /\ n \in ToSet(hits[sig]) /\ Len(hits[sig]) \in Nat
  BY <1>0, ListsGiven
<1>4. m \in ToSet(hits[sig]) /\ RankIn(hits[sig], m) < RankIn(hits[sig], n)
  BY <1>3 DEF Dominates, AheadIn
<1>5. RankIn(hits[sig], n) = i
  BY <1>0, <1>3, RankInIs
<1> DEFINE r == RankIn(hits[sig], m)
<1>6. r \in 1..Len(hits[sig]) /\ hits[sig][r] = m /\ r < i
  BY <1>3, <1>4, <1>5, RankInIs
<1> HIDE DEF r
<1>7. Offset(sig) + r \in 1..Len(Entries) /\ Entries[Offset(sig) + r] = m /\ Offset(sig) \in Nat
  BY <1>6, EntryOfSignal
<1>8. FirstEntry(m) <= Offset(sig) + r /\ FirstEntry(m) \in Nat
  BY <1>7, FirstEntryIs
<1> QED  BY <1>0, <1>1, <1>3, <1>6, <1>7, <1>8

-----------------------------------------------------------------------------
(* Relevance and score. *)

(* Weight * Denominator bounds what a signal adds. *)
LEMMA ShareBounded ==
  ASSUME Given, NEW sig \in ToSet(Signals), NEW m
  PROVE  Weight[sig] * Denominator \in Nat /\ Share(sig, m) <= Weight[sig] * Denominator
<1>1. Weight[sig] \in Nat /\ Denominator \in Nat /\ RrfK \in Nat \ {0}
  BY WeightAssumption, ExactAssumption, BoostAssumption
<1>2. Weight[sig] * Denominator \in Nat
  BY <1>1
<1>3. CASE m \in ToSet(hits[sig])
  <2> DEFINE r == RrfK + RankIn(hits[sig], m)
             q == Denominator \div r
  <2>1. r \in Nat \ {0}
    <3>1. RankIn(hits[sig], m) \in 1..Len(hits[sig]) /\ Len(hits[sig]) \in Nat
      BY <1>3, ListsGiven, RankInIs
    <3> QED  BY <1>1, <3>1
  <2>2. Share(sig, m) = Weight[sig] * q
    BY <1>3 DEF Share
  <2>3. q \in Nat /\ q <= Denominator
    <3> HIDE DEF r
    <3>1. 1 <= r /\ 1 \in Nat \ {0}
      BY <2>1
    <3>2. Denominator \div 1 = Denominator
      BY <1>1
    <3> QED  BY <1>1, <2>1, <3>1, <3>2, QuotientFalls
  <2> HIDE DEF q
  <2>4. Weight[sig] <= Weight[sig]
    BY <1>1
  <2>5. Weight[sig] * q <= Weight[sig] * Denominator
    BY <1>1, <2>3, <2>4, ProductGrows
  <2> QED  BY <1>2, <2>2, <2>5
<1>4. CASE m \notin ToSet(hits[sig])
  BY <1>2, <1>4 DEF Share
<1> QED  BY <1>2, <1>3, <1>4

(* The fused scores of the pool lie between a least and a greatest one. *)
LEMMA FusedRange ==
  ASSUME Given, Pool # {}
  PROVE  \E lo, hi \in Nat :
           /\ lo <= hi /\ MinFused = lo /\ Span = hi - lo
           /\ \A m \in Pool : lo <= Fused(m) /\ Fused(m) <= hi
<1> DEFINE S == {Fused(m) : m \in Pool}
<1>1. \E b \in Nat : \A m \in Pool : Fused(m) \in 0..b
  <2>1. PICK v, k, g \in Nat :
          /\ v = Weight["vector"] * Denominator /\ k = Weight["keyword"] * Denominator
          /\ g = Weight["graph"] * Denominator
    BY ShareBounded, SignalNames
  <2>2. ASSUME NEW m \in Pool
        PROVE  Fused(m) \in 0..(v + k + g)
    <3>1. /\ Share("vector", m) <= v /\ Share("keyword", m) <= k /\ Share("graph", m) <= g
      BY <2>1, ShareBounded, SignalNames
    <3>2. /\ Share("vector", m) \in Nat /\ Share("keyword", m) \in Nat /\ Share("graph", m) \in Nat
      BY ShareIs, SignalNames
    <3> QED  BY <3>1, <3>2 DEF Fused
  <2> QED  BY <2>2
<1>2. PICK b \in Nat : \A m \in Pool : Fused(m) \in 0..b
  BY <1>1
<1>3. S \in SUBSET (0..b) /\ S # {} /\ S \in SUBSET Nat
  BY <1>2
<1>4. MinFused = Min(S) /\ Span = Max(S) - MinFused
  BY Zenon DEF MinFused, Span
<1>5. \A m \in Pool : Fused(m) \in S
  OBVIOUS
<1> HIDE DEF S
<1>6. Min(S) \in S /\ \A y \in S : Min(S) <= y
  <2>1. \E x \in S : \A y \in S : x <= y
    BY <1>3, LeastNatural
  <2> QED  BY <2>1, Zenon DEF Min
<1>7. Max(S) \in S /\ \A y \in S : Max(S) >= y
  <2>1. \E x \in S : \A y \in S : x >= y
    BY <1>3, GreatestNatural
  <2> QED  BY <2>1, Zenon DEF Max
<1>8. PICK lo \in Nat, hi \in Nat : lo = Min(S) /\ hi = Max(S)
  BY <1>3, <1>6, <1>7
<1>9. /\ lo <= hi /\ MinFused = lo /\ Span = hi - lo
      /\ \A m \in Pool : lo <= Fused(m) /\ Fused(m) <= hi
  BY <1>3, <1>4, <1>5, <1>6, <1>7, <1>8
<1> QED  BY <1>9

(* Normalisation keeps the order of fused scores, between 0 and Scale. *)
LEMMA RelevanceIs ==
  ASSUME Given, Pool # {}
  PROVE  /\ Scale \in Nat \ {0}
         /\ \A m \in Pool : Relevance(m) \in Nat /\ Relevance(m) <= Scale
         /\ \A m, n \in Pool : Fused(n) <= Fused(m) => Relevance(n) <= Relevance(m)
<1>1. PICK lo, hi \in Nat :
        /\ lo <= hi /\ MinFused = lo /\ Span = hi - lo
        /\ \A m \in Pool : lo <= Fused(m) /\ Fused(m) <= hi
  BY FusedRange
<1>2. \A m \in Pool : Fused(m) \in Nat
  BY FusedIs
<1>3. CASE Span = 0
  BY <1>3 DEF Scale, Relevance
<1>4. CASE Span # 0
  <2>1. Scale = hi - lo /\ Scale \in Nat \ {0} /\ \A m \in Pool : Relevance(m) = Fused(m) - lo
    BY <1>1, <1>4 DEF Scale, Relevance
  <2> QED  BY <1>1, <1>2, <2>1
<1> QED  BY <1>3, <1>4

(* A multiplier is a natural number within MaxBoost of Unit. *)
LEMMA Boosted ==
  ASSUME Given, NEW m \in Mems
  PROVE  /\ Unit \in Nat \ {0} /\ boost[m] \in Int /\ Unit - MaxBoost \in Nat /\ Unit + MaxBoost \in Nat
         /\ Unit + boost[m] \in Nat
         /\ Unit - MaxBoost <= Unit + boost[m] /\ Unit + boost[m] <= Unit + MaxBoost
         /\ Unit - MaxBoost <= Unit
<1>1. boost[m] \in Boosts
  BY DEF Given
<1>2. boost[m] \in Int /\ -MaxBoost <= boost[m] /\ boost[m] <= MaxBoost
  BY <1>1, BoostAssumption
<1>3. Unit \in Nat \ {0} /\ MaxBoost \in Nat /\ MaxBoost < Unit
  BY BoostAssumption
<1> QED  BY <1>2, <1>3

(* A score is the boosted relevance, or the cap where that is more. *)
LEMMA ScoreIs ==
  ASSUME Given, NEW m \in Pool
  PROVE  LET s == Relevance(m) * (Unit + boost[m])
         IN  /\ s \in Nat /\ Scale * Unit \in Nat /\ Score(m) \in Nat
             /\ Score(m) <= s /\ Score(m) <= Scale * Unit /\ (Score(m) = s \/ Score(m) = Scale * Unit)
<1> DEFINE s == Relevance(m) * (Unit + boost[m])
           c == Scale * Unit
<1>1. Relevance(m) \in Nat /\ Scale \in Nat
  BY RelevanceIs
<1>2. Unit + boost[m] \in Nat /\ Unit \in Nat
  BY PoolIsFinite, Boosted
<1>3. s \in Nat /\ c \in Nat
  BY <1>1, <1>2
<1>4. Score(m) = IF s > c THEN c ELSE s
  BY Zenon DEF Score
<1> HIDE DEF s, c
<1>5. /\ s \in Nat /\ c \in Nat /\ Score(m) \in Nat
      /\ Score(m) <= s /\ Score(m) <= c /\ (Score(m) = s \/ Score(m) = c)
  BY <1>3, <1>4
<1> QED  BY <1>5 DEF s, c

(* The capped score grows with fused score and boost. *)
LEMMA ScoreGrows ==
  ASSUME Given, NEW m \in Pool, NEW n \in Pool, Fused(n) <= Fused(m), boost[m] >= boost[n]
  PROVE  Score(n) <= Score(m)
<1>1. Relevance(n) \in Nat /\ Relevance(m) \in Nat /\ Relevance(n) <= Relevance(m)
  BY RelevanceIs
<1>2. Unit + boost[n] \in Nat /\ Unit + boost[m] \in Nat /\ Unit + boost[n] <= Unit + boost[m]
  <2>1. /\ Unit + boost[n] \in Nat /\ Unit + boost[m] \in Nat /\ boost[m] \in Int /\ boost[n] \in Int
        /\ Unit \in Nat
    BY PoolIsFinite, Boosted
  <2> QED  BY <2>1
<1>3. Relevance(n) * (Unit + boost[n]) <= Relevance(m) * (Unit + boost[m])
  BY <1>1, <1>2, ProductGrows
<1>4. PICK a, b, c \in Nat : /\ a = Relevance(n) * (Unit + boost[n])
                             /\ b = Relevance(m) * (Unit + boost[m]) /\ c = Scale * Unit
  BY ScoreIs
<1>5. /\ Score(n) \in Nat /\ Score(n) <= a /\ Score(n) <= c
      /\ Score(m) \in Nat /\ (Score(m) = b \/ Score(m) = c)
  BY <1>4, ScoreIs
<1> QED  BY <1>3, <1>4, <1>5

(* Relevances the boosts cannot bridge keep their order. *)
LEMMA ScoreBeyondReach ==
  ASSUME Given, NEW m \in Pool, NEW n \in Pool,
         Relevance(m) * (Unit - MaxBoost) > Relevance(n) * (Unit + MaxBoost)
  PROVE  Score(m) > Score(n)
<1>1. Relevance(n) \in Nat /\ Relevance(m) \in Nat /\ Relevance(m) <= Scale /\ Scale \in Nat
  BY RelevanceIs
<1>2. /\ Unit + boost[n] \in Nat /\ Unit + boost[m] \in Nat /\ Unit \in Nat
      /\ Unit - MaxBoost \in Nat /\ Unit + MaxBoost \in Nat
      /\ Unit + boost[n] <= Unit + MaxBoost /\ Unit - MaxBoost <= Unit + boost[m] /\ Unit - MaxBoost <= Unit
  BY PoolIsFinite, Boosted
<1>3. Relevance(n) * (Unit + boost[n]) <= Relevance(n) * (Unit + MaxBoost)
  <2>1. Relevance(n) <= Relevance(n)
    BY <1>1
  <2> QED  BY <1>1, <1>2, <2>1, ProductGrows
<1>4. Relevance(m) * (Unit - MaxBoost) <= Relevance(m) * (Unit + boost[m])
  <2>1. Relevance(m) <= Relevance(m)
    BY <1>1
  <2> QED  BY <1>1, <1>2, <2>1, ProductGrows
<1>5. Relevance(m) * (Unit - MaxBoost) <= Scale * Unit
  BY <1>1, <1>2, ProductGrows
<1>6. PICK a, b, c \in Nat : /\ a = Relevance(n) * (Unit + boost[n])
                             /\ b = Relevance(m) * (Unit + boost[m]) /\ c = Scale * Unit
  BY ScoreIs
<1>7. PICK p \in Nat, q \in Nat : p = Relevance(m) * (Unit - MaxBoost) /\ q = Relevance(n) * (Unit + MaxBoost)
  <2>1. Relevance(m) * (Unit - MaxBoost) \in Nat /\ Relevance(n) * (Unit + MaxBoost) \in Nat
    BY <1>1, <1>2
  <2> QED  BY <2>1
<1>8. /\ Score(n) \in Nat /\ Score(n) <= a
      /\ Score(m) \in Nat /\ (Score(m) = b \/ Score(m) = c)
  BY <1>6, ScoreIs
<1>9. a <= q /\ p <= b /\ p <= c /\ p > q
  BY <1>3, <1>4, <1>5, <1>6, <1>7
<1> QED  BY <1>8, <1>9

-----------------------------------------------------------------------------
(* The sort. *)

(* Precedes orders the pool strictly and totally. *)
LEMMA PrecedesOrders ==
  ASSUME Given
  PROVE  /\ \A m \in Pool : ~ Precedes(m, m)
         /\ \A m, n \in Pool : m # n => Precedes(m, n) \/ Precedes(n, m)
         /\ \A m, n, o \in Pool : Precedes(m, n) /\ Precedes(n, o) => Precedes(m, o)
<1>1. \A m \in Pool : Score(m) \in Nat /\ FirstEntry(m) \in Nat
  BY ScoreIs, FirstEntryIs
<1>2. \A m, n \in Pool : m # n => FirstEntry(m) # FirstEntry(n)
  BY FirstEntryIs
<1> QED  BY <1>1, <1>2 DEF Precedes

(* How many of the pool come before m. *)
Before(m) == {n \in Pool : Precedes(n, m)}

(* Who comes later in the order has more memories before it. *)
LEMMA BeforeGrows ==
  ASSUME Given, NEW m \in Pool
  PROVE  /\ Cardinality(Before(m)) \in Nat /\ Cardinality(Before(m)) < Cardinality(Pool)
         /\ \A n \in Pool : Precedes(m, n) => Cardinality(Before(m)) < Cardinality(Before(n))
<1>1. ASSUME NEW T \in SUBSET Pool, Before(m) \subseteq T, m \in T
      PROVE  Cardinality(Before(m)) \in Nat /\ Cardinality(Before(m)) < Cardinality(T)
  <2>1. IsFiniteSet(T) /\ Cardinality(T) \in Nat
    BY PoolIsFinite, FS_Subset, FS_CardinalityType
  <2>2. Before(m) \in SUBSET T
    BY <1>1
  <2>3. IsFiniteSet(Before(m)) /\ Cardinality(Before(m)) \in Nat /\ Cardinality(Before(m)) <= Cardinality(T)
    BY <2>1, <2>2, FS_Subset, FS_CardinalityType
  <2>4. Cardinality(T) = Cardinality(Before(m)) => T = Before(m)
    BY <2>1, <2>2, FS_Subset
  <2>5. m \notin Before(m)
    BY PrecedesOrders DEF Before
  <2>6. Cardinality(T) # Cardinality(Before(m))
    BY <1>1, <2>4, <2>5
  <2> QED  BY <2>1, <2>3, <2>6
<1>2. Before(m) \subseteq Pool
  BY DEF Before
<1>3. ASSUME NEW n \in Pool, Precedes(m, n)
      PROVE  Cardinality(Before(m)) < Cardinality(Before(n))
  <2>1. Before(n) \in SUBSET Pool /\ m \in Before(n)
    BY <1>3 DEF Before
  <2>2. Before(m) \subseteq Before(n)
    BY <1>3, PrecedesOrders DEF Before
  <2> QED  BY <1>1, <2>1, <2>2
<1> QED  BY <1>1, <1>2, <1>3

(* The memory after k others, for every k below the size of the pool. *)
LEMMA EveryPlaceIsTaken ==
  ASSUME Given
  PROVE  \A i \in 1..Cardinality(Pool) : \E m \in Pool : Cardinality(Before(m)) + 1 = i
<1> DEFINE N == Cardinality(Pool)
           place == [m \in Pool |-> Cardinality(Before(m)) + 1]
<1>1. N \in Nat /\ IsFiniteSet(Pool)
  BY PoolIsFinite
<1>2. \A m \in Pool : Cardinality(Before(m)) \in Nat /\ Cardinality(Before(m)) < N
  BY BeforeGrows
<1> HIDE DEF N
<1>3. place \in [Pool -> 1..N]
  <2>1. \A m \in Pool : Cardinality(Before(m)) + 1 \in 1..N
    BY <1>1, <1>2
  <2> QED  BY <2>1
<1>4. \A m, n \in Pool : place[m] = place[n] => m = n
  <2> SUFFICES ASSUME NEW m \in Pool, NEW n \in Pool, m # n
               PROVE  Cardinality(Before(m)) + 1 # Cardinality(Before(n)) + 1
    OBVIOUS
  <2>1. Precedes(m, n) \/ Precedes(n, m)
    BY PrecedesOrders
  <2>2. Cardinality(Before(m)) < Cardinality(Before(n)) \/ Cardinality(Before(n)) < Cardinality(Before(m))
    BY <2>1, BeforeGrows
  <2> QED  BY <1>2, <2>2
<1>5. IsFiniteSet(1..N) /\ Cardinality(1..N) = N
  BY <1>1, FS_Interval
<1> HIDE DEF place
<1>6. place \in Injection(Pool, 1..N)
  BY <1>3, <1>4 DEF Injection, IsInjective
<1>7. place \in Surjection(Pool, 1..N)
  BY <1>5, <1>6, FS_Injection DEF N
<1>8. \A i \in 1..N : \E m \in Pool : place[m] = i
  BY <1>7 DEF Surjection
<1> QED  BY <1>8 DEF place, N

(* There is a sorted list of the pool, and Sorted chooses one. *)
LEMMA SortedIs ==
  ASSUME Given
  PROVE  LET all == Sorted(Pool) IN
         /\ all \in SetToSeqs(Pool)
         /\ all \in Seq(Pool) /\ Len(all) = Cardinality(Pool) /\ Len(all) \in Nat
         /\ \A i, k \in 1..Len(all) : i < k => Precedes(all[i], all[k])
         /\ \A m \in Pool : \E i \in 1..Len(all) : all[i] = m
<1> DEFINE N == Cardinality(Pool)
           at(i) == CHOOSE m \in Pool : Cardinality(Before(m)) + 1 = i
           s == [i \in 1..N |-> at(i)]
<1>1. N \in Nat /\ IsFiniteSet(Pool)
  BY PoolIsFinite
<1>2. \A i \in 1..N : at(i) \in Pool /\ Cardinality(Before(at(i))) + 1 = i
  BY EveryPlaceIsTaken
<1>3. \A m \in Pool : Cardinality(Before(m)) \in Nat
  BY BeforeGrows
<1>4. ASSUME NEW l \in SetToSeqs(Pool)
      PROVE  l \in [1..N -> Pool] /\ \A i, k \in 1..N : i # k => l[i] # l[k]
  BY Zenon DEF SetToSeqs
<1>5. s \in SetToSeqs(Pool)
  <2>1. s \in [1..N -> Pool] /\ \A i, k \in 1..N : i # k => s[i] # s[k]
    <3> HIDE DEF N, at
    <3> QED  BY <1>2
  <2> QED  BY <2>1, Zenon DEF SetToSeqs
<1>6. Len(s) = N
  <2> HIDE DEF N, at
  <2> QED  BY <1>1
<1>7. \A i, k \in 1..Len(s) : i < k => Precedes(s[i], s[k])
  <2> SUFFICES ASSUME NEW i \in 1..N, NEW k \in 1..N, i < k PROVE Precedes(s[i], s[k])
    BY <1>6, Zenon
  <2> DEFINE x == s[i]
             y == s[k]
  <2>1. x \in Pool /\ Cardinality(Before(x)) + 1 = i /\ y \in Pool /\ Cardinality(Before(y)) + 1 = k
    BY <1>2
  <2> HIDE DEF x, y, s
  <2>2. x # y
    BY <2>1
  <2>3. ~ Precedes(y, x)
    <3> SUFFICES ASSUME Precedes(y, x) PROVE FALSE
      OBVIOUS
    <3>1. Cardinality(Before(y)) < Cardinality(Before(x))
      BY <2>1, BeforeGrows
    <3> QED  BY <1>3, <2>1, <3>1
  <2>4. Precedes(x, y)
    BY <2>1, <2>2, <2>3, PrecedesOrders
  <2> QED  BY <2>4 DEF x, y
<1> DEFINE all == Sorted(Pool)
<1>8. all \in SetToSeqs(Pool) /\ \A i, k \in 1..Len(all) : i < k => Precedes(all[i], all[k])
  <2> HIDE DEF s
  <2> QED  BY <1>5, <1>7, Zenon DEF Sorted
<1> HIDE DEF s, all, at
<1>9. all \in [1..N -> Pool] /\ \A i, k \in 1..N : i # k => all[i] # all[k]
  BY <1>4, <1>8
<1>10. all \in Seq(Pool) /\ Len(all) = N
  <2> HIDE DEF N
  <2> QED  BY <1>1, <1>9
<1>11. \A m \in Pool : \E i \in 1..N : all[i] = m
  <2>1. IsFiniteSet(1..N) /\ Cardinality(1..N) = N
    <3> HIDE DEF N
    <3> QED  BY <1>1, FS_Interval
  <2>2. all \in Injection(1..N, Pool)
    BY <1>9 DEF Injection, IsInjective
  <2>3. all \in Surjection(1..N, Pool)
    BY <1>1, <2>1, <2>2, FS_Injection
  <2> QED  BY <2>3 DEF Surjection
<1>12. /\ all \in Seq(Pool) /\ Len(all) = Cardinality(Pool) /\ Len(all) \in Nat
       /\ \A i, k \in 1..Len(all) : i < k => Precedes(all[i], all[k])
       /\ \A m \in Pool : \E i \in 1..Len(all) : all[i] = m
  BY <1>1, <1>8, <1>10, <1>11
<1> QED  BY <1>8, <1>12 DEF all

-----------------------------------------------------------------------------
(* The ranked list. *)

(* The cut keeps the order, and with a memory all that precede it. *)
LEMMA RankedIs ==
  ASSUME Given
  PROVE  LET cut == SortThenCut IN
         /\ cut \in Seq(Pool) /\ Len(cut) <= Limit
         /\ \A i, k \in 1..Len(cut) : i < k => Precedes(cut[i], cut[k])
         /\ \A m \in Pool, n \in ToSet(cut) : Precedes(m, n) => m \in ToSet(cut)
         /\ Len(cut) \in Nat
<1> DEFINE all == Sorted(Pool)
           c == IF Len(all) < Limit THEN Len(all) ELSE Limit
           cut == SubSeq(all, 1, c)
<1>1. /\ all \in Seq(Pool) /\ Len(all) \in Nat
      /\ \A i, k \in 1..Len(all) : i < k => Precedes(all[i], all[k])
      /\ \A m \in Pool : \E i \in 1..Len(all) : all[i] = m
  BY SortedIs
<1>2. SortThenCut = cut
  BY Zenon DEF SortThenCut
<1> HIDE DEF all
<1>3. c \in Nat /\ c <= Limit /\ c <= Len(all) /\ Limit \in Nat
  BY <1>1, LimitAssumption
<1> HIDE DEF c
<1>4. cut \in Seq(Pool) /\ Len(cut) = c /\ \A i \in 1..c : cut[i] = all[i] /\ i \in 1..Len(all)
  <2>1. \A i \in 1..c : i \in 1..Len(all) /\ all[i] \in Pool
    BY <1>1, <1>3
  <2>2. /\ SubSeq(all, 1, c) \in Seq(Pool) /\ Len(SubSeq(all, 1, c)) = IF 1 <= c THEN c - 1 + 1 ELSE 0
        /\ \A i \in 1..(c - 1 + 1) : SubSeq(all, 1, c)[i] = all[1 + i - 1]
    BY <1>3, <2>1, SubSeqProperties
  <2>3. c - 1 + 1 = c /\ \A i \in 1..c : 1 + i - 1 = i
    BY <1>3
  <2> QED  BY <1>3, <2>1, <2>2, <2>3
<1> HIDE DEF cut
<1>5. \A i, k \in 1..Len(cut) : i < k => Precedes(cut[i], cut[k])
  BY <1>1, <1>4
<1>6. ASSUME NEW m \in Pool, NEW n \in ToSet(cut), Precedes(m, n)
      PROVE  m \in ToSet(cut)
  <2>1. PICK k \in 1..c : cut[k] = n
    BY <1>4 DEF ToSet
  <2>2. PICK i \in 1..Len(all) : all[i] = m
    BY <1>1
  <2>3. k \in 1..Len(all) /\ all[k] = n /\ n \in Pool
    <3>1. k \in 1..Len(all) /\ all[k] = n
      BY <1>4, <2>1
    <3> QED  BY <1>1, <3>1, ElementOfSeq
  <2>4. ~ (k < i)
    <3> SUFFICES ASSUME k < i PROVE FALSE
      OBVIOUS
    <3>1. Precedes(n, m)
      BY <1>1, <2>2, <2>3
    <3> QED  BY <1>6, <2>3, <3>1, PrecedesOrders
  <2>5. i \in 1..c
    BY <1>1, <1>3, <2>4
  <2>6. cut[i] = m
    BY <1>4, <2>2, <2>5
  <2> QED  BY <1>4, <2>5, <2>6 DEF ToSet
<1> QED  BY <1>2, <1>3, <1>4, <1>5, <1>6

LEMMA RankedInjective ==
  ASSUME Given, ranked = SortThenCut
  PROVE  ranked \in Seq(Mems) /\ Injective(ranked)
<1>1. /\ ranked \in Seq(Pool) /\ Len(ranked) \in Nat
      /\ \A i, k \in 1..Len(ranked) : i < k => Precedes(ranked[i], ranked[k])
  BY RankedIs
<1>2. ranked \in Seq(Mems)
  BY <1>1, PoolIsFinite
<1>3. Injective(ranked)
  <2> SUFFICES ASSUME NEW i \in 1..Len(ranked), NEW k \in 1..Len(ranked), ranked[i] = ranked[k], i < k
               PROVE  FALSE
    BY <1>1 DEF Injective
  <2>1. Precedes(ranked[i], ranked[k]) /\ ranked[i] \in Pool
    BY <1>1
  <2> QED  BY <2>1, PrecedesOrders
<1> QED  BY <1>2, <1>3

(* A list without repetitions is a ranking of the memories it holds. *)
LEMMA ListIsRanking ==
  ASSUME NEW l \in Seq(Mems), Injective(l)
  PROVE  l \in Rankings
<1> DEFINE N == Len(l)
           S == ToSet(l)
<1>1. N \in Nat /\ l \in [1..N -> S] /\ S \in SUBSET Mems /\ \A x \in S : \E i \in 1..N : l[i] = x
  BY DEF ToSet
<1>2. IsFiniteSet(1..N) /\ Cardinality(1..N) = N
  <2>1. N \in Nat
    BY <1>1
  <2> HIDE DEF N
  <2> QED  BY <2>1, FS_Interval
<1>3. \A i, k \in 1..N : l[i] = l[k] => i = k
  BY DEF Injective
<1> HIDE DEF N, S
<1>4. l \in Injection(1..N, S) /\ l \in Surjection(1..N, S)
  BY <1>1, <1>3 DEF Injection, IsInjective, Surjection
<1>5. Cardinality(S) = N
  BY <1>2, <1>4, FS_Surjection
<1>6. l \in SetToSeqs(S)
  BY <1>1, <1>3, <1>5, Zenon DEF SetToSeqs
<1> QED  BY <1>1, <1>6 DEF Rankings

(* The order of two memories of the pool survives sort and cut. *)
LEMMA PrecedesIsKept ==
  ASSUME Given, ranked = SortThenCut, NEW m \in Pool, NEW n \in Pool, Precedes(m, n)
  PROVE  RankedBefore(m, n)
<1> SUFFICES ASSUME n \in ToSet(ranked)
             PROVE  m \in ToSet(ranked) /\ RankIn(ranked, m) < RankIn(ranked, n)
  BY DEF RankedBefore
<1>1. /\ ranked \in Seq(Pool) /\ Len(ranked) \in Nat
      /\ \A i, k \in 1..Len(ranked) : i < k => Precedes(ranked[i], ranked[k])
      /\ m \in ToSet(ranked)
  BY RankedIs
<1>2. ranked \in Seq(Mems)
  BY RankedInjective
<1>3. Injective(ranked)
  BY RankedInjective
<1> DEFINE a == RankIn(ranked, m)
           b == RankIn(ranked, n)
<1>4. a \in 1..Len(ranked) /\ b \in 1..Len(ranked) /\ ranked[a] = m /\ ranked[b] = n
  BY <1>1, <1>2, <1>3, RankInIs
<1> HIDE DEF a, b
<1>5. ~ (b < a)
  <2> SUFFICES ASSUME b < a PROVE FALSE
    OBVIOUS
  <2>1. Precedes(n, m)
    BY <1>1, <1>4
  <2> QED  BY <2>1, PrecedesOrders
<1>6. a # b
  BY <1>4, PrecedesOrders
<1>7. a < b
  BY <1>1, <1>4, <1>5, <1>6
<1> QED  BY <1>1, <1>7 DEF a, b

-----------------------------------------------------------------------------
(* The specification. *)

RankInv == Given /\ (ranked = <<>> \/ ranked = SortThenCut)

(* The ranked list is empty or what SortThenCut computes. *)
LEMMA InvInit == Init => RankInv
  BY DEF Init, RankInv, Given

LEMMA InvNext == RankInv /\ [RankMemories]_vars => RankInv'
<1> SUFFICES ASSUME RankInv, [RankMemories]_vars PROVE RankInv'
  OBVIOUS
<1>1. hits' = hits /\ boost' = boost
  BY DEF RankMemories, vars
<1>2. SortThenCut' = SortThenCut
  <2>1. \A sig, m : Share(sig, m)' = Share(sig, m)
    BY <1>1 DEF Share
  <2>2. \A m : Fused(m)' = Fused(m)
    BY <2>1 DEF Fused
  <2>3. Pool' = Pool /\ Entries' = Entries
    BY <1>1 DEF Pool, Entries
  <2>4. \A m : FirstEntry(m)' = FirstEntry(m)
    BY <2>3 DEF FirstEntry
  <2>5. MinFused' = MinFused /\ Span' = Span
    BY <2>2, <2>3 DEF MinFused, Span
  <2>6. Scale' = Scale /\ \A m : Score(m)' = Score(m)
    BY <1>1, <2>2, <2>5 DEF Scale, Relevance, Score
  <2>7. \A m, n : Precedes(m, n)' = Precedes(m, n)
    BY <2>4, <2>6 DEF Precedes
  <2>8. Sorted(Pool)' = Sorted(Pool)
    BY <2>3, <2>7 DEF Sorted
  <2> QED  BY <2>8 DEF SortThenCut
<1>3. ranked' = ranked \/ ranked' = SortThenCut
  BY DEF RankMemories, vars
<1> QED  BY <1>1, <1>2, <1>3 DEF RankInv, Given

LEMMA InvHolds == Spec => []RankInv
  BY InvInit, InvNext, PTL DEF Spec

(* The ranked list holds memories that a signal returned, each once, and   *)
(* no more of them than the caller asked for (scorer.py: the sort, the cut *)
(* at limit).                                                              *)
THEOREM TypeCorrect == Spec => []TypeOK
<1>1. RankInv => TypeOK
  <2> SUFFICES ASSUME RankInv PROVE ranked \in Rankings /\ Len(ranked) <= Limit
    BY DEF RankInv, Given, TypeOK
  <2>1. Given
    BY DEF RankInv
  <2>2. /\ ranked \in Seq(Mems) /\ Len(ranked) \in Nat /\ Len(ranked) <= Limit /\ Injective(ranked)
    <3>1. CASE ranked = <<>>
      BY <3>1, LimitAssumption DEF Injective
    <3>2. CASE ranked = SortThenCut
      BY <2>1, <3>2, RankedInjective, RankedIs, LimitAssumption, PoolIsFinite
    <3> QED  BY <3>1, <3>2 DEF RankInv
  <2> QED  BY <2>2, ListIsRanking
<1> QED  BY <1>1, InvHolds, PTL

(* A memory that no signal ranks behind another one, and whose boost is no *)
(* smaller, comes before it and is never cut instead (scorer.py: fusion,   *)
(* normalisation, the cap at 1.0, the stable sort and the cut together).   *)
THEOREM DominanceHolds == Spec => []DominanceIsKept
<1>1. RankInv => DominanceIsKept
  <2> SUFFICES ASSUME RankInv, ranked # <<>>, NEW m \in Pool, NEW n \in Pool,
                      Dominates(m, n), boost[m] >= boost[n]
               PROVE  RankedBefore(m, n)
    BY DEF DominanceIsKept
  <2>1. Given /\ ranked = SortThenCut
    BY DEF RankInv
  <2>2. FirstEntry(m) < FirstEntry(n)
    BY <2>1, DominatorEntersFirst
  <2>3. Fused(n) <= Fused(m)
    BY <2>1, FusedIs
  <2>4. Score(n) <= Score(m) /\ Score(n) \in Nat /\ Score(m) \in Nat
    BY <2>1, <2>3, ScoreGrows, ScoreIs
  <2>5. Precedes(m, n)
    BY <2>2, <2>4 DEF Precedes
  <2> QED  BY <2>1, <2>5, PrecedesIsKept
<1> QED  BY <1>1, InvHolds, PTL

(* A less relevant memory overtakes a more relevant one only within the    *)
(* reach of the two boosts (scorer.py: _tiebreak_multiplier).              *)
THEOREM BoostBreaksNearTies == Spec => []BoostOnlyBreaksNearTies
<1>1. RankInv => BoostOnlyBreaksNearTies
  <2> SUFFICES ASSUME RankInv, ranked # <<>>, NEW m \in Pool, NEW n \in Pool,
                      Relevance(m) * (Unit - MaxBoost) > Relevance(n) * (Unit + MaxBoost)
               PROVE  RankedBefore(m, n)
    BY DEF BoostOnlyBreaksNearTies
  <2>1. Given /\ ranked = SortThenCut
    BY DEF RankInv
  <2>2. Score(m) > Score(n)
    BY <2>1, ScoreBeyondReach
  <2>3. Precedes(m, n)
    BY <2>2 DEF Precedes
  <2> QED  BY <2>1, <2>3, PrecedesIsKept
<1> QED  BY <1>1, InvHolds, PTL

(* What ReadPath!RankHits allows: any order of the pool, up to the limit.  *)
RankedAsReadPathMay ==
  ranked # <<>> =>
    \E order \in SetToSeqs(Pool) :
      ranked = SubSeq(order, 1, IF Len(order) < Limit THEN Len(order) ELSE Limit)

(* ReadPath leaves the order of the hits open; the one rank_memories        *)
(* computes (scorer.py: the sort and the cut) is among those it allows, so *)
(* what is proved of replies holds with this ranking.                      *)
THEOREM RanksAsReadPathMay == Spec => []RankedAsReadPathMay
<1>1. RankInv => RankedAsReadPathMay
  <2> SUFFICES ASSUME RankInv, ranked # <<>>
               PROVE  \E order \in SetToSeqs(Pool) :
                        ranked = SubSeq(order, 1, IF Len(order) < Limit THEN Len(order) ELSE Limit)
    BY DEF RankedAsReadPathMay
  <2>1. Given /\ ranked = SortThenCut
    BY DEF RankInv
  <2>2. Sorted(Pool) \in SetToSeqs(Pool)
    BY <2>1, SortedIs
  <2> QED  BY <2>1, <2>2, Zenon DEF SortThenCut
<1> QED  BY <1>1, InvHolds, PTL
=============================================================================
