------------------------------- MODULE Ranking -------------------------------
(***************************************************************************)
(* rank_memories after the signals have answered (app/ranking/scorer.py):  *)
(* weighted reciprocal rank fusion of three ordered lists, min-max         *)
(* normalisation, a small boost by recency and importance, a cap, a stable *)
(* sort and a cut.  Scores are exact integers: fused scores are multiples  *)
(* of 1/Denominator, boosts of 1/Unit, so no two scores that differ are    *)
(* taken as equal.                                                         *)
(*                                                                         *)
(* The module is one step: a pool, three rankings of it and the boosts are *)
(* chosen, and the ranked list computed.                                   *)
(***************************************************************************)
EXTENDS Naturals, Integers, Sequences, FiniteSets, SequencesExt, FiniteSetsExt

CONSTANTS
  Mems,       \* memories a query can find
  Weight,     \* RankingWeights: vector, keyword and graph, as integers
  RrfK,       \* rrf_k
  Unit,       \* 1.0, in units of the boost
  MaxBoost,   \* the largest boost: 0.02 * (0.35 * 0.5 + 0.65 * 0.5)
  Boosts,     \* boosts of single memories
  Limit,      \* the caller's limit
  Denominator \* a common denominator of weight / (rrf_k + rank + 1), ranks from 0

Signals == <<"vector", "keyword", "graph">>

ASSUME WeightAssumption == Weight \in [ToSet(Signals) -> Nat \ {0}]
ASSUME BoostAssumption == /\ {RrfK, Unit, MaxBoost} \subseteq Nat \ {0} /\ MaxBoost < Unit
                          /\ \A b \in Boosts : b \in Int /\ -MaxBoost <= b /\ b <= MaxBoost
ASSUME LimitAssumption == Limit \in Nat \ {0}
ASSUME ExactAssumption == /\ IsFiniteSet(Mems) /\ Denominator \in Nat \ {0}
                          /\ \A i \in 1..Cardinality(Mems) : Denominator % (RrfK + i) = 0

VARIABLES
  hits,     \* per signal, the memories it returned, best first
  boost,    \* per memory, what recency and importance add to the multiplier
  ranked    \* the result; <<>> before the step

vars == <<hits, boost, ranked>>

Rankings == UNION {SetToSeqs(S) : S \in SUBSET Mems}

TypeOK ==
  /\ hits \in [ToSet(Signals) -> Rankings]
  /\ boost \in [Mems -> Boosts]
  /\ ranked \in Rankings /\ Len(ranked) <= Limit

-----------------------------------------------------------------------------
RankIn(l, m) == CHOOSE i \in 1..Len(l) : l[i] = m

(* Mutant: the position is counted from the end of the list. *)
ShareReversed(sig, m) ==
  IF m \in ToSet(hits[sig])
  THEN Weight[sig] * (Denominator \div (RrfK + Len(hits[sig]) + 1 - RankIn(hits[sig], m)))
  ELSE 0

(* What one signal adds to the fused score of m. *)
Share(sig, m) ==
  IF m \in ToSet(hits[sig]) THEN Weight[sig] * (Denominator \div (RrfK + RankIn(hits[sig], m)))
                            ELSE 0

Pool == UNION {ToSet(hits[sig]) : sig \in ToSet(Signals)}

(* _rrf_fuse: a dictionary whose keys keep the order of their first entry. *)
Fused(m) == Share("vector", m) + Share("keyword", m) + Share("graph", m)
Entries == hits["vector"] \o hits["keyword"] \o hits["graph"]
FirstEntry(m) == CHOOSE i \in 1..Len(Entries) :
                   Entries[i] = m /\ \A k \in 1..(i - 1) : Entries[k] # m

MinFused == Min({Fused(m) : m \in Pool})
Span == Max({Fused(m) : m \in Pool}) - MinFused

(* _normalize_fused_relevance, times Scale: all ones if all are equal. *)
Scale == IF Span = 0 THEN 1 ELSE Span
Relevance(m) == IF Span = 0 THEN 1 ELSE Fused(m) - MinFused

(* relevance * _tiebreak_multiplier, at most 1.0, times Scale * Unit. *)
Score(m) ==
  LET s == Relevance(m) * (Unit + boost[m]) IN IF s > Scale * Unit THEN Scale * Unit ELSE s

(* sort(reverse=True) is stable: equal scores stay in the order of the keys. *)
Precedes(m, n) ==
  \/ Score(m) > Score(n)
  \/ Score(m) = Score(n) /\ FirstEntry(m) < FirstEntry(n)
Sorted(S) == CHOOSE s \in SetToSeqs(S) : \A i, k \in 1..Len(s) : i < k => Precedes(s[i], s[k])

(* Mutant: the cut comes before the sort. *)
CutThenSort ==
  Sorted({m \in Pool : Cardinality({n \in Pool : FirstEntry(n) < FirstEntry(m)}) < Limit})

SortThenCut ==
  LET all == Sorted(Pool) IN SubSeq(all, 1, IF Len(all) < Limit THEN Len(all) ELSE Limit)

Init ==
  /\ hits \in [ToSet(Signals) -> Rankings]
  /\ boost \in [Mems -> Boosts]
  /\ ranked = <<>>

RankMemories ==
  /\ ranked = <<>> /\ Pool # {}
  /\ ranked' = SortThenCut
  /\ UNCHANGED <<hits, boost>>

Spec == Init /\ [][RankMemories]_vars

-----------------------------------------------------------------------------
(* Properties *)

(* m is nowhere behind n, and somewhere ahead of it. *)
AheadIn(sig, m, n) ==
  /\ m \in ToSet(hits[sig])
  /\ n \in ToSet(hits[sig]) => RankIn(hits[sig], m) < RankIn(hits[sig], n)
Dominates(m, n) ==
  /\ \A sig \in ToSet(Signals) : n \in ToSet(hits[sig]) => AheadIn(sig, m, n)
  /\ \E sig \in ToSet(Signals) : AheadIn(sig, m, n)

RankedBefore(m, n) ==
  n \in ToSet(ranked) => m \in ToSet(ranked) /\ RankIn(ranked, m) < RankIn(ranked, n)

(* Fusion, normalisation, the cap at 1.0 (which makes ties) and the stable *)
(* sort together: a memory that no signal ranks behind another one, and    *)
(* whose boost is no smaller, comes before it, and is never cut instead.   *)
DominanceIsKept ==
  ranked # <<>> =>
    \A m, n \in Pool : Dominates(m, n) /\ boost[m] >= boost[n] => RankedBefore(m, n)

(* _tiebreak_multiplier is a tie break: a memory is overtaken by a less    *)
(* relevant one only within the reach of the two boosts.                   *)
BoostOnlyBreaksNearTies ==
  ranked # <<>> =>
    \A m, n \in Pool :
      Relevance(m) * (Unit - MaxBoost) > Relevance(n) * (Unit + MaxBoost) => RankedBefore(m, n)
=============================================================================
