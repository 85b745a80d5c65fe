------------------------------ MODULE ReadPath ------------------------------
(***************************************************************************)
(* GET /v1/memories:retrieve (app/api/routes_retrieve.py) for one caller:  *)
(* the encoder, the three signals one after the other, each on a           *)
(* connection and a snapshot of its own and each free to fail, the ranking,*)
(* the budget and the reply, while the caller's memories go on being       *)
(* committed.                                                              *)
(*                                                                         *)
(* Mems are the memories of the caller: MemoryStore has what keeps the     *)
(* others out.  The order of the ranked list is any order (module Ranking  *)
(* has which); what matters here is which memories are in it.              *)
(***************************************************************************)
EXTENDS ContextBudget, FiniteSets, Integers

CONSTANTS
  Mems,         \* the caller's memories
  Match,        \* those the keyword query matches
  HasEntities,  \* whether extract_entities finds anything in the query
  Lengths,      \* lengths of contents
  Budgets,      \* token budgets callers ask for
  Limits,       \* limits callers ask for
  Multiplier    \* candidate_multiplier

ASSUME ReadAssumption == /\ IsFiniteSet(Mems) /\ Match \subseteq Mems
                         /\ HasEntities \in BOOLEAN
                         /\ Lengths \subseteq Nat /\ Budgets \subseteq Nat \ {0}
                         /\ Limits \subseteq Nat \ {0} /\ Multiplier \in Nat

VARIABLES
  committed,  \* memories whose transaction has committed
  length,     \* per memory, the length of its content
  budget,     \* token_budget
  limit,      \* limit
  phase,      \* where the request stands
  before,     \* for the properties: what was committed when it began
  pool,       \* the memories the signals have returned so far
  failed,     \* signals that raised
  ranked,     \* RankedRetrieveResult.hits
  reply       \* RetrieveResponse

vars == <<committed, length, budget, limit, phase, before, pool, failed, ranked, reply>>
request == <<length, budget, limit, before>>

Signals == {"vector", "keyword", "graph"}
NoReply == [memories |-> <<>>, token_count |-> 0, degraded |-> FALSE]
DegradedResponse == [memories |-> <<>>, token_count |-> 0, degraded |-> TRUE]

Orders == UNION {SetToSeqs(S) : S \in SUBSET Mems}

TypeOK ==
  /\ committed \subseteq Mems /\ before \subseteq committed
  /\ length \in [Mems -> Lengths] /\ budget \in Budgets /\ limit \in Limits
  /\ phase \in {"idle", "encode", "vector", "keyword", "graph", "rank", "pack", "replied"}
  /\ pool \subseteq committed /\ failed \subseteq Signals
  /\ ranked \in Orders /\ reply.memories \in Orders
  /\ reply.degraded \in BOOLEAN /\ reply.token_count \in Nat

Init ==
  /\ committed = {} /\ before = {}
  /\ length \in [Mems -> Lengths] /\ budget \in Budgets /\ limit \in Limits
  /\ phase = "idle" /\ reply = NoReply
  /\ pool = {} /\ failed = {} /\ ranked = <<>>

CandidateLimit == IF Multiplier = 0 THEN limit ELSE limit * Multiplier

-----------------------------------------------------------------------------
(* Another request of the caller commits. *)
CommitMemory ==
  /\ \E m \in Mems \ committed : committed' = committed \cup {m}
  /\ UNCHANGED <<request, phase, pool, failed, ranked, reply>>

Ask ==
  /\ phase = "idle"
  /\ phase' = "encode"
  /\ before' = committed
  /\ UNCHANGED <<committed, length, budget, limit, pool, failed, ranked, reply>>

(* get_encoder_or_none gave an encoder, and it encodes the query. *)
EncodeQuery ==
  /\ phase = "encode"
  /\ phase' = "vector"
  /\ UNCHANGED <<committed, request, pool, failed, ranked, reply>>

(* Mutant: the hits of a signal take the place of those before. *)
SignalOverwrites(s, next, hits) ==
  /\ phase = s
  /\ phase' = next
  /\ \/ pool' \in hits /\ UNCHANGED failed
     \/ failed' = failed \cup {s} /\ UNCHANGED pool
  /\ UNCHANGED <<committed, request, ranked, reply>>

(* One signal: its hits, or an exception that is logged and remembered. *)
Signal(s, next, hits) ==
  /\ phase = s
  /\ phase' = next
  /\ \/ (\E h \in hits : pool' = pool \cup h) /\ UNCHANGED failed
     \/ failed' = failed \cup {s} /\ UNCHANGED pool
  /\ UNCHANGED <<committed, request, ranked, reply>>

UpTo(n, S) == {h \in SUBSET S : Cardinality(h) <= n}

(* Mutant: rows that are not committed are seen. *)
VectorSignalOfAnyone == Signal("vector", "keyword", UpTo(CandidateLimit, Mems))

(* retrieve_similar: the HNSW index is approximate, rows may be missing. *)
VectorSignal == Signal("vector", "keyword", UpTo(CandidateLimit, committed))

(* search_keywords: all matches, or the best CandidateLimit of them. *)
KeywordSignal ==
  LET matches == committed \cap Match
  IN  Signal("keyword", IF HasEntities THEN "graph" ELSE "rank",
             IF Cardinality(matches) <= CandidateLimit THEN {matches}
             ELSE {h \in SUBSET matches : Cardinality(h) = CandidateLimit})

(* search_graph, for queries that name an entity. *)
GraphSignal == Signal("graph", "rank", UpTo(CandidateLimit, committed))

(* rank_memories goes on unless both primary signals failed. *)
RankHits ==
  /\ phase = "rank"
  /\ phase' = "pack"
  /\ ~ {"vector", "keyword"} \subseteq failed
  /\ \E order \in SetToSeqs(pool) :
       ranked' = SubSeq(order, 1, IF Len(order) < limit THEN Len(order) ELSE limit)
  /\ UNCHANGED <<committed, request, pool, failed, reply>>

Packed == PackIntoBudget(ranked, length, budget)

Respond ==
  /\ phase = "pack"
  /\ phase' = "replied"
  /\ reply' = [memories |-> PlaceHeadTail(Packed),
               token_count |-> TotalTokenCount(PlaceHeadTail(Packed), length),
               degraded |-> failed # {}]
  /\ UNCHANGED <<committed, request, pool, failed, ranked>>

(* No encoder, or any exception outside the signals, the one that          *)
(* rank_memories raises when both primary signals failed included.         *)
Degrade ==
  /\ phase \in {"encode", "rank", "pack"}
  /\ phase' = "replied"
  /\ reply' = DegradedResponse
  /\ UNCHANGED <<committed, request, pool, failed, ranked>>

Next == \/ CommitMemory
        \/ Ask
        \/ EncodeQuery
        \/ VectorSignal
        \/ KeywordSignal
        \/ GraphSignal
        \/ RankHits
        \/ Respond
        \/ Degrade

Spec == Init /\ [][Next]_vars

-----------------------------------------------------------------------------
(* Properties *)

Replied == phase = "replied"
Tokens(S) == TotalTokenCount(SetToSeq(S), length)

(* "degraded": false is a promise: no signal failed, and each memory that  *)
(* the keywords match and that was committed when the request came in is   *)
(* in the reply, unless the limit or the budget is exhausted.  A failed    *)
(* vector or graph signal takes none of them away.                         *)
NothingLostSilently ==
  Replied /\ reply # DegradedResponse =>
    /\ reply.degraded <=> failed # {}
    /\ "keyword" \notin failed /\ Cardinality(pool) < limit /\ Tokens(pool) <= budget
         => before \cap Match \subseteq ToSet(reply.memories)

(* pack_into_budget: the reply is the longest beginning of the ranked list *)
(* whose estimate fits the budget: nothing overflows it, no better memory  *)
(* is skipped for a shorter one, nothing that fits is left out.            *)
ReplyIsLongestFittingPrefix ==
  Replied /\ reply # DegradedResponse =>
    LET n == Len(reply.memories)
    IN  /\ ToSet(reply.memories) = ToSet(SubSeq(ranked, 1, n))
        /\ reply.token_count = TotalTokenCount(SubSeq(ranked, 1, n), length)
        /\ reply.token_count <= budget
        /\ n < Len(ranked) => TotalTokenCount(SubSeq(ranked, 1, n + 1), length) > budget

(* place_head_tail: the better a memory is ranked, the nearer it is to an  *)
(* end of the reply, the best at the head and the second at the tail.      *)
EdgeDistance(m) ==
  LET n == Len(reply.memories)
      p == CHOOSE i \in 1..n : reply.memories[i] = m
  IN  IF p <= n + 1 - p THEN p ELSE n + 1 - p
BestAtTheEdges ==
  Replied =>
    LET n == Len(reply.memories)
    IN  /\ \A i, k \in 1..n : i < k => EdgeDistance(ranked[i]) <= EdgeDistance(ranked[k])
        /\ n >= 2 => reply.memories[1] = ranked[1] /\ reply.memories[n] = ranked[2]

-----------------------------------------------------------------------------
(* .genesis/context-graph.json, read_path_fails_open: "On any internal     *)
(* failure it returns HTTP 200 with {memories: [], degraded: true}".       *)
AnyFailureEmptiesReply == Replied /\ failed # {} => reply = DegradedResponse
=============================================================================
