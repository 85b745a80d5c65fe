----------------------------- MODULE EvalHarness -----------------------------
(***************************************************************************)
(* python -m evals.run (evals/run.py): one run of a labelled suite against *)
(* the migrated database (module Migrations) beside the service's traffic. *)
(* The run stores its candidates under a tenant of its own, queries them,  *)
(* computes the report, and in a finally block deletes the tenant's rows,  *)
(* the one place in the repository that lifts the append-only triggers.    *)
(***************************************************************************)
EXTENDS Migrations

CONSTANTS
  Candidates,   \* the suite's memories, named by their labels
  ShouldAdmit,  \* those labelled should_admit
  Linked,       \* those in whose content extract_entities finds something
  Queries, Relevant, K

ASSUME SuiteAssumption == /\ IsFiniteSet(Candidates) /\ IsFiniteSet(Queries)
                          /\ Candidates \cap MemIds = {}
                          /\ ShouldAdmit \subseteq Candidates /\ Linked \subseteq Candidates
                          /\ Relevant \in [Queries -> SUBSET Candidates] /\ K \in Nat

Suites == {"baseline", "write_gate", "hybrid"}

VARIABLES
  phase,    \* where the run stands
  suite,    \* --suite
  ranAt,    \* the revision the run began at
  todo,     \* candidates not stored yet
  labels,   \* the labels of labels_by_id
  found,    \* query_results, of the first round and for hybrid of a second
  report    \* its metrics

runVars == <<phase, suite, ranAt, todo, labels, found, report>>
evalVars == <<vars, runVars>>

Ratios == Nat \X (Nat \ {0})
NoReport == [precision |-> <<0, 1>>, recall |-> <<0, 1>>, at_k |-> <<>>]

(* "ended" with or without a file, "dirty" if the clean up raised, "lost"  *)
(* if the process or the database went away under it.                      *)
EvalTypeOK ==
  /\ version \in 0..Head /\ db \in Schemas
  /\ mems \subseteq [id : MemIds \cup Candidates, empty : BOOLEAN]
  /\ audits \subseteq [mem : MemIds \cup Candidates, altered : BOOLEAN]
  /\ phase \in {"idle", "storing", "querying", "cleanup", "returned",
                "raised", "written", "dirty", "lost"}
  /\ suite \in Suites /\ ranAt \in 0..Head
  /\ todo \subseteq Candidates /\ labels \subseteq Candidates \ todo
  /\ found \subseteq [round : 1..2, query : Queries, hits : SUBSET labels]
  /\ report.precision \in Ratios /\ report.recall \in Ratios
  /\ \A i \in DOMAIN report.at_k : report.at_k[i] \in Ratios

EvalInit ==
  /\ Init
  /\ phase = "idle" /\ suite \in Suites /\ ranAt = 0
  /\ todo = Candidates /\ labels = {} /\ found = {} /\ report = NoReport

(* A process that is gone takes its locals with it. *)
LocalsGone == todo' = Candidates /\ labels' = {} /\ found' = {} /\ report' = NoReport

Running == phase \in {"storing", "querying", "cleanup"}

-----------------------------------------------------------------------------
(* _load_suite and get_encoder, which may raise before there is anything   *)
(* to clean up.                                                            *)
LoadSuite ==
  /\ phase = "idle"
  /\ phase' \in {"storing", "raised"}
  /\ ranAt' = version
  /\ UNCHANGED <<vars, suite, todo, labels, found, report>>

(* store_memory as it is now: the entity links are in the transaction. *)
Store(c) ==
  /\ c \in Linked => Allowed("INSERT", "memory_entity_links")
  /\ InsertMemory(c, FALSE)

(* The write_gate suite goes through evaluate_candidate, which may reject: *)
(* an audit row alone.                                                     *)
RejectedByGate(c) ==
  /\ suite = "write_gate"
  /\ Allowed("INSERT", "memory_audit")
  /\ audits' = audits \cup {[mem |-> c, altered |-> FALSE]}
  /\ UNCHANGED <<version, db, mems>>

(* Mutant: the outcome is not looked at. *)
StoreCandidateWhatever(c) ==
  /\ phase = "storing" /\ c \in todo
  /\ todo' = todo \ {c}
  /\ Store(c) \/ RejectedByGate(c)
  /\ labels' = labels \cup {c}
  /\ UNCHANGED <<phase, suite, ranAt, found, report>>

StoreCandidate(c) ==
  /\ phase = "storing" /\ c \in todo
  /\ todo' = todo \ {c}
  /\ \/ Store(c) /\ labels' = labels \cup {c}
     \/ RejectedByGate(c) /\ UNCHANGED labels
  /\ UNCHANGED <<phase, suite, ranAt, found, report>>

(* Storing raises, before or after its commit, and no label is noted. *)
StoreRaises(c) ==
  /\ phase = "storing" /\ c \in todo
  /\ phase' = "cleanup"
  /\ Store(c) \/ RejectedByGate(c) \/ UNCHANGED vars
  /\ UNCHANGED <<suite, ranAt, todo, labels, found, report>>

-----------------------------------------------------------------------------
Rounds == 1..(IF suite = "hybrid" THEN 2 ELSE 1)
Pending == (Rounds \X Queries) \ {<<f.round, f.query>> : f \in found}
Stored == {m.id : m \in mems} \cap Candidates

(* _run_queries, one query: at most K of the tenant's rows, any of them,   *)
(* since the vector index is approximate and the hits of a hybrid search   *)
(* count whatever signals failed.  A hit without a label is a KeyError,    *)
(* and the retriever itself may raise.                                     *)
RunQuery ==
  /\ phase \in {"storing", "querying"} /\ todo = {}
  /\ \E p \in Pending, hits \in SUBSET Stored :
       /\ \A o \in Pending : p[1] <= o[1]
       /\ Cardinality(hits) <= K
       /\ \/ /\ hits \subseteq labels
             /\ found' = found \cup {[round |-> p[1], query |-> p[2], hits |-> hits]}
             /\ phase' = "querying"
          \/ phase' = "cleanup" /\ UNCHANGED found
  /\ UNCHANGED <<vars, suite, ranAt, todo, labels, report>>

Ratio(n, d) == IF d = 0 THEN <<0, 1>> ELSE <<n, d>>

Retrieved(r) == UNION {{f.query} \X f.hits : f \in {g \in found : g.round = r}}
Matched(r) == {p \in Retrieved(r) : p[2] \in Relevant[p[1]]}

(* The second round of a hybrid suite is the vector search it is compared  *)
(* with.                                                                   *)
ComputeMetrics ==
  /\ phase = "querying" /\ Pending = {}
  /\ report' = [precision |-> Ratio(Cardinality(labels \cap ShouldAdmit), Cardinality(labels)),
                recall |-> Ratio(Cardinality(labels \cap ShouldAdmit), Cardinality(ShouldAdmit)),
                at_k |-> [r \in Rounds |-> Ratio(Cardinality(Matched(r)), Cardinality(Retrieved(r)))]]
  /\ phase' = "cleanup"
  /\ UNCHANGED <<vars, suite, ranAt, todo, labels, found>>

-----------------------------------------------------------------------------
(* Whether DELETEs from these tables, in this order, all run: the table    *)
(* exists, its trigger lets the statement through, and no audit row is     *)
(* left that refers to a memory.  Entity links go with their memory.       *)
DeletesRun(order, bypass) ==
  \A i \in DOMAIN order :
    /\ order[i] \in db.tables
    /\ order[i] = "memory_audit" /\ "DELETE" \in db.triggers => bypass
    /\ order[i] = "memories" =>
         \/ \E k \in 1..(i - 1) : order[k] = "memory_audit"
         \/ \A a \in audits : a.mem \notin Stored

(* Mutant: memories before the rows that refer to them. *)
CleanUpRunsSwapped ==
  DeletesRun(<<"memory_entity_links", "memories", "memory_audit">>, TRUE)

CleanUpRuns ==
  DeletesRun(<<"memory_audit", "memory_entity_links", "memories">>, TRUE)

(* The finally block: one transaction of the owner.  An exception in it    *)
(* takes the place of the report.                                          *)
CleanUp ==
  /\ phase = "cleanup"
  /\ IF CleanUpRuns
     THEN /\ mems' = {m \in mems : m.id \notin Candidates}
          /\ audits' = {a \in audits : a.mem \notin Candidates}
          /\ phase' = IF report = NoReport THEN "raised" ELSE "returned"
     ELSE phase' = "dirty" /\ UNCHANGED <<mems, audits>>
  /\ LocalsGone
  /\ UNCHANGED <<version, db, suite, ranAt>>

(* compare_reports raises if the baseline is of another dataset, unless    *)
(* the report brings its own vector round to compare with.                 *)
Refused(baseline) == baseline = "other dataset" /\ suite # "hybrid"

(* main, with or without --compare.  If that raises nothing is written. *)
WriteReport ==
  /\ phase = "returned"
  /\ \E baseline \in {"none", "same dataset", "other dataset"} :
       phase' = IF Refused(baseline) THEN "raised" ELSE "written"
  /\ UNCHANGED <<vars, suite, ranAt, todo, labels, found, report>>

(* The process is killed, or the database is gone when the clean up runs.  *)
Lost ==
  /\ Running
  /\ phase' = "lost"
  /\ LocalsGone
  /\ UNCHANGED <<vars, suite, ranAt>>

Run == \/ LoadSuite
       \/ \E c \in Candidates : StoreCandidate(c) \/ StoreRaises(c)
       \/ RunQuery
       \/ ComputeMetrics
       \/ CleanUp
       \/ WriteReport
       \/ Lost

(* Nobody migrates the database under a running suite; requests go on. *)
EvalNext == \/ Run
            \/ ~ Running /\ Migrate /\ UNCHANGED runVars
            \/ Traffic /\ UNCHANGED runVars

EvalSpec == EvalInit /\ [][EvalNext]_evalVars

-----------------------------------------------------------------------------
(* Properties *)

(* evaluate_suite's finally block: however the run ends, by its report or  *)
(* by an exception at any step, no row of its tenant is left, rows of      *)
(* raised evaluations and of rejected candidates included.  It needs the   *)
(* tables of revision 0007, and a live process and database.               *)
RunLeavesNoTrace ==
  /\ phase \in {"returned", "raised", "written"} =>
       /\ \A m \in mems : m.id \notin Candidates
       /\ \A a \in audits : a.mem \notin Candidates
  /\ phase = "dirty" => ranAt < 7

(* The report speaks of the database: the labels it counts as admitted     *)
(* name the rows that are stored when it is made, and each round's hits    *)
(* are among them.  (Before revision 0006 somebody may delete rows.)       *)
ReportCountsWhatIsStored ==
  phase = "cleanup" /\ report # NoReport /\ ranAt >= 6 =>
    /\ report.precision = Ratio(Cardinality(Stored \cap ShouldAdmit), Cardinality(Stored))
    /\ report.recall = Ratio(Cardinality(Stored \cap ShouldAdmit), Cardinality(ShouldAdmit))
    /\ \A f \in found : f.hits \subseteq Stored
=============================================================================
