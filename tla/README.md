# Remex AI in TLA+

Remex (the service calls itself CMIS) is a memory service for agents. It takes in
facts about a user, decides with a "Write Gate" which of them become memories,
and gives memories back within a token budget. It is a FastAPI process, RQ worker
processes, Redis and PostgreSQL with pgvector.

This directory holds TLA+ modules translated from that code, TLC configurations
that check them on small instances, and theorems that TLAPS proves for instances of
any size: about the Write Gate in both its modes, its callers, the memory store, ranking,
the read path and its budget, the health route, the migrations and the evaluation harness.
Every safety property that the passing runs check is proved. `PROJECT.json` maps every
definition to the lines it stands for.

    tlc -workers 2 -config MCWriteGate_safety.cfg MCWriteGate     # model-check
    tlapm WriteGateProofs.tla                                     # check proofs, likewise
                                                                  # for each *Proofs module

## 1. Inventory

### Parts, their state and their operations

| Part | Source | State | Operations |
|---|---|---|---|
| Write Gate evaluation | `worker/write_gate.py`, `llm_providers.py`, `pii_filter.py`, `app/domain/policy.py` | locals of one evaluation; rows it commits; texts sent to providers | scan, ask provider after provider, judge locally, record a reject, encode, store |
| Queue and job status | `worker/queue.py`, `app/api/routes_memories.py` | RQ list, job status, meta and result in Redis; progress of each HTTP handler | check capacity, enqueue, save meta, poll, direct write |
| Worker and RQ | `worker/main.py`, RQ 2.1 (external) | which worker runs which job | take, finish, fail, clean up abandoned jobs, die, restart |
| Synchronous mode | `worker/queue.py` with `WRITE_GATE_SYNC` | marker and result under one Redis key; a daemon thread per job | mark, start thread, evaluate, store result, expire |
| Memory store | `app/retrieval/vector.py`, `graph_links.py`, `entities.py`, `app/audit/log.py`, `app/db/session.py` | tables `memories`, `memory_audit`, `memory_entity_links`; open transactions | store a memory, record an event, read a trail, search the graph |
| Ranking | `app/ranking/scorer.py` | three ranked lists | fuse, normalise, boost, cap, sort, cut |
| Context budget | `app/context/budgeter.py` | none | estimate, pack, place |
| Read path | `app/api/routes_retrieve.py`, `scorer.py`, `keyword.py`, `local_encoder.py` | one request and what its signals returned | encode, three signals, rank, respond, degrade |
| Health | `worker/main.py`, `worker/heartbeat.py`, `app/api/routes_health.py` | one Redis key, one loop and one client per worker, one probe | beat, back off, sleep, check |
| Migrations | `migrations/` | schema, privileges, policies, triggers, rows | upgrade, downgrade |
| Evaluation harness | `evals/run.py` | locals of one run; rows of a tenant of its own | load a suite, store candidates, query, compute, clean up, compare and write |
| A caller | the routes of `app/api/` it calls | what it was told, what it then asked | post, poll a job, retrieve |

How they interact: handlers call Redis through RQ, and workers take jobs from
Redis. Evaluations call providers over HTTP and PostgreSQL through one connection
per transaction. The read path opens one connection per signal. Workers and the
health route share one key. A caller learns a job's outcome from Redis and reads the memory from
PostgreSQL. The harness calls the gate and the retrievers in its own process, and
deletes what it wrote. All tables are filtered by row level security on the
tenant, and by `WHERE user_id` on the user, in the statements that have it.

### What is hard here

* Handlers check the queue depth and enqueue in separate Redis calls, and save the
  tenant in a third one, after a worker may already have taken the job.
* A work horse, a container or an API process can die at any step; commits whose
  acknowledgement is lost look like failures; `except Exception` in the judge chain
  swallows RQ's job timeout.
* PostgreSQL runs in READ COMMITTED: an audit trail is two statements, a graph search four, a
  retrieval up to six, each with a snapshot of its own.
* Any signal can fail; the encoder can be missing; replies must say so.
* All workers write one heartbeat key, with times taken before the write, and before the connection
  it may need. A write whose client gave up may still be applied.
* A poll of a job is three Redis calls. The job starts, finishes, is failed by maintenance or
  expires between them; any exception of the first one answers 404, an expired status 500.
* Revisions go up and down between writes.
* A suite may raise at each of its stores and queries, and its clean-up deletes from tables
  that a foreign key and append-only triggers guard.

`PROJECT.json` "hazards" lists each of these at its line, with the properties that
would catch it. Those no property covers, or covers only in part, have a note. Among them:

* a repost makes a second job, and no document promises otherwise;
* a verdict is lost when a job fails before its reject event is committed;
* the candidate's own importance never takes effect: neither the HTTP judge nor the local one sets
  an importance, the judge's default of 0.5 is taken instead, and a judge's 0.0 would be overruled (values
  the models abstract);
* a harness that is killed leaves its tenant's rows for ever, and a hybrid report does
  not say that signals failed while it was measured;
* synchronous mode has no bound on its threads;
* spellings are folded when a text is indexed and not when it is searched;
* a heartbeat may be stale as soon as it is stored, although no beat failed (section 6).

## 2. Modules

| Module | Models | Uses |
|---|---|---|
| `AdmissionLedger` | the abstract promise: each candidate is decided at most once, each client answered at most once and truthfully, nothing is decided after an answer | |
| `Evaluation` | the steps of `evaluate_candidate` and the rows they commit | |
| `WriteGate` | handlers, RQ list, workers, crashes | extends `Evaluation`; refines `AdmissionLedger` |
| `SyncGate` | synchronous mode | extends `Evaluation`; refines `AdmissionLedger` |
| `MemoryStore` | statements, transactions, row level security, the two multi-statement readers | |
| `Ranking` | `rank_memories` after the signals | |
| `ContextBudget` | the three pure functions of the budgeter, their loops as recursive functions | |
| `ReadPath` | one retrieve request beside commits | extends `ContextBudget` |
| `WorkerHealth` | heartbeats, their connections and the health route, in time units | |
| `Migrations` | the nine revisions as functions on the schema, runs of them, traffic | |
| `Session` | one caller that posts, polls call by call and retrieves | extends `WriteGate`; instantiates `ReadPath` on its rows |
| `EvalHarness` | one run of a suite, beside traffic, on any revision | extends `Migrations` |
| `EvaluationProofs` | lemmas on the steps of one evaluation, whoever runs it | extends `Evaluation` |
| `WriteGateProofs` | theorems about `WriteGate` and `Session` | extends `Session`, `EvaluationProofs`; instantiates `ReadPathProofs` |
| `SyncGateProofs` | theorems about `SyncGate` | extends `SyncGate`, `EvaluationProofs` |
| `MemoryStoreProofs` | theorems about `MemoryStore` | extends `MemoryStore` |
| `RankingProofs` | theorems about `Ranking` | extends `Ranking` |
| `ReadPathProofs` | what the loops of the budgeter compute; theorems about `ReadPath` | extends `ReadPath` |
| `WorkerHealthProofs` | theorems about `WorkerHealth` | extends `WorkerHealth` |
| `EvalHarnessProofs` | theorems about `Migrations` and `EvalHarness` | extends `EvalHarness` |

`MC*` modules give constants their values. Definitions named after a "Mutant:" comment
are plausible bugs: replacing the definition after them by such a bug violates the
property listed in `PROJECT.json` "mutants". They are used nowhere else.

### State and code

* **Evaluation.** `pc` is the line an evaluation stands at: `scan` (write_gate.py:43),
  `judge`/`asked` (:68, and the loop of `judge_with_fallback`), `reject` (:44 and :72),
  `encode` (:89), `store` (:91), or how it ended. `at` is the position in
  the judge chain, `disclosed` what has left the system. `memories` and `audit` hold
  committed rows per submission, with the part of `WriteGateTrace` that properties read.
  Texts are two bits: the filter blocks them (`Pii`), they state a user fact (`UserFacts`).
  A provider may answer anything, `update` included; only `admit` is stored.
  `RecordReject` and `StoreMemory` each have a disjunct where the transaction commits and the caller
  still sees an exception; `Raise` covers those that roll back.
* **WriteGate.** `api` is the progress of each handler. `CheckCapacity`, `Enqueue` and
  `SaveMeta` are the three Redis round trips of `evaluate_memory` and `HandlerFails`
  its 500 between any two, with no compensation. `TakeJob`, `FinishJob`, `FailJob` and
  `FailAbandoned` are RQ's, modelled from how the code uses it (one default queue, no
  retries, `result_ttl` a day, failed jobs kept). RQ takes a job for abandoned when a lease that the
  working process renews has run out; `FailAbandoned` when nobody works on it. So the model assumes that no
  lease runs out under a live evaluation, which `AnswersAreTrue` and `ImplementsLedger` rest on. `GetJobStatus` is an operator on the state: polling
  changes nothing. It is the answer of a poll at one instant; `Session` takes its calls apart.
* **SyncGate.** Marker before thread, result after evaluation. The marker of a
  thread that raised stays `queued`: clients see 404 when it expires, never the failure.
* **MemoryStore.** A writer's rows are its own until `Commit`. Readers see what is
  committed when each statement starts. `VisibleMems`, `VisibleAudits` and
  `VisibleLinks` are the policies; `OwnLinks` and `LookupMemory` add the `WHERE user_id`
  that the code has, `FetchHits` does not, as in the code. Names are numbers with a
  `Fold`, so that `extract_entities` and its casefold are modelled by what they do.
* **Ranking.** Scores are exact integers over a common `Denominator`, a constant that the ranks must divide.
  `Entries` is the order in which `_rrf_fuse` meets memory ids, so that `FirstEntry` orders the keys of its dictionary. The code uses floats; ties
  and order are those of exact arithmetic, and rounding is not modelled. The
  exponent of relevance is 1, as in the default weights. The decay that gives
  recency is an input in its range: `Boosts` are the extremes of the multiplier.
* **ReadPath.** Each signal succeeds with any hits its query may return or fails. `rank_memories` goes on
  unless both primary signals failed. Order is any order here. Commits go on before, during and after the request.
* **WorkerHealth.** `key` is the age of the stored time, `loop` what each heartbeat
  thread does and for how long, `open` whose client has a connection. `beat` reads the clock before `client.set`
  (`heartbeat.py:11`), and redis-py connects in there: a new client (`main.py:13`, `:19`) always, an old one if its connection
  was dropped. `socket_timeout` (`:15`) bounds each wait: the connect, the replies to two `CLIENT SETINFO`, the reply
  to `SET`. `Patience` is therefore `Timeout` over an open connection and `Opening` more without. A beat that lived through
  an outage or the loss of its connection is `hurt` and may fail; its SET may be applied later (`stray`).
  For the properties, `gone` is how long no worker has run, `steady` who has beaten and neither failed nor lost the
  connection since, `prompt` whether the time stored is of a beat over an open connection.
* **Migrations.** A schema is a record: tables, isolated tables, grants, default
  privileges, triggers, constraint. A run is one transaction, as `env.py` makes it.
  `Migrate` and `Traffic` are the two halves of its next-state relation.
* **Session.** `poll` is the Redis call that `get_job_status` makes next, `seen` the status
  it has read, `told` the last answer; a 404 or 500 tells the caller nothing. `Read` is `ReadPath`
  with `committed` mapped to the submissions that have a row, so that the signals find what
  the workers commit meanwhile. A result that is gone although the status was `finished` is left out of the answer.
* **EvalHarness.** `phase` is where `main` stands. `StoreRaises` has all three cases: nothing, a reject event,
  or a memory is committed when the exception comes, and no label is noted. The hits of `RunQuery` are
  any set of the tenant's rows, since the index is approximate and signals fail unseen. `CleanUp`
  is the `finally` block, where an exception takes the place of the report.

## 3. Runs

| Run | Instance | What it shows |
|---|---|---|
| `gate_safety` | 2 candidates (one with PII), 1 direct write, 2 workers, 1 remote judge, queue of 1, 2 handlers | `PiiStaysInside`, `DecidedOnce`, `DirectWriteIsAudited`, `OnlyOwnerSeesJob`, the inductive `GateInv`, and `ImplementsLedger` |
| `gate_load` | 3 candidates, 1 worker that dies and comes back, queue of 1, 2 handlers | `DepthIsBounded`: the depth exceeds its limit by less than the number of handlers; `EveryJobEnds` |
| `session` | 1 candidate, 1 worker, 1 remote judge, 1 retrieve request | `AnswersAreTrue`, `AnswersOnlyAdvance`, `ReadYourWrites`, `PollerIsAnswered` |
| `gate_depth` | 2 candidates | violation of `QueueIsBounded`, see section 6 |
| `gate_verdict` | 1 direct write | violation of `EveryRowHasPiiVerdict` |
| `store` | 1 writer, 1 reader, 3 memories, 3 owners (two tenants, one user id in both), 2 names, one in two spellings | `StoreIsAllOrNothing`, `TrailIsOwnAndComplete`, `GraphStaysWithOwner`, `GraphFindsAnchors` |
| `ranking` | 3 memories, all 4096 triples of ranked lists, lowest and highest boost, default weights | `DominanceIsKept`, `BoostOnlyBreaksNearTies` |
| `read` | 4 memories of three lengths, two budgets, limits 2 and 4 | `NothingLostSilently`, `ReplyIsLongestFittingPrefix`, `BestAtTheEdges` |
| `read_empty` | the same | violation of `AnyFailureEmptiesReply` |
| `sync` | 2 candidates (one with PII), 1 remote judge | `ImplementsLedger`, `FinishedIsFinal`, `QueuedEnds` |
| `health` | 2 workers, the times of the code in units of 5 s: interval 1, threshold 3, timeout 1, opening 3; backoff 1 | `OkMeansWorkerRan`, `SteadyWorkerIsFresh`, `FreshInTheEnd` |
| `evals` | 9 revisions, 2 memories of the service; a suite of 2 candidates and 2 queries, each of the three kinds | `SchemaFollowsVersion`, `ReachableTablesAreIsolated`, `ProvenanceFrom0005`, `HistoryIsAppendOnly`, `RunLeavesNoTrace`, `ReportCountsWhatIsStored` |

Why the bounds are enough:

* The gate's hazards involve two requests between check and enqueue, or one job and two
  workers (the one that dies and the one that cleans up). Two candidates, two workers and two
  handlers are the least that has both; one remote judge gives the chain a first, a next and a
  last position. Safety is proved without bounds anyway, here and in most other runs (section 5).
* `gate_load`: three requests are the least where two that passed the check together meet one that is refused.
  One worker that dies and returns cleans up after itself; death and clean-up by different
  workers are in `gate_safety`. Two workers and three jobs together have too many states.
* `session`: one job with one remote judge reaches all of admitted, rejected and failed, also by abandonment. Jobs do
  not share anything a poll reads. Direct writes are left out: their 201 is `DirectWriteIsAudited`.
  The budget holds the memory and the limit does not cut, `read` has the tight ones.
* The reader of `store` runs one request, with as many commits between
  its statements as there are ids. With limits of 2, 1 and 2 the anchor limit and the last cut drop candidates;
  the bridge limit never has more than one to drop, and anchors beyond `HitLimit` do not occur. For any limits,
  these included, `GraphIsComplete` is the theorem.
  Once the ids are used up only rejected writes go on; ids are the one bounded counter.
* `ranking` has all lists over three memories: every pattern of overlap, absence and
  disagreement between two memories, and a third one to shape the span. `Limit` 2 cuts.
* `read`: lengths 0, 4 and 12 characters are 0, 1 and 3 tokens, so budgets 2 and 4 stop before, at and
  after the first, second and third memory, and the first one alone may not fit. With limit 2 the
  limit cuts, and the candidate limit cuts the three keyword matches; with limit 4 four memories
  are placed, the least where the order of the tail shows. Several callers are `store`'s subject.
* `health`: opening is three timeouts, for the connect and the two replies. `SteadyWorkerIsFresh` is tight for what it speaks
  of, times stored over an open connection: it fails with 2 in place of the threshold of 3, because interval and twice the
  timeout add up to 3. Ages beyond the threshold are one value, and of the SETs given up
  one is kept. The second of backoff is rounded up to a unit. The unit is coarse, because time and liveness together are dear: with Redis up
  a beat over an open connection takes less than a unit, through an outage a whole one, and one that connects up to three.
  The theorems hold for any times.
* `evals`: a run of migrations goes from any revision to any other in one step; two memories give one with and
  one without provenance. Of the candidates one is labelled for admission and has entities, the other
  neither; one query has no relevant memory; hits are cut to one. Nobody migrates under a running
  suite. The run is made once: it keeps nothing that a second one would find but rows, whose ids are new.

`CHECK_DEADLOCK FALSE` appears where the model really stops: `ranking` after its
one step, `read` after the reply. Symmetry is used in `gate_safety` (workers) and
`read` (the memories of `Match`), never in a run with a liveness property.

## 4. Fairness

* `WriteGate!Fairness`: a live worker's RQ loop, the evaluation it runs and its
  maintenance are weakly fair: every call in them has a timeout (connect, HTTP, socket)
  or ends by itself, and `Worker.work` loops. Handlers,
  restarts and expiry are not fair: a client may go away, and `docker-compose.yml` has
  no restart policy. `EveryJobEnds` therefore assumes, in the property, a worker that stays up.
* `Session!SessionFairness` adds the caller's side: it keeps polling, and a Redis call of a poll
  does not fail every time it is made (strong fairness, since a failure starts the poll again). `PollerIsAnswered`
  therefore says nothing of a caller that takes a 404 for an answer.
  Expiry, handlers and the retrieve request are not fair.
* `SyncGate!Fairness`: a handler goes on or fails, threads run, and Redis expires keys.
* `WorkerHealth!FairSpec`: threads and probes are scheduled; time is strongly fair,
  because worker restarts and health requests may otherwise come infinitely often
  at one instant. Nothing makes Redis recover or a worker start. `FreshInTheEnd` assumes, in the property, that from some time
  on Redis is up, a worker runs, no connection is lost and no worker starts, since each of the last two brings a beat that has to connect.

## 5. Proofs

Each theorem is about every value of the constants that meets the named assumptions of the
modules. Unless said otherwise these only say that numbers are numbers, sets finite where
the code has finitely many, and special values outside the sets they mark.

| Module | Theorem | Property |
|---|---|---|
| `WriteGateProofs` | `GateInvariant` | `GateInv`, the inductive invariant |
| | `TypeCorrect`, `PiiNeverLeaves`, `AtMostOneDecision` | `TypeOK`, `PiiStaysInside`, `DecidedOnce` |
| | `DirectWritesAudited`, `DepthBound`, `StatusIsolation` | `DirectWriteIsAudited`, `DepthIsBounded`, `OnlyOwnerSeesJob` |
| | `LedgerRefinement` | `ImplementsLedger` |
| | `SessionTypes`, `AnswersTrue`, `AnswersAdvance` | `SessionTypeOK`, `AnswersAreTrue`, `AnswersOnlyAdvance` |
| | `SessionImplementsReadPath` | the session, its write path as the environment, implements `ReadPath` |
| | `OwnWritesAreRead` | `ReadYourWrites` |
| `SyncGateProofs` | `TypeCorrect`, `PiiNeverLeaves`, `AtMostOneDecision` | `TypeOK`, `PiiStaysInside`, `DecidedOnce` |
| | `FinishedStays`, `LedgerRefinement` | `FinishedIsFinal`, `ImplementsLedger` |
| `MemoryStoreProofs` | `StoreTypeCorrect`, `StoreIsAtomic` | `TypeOK`, `StoreIsAllOrNothing` |
| | `TrailIsComplete`, `GraphIsOwn`, `GraphIsComplete` | `TrailIsOwnAndComplete`, `GraphStaysWithOwner`, `GraphFindsAnchors` |
| `RankingProofs` | `TypeCorrect` | `TypeOK` (in no run) |
| | `DominanceHolds`, `BoostBreaksNearTies` | `DominanceIsKept`, `BoostOnlyBreaksNearTies` |
| | `RanksAsReadPathMay` | the ranked list is one that `ReadPath!RankHits` allows |
| `ReadPathProofs` | `TypeCorrect`, `NothingIsLostSilently` | `TypeOK`, `NothingLostSilently` |
| | `RepliesFillTheBudget`, `BestMemoriesAtTheEdges` | `ReplyIsLongestFittingPrefix`, `BestAtTheEdges` |
| `WorkerHealthProofs` | `TypeCorrect`, `OkIsTrue`, `SteadyKeepsFresh` | `TypeOK`, `OkMeansWorkerRan`, `SteadyWorkerIsFresh` |
| `EvalHarnessProofs` | `TypeCorrect`, `SchemaIsFresh`, `TenantsAreIsolated` | `EvalTypeOK`, `SchemaFollowsVersion`, `ReachableTablesAreIsolated` |
| | `ProvenanceHolds`, `HistoryGrows` | `ProvenanceFrom0005`, `HistoryIsAppendOnly` |
| | `NoTrace`, `ReportIsTrue` | `RunLeavesNoTrace`, `ReportCountsWhatIsStored` |

None of the safety properties among them is inductive. What each proof had to add:

**Write Gate** (any finite set of candidates, any workers, tenants, number of judges, queue depth
and number of handlers). `DecidedOnce` survives a crash only because a
job is taken once, and this rests on a chain of facts that `GateInv` names: a
queued job is on the list exactly once and untouched (`QueueInv`); a job a worker has
in hand is `started`, by no other worker (`WorkerInv`); an evaluation
at work has committed nothing yet, and where it stands tells its verdicts
(`PathInv`); a job that has ended keeps an outcome that agrees with its rows (`ResultInv`); a
handler's progress tells whether its job exists (`HandlerInv`); a direct write follows
the same path (`DirectInv`). The proof adds that a judge being asked is one of the chain, which
`TypeOK` needs. `NextTypes` comes first. `NextControl` shows that control
(queue, status, workers) keeps its part whatever the evaluation does, from frame lemmas that say which
variables a step leaves alone. `NextRows` shows that rows change only for a job in hand, and
then as `PathInv` says. `NextDepth` counts: `Enqueue` turns a checked handler into
a list entry, so their sum grows only in `CheckCapacity`, below the limit, and the handlers
are at most `MaxHandlers`. `NextInv` joins them. For the refinement each action maps to `Decide`,
`Reply` or a stutter, from the invariant and from `EndedStays` and `FinishedByWorker`.
`gate_safety` checks `GateInv` beside the properties.

**Synchronous mode.** The lemmas of `EvaluationProofs` (which step may leave, begin or end an evaluation,
and what it commits) are those of the Write Gate. Its own part is
`ThreadInv`: a thread tells whether an evaluation is at work, a marker says `finished` only once the thread
has stored the outcome, and never before the handler wrote `queued`. That last
order is what `FinishedStays` needs, and what makes an answer of the ledger final.

**A caller's polls.** `PollInv` says of each poll under way that what it has read has not been overtaken: a status
read as `finished` may expire but not change. It needs `StatusAdvances`, and `AtWork`, that an
evaluation at work is in the hands of a worker, since maintenance fails a job while nobody works on it.

**A caller that reads what it wrote.** `ReadSteps` shows that a session is a behaviour of `ReadPath`: `OneCommit`, any
step of handlers, workers and evaluations adds one row at most, and polls add none, so all of it is `CommitMemory` or a
stutter to a retrieval. The theorems of `ReadPathProofs` then hold of the session's retrieval. `KnewInv`, what
the caller knew when it asked was committed before, comes from `AnswersAreTrue` for polls and from `DirectWriteIsAudited`
for a 201; `NothingLostSilently` carries it to the reply. `SessionAssumption` says that the constants of
`Session` are numbers where `ReadPath` wants numbers, and direct writes finitely many.

**Read path** (any finite set of memories and of those that match, any lengths, budgets and limits). First, what the loops of
the budgeter compute: `LoopRuns` shows that a loop over any list is a function on its rounds, `Packing` that
packing takes the longest prefix that fits, `Placement` that placing puts item 2k - 1 at place k from the front and
item 2k at place k from the back. These are inductions; `SetInduction` and `LoopInduction` derive them from
the well-founded order of the naturals, with the set of good rounds in place of a predicate. `ReadInv` is the invariant: the keyword
signal, if it did not fail, has put into the pool what matched at the start, as far as its limit allows (`KeywordsKept`); what is ranked is the pool, cut only
by the limit (`RankedIsPool`); the reply is what packing and placing make of it (`ReplyIsBuilt`). The total of a reply does not depend on
its order, which an exchange argument shows (`SumOfUpdate`).

**Ranking** (any finite set of memories, any lists, weights, boosts, limits). The code's sort is a choice among the enumerations of the pool, and a
choice says nothing until one is shown to exist: score and first entry order the pool strictly and totally (`PrecedesOrders`), the number of
memories before one is its place, and no place is empty (`EveryPlaceIsTaken`). `FusedIs` shows that a memory that dominates
another has no smaller sum of shares and `DominatorEntersFirst` that it enters the dictionary earlier, which decides
ties, those the cap at 1.0 makes included. For the boosts, `ScoreBeyondReach` compares products. `ExactAssumption` says that
`Denominator` is a multiple of each `RrfK` + rank, so that no division rounds; the proofs use its other conjuncts only: the order
of scores would survive rounding down. `RanksAsReadPathMay` connects the two modules: the list is a cut of an enumeration of
the pool, so what is proved of replies under any order holds under this one.

**Memory store** (any sessions, owners, names, texts and limits). `WriteInv` says what an open transaction has written at
each point: the memory with its owner and its names, then the admit event, then one link for each name that is not still to do;
and that ids are drawn once (`IdInv`). So a commit makes all visible at once. `ReadInv`
follows a request through its statements: every id the searches hold belongs to a memory of the caller, and the
anchors that were committed at the start are all held once the first statement found fewer than its limit.
Memories are never taken back, so these facts last from one snapshot to the next; `GraphIsOwn` follows
without a user filter in `FetchHits`. `OwnerAssumption` says an owner is a pair of a tenant and a user.

**Health** (any workers, any times). `OkMeansWorkerRan` needs no relation between the times:
`GoneInv` says that while no worker runs, the stored time, and that of a stray SET, is at least as old as the absence of all workers.
`SteadyKeepsFresh` has a hypothesis, in the theorem and not in the module: Interval + 2 * Timeout <= StaleAfter. The defaults meet
it with equality (5 + 2 * 5 <= 15), and the theorem says no more than its property: the time stored last is of a
beat over an open connection, whose only wait is that for the reply to `SET`. It does not cover beats that connect first.
`SteadyInv` bounds the age of such a time by where the steady worker's thread stands: its beat took up to `Timeout` and stored a
time that old, the sleep takes `Interval`, and the next beat may take `Timeout` again, since a steady worker has a connection.

**Migrations and harness** (any memories, suite, traffic and sequence of runs). `SchemaAt` writes the
schema of each revision down, field by field. `Revision1` to `Revision9` show that each revision leads from one to the
next and back; an induction over the natural numbers carries this through a run of any length, so
that `SchemaInv`, the schema is that of the version, is an invariant. Isolation,
immutable history and provenance are then read off `SchemaAt`, and the rows follow from what its
triggers and constraint let a statement do. `TraceInv` says which rows of the suite can exist in each phase of
`main`. `StoredInv` says that the labels noted are of rows that are stored: nothing can remove the admit event of such a row
while the suite runs, so the report's counts stay true.

The invariants were checked with TLC first, on the instances of the runs. What the attempts to prove found wrong in
the models is corrected in them: the age a late beat stores grew past the largest one in `WorkerHealth` when
`Timeout` exceeds `StaleAfter` + 1 (`AgeOf` now caps it), two guards in `Session!ReadResult` overlapped, and
`ReadPath` let nothing be committed after the reply, which `Session` does.

Only model-checked:

* Liveness: `EveryJobEnds`, `PollerIsAnswered`, `QueuedEnds`, `FreshInTheEnd`. The prover does not reach it.

The theorem modules have no use for the library's induction rules, whose parameter is an operator; where an
induction is needed, over migrations or over the rounds of a loop, it goes over a set of numbers.

## 6. Where code and documents differ

* **`gate_depth`.** ADR-0003 says of the queue "bounded queue, `429` on overflow". The depth is read at `routes_memories.py:94` and the job
  enqueued at :107. Two requests that pass the check together leave two jobs in a queue
  of one. `DepthIsBounded` is what holds.
* **`gate_verdict`.** `.genesis/context-graph.json:82` says every row of `memories` has a PII verdict. `POST /v1/memories`
  stores rows without one. Through the gate every row has one (`DecidedOnce`).
* **`read_empty`.** `.genesis/context-graph.json:72` says any internal failure of the read path gives an empty reply. One failed signal
  leaves a partial reply with `degraded: true`, and the code's log messages say it is meant. `NothingLostSilently` is what holds.

Some facts are worth knowing and are outside the models or contradict no document. A single beat that times out costs 5 + 1 + 5 s
and may turn health to degraded for a live worker. So may a beat that does not fail but has to connect, as each worker's first one
and one after a dropped connection: it may wait 5 s to connect, 5 s for each `CLIENT SETINFO` and 5 s for `SET`, all after
`time.time()`. A time stored 10 s old is 15 s old at the end of the sleep, and stale before the next `SET` is. And a synchronous evaluation that raises is
never reported: its status stays `queued` for a day. `evals/show.py:23` formats every value of a comparison
as a float, and the comparison of a hybrid report has the string `vector_only_on_suite` under `basis`
(`evals/run.py`), so `reports/hybrid.json` cannot be shown. ADR-0002:17 counts an importance signal at write time
among its benefits; as section 1 says, the candidate's has no effect.

## 7. Not modelled

* Authentication and wiring (`deps_auth.py`, `main.py`, `config.py`): stateless; identities and
  settings are constants.
* `evals/show.py` and the suites and reports: formatting and data. `tests/`: read as documentation.
* Conflict resolver, decay job, reflection agent: planned in `.genesis/`, not in the source.
* Contents of prompts, regular expressions, vectors, timestamps, JSON layout.
* Redis restarting with an old snapshot, which may lose or repeat jobs; it is the
  container's persistence and no code handles it. Redis losing the heartbeat key is modelled.
* RQ's lease on a job running out while its process lives, and clocks (a job failed while it is still worked on).
* Name resolution, which `socket_timeout` does not bound, before a heartbeat client connects; several addresses for one name;
  more than one SET given up at a time; clocks of workers and API that differ.
* `TRUNCATE` by the owner of the tables: the append-only triggers of 0006 are row triggers for UPDATE and DELETE and do not fire on it.
* A session that sets `app.bypass_audit_immutability`, other than the clean-up of `EvalHarness`, which is
  the only code outside the tests that does.
* Float rounding in `Ranking`.

## 8. Plan

Done, in this order: `AdmissionLedger`, `Evaluation`, `WriteGate` and its proofs, `MemoryStore`, `Ranking`,
`ContextBudget` and `ReadPath`, `SyncGate`, `WorkerHealth`, `Migrations`, `Session`, `EvalHarness`.

Next:

1. Model: `MemoryStore` with two writers and two readers on smaller instances, and the
   graph search with archived memories once code sets a status other than active.
2. Abstract specification: a reader's promise for `MemoryStore` (a reply equals what some set of
   commits between request and reply gives).
