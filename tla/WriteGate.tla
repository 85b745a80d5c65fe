------------------------------ MODULE WriteGate ------------------------------
(***************************************************************************)
(* The write path as deployed: FastAPI handlers (app/api/                  *)
(* routes_memories.py) put candidates on a Redis list through RQ           *)
(* (worker/queue.py), worker processes take them off and run               *)
(* evaluate_candidate (module Evaluation), clients poll the job status.    *)
(* Handlers, workers and the database interleave freely; a handler may     *)
(* fail between two Redis calls, a work horse may be killed and a worker   *)
(* container may die and perhaps come back, at any step.                   *)
(***************************************************************************)
EXTENDS Evaluation, FiniteSets

CONSTANTS
  Workers,         \* worker containers; each runs one job at a time
  MaxQueueDepth,   \* write_gate_max_queue_depth
  MaxHandlers,     \* evaluate requests the API serves at once (its thread pool)
  Tenants,
  TenantOf,        \* the tenant of each job's authenticated caller
  NoJob,
  NoTenant

ASSUME JobsAssumption == IsFiniteSet(Jobs) /\ NoJob \notin Jobs
ASSUME TenantAssumption == TenantOf \in [Jobs -> Tenants] /\ NoTenant \notin Tenants
ASSUME LimitsAssumption == MaxQueueDepth \in Nat /\ MaxHandlers \in Nat \ {0}

VARIABLES
  api,      \* what the HTTP handler of each submission has done
  queue,    \* the RQ list
  status,   \* RQ job status; "none" and "expired" have no key in Redis
  meta,     \* job.meta["tenant_id"]
  result,   \* the stored return value
  up,       \* workers whose container runs
  running   \* the job each worker has taken

gateVars == <<api, queue, status, meta, result, up, running>>
vars == <<evalVars, gateVars>>

Statuses == {"none", "queued", "started", "finished", "failed", "expired"}

TypeOK ==
  /\ EvaluationTypeOK
  /\ api \in [Submissions ->
               {"new", "checked", "enqueued", "accepted", "busy", "writing", "created", "error"}]
  /\ queue \in Seq(Jobs)
  /\ status \in [Jobs -> Statuses]
  /\ meta \in [Jobs -> Tenants \cup {NoTenant}]
  /\ result \in [Jobs -> Outcomes]
  /\ up \in SUBSET Workers
  /\ running \in [Workers -> Jobs \cup {NoJob}]

Init ==
  /\ EvaluationInit
  /\ api = [s \in Submissions |-> "new"]
  /\ queue = <<>>
  /\ status = [j \in Jobs |-> "none"]
  /\ meta = [j \in Jobs |-> NoTenant]
  /\ result = [j \in Jobs |-> "none"]
  /\ up = Workers
  /\ running = [w \in Workers |-> NoJob]

Checked == {j \in Jobs : api[j] = "checked"}
InHandler == {j \in Jobs : api[j] \in {"checked", "enqueued"}}

-----------------------------------------------------------------------------
(* API handlers *)

(* Mutant: off by one. *)
CheckCapacityAtMost(j) ==
  /\ api[j] = "new"
  /\ Cardinality(InHandler) < MaxHandlers
  /\ api' = [api EXCEPT ![j] = IF Len(queue) <= MaxQueueDepth THEN "checked" ELSE "busy"]
  /\ UNCHANGED <<evalVars, queue, status, meta, result, up, running>>

(* evaluate_memory reads the depth and answers 429, or goes on to enqueue. *)
(* Nothing holds the depth until it does.                                  *)
CheckCapacity(j) ==
  /\ api[j] = "new"
  /\ Cardinality(InHandler) < MaxHandlers
  /\ api' = [api EXCEPT ![j] = IF Len(queue) < MaxQueueDepth THEN "checked" ELSE "busy"]
  /\ UNCHANGED <<evalVars, queue, status, meta, result, up, running>>

(* queue.enqueue: the job and its list entry are written in one transaction. *)
Enqueue(j) ==
  /\ api[j] = "checked"
  /\ api' = [api EXCEPT ![j] = "enqueued"]
  /\ queue' = Append(queue, j)
  /\ status' = [status EXCEPT ![j] = "queued"]
  /\ UNCHANGED <<evalVars, meta, result, up, running>>

(* Mutant: job.meta is set and never saved. *)
SaveMetaForgotten(j) ==
  /\ api[j] = "enqueued"
  /\ api' = [api EXCEPT ![j] = "accepted"]
  /\ UNCHANGED <<evalVars, queue, status, meta, result, up, running>>

(* job.save_meta, then 202 with the job id. *)
SaveMeta(j) ==
  /\ api[j] = "enqueued"
  /\ meta' = [meta EXCEPT ![j] = TenantOf[j]]
  /\ api' = [api EXCEPT ![j] = "accepted"]
  /\ UNCHANGED <<evalVars, queue, status, result, up, running>>

(* Redis or the API process fails under the handler: 500, no roll back. *)
HandlerFails(j) ==
  /\ api[j] \in {"new", "checked", "enqueued"}
  /\ api' = [api EXCEPT ![j] = "error"]
  /\ UNCHANGED <<evalVars, queue, status, meta, result, up, running>>

(* create_memory: no PII scan, no judge. *)
CreateMemory(d) ==
  /\ api[d] = "new"
  /\ Begin(d, "encode")
  /\ api' = [api EXCEPT ![d] = "writing"]
  /\ UNCHANGED <<queue, status, meta, result, up, running>>

(* Mutant: 201 before the write is known to be committed. *)
RespondDirectEarly(d) ==
  /\ api[d] = "writing"
  /\ api' = [api EXCEPT ![d] = "created"]
  /\ UNCHANGED <<evalVars, queue, status, meta, result, up, running>>

RespondDirect(d) ==
  /\ api[d] = "writing"
  /\ pc[d] \in Over
  /\ api' = [api EXCEPT ![d] = IF pc[d] = "returned" THEN "created" ELSE "error"]
  /\ UNCHANGED <<evalVars, queue, status, meta, result, up, running>>

(* Mutant: any tenant may poll any job. *)
GetJobStatusOfAnyone(j, t) ==
  IF status[j] \in {"none", "expired"}
  THEN [status |-> "none", result |-> "none"]
  ELSE [status |-> status[j], result |-> IF status[j] = "finished" THEN result[j] ELSE "none"]

(* get_job_status, as tenant t sees it: "none" is a 404. *)
GetJobStatus(j, t) ==
  IF status[j] \in {"none", "expired"} \/ meta[j] # t
  THEN [status |-> "none", result |-> "none"]
  ELSE [status |-> status[j], result |-> IF status[j] = "finished" THEN result[j] ELSE "none"]

-----------------------------------------------------------------------------
(* RQ workers *)

(* Mutant: the worker reads the head of the list and leaves it there. *)
TakeJobByPeeking(w) ==
  /\ w \in up
  /\ running[w] = NoJob
  /\ queue # <<>>
  /\ running' = [running EXCEPT ![w] = Head(queue)]
  /\ status' = [status EXCEPT ![Head(queue)] = "started"]
  /\ Begin(Head(queue), "scan")
  /\ UNCHANGED <<api, queue, meta, result, up>>

TakeJob(w) ==
  /\ w \in up
  /\ running[w] = NoJob
  /\ queue # <<>>
  /\ running' = [running EXCEPT ![w] = Head(queue)]
  /\ status' = [status EXCEPT ![Head(queue)] = "started"]
  /\ queue' = Tail(queue)
  /\ Begin(Head(queue), "scan")
  /\ UNCHANGED <<api, meta, result, up>>

FinishJob(w) ==
  \E j \in Jobs :
    /\ running[w] = j
    /\ pc[j] = "returned"
    /\ status' = [status EXCEPT ![j] = "finished"]
    /\ result' = [result EXCEPT ![j] = outcome[j]]
    /\ running' = [running EXCEPT ![w] = NoJob]
    /\ UNCHANGED <<evalVars, api, queue, meta, up>>

(* Mutant: the parent does not look after a dead horse. *)
FailJobIfRaised(w) ==
  \E j \in Jobs :
    /\ running[w] = j
    /\ pc[j] = "raised"
    /\ status' = [status EXCEPT ![j] = "failed"]
    /\ running' = [running EXCEPT ![w] = NoJob]
    /\ UNCHANGED <<evalVars, api, queue, meta, result, up>>

(* The horse reports the exception, or the parent finds the horse dead. *)
FailJob(w) ==
  \E j \in Jobs :
    /\ running[w] = j
    /\ pc[j] \in {"raised", "killed"}
    /\ status' = [status EXCEPT ![j] = "failed"]
    /\ running' = [running EXCEPT ![w] = NoJob]
    /\ UNCHANGED <<evalVars, api, queue, meta, result, up>>

(* The horse alone dies: out of memory, or killed by its parent after the  *)
(* job timeout.                                                            *)
HorseKilled(w) ==
  \E j \in Jobs :
    /\ running[w] = j
    /\ Kill(j)
    /\ UNCHANGED gateVars

(* The container dies, and whatever it was running with it. *)
WorkerDies(w) ==
  /\ w \in up
  /\ up' = up \ {w}
  /\ running' = [running EXCEPT ![w] = NoJob]
  /\ \/ running[w] = NoJob /\ UNCHANGED evalVars
     \/ /\ running[w] \in Jobs
        /\ pc' = [pc EXCEPT ![running[w]] = "killed"]
        /\ UNCHANGED <<at, pii, verdict, outcome, disclosed, memories, audit>>
  /\ UNCHANGED <<api, queue, status, meta, result>>

WorkerRestarts(w) ==
  /\ w \notin up
  /\ up' = up \cup {w}
  /\ UNCHANGED <<evalVars, api, queue, status, meta, result, running>>

(* Mutant: maintenance fails started jobs that are still being worked on. *)
FailAnyStarted(w, j) ==
  /\ w \in up
  /\ status[j] = "started"
  /\ status' = [status EXCEPT ![j] = "failed"]
  /\ UNCHANGED <<evalVars, api, queue, meta, result, up, running>>

(* Maintenance of a live worker: a started job nobody heartbeats is failed. *)
(* RQ tells this from a lease that the working process renews.  That the   *)
(* lease of a job that is being worked on does not run out is assumed.     *)
FailAbandoned(w, j) ==
  /\ w \in up
  /\ status[j] = "started"
  /\ \A v \in Workers : running[v] # j
  /\ status' = [status EXCEPT ![j] = "failed"]
  /\ UNCHANGED <<evalVars, api, queue, meta, result, up, running>>

(* result_ttl: a day after finishing, Redis drops the job. *)
ExpireResult(j) ==
  /\ status[j] = "finished"
  /\ status' = [status EXCEPT ![j] = "expired"]
  /\ UNCHANGED <<evalVars, api, queue, meta, result, up, running>>

-----------------------------------------------------------------------------
(* One step of the evaluation a live worker, or a direct write, has in hand. *)
Evaluate(s) ==
  /\ \/ \E w \in Workers : running[w] = s
     \/ s \in Directs
  /\ EvaluationStep(s)
  /\ UNCHANGED gateVars

ApiDies(d) == d \in Directs /\ Kill(d) /\ UNCHANGED gateVars

HandlerStep(j) == CheckCapacity(j) \/ Enqueue(j) \/ SaveMeta(j) \/ HandlerFails(j)
WorkerStep(w) == TakeJob(w) \/ FinishJob(w) \/ FailJob(w)
WorkerFault(w) == HorseKilled(w) \/ WorkerDies(w) \/ WorkerRestarts(w)

Next ==
  \/ \E j \in Jobs : HandlerStep(j) \/ ExpireResult(j)
  \/ \E d \in Directs : CreateMemory(d) \/ RespondDirect(d) \/ ApiDies(d)
  \/ \E s \in Submissions : Evaluate(s)
  \/ \E w \in Workers : WorkerStep(w) \/ WorkerFault(w)
  \/ \E w \in Workers, j \in Jobs : FailAbandoned(w, j)

Spec == Init /\ [][Next]_vars

(* A live worker keeps working: its loop polls, the evaluation's calls all *)
(* return (connect and HTTP timeouts), maintenance runs.  Handlers,        *)
(* container restarts and expiry are not fair: nothing in the repository   *)
(* makes them happen (docker-compose has no restart policy).               *)
Fairness ==
  \A w \in Workers :
    /\ WF_vars(WorkerStep(w))
    /\ WF_vars(\E j \in Jobs : running[w] = j /\ Progress(j) /\ UNCHANGED gateVars)
    /\ WF_vars(\E j \in Jobs : FailAbandoned(w, j))

FairSpec == Spec /\ Fairness

-----------------------------------------------------------------------------
(* Properties *)

(* POST /v1/memories: a direct write too is stored at most once and with   *)
(* its admit event, and the 201 is sent only when the row is committed.    *)
DirectWriteIsAudited ==
  \A d \in Directs :
    /\ Len(memories[d]) = Len(audit[d]) /\ Len(memories[d]) <= 1
    /\ api[d] = "created" => Len(memories[d]) = 1

(* evaluate_memory checks the depth and enqueues later, so the depth is    *)
(* not bounded by write_gate_max_queue_depth alone, but with the requests  *)
(* that may stand between the two steps it is.                             *)
DepthIsBounded == Len(queue) + Cardinality(Checked) < MaxQueueDepth + MaxHandlers

(* Once evaluate_memory has answered 202, the caller's tenant can poll the *)
(* job until the result expires; other tenants get 404 from the start.     *)
OnlyOwnerSeesJob ==
  \A j \in Jobs, t \in Tenants :
    IF t = TenantOf[j]
    THEN api[j] = "accepted" /\ status[j] # "expired" => GetJobStatus(j, t).status # "none"
    ELSE GetJobStatus(j, t).status = "none"

(* The refinement: what the rows and the job status say, as a ledger.      *)
LedgerDecision(j) == IF memories[j] # <<>> THEN "admitted"
                     ELSE IF audit[j] # <<>> THEN "rejected" ELSE "open"

LedgerAnswer(j) == CASE status[j] = "failed" -> "failed"
                     [] status[j] \in {"finished", "expired"} ->
                          (IF result[j] = "admitted" THEN "admitted" ELSE "rejected")
                     [] OTHER -> "pending"

Ledger == INSTANCE AdmissionLedger
            WITH decision <- [j \in Jobs |-> LedgerDecision(j)],
                 answer   <- [j \in Jobs |-> LedgerAnswer(j)]

(* Handlers, queue, workers and transactions implement the ledger: an      *)
(* answer tells the decision in the database, and after "failed" or        *)
(* "finished" nothing more is decided.                                     *)
ImplementsLedger == Ledger!LedgerSpec

(* A job on the queue ends, finished or failed, if some worker stays up;   *)
(* jobs of workers that died included, and jobs whose handler answered 500.*)
EveryJobEnds ==
  (\E w \in Workers : <>[](w \in up)) =>
     \A j \in Jobs : status[j] = "queued" ~> status[j] \in {"finished", "failed", "expired"}

-----------------------------------------------------------------------------
(* The inductive invariant behind the safety properties.  Its parts say why *)
(* a job is decided once: a queued job is on the list once and untouched,   *)
(* a running one has one worker, an evaluation at work has no row yet.      *)

QueueInv ==
  /\ \A i \in 1..Len(queue) : status[queue[i]] = "queued"
  /\ \A i, k \in 1..Len(queue) : queue[i] = queue[k] => i = k

HandlerInv ==
  \A j \in Jobs :
    /\ api[j] \in {"new", "checked", "busy"} => status[j] = "none"
    /\ api[j] \in {"enqueued", "accepted"} => status[j] # "none"
    /\ meta[j] \in {NoTenant, TenantOf[j]}
    /\ api[j] = "accepted" => meta[j] = TenantOf[j]

WorkerInv ==
  /\ \A w \in Workers : running[w] # NoJob => status[running[w]] = "started"
  /\ \A v, w \in Workers : running[v] = running[w] /\ running[v] # NoJob => v = w
  /\ \A j \in Jobs : status[j] \in {"none", "queued"} => pc[j] = "none"

ResultInv ==
  \A j \in Jobs :
    status[j] \in {"finished", "expired"} =>
      /\ audit[j] # <<>>
      /\ result[j] = "admitted" <=> memories[j] # <<>>

DirectInv ==
  \A d \in Directs :
    /\ pc[d] \in {"none", "encode", "store"} \cup Over
    /\ pc[d] \notin Over => memories[d] = <<>> /\ audit[d] = <<>>
    /\ pc[d] = "returned" => Len(memories[d]) = 1
    /\ api[d] = "new" => pc[d] = "none"

GateInv ==
  /\ QueueInv /\ HandlerInv /\ WorkerInv /\ PathInv /\ ResultInv /\ DirectInv
  /\ PiiStaysInside /\ DecidedOnce /\ DirectWriteIsAudited
  /\ Cardinality(InHandler) <= MaxHandlers
  /\ DepthIsBounded

-----------------------------------------------------------------------------
(* Statements of the documentation that the code does not keep. *)

(* ADR-0003: "bounded queue, 429 on overflow".                             *)
QueueIsBounded == Len(queue) <= MaxQueueDepth

(* .genesis/context-graph.json, no_durable_write_without_provenance_and_   *)
(* pii_verdict: "Every row in the memories table has ... a pii_verdict_id".*)
EveryRowHasPiiVerdict ==
  \A s \in Submissions : \A i \in DOMAIN memories[s] : memories[s][i].pii # "none"
=============================================================================
