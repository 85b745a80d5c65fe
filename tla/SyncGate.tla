------------------------------- MODULE SyncGate -------------------------------
(***************************************************************************)
(* WRITE_GATE_SYNC: no RQ worker; enqueue_evaluate (worker/queue.py) marks *)
(* the job "queued" under a key of its own in Redis and runs               *)
(* evaluate_candidate (module Evaluation) in a daemon thread of the API    *)
(* process.  The thread overwrites the marker with the result.  Nobody     *)
(* watches the thread: if it raises, or dies with the process, the marker  *)
(* stays until its time to live ends.                                      *)
(*                                                                         *)
(* The RQ list stays empty in this mode, so the capacity check always      *)
(* passes and any number of threads may run.                               *)
(***************************************************************************)
EXTENDS Evaluation, FiniteSets

ASSUME SyncAssumption == IsFiniteSet(Jobs) /\ Directs = {}

VARIABLES
  api,      \* what the HTTP handler of each job has done
  thread,   \* the daemon thread of each job
  marker,   \* status stored under cmis:sync_job:{tenant}:{job}
  stored    \* result stored there

syncVars == <<api, thread, marker, stored>>
vars == <<evalVars, syncVars>>

TypeOK ==
  /\ EvaluationTypeOK
  /\ api \in [Jobs -> {"new", "marked", "accepted", "error"}]
  /\ thread \in [Jobs -> {"none", "running", "gone"}]
  /\ marker \in [Jobs -> {"none", "queued", "finished", "expired"}]
  /\ stored \in [Jobs -> Outcomes]

Init ==
  /\ EvaluationInit
  /\ api = [j \in Jobs |-> "new"]
  /\ thread = [j \in Jobs |-> "none"]
  /\ marker = [j \in Jobs |-> "none"]
  /\ stored = [j \in Jobs |-> "none"]

-----------------------------------------------------------------------------
(* Mutant: the marker is written once more when the thread is started. *)
MarkPendingAgain(j) ==
  /\ api[j] \in {"new", "accepted"}
  /\ marker' = [marker EXCEPT ![j] = "queued"]
  /\ api' = [api EXCEPT ![j] = IF @ = "new" THEN "marked" ELSE @]
  /\ UNCHANGED <<evalVars, thread, stored>>

(* _mark_sync_job_pending comes before the thread is started. *)
MarkPending(j) ==
  /\ api[j] = "new"
  /\ marker' = [marker EXCEPT ![j] = "queued"]
  /\ api' = [api EXCEPT ![j] = "marked"]
  /\ UNCHANGED <<evalVars, thread, stored>>

(* Thread(target=_run, daemon=True).start(), then 202. *)
StartThread(j) ==
  /\ api[j] = "marked"
  /\ api' = [api EXCEPT ![j] = "accepted"]
  /\ thread' = [thread EXCEPT ![j] = "running"]
  /\ Begin(j, "scan")
  /\ UNCHANGED <<marker, stored>>

(* 500: Redis does not answer, or not in time, or the thread cannot start. *)
HandlerFails(j) ==
  /\ api[j] \in {"new", "marked"}
  /\ api' = [api EXCEPT ![j] = "error"]
  /\ UNCHANGED <<evalVars, thread, marker, stored>>

Evaluate(j) ==
  /\ thread[j] = "running"
  /\ EvaluationStep(j)
  /\ UNCHANGED syncVars

(* _store_sync_job.  The SET may fail, and then nothing is stored. *)
StoreResult(j) ==
  /\ thread[j] = "running"
  /\ pc[j] = "returned"
  /\ thread' = [thread EXCEPT ![j] = "gone"]
  /\ \/ /\ marker' = [marker EXCEPT ![j] = "finished"]
        /\ stored' = [stored EXCEPT ![j] = outcome[j]]
     \/ UNCHANGED <<marker, stored>>
  /\ UNCHANGED <<evalVars, api>>

(* The exception ends the thread; the marker keeps saying "queued". *)
ThreadEnds(j) ==
  /\ thread[j] = "running"
  /\ pc[j] = "raised"
  /\ thread' = [thread EXCEPT ![j] = "gone"]
  /\ UNCHANGED <<evalVars, api, marker, stored>>

(* The API process dies with its handlers and its daemon threads. *)
ApiDies ==
  /\ pc' = [s \in Submissions |-> IF thread[s] = "running" THEN "killed" ELSE pc[s]]
  /\ thread' = [j \in Jobs |-> IF thread[j] = "running" THEN "gone" ELSE thread[j]]
  /\ api' = [j \in Jobs |-> IF api[j] = "marked" THEN "error" ELSE api[j]]
  /\ UNCHANGED <<at, pii, verdict, outcome, disclosed, memories, audit, marker, stored>>

(* Mutant: the pending marker is set without a time to live. *)
ExpireFinished(j) ==
  /\ marker[j] = "finished"
  /\ marker' = [marker EXCEPT ![j] = "expired"]
  /\ UNCHANGED <<evalVars, api, thread, stored>>

(* ex=86_400, long after the evaluation is over: its calls all time out. *)
ExpireMarker(j) ==
  /\ marker[j] \in {"queued", "finished"}
  /\ api[j] # "marked" /\ thread[j] # "running"
  /\ marker' = [marker EXCEPT ![j] = "expired"]
  /\ UNCHANGED <<evalVars, api, thread, stored>>

Next ==
  \/ \E j \in Jobs : \/ MarkPending(j)
                     \/ StartThread(j)
                     \/ HandlerFails(j)
                     \/ Evaluate(j)
                     \/ StoreResult(j)
                     \/ ThreadEnds(j)
                     \/ ExpireMarker(j)
  \/ ApiDies

(* Threads run, a handler goes on or fails, Redis expires keys. *)
Fairness ==
  \A j \in Jobs :
    /\ WF_vars(StartThread(j) \/ HandlerFails(j))
    /\ WF_vars(thread[j] = "running" /\ Progress(j) /\ UNCHANGED syncVars)
    /\ WF_vars(StoreResult(j) \/ ThreadEnds(j))
    /\ WF_vars(ExpireMarker(j))

Spec == Init /\ [][Next]_vars
FairSpec == Spec /\ Fairness

-----------------------------------------------------------------------------
(* Properties *)

SyncDecision(j) == IF memories[j] # <<>> THEN "admitted"
                   ELSE IF audit[j] # <<>> THEN "rejected" ELSE "open"
SyncAnswer(j) == IF stored[j] = "none" THEN "pending"
                 ELSE IF stored[j] = "admitted" THEN "admitted" ELSE "rejected"

Ledger == INSTANCE AdmissionLedger
            WITH decision <- [j \in Jobs |-> SyncDecision(j)],
                 answer   <- [j \in Jobs |-> SyncAnswer(j)]

(* Both modes keep the same promise (module AdmissionLedger): one decision *)
(* at most, and the stored result is the one in the database.              *)
ImplementsLedger == Ledger!LedgerSpec

(* A poll that said "finished" is never followed by one that says "queued":*)
(* the handler's marker and the thread's result are written to one key by  *)
(* two threads, in this order.  And "finished" comes with a result.        *)
FinishedIsFinal ==
  [][\A j \in Jobs : /\ marker[j] = "finished" => marker'[j] \in {"finished", "expired"}
                     /\ marker'[j] = "finished" => stored'[j] # "none"]_vars

(* A client that polls is not left with "queued" for ever, whatever the    *)
(* thread meets: the time to live ends it with a 404 at the latest.        *)
QueuedEnds == \A j \in Jobs : marker[j] = "queued" ~> marker[j] \in {"finished", "expired"}
=============================================================================
