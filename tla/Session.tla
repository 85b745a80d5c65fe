------------------------------- MODULE Session -------------------------------
(***************************************************************************)
(* One caller against the running service: it posts candidates and direct  *)
(* writes (WriteGate), polls GET /v1/jobs/{id} for each accepted candidate *)
(* and asks GET /v1/memories:retrieve once (ReadPath, instantiated on what *)
(* the write path has committed).  A poll is three Redis calls, each of    *)
(* which may fail, and the job goes on, finishes or expires between them.  *)
(***************************************************************************)
EXTENDS WriteGate

CONSTANTS Match, HasEntities, Lengths, Budgets, Limits, Multiplier   \* as in ReadPath

ASSUME SessionAssumption == /\ IsFiniteSet(Directs) /\ Match \subseteq Submissions
                            /\ HasEntities \in BOOLEAN
                            /\ Lengths \subseteq Nat /\ Budgets \subseteq Nat \ {0}
                            /\ Limits \subseteq Nat \ {0} /\ Multiplier \in Nat

VARIABLES
  poll,   \* per job, where the poll in progress stands
  seen,   \* per job, the final status that poll has read
  told,   \* per job, the last status the caller was told; a 404 or 500 tells none
  knew,   \* what the caller knew to be stored when it asked
  length, budget, limit, phase, before, pool, failed, ranked, reply   \* of ReadPath

pollVars == <<poll, seen, told>>
readVars == <<length, budget, limit, phase, before, pool, failed, ranked, reply>>
sessionVars == <<vars, pollVars, knew, readVars>>

Committed == {s \in Submissions : memories[s] # <<>>}

Read == INSTANCE ReadPath WITH Mems <- Submissions, committed <- Committed

FinalAnswers == {"admitted", "rejected", "failed"}

SessionTypeOK ==
  /\ TypeOK
  /\ poll \in [Jobs -> {"idle", "fetch", "status", "result"}]
  /\ seen \in [Jobs -> {"none", "finished", "failed"}]
  /\ told \in [Jobs -> {"none", "queued", "started", "finished"} \cup FinalAnswers]
  /\ knew \subseteq Committed
  /\ Read!TypeOK

SessionInit ==
  /\ Init
  /\ poll = [j \in Jobs |-> "idle"]
  /\ seen = [j \in Jobs |-> "none"]
  /\ told = [j \in Jobs |-> "none"]
  /\ knew = {}
  /\ Read!Init

-----------------------------------------------------------------------------
(* GET /v1/jobs/{id} *)

(* The caller has a job id.  No synchronous marker exists in this mode. *)
StartPoll(j) ==
  /\ api[j] = "accepted"
  /\ poll[j] = "idle"
  /\ poll' = [poll EXCEPT ![j] = "fetch"]
  /\ UNCHANGED <<vars, seen, told, knew, readVars>>

(* Job.fetch and the tenant check: on, or 404. *)
FetchJob(j) ==
  /\ poll[j] = "fetch"
  /\ poll' = [poll EXCEPT ![j] =
                IF GetJobStatus(j, TenantOf[j]).status = "none" THEN "idle" ELSE "status"]
  /\ UNCHANGED <<vars, seen, told, knew, readVars>>

(* job.get_status reads Redis again.  If the job has expired since, the    *)
(* status is None, which JobStatusResponse does not accept: 500.           *)
ReadStatus(j) ==
  /\ poll[j] = "status"
  /\ CASE status[j] = "expired" ->
            poll' = [poll EXCEPT ![j] = "idle"] /\ UNCHANGED <<seen, told>>
       [] status[j] \in {"finished", "failed"} ->
            /\ poll' = [poll EXCEPT ![j] = "result"]
            /\ seen' = [seen EXCEPT ![j] = status[j]]
            /\ UNCHANGED told
       [] OTHER ->
            /\ poll' = [poll EXCEPT ![j] = "idle"]
            /\ told' = [told EXCEPT ![j] = status[j]]
            /\ UNCHANGED seen
  /\ UNCHANGED <<vars, knew, readVars>>

(* job.result or job.exc_info, a third call.  A result that is gone is left *)
(* out of the answer.                                                      *)
ReadResult(j) ==
  /\ poll[j] = "result"
  /\ told' = [told EXCEPT ![j] = IF seen[j] = "failed" THEN "failed"
                                 ELSE IF status[j] = "expired" THEN "finished"
                                 ELSE IF result[j] = "admitted" THEN "admitted" ELSE "rejected"]
  /\ poll' = [poll EXCEPT ![j] = "idle"]
  /\ seen' = [seen EXCEPT ![j] = "none"]
  /\ UNCHANGED <<vars, knew, readVars>>

(* Redis fails under a call: 404 out of Job.fetch, where every exception   *)
(* means "not found", and 500 elsewhere.                                   *)
PollFails(j) ==
  /\ poll[j] # "idle"
  /\ poll' = [poll EXCEPT ![j] = "idle"]
  /\ seen' = [seen EXCEPT ![j] = "none"]
  /\ UNCHANGED <<vars, told, knew, readVars>>

-----------------------------------------------------------------------------
(* What the caller has been told is stored. *)
Known == {j \in Jobs : told[j] = "admitted"} \cup {d \in Directs : api[d] = "created"}

Ask == /\ UNCHANGED <<vars, pollVars>>
       /\ Read!Ask
       /\ knew' = Known

Retrieve == /\ UNCHANGED <<vars, pollVars, knew>>
            /\ \/ Read!EncodeQuery
               \/ Read!VectorSignal
               \/ Read!KeywordSignal
               \/ Read!GraphSignal
               \/ Read!RankHits
               \/ Read!Respond
               \/ Read!Degrade

WritePath == Next /\ UNCHANGED <<pollVars, knew, readVars>>

SessionNext ==
  \/ WritePath
  \/ \E j \in Jobs : StartPoll(j) \/ FetchJob(j) \/ ReadStatus(j) \/ ReadResult(j) \/ PollFails(j)
  \/ Ask
  \/ Retrieve

(* The fairness of WriteGate, and a caller that keeps polling against a    *)
(* Redis that does not fail every time a call is made.                     *)
SessionFairness ==
  /\ \A w \in Workers :
       /\ WF_sessionVars(WritePath /\ WorkerStep(w))
       /\ WF_sessionVars(WritePath /\ \E j \in Jobs : running[w] = j /\ Progress(j))
       /\ WF_sessionVars(WritePath /\ \E j \in Jobs : FailAbandoned(w, j))
  /\ \A j \in Jobs :
       /\ WF_sessionVars(StartPoll(j))
       /\ SF_sessionVars(FetchJob(j))
       /\ SF_sessionVars(ReadStatus(j))
       /\ SF_sessionVars(ReadResult(j))

SessionSpec == SessionInit /\ [][SessionNext]_sessionVars /\ SessionFairness

-----------------------------------------------------------------------------
(* Properties *)

(* get_job_status puts its answer together from three reads of a job that  *)
(* moves on; what it says is what the database holds all the same: told    *)
(* admitted, the row is there; told rejected, the reject event is there    *)
(* and no row will be; told failed, no evaluation is at work any more.     *)
AnswersAreTrue ==
  \A j \in Jobs :
    /\ told[j] = "admitted" => memories[j] # <<>>
    /\ told[j] = "rejected" =>
         memories[j] = <<>> /\ Len(audit[j]) = 1 /\ audit[j][1].event = "reject"
    /\ told[j] = "failed" => status[j] = "failed" /\ pc[j] \notin Working
    /\ told[j] = "finished" => status[j] = "expired"

(* The answers of successive polls follow the job: never from started back *)
(* to queued, and a final answer stands, but for losing its result when    *)
(* the job expires.                                                        *)
Stage == [queued |-> 1, started |-> 2, finished |-> 4,
          admitted |-> 3, rejected |-> 3, failed |-> 3, none |-> 0]
AnswersOnlyAdvance ==
  [][\A j \in Jobs : told'[j] = told[j] \/ Stage[told[j]] < Stage[told'[j]]]_told

(* Read your writes: what the caller was told is stored before it asked,   *)
(* by a 201 or by a poll, is in the reply if the keywords match it, the    *)
(* keyword signal did not fail and neither limit nor budget is exhausted.  *)
ReadYourWrites ==
  /\ Read!Replied /\ reply # Read!DegradedResponse
  /\ "keyword" \notin failed /\ Cardinality(pool) < limit /\ Read!Tokens(pool) <= budget
  => \A s \in knew \cap Match : \E i \in DOMAIN reply.memories : reply.memories[i] = s

(* A caller that got 202 and keeps polling is told how its job ended,      *)
(* unless it let the result expire, if some worker stays up.               *)
PollerIsAnswered ==
  (\E w \in Workers : <>[](w \in up)) =>
     \A j \in Jobs : api[j] = "accepted" ~> told[j] \in FinalAnswers \/ status[j] = "expired"
=============================================================================
