--------------------------- MODULE WriteGateProofs ---------------------------
(***************************************************************************)
(* Theorems about WriteGate for every set of candidates, workers, tenants  *)
(* and every limit, and about Session, which puts a caller in front of it: *)
(* what polls tell, put together from three reads, is what the database    *)
(* holds, and what the caller was told is stored is in the next reply.     *)
(***************************************************************************)
EXTENDS Session, EvaluationProofs, FiniteSetTheorems, TLAPS

-----------------------------------------------------------------------------
(* Type correctness of the composed system. *)

Types == TypeOK /\ AskedIsRemote

GateTypes ==
  /\ api \in [Submissions ->
               {"new", "checked", "enqueued", "accepted", "busy", "writing", "created", "error"}]
  /\ queue \in Seq(Jobs)
  /\ status \in [Jobs -> Statuses]
  /\ meta \in [Jobs -> Tenants \cup {NoTenant}]
  /\ result \in [Jobs -> Outcomes]
  /\ up \in SUBSET Workers
  /\ running \in [Workers -> Jobs \cup {NoJob}]

LEMMA TypesSplit == Types <=> EvaluationTypes /\ GateTypes
  BY DEF Types, TypeOK, EvaluationTypes, GateTypes

LEMMA InitTypes == Init => Types
  BY RemotesAssumption DEF Init, EvaluationInit, Types, TypeOK, EvaluationTypeOK, AskedIsRemote,
       PiiStatuses, Outcomes, Statuses

LEMMA NextTypes == Types /\ [Next]_vars => Types'
<1> SUFFICES ASSUME EvaluationTypes, GateTypes, [Next]_vars
             PROVE  EvaluationTypes' /\ GateTypes'
  BY TypesSplit DEF Types, TypeOK, EvaluationTypes, GateTypes
<1> USE DEF Submissions
<1>1. ASSUME NEW j \in Jobs, HandlerStep(j) \/ ExpireResult(j)
      PROVE  EvaluationTypes' /\ GateTypes'
  <2>1. UNCHANGED evalVars
    BY <1>1 DEF HandlerStep, CheckCapacity, Enqueue, SaveMeta, HandlerFails, ExpireResult
  <2>2. CASE CheckCapacity(j) \/ HandlerFails(j)
    <3>1. api' \in [Submissions ->
               {"new", "checked", "enqueued", "accepted", "busy", "writing", "created", "error"}]
      BY <2>2 DEF CheckCapacity, HandlerFails, GateTypes
    <3> QED  BY <2>1, <2>2, <3>1, IdleEvaluationType DEF CheckCapacity, HandlerFails, GateTypes
  <2>3. CASE Enqueue(j)
    BY <2>1, <2>3, IdleEvaluationType DEF Enqueue, GateTypes, Statuses
  <2>4. CASE SaveMeta(j)
    BY <2>1, <2>4, TenantAssumption, IdleEvaluationType DEF SaveMeta, GateTypes
  <2>5. CASE ExpireResult(j)
    BY <2>1, <2>5, IdleEvaluationType DEF ExpireResult, GateTypes, Statuses
  <2> QED  BY <1>1, <2>2, <2>3, <2>4, <2>5 DEF HandlerStep
<1>2. ASSUME NEW d \in Directs, CreateMemory(d) \/ RespondDirect(d) \/ ApiDies(d)
      PROVE  EvaluationTypes' /\ GateTypes'
  <2>1. CASE CreateMemory(d)
    BY <2>1, BeginType DEF CreateMemory, GateTypes, Working
  <2>2. CASE RespondDirect(d)
    BY <2>2, IdleEvaluationType DEF RespondDirect, GateTypes
  <2>3. CASE ApiDies(d)
    BY <2>3, KillType DEF ApiDies, Kill, gateVars, GateTypes
  <2> QED  BY <1>2, <2>1, <2>2, <2>3
<1>3. ASSUME NEW s \in Submissions, Evaluate(s)
      PROVE  EvaluationTypes' /\ GateTypes'
  BY <1>3, EvaluationStepType DEF Evaluate, gateVars, GateTypes
<1>4. ASSUME NEW w \in Workers, WorkerStep(w) \/ WorkerFault(w)
      PROVE  EvaluationTypes' /\ GateTypes'
  <2>1. CASE TakeJob(w)
    <3>1. Head(queue) \in Jobs /\ Tail(queue) \in Seq(Jobs)
      BY <2>1 DEF TakeJob, GateTypes
    <3>2. EvaluationTypes'
      BY <2>1, <3>1, BeginType DEF TakeJob, Working
    <3> QED  BY <2>1, <3>1, <3>2 DEF TakeJob, GateTypes, Statuses
  <2>2. CASE FinishJob(w)
    BY <2>2, IdleEvaluationType DEF FinishJob, GateTypes, Statuses, EvaluationTypes, EvaluationTypeOK
  <2>3. CASE FailJob(w)
    BY <2>3, IdleEvaluationType DEF FailJob, GateTypes, Statuses
  <2>4. CASE HorseKilled(w)
    BY <2>4, KillType DEF HorseKilled, Kill, gateVars, GateTypes
  <2>5. CASE WorkerDies(w)
    BY <2>5, KillType, IdleEvaluationType DEF WorkerDies, GateTypes
  <2>6. CASE WorkerRestarts(w)
    BY <2>6, IdleEvaluationType DEF WorkerRestarts, GateTypes
  <2> QED  BY <1>4, <2>1, <2>2, <2>3, <2>4, <2>5, <2>6 DEF WorkerStep, WorkerFault
<1>5. ASSUME NEW w \in Workers, NEW j \in Jobs, FailAbandoned(w, j)
      PROVE  EvaluationTypes' /\ GateTypes'
  BY <1>5, IdleEvaluationType DEF FailAbandoned, GateTypes, Statuses
<1>6. CASE UNCHANGED vars
  BY <1>6, IdleEvaluationType DEF vars, gateVars, GateTypes
<1> QED  BY <1>1, <1>2, <1>3, <1>4, <1>5, <1>6 DEF Next

(* Every variable keeps its type in every behaviour. *)
THEOREM TypeCorrect == Spec => []TypeOK
<1>1. Types => TypeOK
  BY DEF Types
<1> QED  BY InitTypes, NextTypes, <1>1, PTL DEF Spec
-----------------------------------------------------------------------------
(* Control: list, job status and workers agree on who has which job. *)

ControlInv == QueueInv /\ HandlerInv /\ WorkerInv

(* The job at the head of the list is untouched. *)
LEMMA HeadIsFresh ==
  ASSUME Types, ControlInv, queue # <<>>
  PROVE  /\ Head(queue) \in Jobs
         /\ status[Head(queue)] = "queued"
         /\ pc[Head(queue)] = "none"
<1>1. queue \in Seq(Jobs) /\ Len(queue) >= 1 /\ Head(queue) = queue[1]
  BY DEF Types, TypeOK
<1>2. Head(queue) \in Jobs
  BY <1>1
<1>3. status[Head(queue)] = "queued"
  BY <1>1 DEF ControlInv, QueueInv
<1> QED  BY <1>2, <1>3 DEF ControlInv, WorkerInv

(* An evaluation step is taken for a direct write or a started job. *)
LEMMA EvaluateIsStarted ==
  ASSUME Types, ControlInv, NEW s \in Submissions, Evaluate(s), s \in Jobs
  PROVE  status[s] = "started"
<1>1. PICK w \in Workers : running[w] = s
  BY SubmissionsAssumption DEF Evaluate
<1> QED  BY <1>1, JobsAssumption DEF ControlInv, WorkerInv

LEMMA NextControl ==
  ASSUME Types, ControlInv, DirectInv, [Next]_vars
  PROVE  ControlInv'
<1> USE SubmissionsAssumption, JobsAssumption
<1>t. GateTypes /\ EvaluationTypes
  BY TypesSplit
<1>1. ASSUME NEW j \in Jobs, HandlerStep(j) \/ ExpireResult(j)
      PROVE  ControlInv'
  <2>1. CASE CheckCapacity(j) \/ HandlerFails(j)
    BY <1>t, <2>1 DEF CheckCapacity, HandlerFails, ControlInv, QueueInv, HandlerInv, WorkerInv,
         GateTypes, Submissions, evalVars
  <2>2. CASE Enqueue(j)
    <3>1. status[j] = "none"
      BY <2>2 DEF Enqueue, ControlInv, HandlerInv
    <3>2. QueueInv'
      <4>1. \A i \in 1..Len(queue) : queue[i] # j /\ queue[i] \in Jobs
        BY <1>t, <3>1 DEF ControlInv, QueueInv, GateTypes
      <4>2. /\ Len(queue') = Len(queue) + 1
            /\ \A i \in 1..Len(queue') : queue'[i] = IF i = Len(queue) + 1 THEN j ELSE queue[i]
        BY <1>t, <2>2 DEF Enqueue, GateTypes
      <4>3. \A i \in 1..Len(queue') : i # Len(queue) + 1 => i \in 1..Len(queue)
        BY <1>t, <4>2 DEF GateTypes
      <4> QED  BY <1>t, <2>2, <4>1, <4>2, <4>3 DEF Enqueue, ControlInv, QueueInv, GateTypes
    <3>3. HandlerInv'
      BY <1>t, <2>2 DEF Enqueue, ControlInv, HandlerInv, GateTypes, Submissions
    <3>4. WorkerInv'
      BY <1>t, <2>2, <3>1 DEF Enqueue, ControlInv, WorkerInv, GateTypes, evalVars
    <3> QED  BY <3>2, <3>3, <3>4 DEF ControlInv
  <2>3. CASE SaveMeta(j)
    BY <1>t, <2>3 DEF SaveMeta, ControlInv, QueueInv, HandlerInv, WorkerInv, GateTypes,
         Submissions, evalVars
  <2>4. CASE ExpireResult(j)
    BY <1>t, <2>4 DEF ExpireResult, ControlInv, QueueInv, HandlerInv, WorkerInv, GateTypes,
         Submissions, evalVars
  <2> QED  BY <1>1, <2>1, <2>2, <2>3, <2>4 DEF HandlerStep
<1>2. ASSUME NEW d \in Directs, CreateMemory(d) \/ RespondDirect(d) \/ ApiDies(d)
      PROVE  ControlInv'
  <2>1. \A j \in Jobs : pc'[j] = pc[j] /\ api'[j] = api[j]
    BY <1>t, <1>2 DEF CreateMemory, RespondDirect, ApiDies, Begin, Kill, gateVars, evalVars,
         EvaluationTypes, EvaluationTypeOK, GateTypes, Submissions
  <2>2. UNCHANGED <<queue, status, meta, result, up, running>>
    BY <1>2 DEF CreateMemory, RespondDirect, ApiDies, gateVars
  <2> QED  BY <2>1, <2>2 DEF ControlInv, QueueInv, HandlerInv, WorkerInv
<1>3. ASSUME NEW s \in Submissions, Evaluate(s)
      PROVE  ControlInv'
  <2>1. UNCHANGED gateVars /\ EvaluationStep(s)
    BY <1>3 DEF Evaluate
  <2>2. \A j \in Jobs : status[j] \in {"none", "queued"} => pc'[j] = pc[j]
    BY <1>t, <1>3, <2>1, EvaluateIsStarted, EvaluationStepFrame DEF Submissions
  <2> QED  BY <2>1, <2>2 DEF gateVars, ControlInv, QueueInv, HandlerInv, WorkerInv
<1>4. ASSUME NEW w \in Workers, WorkerStep(w) \/ WorkerFault(w)
      PROVE  ControlInv'
  <2>1. CASE TakeJob(w)
    <3> DEFINE h == Head(queue)
    <3>1. h \in Jobs /\ status[h] = "queued" /\ queue \in Seq(Jobs) /\ Len(queue) >= 1 /\ h = queue[1]
      BY <1>t, <2>1, HeadIsFresh DEF TakeJob, GateTypes
    <3>2. \A i \in 1..Len(queue') : /\ queue'[i] = queue[i + 1]
                                    /\ i + 1 \in 1..Len(queue)
                                    /\ queue'[i] # h
      BY <2>1, <3>1 DEF TakeJob, ControlInv, QueueInv
    <3> HIDE DEF h
    <3>3. /\ status' = [status EXCEPT ![h] = "started"]
          /\ running' = [running EXCEPT ![w] = h]
          /\ pc' = [pc EXCEPT ![h] = "scan"]
          /\ UNCHANGED <<api, meta>>
      BY <2>1 DEF TakeJob, Begin, h
    <3>4. QueueInv'
      BY <1>t, <3>1, <3>2, <3>3 DEF ControlInv, QueueInv, GateTypes
    <3>5. HandlerInv'
      BY <1>t, <3>1, <3>3 DEF ControlInv, HandlerInv, GateTypes
    <3>6. WorkerInv'
      BY <1>t, <3>1, <3>3 DEF ControlInv, WorkerInv, GateTypes, EvaluationTypes, EvaluationTypeOK
    <3> QED  BY <3>4, <3>5, <3>6 DEF ControlInv
  <2>2. CASE FinishJob(w)
    BY <1>t, <2>2 DEF FinishJob, ControlInv, QueueInv, HandlerInv, WorkerInv, GateTypes, evalVars
  <2>3. CASE FailJob(w)
    BY <1>t, <2>3 DEF FailJob, ControlInv, QueueInv, HandlerInv, WorkerInv, GateTypes, evalVars
  <2>4. CASE HorseKilled(w)
    <3>1. PICK j \in Jobs : running[w] = j /\ pc' = [pc EXCEPT ![j] = "killed"]
      BY <2>4 DEF HorseKilled, Kill
    <3>2. UNCHANGED gateVars
      BY <2>4 DEF HorseKilled
    <3>3. status[j] = "started"
      BY <3>1 DEF ControlInv, WorkerInv
    <3>4. \A i \in Jobs : status[i] \in {"none", "queued"} => pc'[i] = pc[i]
      BY <1>t, <3>1, <3>3 DEF EvaluationTypes, EvaluationTypeOK, Submissions
    <3> QED  BY <3>2, <3>4 DEF gateVars, ControlInv, QueueInv, HandlerInv, WorkerInv
  <2>5. CASE WorkerDies(w)
    BY <1>t, <2>5 DEF WorkerDies, evalVars, ControlInv, QueueInv, HandlerInv, WorkerInv,
         EvaluationTypes, EvaluationTypeOK, GateTypes, Submissions
  <2>6. CASE WorkerRestarts(w)
    BY <2>6 DEF WorkerRestarts, evalVars, ControlInv, QueueInv, HandlerInv, WorkerInv
  <2> QED  BY <1>4, <2>1, <2>2, <2>3, <2>4, <2>5, <2>6 DEF WorkerStep, WorkerFault
<1>5. ASSUME NEW w \in Workers, NEW j \in Jobs, FailAbandoned(w, j)
      PROVE  ControlInv'
  BY <1>t, <1>5 DEF FailAbandoned, ControlInv, QueueInv, HandlerInv, WorkerInv, GateTypes, evalVars
<1>6. CASE UNCHANGED vars
  BY <1>6 DEF vars, evalVars, gateVars, ControlInv, QueueInv, HandlerInv, WorkerInv
<1> QED  BY <1>1, <1>2, <1>3, <1>4, <1>5, <1>6 DEF Next
-----------------------------------------------------------------------------
(* Rows and results under every step. *)

LEMMA NextRows ==
  ASSUME Types, ControlInv, RowsInv, [Next]_vars
  PROVE  RowsInv'
<1> USE SubmissionsAssumption
<1>t. GateTypes /\ EvaluationTypes
  BY TypesSplit
<1>1. ASSUME NEW j \in Jobs, HandlerStep(j) \/ ExpireResult(j)
      PROVE  RowsInv'
  BY <1>1, RowsUntouched DEF HandlerStep, CheckCapacity, Enqueue, SaveMeta, HandlerFails, ExpireResult
<1>2. ASSUME NEW d \in Directs, CreateMemory(d) \/ RespondDirect(d) \/ ApiDies(d)
      PROVE  RowsInv'
  <2>1. d \in Submissions /\ d \notin Jobs
    BY DEF Submissions
  <2>2. CASE CreateMemory(d)
    BY <1>t, <2>1, <2>2, BeginRows DEF CreateMemory, Working
  <2>3. CASE RespondDirect(d)
    BY <2>3, RowsUntouched DEF RespondDirect
  <2>4. CASE ApiDies(d)
    BY <1>t, <2>1, <2>4, KillRows DEF ApiDies, Kill
  <2> QED  BY <1>2, <2>2, <2>3, <2>4
<1>3. ASSUME NEW s \in Submissions, Evaluate(s)
      PROVE  RowsInv'
  BY <1>t, <1>3, EvaluationStepRows DEF Evaluate
<1>4. ASSUME NEW w \in Workers, WorkerStep(w) \/ WorkerFault(w)
      PROVE  RowsInv'
  <2>1. CASE TakeJob(w)
    <3>1. Head(queue) \in Submissions /\ pc[Head(queue)] = "none"
      BY <2>1, HeadIsFresh DEF TakeJob, Submissions
    <3> QED  BY <1>t, <2>1, <3>1, BeginRows DEF TakeJob, Working
  <2>2. CASE FinishJob(w) \/ FailJob(w) \/ WorkerRestarts(w)
    BY <2>2, RowsUntouched DEF FinishJob, FailJob, WorkerRestarts
  <2>3. CASE HorseKilled(w)
    BY <1>t, <2>3, KillRows DEF HorseKilled, Kill, Submissions
  <2>4. CASE WorkerDies(w)
    BY <1>t, <2>4, KillRows, RowsUntouched DEF WorkerDies, Submissions
  <2> QED  BY <1>4, <2>1, <2>2, <2>3, <2>4 DEF WorkerStep, WorkerFault
<1>5. ASSUME NEW w \in Workers, NEW j \in Jobs, FailAbandoned(w, j)
      PROVE  RowsInv'
  BY <1>5, RowsUntouched DEF FailAbandoned
<1>6. CASE UNCHANGED vars
  BY <1>6, RowsUntouched DEF vars
<1> QED  BY <1>1, <1>2, <1>3, <1>4, <1>5, <1>6 DEF Next

(* Rows of a job change only while it is started. *)
LEMMA RowsChangeWhenStarted ==
  ASSUME Types, ControlInv, [Next]_vars, NEW j \in Jobs, status[j] # "started"
  PROVE  memories'[j] = memories[j] /\ audit'[j] = audit[j]
<1>t. EvaluationTypes /\ j \in Submissions
  BY TypesSplit DEF Submissions
<1>1. ASSUME NEW s \in Submissions, Evaluate(s)
      PROVE  memories'[j] = memories[j] /\ audit'[j] = audit[j]
  <2>1. j # s
    BY <1>1, EvaluateIsStarted
  <2> QED  BY <1>t, <1>1, <2>1, EvaluationStepFrame DEF Evaluate
<1>2. ASSUME \A s \in Submissions : ~ Evaluate(s)
      PROVE  UNCHANGED <<memories, audit>>
  BY <1>2 DEF Next, vars, evalVars, HandlerStep, CheckCapacity, Enqueue, SaveMeta, HandlerFails,
       ExpireResult, CreateMemory, RespondDirect, ApiDies, Begin, Kill, WorkerStep, TakeJob,
       FinishJob, FailJob, WorkerFault, HorseKilled, WorkerDies, WorkerRestarts, FailAbandoned
<1> QED  BY <1>1, <1>2

(* The status of a job that ended only expires, its result stays. *)
LEMMA EndedStays ==
  ASSUME Types, ControlInv, [Next]_vars, NEW j \in Jobs, status[j] \in {"finished", "failed", "expired"}
  PROVE  /\ result'[j] = result[j]
         /\ status'[j] \in {status[j], "expired"}
         /\ status[j] = "failed" => status'[j] = "failed"
<1>t. GateTypes
  BY TypesSplit
<1>1. ASSUME NEW i \in Jobs, HandlerStep(i) \/ ExpireResult(i)
      PROVE  /\ result'[j] = result[j]
             /\ status'[j] \in {status[j], "expired"}
             /\ status[j] = "failed" => status'[j] = "failed"
  BY <1>t, <1>1 DEF HandlerStep, CheckCapacity, Enqueue, SaveMeta, HandlerFails, ExpireResult,
       GateTypes, ControlInv, HandlerInv
<1>2. ASSUME NEW d \in Directs, CreateMemory(d) \/ RespondDirect(d) \/ ApiDies(d)
      PROVE  UNCHANGED <<result, status>>
  BY <1>2 DEF CreateMemory, RespondDirect, ApiDies, gateVars
<1>3. ASSUME NEW s \in Submissions, Evaluate(s)
      PROVE  UNCHANGED <<result, status>>
  BY <1>3 DEF Evaluate, gateVars
<1>4. ASSUME NEW w \in Workers, WorkerStep(w) \/ WorkerFault(w)
      PROVE  result'[j] = result[j] /\ status'[j] = status[j]
  <2>1. CASE TakeJob(w)
    BY <1>t, <2>1, HeadIsFresh DEF TakeJob, GateTypes
  <2>2. CASE FinishJob(w) \/ FailJob(w)
    BY <1>t, <2>2, JobsAssumption DEF FinishJob, FailJob, GateTypes, ControlInv, WorkerInv
  <2>3. CASE WorkerFault(w)
    BY <2>3 DEF WorkerFault, HorseKilled, WorkerDies, WorkerRestarts, gateVars
  <2> QED  BY <1>4, <2>1, <2>2, <2>3 DEF WorkerStep
<1>5. ASSUME NEW w \in Workers, NEW i \in Jobs, FailAbandoned(w, i)
      PROVE  result'[j] = result[j] /\ status'[j] = status[j]
  BY <1>t, <1>5 DEF FailAbandoned, GateTypes
<1>6. CASE UNCHANGED vars
  BY <1>6 DEF vars, gateVars
<1> QED  BY <1>1, <1>2, <1>3, <1>4, <1>5, <1>6 DEF Next

(* A job gets the status "finished" from FinishJob alone. *)
LEMMA FinishedByWorker ==
  ASSUME Types, ControlInv, [Next]_vars, NEW j \in Jobs,
         status[j] \notin {"finished", "expired"}, status'[j] \in {"finished", "expired"}
  PROVE  /\ status[j] = "started" /\ status'[j] = "finished"
         /\ pc[j] = "returned" /\ result'[j] = outcome[j] /\ UNCHANGED evalVars
<1>t. GateTypes
  BY TypesSplit
<1>1. ASSUME NEW w \in Workers, FinishJob(w)
      PROVE  /\ status[j] = "started" /\ status'[j] = "finished"
             /\ pc[j] = "returned" /\ result'[j] = outcome[j] /\ UNCHANGED evalVars
  BY <1>t, <1>1, JobsAssumption DEF FinishJob, GateTypes, ControlInv, WorkerInv
<1>2. ASSUME \A w \in Workers : ~ FinishJob(w)
      PROVE  FALSE
  <2>1. ~ \E w \in Workers : TakeJob(w)
    BY <1>t, HeadIsFresh DEF TakeJob, GateTypes
  <2> QED  BY <1>t, <1>2, <2>1 DEF GateTypes, Next, vars, gateVars, HandlerStep, CheckCapacity, Enqueue,
       SaveMeta, HandlerFails, ExpireResult, CreateMemory, RespondDirect, ApiDies, Evaluate, WorkerStep,
       FailJob, WorkerFault, HorseKilled, WorkerDies, WorkerRestarts, FailAbandoned
<1> QED  BY <1>1, <1>2

LEMMA NextResult ==
  ASSUME Types, ControlInv, RowsInv, ResultInv, [Next]_vars
  PROVE  ResultInv'
<1> SUFFICES ASSUME NEW j \in Jobs, status'[j] \in {"finished", "expired"}
             PROVE  audit'[j] # <<>> /\ (result'[j] = "admitted" <=> memories'[j] # <<>>)
  BY DEF ResultInv
<1>1. CASE status[j] \in {"finished", "expired"}
  BY <1>1, RowsChangeWhenStarted, EndedStays DEF ResultInv
<1>2. CASE status[j] \notin {"finished", "expired"}
  BY <1>2, FinishedByWorker DEF evalVars, RowsInv, PathInv
<1> QED  BY <1>1, <1>2
-----------------------------------------------------------------------------
(* Direct writes. *)

DirectWrites == DirectInv /\ DirectWriteIsAudited

LEMMA NextDirect ==
  ASSUME Types, DirectWrites, [Next]_vars
  PROVE  DirectWrites'
<1> USE SubmissionsAssumption DEF Submissions
<1>t. GateTypes /\ EvaluationTypes
  BY TypesSplit
<1>0. ASSUME \A d \in Directs : /\ pc'[d] = pc[d] /\ memories'[d] = memories[d]
                                /\ audit'[d] = audit[d] /\ api'[d] = api[d]
      PROVE  DirectWrites'
  BY <1>0 DEF DirectWrites, DirectInv, DirectWriteIsAudited
<1>1. ASSUME NEW j \in Jobs, HandlerStep(j) \/ ExpireResult(j)
      PROVE  DirectWrites'
  BY <1>t, <1>0, <1>1 DEF HandlerStep, CheckCapacity, Enqueue, SaveMeta, HandlerFails, ExpireResult,
       evalVars, GateTypes
<1>2. ASSUME NEW d \in Directs, CreateMemory(d) \/ RespondDirect(d) \/ ApiDies(d)
      PROVE  DirectWrites'
  <2>1. UNCHANGED <<memories, audit>>
    BY <1>2 DEF CreateMemory, RespondDirect, ApiDies, Begin, Kill, evalVars
  <2>2. CASE CreateMemory(d)
    <3>1. pc' = [pc EXCEPT ![d] = "encode"] /\ api' = [api EXCEPT ![d] = "writing"] /\ pc[d] = "none"
      BY <2>2 DEF CreateMemory, Begin, DirectWrites, DirectInv
    <3> QED  BY <1>t, <2>1, <3>1 DEF GateTypes, EvaluationTypes, EvaluationTypeOK, DirectWrites,
               DirectInv, DirectWriteIsAudited, Over
  <2>3. CASE RespondDirect(d)
    <3>1. pc' = pc /\ api' = [api EXCEPT ![d] = IF pc[d] = "returned" THEN "created" ELSE "error"]
      BY <2>3 DEF RespondDirect, evalVars
    <3> QED  BY <1>t, <2>1, <3>1 DEF GateTypes, DirectWrites, DirectInv, DirectWriteIsAudited
  <2>4. CASE ApiDies(d)
    <3>1. pc' = [pc EXCEPT ![d] = "killed"] /\ api' = api /\ pc[d] \in Working \cup {"returned", "raised"}
      BY <2>4 DEF ApiDies, Kill, gateVars
    <3> QED  BY <1>t, <2>1, <3>1 DEF EvaluationTypes, EvaluationTypeOK, Working, DirectWrites,
               DirectInv, DirectWriteIsAudited, Over
  <2> QED  BY <1>2, <2>2, <2>3, <2>4
<1>3. ASSUME NEW s \in Submissions, Evaluate(s)
      PROVE  DirectWrites'
  <2>0. EvaluationStep(s) /\ UNCHANGED api
    BY <1>3 DEF Evaluate, gateVars
  <2>1. CASE s \in Jobs
    BY <1>t, <1>0, <2>0, <2>1, EvaluationStepFrame
  <2>2. CASE s \in Directs /\ StoreMemory(s)
    <3>1. memories[s] = <<>> /\ audit[s] = <<>>
      BY <2>2 DEF StoreMemory, DirectWrites, DirectInv, Over
    <3>2. Len(memories'[s]) = 1 /\ Len(audit'[s]) = 1 /\ pc'[s] \in Over
      BY <1>t, <2>2, <3>1 DEF StoreMemory, EvaluationTypes, EvaluationTypeOK, Over
    <3>3. api[s] # "new"
      BY <2>2 DEF StoreMemory, DirectWrites, DirectInv
    <3>4. \A d \in Directs : d # s => /\ pc'[d] = pc[d] /\ memories'[d] = memories[d]
                                      /\ audit'[d] = audit[d]
      BY <1>t, <2>0, EvaluationStepFrame
    <3>5. DirectInv'
      BY <2>0, <3>2, <3>3, <3>4 DEF DirectWrites, DirectInv
    <3>6. DirectWriteIsAudited'
      <4>1. \A d \in Directs : d # s => /\ Len(memories'[d]) = Len(audit'[d]) /\ Len(memories'[d]) <= 1
                                        /\ api'[d] = "created" => Len(memories'[d]) = 1
        BY <2>0, <3>4 DEF DirectWrites, DirectWriteIsAudited
      <4>2. /\ Len(memories'[s]) = Len(audit'[s]) /\ Len(memories'[s]) <= 1
            /\ api'[s] = "created" => Len(memories'[s]) = 1
        BY <3>2
      <4>3. \A d \in Directs : /\ Len(memories'[d]) = Len(audit'[d]) /\ Len(memories'[d]) <= 1
                               /\ api'[d] = "created" => Len(memories'[d]) = 1
        BY <4>1, <4>2, Zenon
      <4> QED  BY <4>3 DEF DirectWriteIsAudited
    <3> QED  BY <3>5, <3>6 DEF DirectWrites
  <2>3. CASE s \in Directs /\ ~ StoreMemory(s)
    <3>1. Encode(s) \/ Raise(s)
      BY <2>0, <2>3 DEF EvaluationStep, Progress, ScanText, ScanVerdict, AskProvider, ProviderAnswers, ProviderFails,
           JudgeLocally, LocalVerdict, RecordReject, DirectWrites, DirectInv, Over
    <3> QED  BY <1>t, <2>0, <2>3, <3>1 DEF Encode, Raise, Working, EvaluationTypes, EvaluationTypeOK,
                  DirectWrites, DirectInv, DirectWriteIsAudited, Over
  <2> QED  BY <2>1, <2>2, <2>3
<1>4. ASSUME NEW w \in Workers, WorkerStep(w) \/ WorkerFault(w)
      PROVE  DirectWrites'
  <2>1. UNCHANGED <<memories, audit, api>>
    BY <1>4 DEF WorkerStep, TakeJob, Begin, FinishJob, FailJob, WorkerFault, HorseKilled, Kill,
         WorkerDies, WorkerRestarts, evalVars, gateVars
  <2>2. \A d \in Directs : pc'[d] = pc[d]
    <3>1. CASE TakeJob(w)
      BY <1>t, <3>1 DEF TakeJob, Begin, GateTypes, EvaluationTypes, EvaluationTypeOK
    <3>2. CASE FinishJob(w) \/ FailJob(w) \/ WorkerRestarts(w)
      BY <3>2 DEF FinishJob, FailJob, WorkerRestarts, evalVars
    <3>3. CASE HorseKilled(w) \/ WorkerDies(w)
      BY <1>t, <3>3 DEF HorseKilled, Kill, WorkerDies, evalVars, EvaluationTypes, EvaluationTypeOK
    <3> QED  BY <1>4, <3>1, <3>2, <3>3 DEF WorkerStep, WorkerFault
  <2> QED  BY <1>0, <2>1, <2>2
<1>5. ASSUME NEW w \in Workers, NEW j \in Jobs, FailAbandoned(w, j)
      PROVE  DirectWrites'
  BY <1>0, <1>5 DEF FailAbandoned, evalVars
<1>6. CASE UNCHANGED vars
  BY <1>0, <1>6 DEF vars, evalVars, gateVars
<1> QED  BY <1>1, <1>2, <1>3, <1>4, <1>5, <1>6 DEF Next

-----------------------------------------------------------------------------
(* The depth of the list, and the handlers between check and enqueue. *)

DepthInv == Cardinality(InHandler) <= MaxHandlers /\ DepthIsBounded

LEMMA HandlersAreFinite ==
  /\ IsFiniteSet(InHandler) /\ Cardinality(InHandler) \in Nat
  /\ IsFiniteSet(Checked) /\ Cardinality(Checked) \in Nat
  /\ Cardinality(Checked) <= Cardinality(InHandler)
<1>1. InHandler \subseteq Jobs /\ Checked \subseteq InHandler
  BY DEF InHandler, Checked
<1>2. IsFiniteSet(InHandler)
  BY <1>1, JobsAssumption, FS_Subset
<1> QED  BY <1>1, <1>2, FS_Subset, FS_CardinalityType

LEMMA NextDepth ==
  ASSUME Types, ControlInv, DepthInv, [Next]_vars
  PROVE  DepthInv'
<1> USE LimitsAssumption
<1>t. GateTypes /\ Jobs \subseteq Submissions /\ Len(queue) \in Nat
  BY TypesSplit DEF Submissions, GateTypes
<1>0. ASSUME \A j \in Jobs : api'[j] = api[j], Len(queue') <= Len(queue), Len(queue') \in Nat
      PROVE  DepthInv'
  <2>1. InHandler' = InHandler /\ Checked' = Checked
    BY <1>0 DEF InHandler, Checked
  <2> QED  BY <1>0, <1>t, <2>1, HandlersAreFinite DEF DepthInv, DepthIsBounded
<1>1. ASSUME NEW j \in Jobs, HandlerStep(j) \/ ExpireResult(j)
      PROVE  DepthInv'
  <2>1. CASE CheckCapacity(j) /\ Len(queue) < MaxQueueDepth
    <3>1. InHandler' = InHandler \cup {j} /\ Checked' = Checked \cup {j} /\ j \notin InHandler
      BY <1>t, <2>1 DEF CheckCapacity, InHandler, Checked, GateTypes
    <3>2. /\ Cardinality(InHandler') <= MaxHandlers
          /\ Cardinality(Checked') \in Nat /\ Cardinality(Checked') <= Cardinality(InHandler')
          /\ Cardinality(InHandler') \in Nat
      <4>1. Cardinality(InHandler') = Cardinality(InHandler) + 1
        BY <3>1, HandlersAreFinite, FS_AddElement
      <4>2. IsFiniteSet(InHandler')
        BY <3>1, HandlersAreFinite, FS_AddElement
      <4>3. Cardinality(InHandler) < MaxHandlers
        BY <2>1 DEF CheckCapacity
      <4>4. Checked' \subseteq InHandler'
        BY DEF InHandler, Checked
      <4> QED  BY <4>1, <4>2, <4>3, <4>4, HandlersAreFinite, FS_Subset, FS_CardinalityType
    <3> QED  BY <1>t, <2>1, <3>2 DEF CheckCapacity, DepthInv, DepthIsBounded
  <2>2. CASE CheckCapacity(j) /\ ~ (Len(queue) < MaxQueueDepth)
    <3>1. InHandler' = InHandler /\ Checked' = Checked /\ queue' = queue
      BY <1>t, <2>2 DEF CheckCapacity, InHandler, Checked, GateTypes
    <3> QED  BY <3>1 DEF DepthInv, DepthIsBounded
  <2>3. CASE Enqueue(j)
    <3>1. InHandler' = InHandler /\ Checked' = Checked \ {j} /\ j \in Checked
      BY <1>t, <2>3 DEF Enqueue, InHandler, Checked, GateTypes
    <3>2. Len(queue') = Len(queue) + 1
      BY <1>t, <2>3 DEF Enqueue, GateTypes
    <3>3. Cardinality(Checked') = Cardinality(Checked) - 1
      BY <3>1, HandlersAreFinite, FS_RemoveElement
    <3> QED  BY <1>t, <3>1, <3>2, <3>3, HandlersAreFinite DEF DepthInv, DepthIsBounded
  <2>4. CASE SaveMeta(j) \/ HandlerFails(j)
    <3>1. InHandler' \subseteq InHandler /\ Checked' \subseteq Checked /\ queue' = queue
      BY <1>t, <2>4 DEF SaveMeta, HandlerFails, InHandler, Checked, GateTypes
    <3>2. /\ Cardinality(InHandler') <= Cardinality(InHandler) /\ Cardinality(InHandler') \in Nat
          /\ Cardinality(Checked') <= Cardinality(Checked) /\ Cardinality(Checked') \in Nat
      BY <3>1, HandlersAreFinite, FS_Subset, FS_CardinalityType
    <3> QED  BY <1>t, <3>1, <3>2, HandlersAreFinite DEF DepthInv, DepthIsBounded
  <2>5. CASE ExpireResult(j)
    BY <1>t, <1>0, <2>5 DEF ExpireResult
  <2> QED  BY <1>1, <2>1, <2>2, <2>3, <2>4, <2>5 DEF HandlerStep
<1>2. ASSUME NEW d \in Directs, CreateMemory(d) \/ RespondDirect(d) \/ ApiDies(d)
      PROVE  DepthInv'
  <2>1. \A j \in Jobs : api'[j] = api[j]
    BY <1>t, <1>2, SubmissionsAssumption DEF CreateMemory, RespondDirect, ApiDies, gateVars, GateTypes
  <2> QED  BY <1>t, <1>0, <1>2, <2>1 DEF CreateMemory, RespondDirect, ApiDies, gateVars
<1>3. ASSUME NEW s \in Submissions, Evaluate(s)
      PROVE  DepthInv'
  BY <1>t, <1>0, <1>3 DEF Evaluate, gateVars
<1>4. ASSUME NEW w \in Workers, WorkerStep(w) \/ WorkerFault(w)
      PROVE  DepthInv'
  <2>1. CASE TakeJob(w)
    <3>1. Len(queue') \in Nat /\ Len(queue') <= Len(queue) /\ api' = api
      BY <1>t, <2>1 DEF TakeJob, GateTypes
    <3> QED  BY <1>0, <3>1
  <2>2. CASE ~ TakeJob(w)
    <3>1. UNCHANGED <<api, queue>>
      BY <1>4, <2>2 DEF WorkerStep, FinishJob, FailJob, WorkerFault, HorseKilled, WorkerDies,
           WorkerRestarts, gateVars
    <3> QED  BY <1>t, <1>0, <3>1
  <2> QED  BY <2>1, <2>2
<1>5. ASSUME NEW w \in Workers, NEW j \in Jobs, FailAbandoned(w, j)
      PROVE  DepthInv'
  BY <1>t, <1>0, <1>5 DEF FailAbandoned
<1>6. CASE UNCHANGED vars
  BY <1>t, <1>0, <1>6 DEF vars, gateVars
<1> QED  BY <1>1, <1>2, <1>3, <1>4, <1>5, <1>6 DEF Next
-----------------------------------------------------------------------------
(* The inductive invariant, and the safety properties it implies. *)

IInv == Types /\ GateInv

LEMMA InvParts ==
  IInv <=> /\ Types /\ ControlInv /\ RowsInv /\ ResultInv /\ DirectWrites /\ DepthInv
  BY DEF IInv, GateInv, ControlInv, RowsInv, DirectWrites, DepthInv

LEMMA InitInv == Init => IInv
<1> SUFFICES ASSUME Init PROVE IInv
  OBVIOUS
<1> USE DEF Init, EvaluationInit
<1>1. Types
  BY InitTypes
<1>2. ControlInv
  BY DEF ControlInv, QueueInv, HandlerInv, WorkerInv, Submissions
<1>3. RowsInv /\ ResultInv
  BY DEF RowsInv, PathInv, PiiStaysInside, DecidedOnce, ResultInv, Submissions, Working
<1>4. DirectWrites
  BY DEF DirectWrites, DirectInv, DirectWriteIsAudited, Submissions, Over
<1>5. DepthInv
  <2>1. InHandler = {} /\ Checked = {} /\ Len(queue) = 0
    BY DEF InHandler, Checked, Submissions
  <2> QED  BY <2>1, FS_EmptySet, LimitsAssumption DEF DepthInv, DepthIsBounded
<1> QED  BY <1>1, <1>2, <1>3, <1>4, <1>5, InvParts

LEMMA NextInv == IInv /\ [Next]_vars => IInv'
<1> SUFFICES ASSUME Types, ControlInv, RowsInv, ResultInv, DirectWrites, DepthInv, [Next]_vars
             PROVE  /\ Types' /\ ControlInv' /\ RowsInv' /\ ResultInv' /\ DirectWrites' /\ DepthInv'
  BY InvParts DEF IInv, GateInv, ControlInv, RowsInv, DirectWrites, DepthInv
<1>1. Types'
  BY NextTypes
<1>2. ControlInv'
  BY NextControl DEF DirectWrites
<1>3. RowsInv'
  BY NextRows
<1>4. ResultInv'
  BY NextResult
<1>5. DirectWrites'
  BY NextDirect
<1>6. DepthInv'
  BY NextDepth
<1> QED  BY <1>1, <1>2, <1>3, <1>4, <1>5, <1>6

LEMMA Invariance == Spec => []IInv
  BY InitInv, NextInv, PTL DEF Spec

(* Why a job is decided once: a queued job is on the list once, a started  *)
(* one has at most one worker, an evaluation at work has no row yet.       *)
THEOREM GateInvariant == Spec => []GateInv
<1>1. IInv => GateInv
  BY DEF IInv
<1> QED  BY <1>1, Invariance, PTL

(* No text with PII is sent to a provider or stored through the gate, for  *)
(* any number of candidates, workers and providers.                        *)
THEOREM PiiNeverLeaves == Spec => []PiiStaysInside
<1>1. IInv => PiiStaysInside
  BY DEF IInv, GateInv
<1> QED  BY <1>1, Invariance, PTL

(* A candidate leaves at most one decision, recorded with its trace. *)
THEOREM AtMostOneDecision == Spec => []DecidedOnce
<1>1. IInv => DecidedOnce
  BY DEF IInv, GateInv
<1> QED  BY <1>1, Invariance, PTL

(* A direct write has at most one row, its admit event, and both when 201. *)
THEOREM DirectWritesAudited == Spec => []DirectWriteIsAudited
<1>1. IInv => DirectWriteIsAudited
  BY DEF IInv, GateInv
<1> QED  BY <1>1, Invariance, PTL

(* The list never holds MaxQueueDepth + MaxHandlers jobs. *)
THEOREM DepthBound == Spec => []DepthIsBounded
<1>1. IInv => DepthIsBounded
  BY DEF IInv, GateInv
<1> QED  BY <1>1, Invariance, PTL

(* A job accepted with 202 is visible to its tenant until it expires, and  *)
(* no job is ever visible to another tenant.                               *)
THEOREM StatusIsolation == Spec => []OnlyOwnerSeesJob
<1>1. IInv => OnlyOwnerSeesJob
  <2> SUFFICES ASSUME IInv, NEW j \in Jobs, NEW t \in Tenants
               PROVE  IF t = TenantOf[j]
                      THEN api[j] = "accepted" /\ status[j] # "expired" => GetJobStatus(j, t).status # "none"
                      ELSE GetJobStatus(j, t).status = "none"
    BY DEF OnlyOwnerSeesJob
  <2>1. /\ meta[j] \in {NoTenant, TenantOf[j]}
        /\ api[j] = "accepted" => meta[j] = TenantOf[j] /\ status[j] # "none"
    BY DEF IInv, GateInv, HandlerInv
  <2> QED  BY <2>1, TenantAssumption DEF GetJobStatus
<1> QED  BY <1>1, Invariance, PTL

-----------------------------------------------------------------------------
(* Refinement: WriteGate implements AdmissionLedger. *)

ledger == [j \in Jobs |-> LedgerDecision(j)]
answered == [j \in Jobs |-> LedgerAnswer(j)]

LEMMA LedgerStutters ==
  ASSUME \A j \in Jobs : LedgerDecision(j)' = LedgerDecision(j) /\ LedgerAnswer(j)' = LedgerAnswer(j)
  PROVE  ledger' = ledger /\ answered' = answered
  BY DEF ledger, answered

LEMMA InitLedger == Init => Ledger!LedgerInit
  BY DEF Init, EvaluationInit, Ledger!LedgerInit, LedgerDecision, LedgerAnswer, Submissions

(* A committed row is a decision of the ledger; other evaluation steps are *)
(* invisible.                                                              *)
LEMMA EvaluateDecides ==
  ASSUME IInv, NEW s \in Submissions, Evaluate(s)
  PROVE  [Ledger!LedgerNext]_<<ledger, answered>>
<1> USE DEF Submissions
<1>t. Types /\ ControlInv /\ RowsInv /\ EvaluationTypes /\ GateTypes
  BY InvParts, TypesSplit
<1>0. UNCHANGED <<status, result>> /\ EvaluationStep(s)
  BY DEF Evaluate, gateVars
<1>1. answered' = answered
  BY <1>0 DEF answered, LedgerAnswer
<1>2. CASE s \in Jobs /\ (RecordReject(s) \/ StoreMemory(s))
  <2> DEFINE d == IF StoreMemory(s) THEN "admitted" ELSE "rejected"
  <2>1. LedgerAnswer(s) = "pending"
    BY <1>t, <1>2, EvaluateIsStarted DEF LedgerAnswer
  <2>2. LedgerDecision(s) = "open"
    BY <1>t, <1>2 DEF RowsInv, PathInv, RecordReject, StoreMemory, Working, LedgerDecision
  <2>3. LedgerDecision(s)' = d /\ (d = "admitted" => s \notin Pii)
    <3>1. CASE StoreMemory(s)
      <4>1. memories'[s] # <<>>
        BY <1>t, <1>2, <3>1 DEF StoreMemory, RowsInv, PathInv, Working, EvaluationTypes, EvaluationTypeOK
      <4> QED  BY <1>t, <1>2, <3>1, <4>1 DEF StoreMemory, RowsInv, PathInv, LedgerDecision
    <3>2. CASE ~ StoreMemory(s)
      <4>1. memories'[s] = <<>> /\ audit'[s] # <<>>
        BY <1>t, <1>2, <3>2 DEF RecordReject, RowsInv, PathInv, Working, EvaluationTypes, EvaluationTypeOK
      <4> QED  BY <3>2, <4>1 DEF LedgerDecision
    <3> QED  BY <3>1, <3>2
  <2>4. \A j \in Jobs : j # s => LedgerDecision(j)' = LedgerDecision(j)
    BY <1>t, <1>0, EvaluationStepFrame DEF LedgerDecision
  <2>5. ledger' = [ledger EXCEPT ![s] = d]
    <3> HIDE DEF d
    <3> QED  BY <1>2, <2>3, <2>4 DEF ledger
  <2>6. d \in {"admitted", "rejected"}
    OBVIOUS
  <2> HIDE DEF d
  <2>7. Ledger!Decide(s, d)
    BY <1>1, <1>2, <2>1, <2>2, <2>3, <2>5 DEF Ledger!Decide, ledger, answered
  <2> QED  BY <1>2, <2>6, <2>7 DEF Ledger!LedgerNext, Ledger!Decisions
<1>3. CASE s \in Directs \/ ~ (RecordReject(s) \/ StoreMemory(s))
  <2>1. \A j \in Jobs : memories'[j] = memories[j] /\ audit'[j] = audit[j]
    <3>1. CASE s \in Directs
      BY <1>t, <1>0, <3>1, EvaluationStepFrame, SubmissionsAssumption
    <3>2. CASE ~ (RecordReject(s) \/ StoreMemory(s))
      BY <1>0, <3>2 DEF EvaluationStep, Progress, ScanText, ScanVerdict, AskProvider, ProviderAnswers, ProviderFails,
         JudgeLocally, LocalVerdict, Judged, Encode, Raise
    <3> QED  BY <1>3, <3>1, <3>2
  <2>2. ledger' = ledger
    BY <2>1 DEF ledger, LedgerDecision
  <2> QED  BY <1>1, <2>2
<1> QED  BY <1>2, <1>3

(* A job reaches its final status: the ledger replies. *)
LEMMA StatusReplies ==
  ASSUME IInv, UNCHANGED <<memories, audit>>, NEW j \in Jobs, NEW st \in {"finished", "failed"},
         status[j] = "started", status' = [status EXCEPT ![j] = st],
         \/ st = "failed" /\ UNCHANGED result
         \/ /\ st = "finished" /\ pc[j] = "returned"
            /\ result' = [result EXCEPT ![j] = outcome[j]]
  PROVE  [Ledger!LedgerNext]_<<ledger, answered>>
<1>t. RowsInv /\ GateTypes
  BY InvParts, TypesSplit
<1>1. ledger' = ledger
  BY DEF ledger, LedgerDecision
<1> DEFINE a == LedgerAnswer(j)'
<1>2. LedgerAnswer(j) = "pending"
  BY DEF LedgerAnswer
<1>3. a \in {LedgerDecision(j), "failed"} \ {"open"}
  <2>1. CASE st = "failed"
    BY <1>t, <2>1 DEF LedgerAnswer, GateTypes
  <2>2. CASE st = "finished"
    BY <1>t, <2>2 DEF LedgerAnswer, LedgerDecision, GateTypes, RowsInv, PathInv
  <2> QED  BY <2>1, <2>2
<1>4. a \in {"admitted", "rejected", "failed"}
  BY <1>3 DEF LedgerDecision
<1>5. \A i \in Jobs : i # j => LedgerAnswer(i)' = LedgerAnswer(i)
  BY <1>t DEF LedgerAnswer, GateTypes
<1>6. answered' = [answered EXCEPT ![j] = a]
  <2>1. LedgerAnswer(j)' = a
    OBVIOUS
  <2> HIDE DEF a
  <2> QED  BY <1>5, <2>1 DEF answered
<1> HIDE DEF a
<1>7. Ledger!Reply(j, a)
  BY <1>1, <1>2, <1>3, <1>6 DEF Ledger!Reply, ledger, answered
<1> QED  BY <1>4, <1>7 DEF Ledger!LedgerNext, Ledger!Decisions
LEMMA NextLedger ==
  ASSUME IInv, [Next]_vars
  PROVE  [Ledger!LedgerNext]_<<ledger, answered>>
<1>t. Types /\ ControlInv /\ GateTypes
  BY InvParts, TypesSplit
<1>0. ASSUME UNCHANGED <<memories, audit, result>>,
             \A j \in Jobs : \/ status'[j] = status[j]
                             \/ {status[j], status'[j]} \subseteq {"none", "queued", "started"}
                             \/ {status[j], status'[j]} \subseteq {"finished", "expired"}
      PROVE  [Ledger!LedgerNext]_<<ledger, answered>>
  <2>1. \A j \in Jobs : LedgerDecision(j)' = LedgerDecision(j) /\ LedgerAnswer(j)' = LedgerAnswer(j)
    BY <1>0 DEF LedgerDecision, LedgerAnswer
  <2> QED  BY <2>1, LedgerStutters
<1>1. ASSUME NEW j \in Jobs, HandlerStep(j) \/ ExpireResult(j)
      PROVE  [Ledger!LedgerNext]_<<ledger, answered>>
  BY <1>t, <1>0, <1>1 DEF HandlerStep, CheckCapacity, Enqueue, SaveMeta, HandlerFails, ExpireResult,
       evalVars, GateTypes, ControlInv, HandlerInv
<1>2. ASSUME NEW d \in Directs, CreateMemory(d) \/ RespondDirect(d) \/ ApiDies(d)
      PROVE  [Ledger!LedgerNext]_<<ledger, answered>>
  BY <1>0, <1>2 DEF CreateMemory, RespondDirect, ApiDies, Begin, Kill, evalVars, gateVars
<1>3. ASSUME NEW s \in Submissions, Evaluate(s)
      PROVE  [Ledger!LedgerNext]_<<ledger, answered>>
  BY <1>3, EvaluateDecides
<1>4. ASSUME NEW w \in Workers, WorkerStep(w) \/ WorkerFault(w)
      PROVE  [Ledger!LedgerNext]_<<ledger, answered>>
  <2>1. CASE TakeJob(w)
    BY <1>t, <1>0, <2>1, HeadIsFresh DEF TakeJob, Begin, GateTypes
  <2>2. CASE FinishJob(w)
    <3>1. PICK j \in Jobs : /\ running[w] = j /\ pc[j] = "returned"
                            /\ status' = [status EXCEPT ![j] = "finished"]
                            /\ result' = [result EXCEPT ![j] = outcome[j]]
                            /\ UNCHANGED evalVars
      BY <2>2 DEF FinishJob
    <3>2. status[j] = "started"
      BY <1>t, <3>1, JobsAssumption DEF ControlInv, WorkerInv
    <3> QED  BY <3>1, <3>2, StatusReplies DEF evalVars
  <2>3. CASE FailJob(w)
    <3>1. PICK j \in Jobs : /\ running[w] = j
                            /\ status' = [status EXCEPT ![j] = "failed"]
                            /\ UNCHANGED <<evalVars, result>>
      BY <2>3 DEF FailJob
    <3>2. status[j] = "started"
      BY <1>t, <3>1, JobsAssumption DEF ControlInv, WorkerInv
    <3> QED  BY <3>1, <3>2, StatusReplies DEF evalVars
  <2>4. CASE WorkerFault(w)
    BY <1>0, <2>4 DEF WorkerFault, HorseKilled, Kill, WorkerDies, WorkerRestarts, evalVars, gateVars
  <2> QED  BY <1>4, <2>1, <2>2, <2>3, <2>4 DEF WorkerStep
<1>5. ASSUME NEW w \in Workers, NEW j \in Jobs, FailAbandoned(w, j)
      PROVE  [Ledger!LedgerNext]_<<ledger, answered>>
  BY <1>5, StatusReplies DEF FailAbandoned, evalVars
<1>6. CASE UNCHANGED vars
  BY <1>0, <1>6 DEF vars, evalVars, gateVars
<1> QED  BY <1>1, <1>2, <1>3, <1>4, <1>5, <1>6 DEF Next

(* Every behaviour of handlers, list, workers and transactions is a        *)
(* behaviour of the ledger.                                                *)
THEOREM LedgerRefinement == Spec => ImplementsLedger
<1>1. IInv /\ [Next]_vars => [Ledger!LedgerNext]_<<ledger, answered>>
  BY NextLedger
<1>2. Init => Ledger!LedgerInit
  BY InitLedger
<1> QED  BY <1>1, <1>2, Invariance, PTL
         DEF Spec, ImplementsLedger, Ledger!LedgerSpec, Ledger!ledgerVars, ledger, answered

-----------------------------------------------------------------------------
(* A caller that polls. *)

(* An evaluation at work is in the hands of a worker.                      *)
AtWork == \A j \in Jobs : pc[j] \in Working => \E w \in Workers : running[w] = j

PollTypes ==
  /\ poll \in [Jobs -> {"idle", "fetch", "status", "result"}]
  /\ seen \in [Jobs -> {"none", "finished", "failed"}]
  /\ told \in [Jobs -> {"none", "queued", "started", "finished"} \cup FinalAnswers]

(* What a poll has read, and what the caller was told, has not been        *)
(* overtaken: a job that ended stays ended, with its result.               *)
PollInv ==
  \A j \in Jobs :
    /\ poll[j] # "idle" => status[j] # "none"
    /\ poll[j] = "result" => seen[j] # "none"
    /\ seen[j] = "finished" => status[j] \in {"finished", "expired"}
    /\ seen[j] = "failed" => status[j] = "failed"
    /\ told[j] = "queued" => status[j] # "none"
    /\ told[j] = "started" => status[j] \notin {"none", "queued"}
    /\ told[j] = "admitted" => status[j] \in {"finished", "expired"} /\ result[j] = "admitted"
    /\ told[j] = "rejected" => status[j] \in {"finished", "expired"} /\ result[j] # "admitted"
    /\ told[j] = "failed" => status[j] = "failed"
    /\ told[j] = "finished" => status[j] = "expired"

SessionInv == IInv /\ AtWork /\ PollTypes /\ PollInv
-----------------------------------------------------------------------------
(* The write path, whoever polls. *)

(* A job leaves "none" and "queued" once and for all.                      *)
LEMMA StatusAdvances ==
  ASSUME Types, ControlInv, [Next]_vars, NEW j \in Jobs
  PROVE  /\ status[j] # "none" => status'[j] # "none"
         /\ status[j] \notin {"none", "queued"} => status'[j] \notin {"none", "queued"}
<1>t. GateTypes
  BY TypesSplit
<1>1. ASSUME NEW i \in Jobs, HandlerStep(i) \/ ExpireResult(i)
      PROVE  /\ status[j] # "none" => status'[j] # "none"
             /\ status[j] \notin {"none", "queued"} => status'[j] \notin {"none", "queued"}
  BY <1>t, <1>1 DEF HandlerStep, CheckCapacity, Enqueue, SaveMeta, HandlerFails, ExpireResult,
       GateTypes, ControlInv, HandlerInv
<1>2. ASSUME NEW w \in Workers, WorkerStep(w)
      PROVE  status'[j] = status[j] \/ status'[j] \in {"started", "finished", "failed"}
  <2>1. CASE TakeJob(w)
    BY <1>t, <2>1, HeadIsFresh DEF TakeJob, GateTypes
  <2>2. CASE FinishJob(w) \/ FailJob(w)
    BY <1>t, <2>2 DEF FinishJob, FailJob, GateTypes
  <2> QED  BY <1>2, <2>1, <2>2 DEF WorkerStep
<1>3. ASSUME NEW w \in Workers, NEW i \in Jobs, FailAbandoned(w, i)
      PROVE  status'[j] = status[j] \/ status'[j] = "failed"
  BY <1>t, <1>3 DEF FailAbandoned, GateTypes
<1>4. ASSUME ~ \E i \in Jobs : HandlerStep(i) \/ ExpireResult(i),
             ~ \E w \in Workers : WorkerStep(w),
             ~ \E w \in Workers, i \in Jobs : FailAbandoned(w, i)
      PROVE  status' = status
  BY <1>4 DEF Next, vars, gateVars, CreateMemory, RespondDirect, ApiDies, Evaluate, WorkerFault,
       HorseKilled, WorkerDies, WorkerRestarts
<1> QED  BY <1>1, <1>2, <1>3, <1>4

LEMMA NextAtWork ==
  ASSUME Types, ControlInv, AtWork, [Next]_vars
  PROVE  AtWork'
<1>t. GateTypes /\ EvaluationTypes
  BY TypesSplit
<1>0. ASSUME running' = running, \A j \in Jobs : pc'[j] = pc[j] \/ pc'[j] \notin Working
      PROVE  AtWork'
  BY <1>0 DEF AtWork
<1>1. ASSUME NEW j \in Jobs, HandlerStep(j) \/ ExpireResult(j)
      PROVE  AtWork'
  BY <1>0, <1>1 DEF HandlerStep, CheckCapacity, Enqueue, SaveMeta, HandlerFails, ExpireResult, evalVars
<1>2. ASSUME NEW d \in Directs, CreateMemory(d) \/ RespondDirect(d) \/ ApiDies(d)
      PROVE  AtWork'
  <2>1. \A j \in Jobs : pc'[j] = pc[j]
    BY <1>t, <1>2, SubmissionsAssumption DEF CreateMemory, RespondDirect, ApiDies, Begin, Kill, evalVars,
         EvaluationTypes, EvaluationTypeOK, Submissions
  <2> QED  BY <1>0, <1>2, <2>1 DEF CreateMemory, RespondDirect, ApiDies, gateVars
<1>3. ASSUME NEW s \in Submissions, Evaluate(s)
      PROVE  AtWork'
  <2>1. \A j \in Jobs : j # s => pc'[j] = pc[j]
    BY <1>t, <1>3, EvaluationStepFrame DEF Evaluate, Submissions
  <2>2. running' = running /\ (s \in Jobs => \E w \in Workers : running[w] = s)
    BY <1>3, SubmissionsAssumption DEF Evaluate, gateVars
  <2> QED  BY <2>1, <2>2 DEF AtWork
<1>4. ASSUME NEW w \in Workers, WorkerStep(w) \/ WorkerFault(w)
      PROVE  AtWork'
  <2>1. CASE TakeJob(w)
    BY <1>t, <2>1, HeadIsFresh, JobsAssumption
       DEF TakeJob, Begin, AtWork, GateTypes, EvaluationTypes, EvaluationTypeOK, Submissions
  <2>2. CASE FinishJob(w) \/ FailJob(w)
    BY <1>t, <2>2 DEF FinishJob, FailJob, evalVars, AtWork, Working, GateTypes
  <2>3. CASE HorseKilled(w)
    BY <1>t, <1>0, <2>3 DEF HorseKilled, Kill, gateVars, Working, EvaluationTypes, EvaluationTypeOK, Submissions
  <2>4. CASE WorkerDies(w)
    BY <1>t, <2>4, JobsAssumption
       DEF WorkerDies, evalVars, AtWork, Working, GateTypes, EvaluationTypes, EvaluationTypeOK, Submissions
  <2>5. CASE WorkerRestarts(w)
    BY <1>0, <2>5 DEF WorkerRestarts, evalVars
  <2> QED  BY <1>4, <2>1, <2>2, <2>3, <2>4, <2>5 DEF WorkerStep, WorkerFault
<1>5. ASSUME NEW w \in Workers, NEW j \in Jobs, FailAbandoned(w, j)
      PROVE  AtWork'
  BY <1>0, <1>5 DEF FailAbandoned, evalVars
<1>6. CASE UNCHANGED vars
  BY <1>0, <1>6 DEF vars, evalVars, gateVars
<1> QED  BY <1>1, <1>2, <1>3, <1>4, <1>5, <1>6 DEF Next
-----------------------------------------------------------------------------
(* The session. *)

PollStep(j) == StartPoll(j) \/ FetchJob(j) \/ ReadStatus(j) \/ ReadResult(j) \/ PollFails(j)

LEMMA SessionSteps ==
  ASSUME [SessionNext]_sessionVars
  PROVE  \/ [Next]_vars /\ UNCHANGED pollVars
         \/ UNCHANGED vars /\ \E j \in Jobs : PollStep(j)
<1>1. CASE WritePath
  BY <1>1 DEF WritePath
<1>2. CASE Ask \/ Retrieve \/ UNCHANGED sessionVars
  <2>1. UNCHANGED <<vars, pollVars>>
    BY <1>2 DEF Ask, Retrieve, sessionVars
  <2> QED  BY <2>1
<1>3. ASSUME NEW j \in Jobs, PollStep(j)
      PROVE  UNCHANGED vars
  BY <1>3 DEF PollStep, StartPoll, FetchJob, ReadStatus, ReadResult, PollFails
<1> QED  BY <1>1, <1>2, <1>3 DEF SessionNext, PollStep

LEMMA WriteKeepsPolls ==
  ASSUME SessionInv, [Next]_vars, UNCHANGED pollVars
  PROVE  SessionInv'
<1>1. Types /\ ControlInv /\ AtWork /\ PollTypes /\ PollInv
  BY InvParts DEF SessionInv
<1>2. IInv' /\ AtWork'
  BY <1>1, NextInv, NextAtWork DEF SessionInv
<1>3. PollTypes'
  BY <1>1 DEF PollTypes, pollVars
<1>4. PollInv'
  <2> SUFFICES ASSUME NEW j \in Jobs
               PROVE  /\ poll[j] # "idle" => status'[j] # "none"
                      /\ poll[j] = "result" => seen[j] # "none"
                      /\ seen[j] = "finished" => status'[j] \in {"finished", "expired"}
                      /\ seen[j] = "failed" => status'[j] = "failed"
                      /\ told[j] = "queued" => status'[j] # "none"
                      /\ told[j] = "started" => status'[j] \notin {"none", "queued"}
                      /\ told[j] = "admitted" => status'[j] \in {"finished", "expired"} /\ result'[j] = "admitted"
                      /\ told[j] = "rejected" => status'[j] \in {"finished", "expired"} /\ result'[j] # "admitted"
                      /\ told[j] = "failed" => status'[j] = "failed"
                      /\ told[j] = "finished" => status'[j] = "expired"
    BY DEF PollInv, pollVars
  <2>1. /\ status[j] # "none" => status'[j] # "none"
        /\ status[j] \notin {"none", "queued"} => status'[j] \notin {"none", "queued"}
    BY <1>1, StatusAdvances
  <2>2. status[j] \in {"finished", "failed", "expired"} =>
          /\ result'[j] = result[j]
          /\ status'[j] \in {status[j], "expired"}
          /\ status[j] = "failed" => status'[j] = "failed"
    BY <1>1, EndedStays
  <2> QED  BY <1>1, <2>1, <2>2 DEF PollInv
<1> QED  BY <1>2, <1>3, <1>4 DEF SessionInv

LEMMA PollKeepsInv ==
  ASSUME SessionInv, NEW j \in Jobs, PollStep(j), UNCHANGED vars
  PROVE  SessionInv'
<1>1. Types /\ ControlInv /\ AtWork /\ PollTypes /\ PollInv /\ HandlerInv /\ GateTypes
  BY InvParts, TypesSplit DEF SessionInv, ControlInv
<1>2. IInv'
  BY NextInv DEF SessionInv
<1>3. AtWork' /\ status' = status /\ result' = result
  BY <1>1 DEF vars, evalVars, gateVars, AtWork
<1>4. PollTypes' /\ PollInv'
  <2>4. CASE StartPoll(j)
    BY <1>1, <1>3, <2>4 DEF StartPoll, PollTypes, PollInv, HandlerInv
  <2>5. CASE FetchJob(j)
    BY <1>1, <1>3, <2>5 DEF FetchJob, PollTypes, PollInv
  <2>6. CASE ReadStatus(j)
    <3>0. UNCHANGED <<api, meta>> /\ status[j] # "none" /\ status[j] \in Statuses /\ poll[j] = "status"
      BY <1>1, <2>6 DEF ReadStatus, vars, gateVars, PollInv, GateTypes
    <3>1. CASE status[j] = "expired"
      <4>1. poll' = [poll EXCEPT ![j] = "idle"] /\ UNCHANGED <<seen, told>>
        BY <2>6, <3>1 DEF ReadStatus
      <4> QED  BY <1>1, <1>3, <4>1 DEF PollTypes, PollInv
    <3>2. CASE status[j] \in {"finished", "failed"}
      <4>1. /\ poll' = [poll EXCEPT ![j] = "result"] /\ told' = told
            /\ seen' = [seen EXCEPT ![j] = status[j]]
        BY <2>6, <3>2 DEF ReadStatus
      <4> QED  BY <1>1, <1>3, <3>2, <4>1 DEF PollTypes, PollInv
    <3>3. CASE status[j] \in {"queued", "started"}
      <4>1. /\ poll' = [poll EXCEPT ![j] = "idle"] /\ seen' = seen
            /\ told' = [told EXCEPT ![j] = status[j]]
        BY <2>6, <3>3 DEF ReadStatus
      <4> QED  BY <1>1, <1>3, <3>3, <4>1 DEF PollTypes, PollInv, FinalAnswers
    <3> QED  BY <1>1, <1>2, <1>3, <3>0, <3>1, <3>2, <3>3 DEF Statuses
  <2>7. CASE ReadResult(j)
    <3> DEFINE a == IF seen[j] = "failed" THEN "failed"
                    ELSE IF status[j] = "expired" THEN "finished"
                    ELSE IF result[j] = "admitted" THEN "admitted" ELSE "rejected"
    <3>1. /\ told' = [told EXCEPT ![j] = a]
          /\ poll' = [poll EXCEPT ![j] = "idle"] /\ seen' = [seen EXCEPT ![j] = "none"]
      BY <2>7 DEF ReadResult
    <3>2. /\ a \in FinalAnswers \cup {"finished"}
          /\ a = "failed" => status[j] = "failed"
          /\ a = "finished" => status[j] = "expired"
          /\ a = "admitted" => status[j] \in {"finished", "expired"} /\ result[j] = "admitted"
          /\ a = "rejected" => status[j] \in {"finished", "expired"} /\ result[j] # "admitted"
      BY <1>1, <2>7 DEF ReadResult, PollInv, PollTypes, FinalAnswers
    <3> HIDE DEF a
    <3> QED  BY <1>1, <1>3, <3>1, <3>2 DEF PollTypes, PollInv, FinalAnswers
  <2>8. CASE PollFails(j)
    BY <1>1, <1>3, <2>8 DEF PollFails, PollTypes, PollInv
  <2> QED  BY <2>4, <2>5, <2>6, <2>7, <2>8 DEF PollStep
<1> QED  BY <1>2, <1>3, <1>4 DEF SessionInv

LEMMA SessionInitInv == SessionInit => SessionInv
<1> SUFFICES ASSUME SessionInit PROVE SessionInv
  OBVIOUS
<1>1. IInv
  BY InitInv DEF SessionInit
<1>2. AtWork
  BY DEF SessionInit, Init, EvaluationInit, AtWork, Working, Submissions
<1>3. PollTypes /\ PollInv
  BY DEF SessionInit, PollTypes, PollInv
<1> QED  BY <1>1, <1>2, <1>3 DEF SessionInv

LEMMA SessionInvariance == SessionSpec => []SessionInv
<1>1. SessionInv /\ [SessionNext]_sessionVars => SessionInv'
  BY SessionSteps, WriteKeepsPolls, PollKeepsInv
<1> QED  BY SessionInitInv, <1>1, PTL DEF SessionSpec

(* get_job_status answers from three reads of Redis; what the caller is    *)
(* told is true of the database when it is told, and stays true.           *)
THEOREM AnswersTrue == SessionSpec => []AnswersAreTrue
<1>1. SessionInv => AnswersAreTrue
  <2> SUFFICES ASSUME SessionInv, NEW j \in Jobs
               PROVE  /\ told[j] = "admitted" => memories[j] # <<>>
                      /\ told[j] = "rejected" =>
                           memories[j] = <<>> /\ Len(audit[j]) = 1 /\ audit[j][1].event = "reject"
                      /\ told[j] = "failed" => status[j] = "failed" /\ pc[j] \notin Working
                      /\ told[j] = "finished" => status[j] = "expired"
    BY DEF AnswersAreTrue
  <2>1. ControlInv /\ ResultInv /\ DecidedOnce /\ PollInv /\ AtWork
    BY InvParts DEF SessionInv, RowsInv
  <2>2. told[j] \in {"admitted", "rejected"} =>
          /\ audit[j] # <<>>
          /\ (told[j] = "admitted" <=> memories[j] # <<>>)
    BY <2>1 DEF PollInv, ResultInv
  <2>3. told[j] = "rejected" => Len(audit[j]) = 1 /\ audit[j][1].event = "reject"
    <3> SUFFICES ASSUME memories[j] = <<>>, audit[j] # <<>>
                 PROVE  Len(audit[j]) = 1 /\ audit[j][1].event = "reject"
      BY <2>2
    <3>1. \A x : <<x>> # <<>>
      OBVIOUS
    <3> QED  BY <2>1, <3>1, Zenon DEF DecidedOnce
  <2>4. status[j] = "failed" => pc[j] \notin Working
    BY <2>1, JobsAssumption DEF AtWork, ControlInv, WorkerInv
  <2> QED  BY <2>1, <2>2, <2>3, <2>4 DEF PollInv
<1> QED  BY <1>1, SessionInvariance, PTL

(* The answers of successive polls never go back.                          *)
THEOREM AnswersAdvance == SessionSpec => AnswersOnlyAdvance
<1>1. ASSUME SessionInv, [SessionNext]_sessionVars
      PROVE  [\A j \in Jobs : told'[j] = told[j] \/ Stage[told[j]] < Stage[told'[j]]]_told
  <2>1. CASE UNCHANGED pollVars
    BY <2>1 DEF pollVars
  <2>2. ASSUME UNCHANGED vars, NEW i \in Jobs, PollStep(i)
        PROVE  [\A j \in Jobs : told'[j] = told[j] \/ Stage[told[j]] < Stage[told'[j]]]_told
    <3>1. PollTypes /\ PollInv /\ ResultInv /\ GateTypes
      BY <1>1, InvParts, TypesSplit DEF SessionInv
    <3>2. CASE ReadStatus(i)
      <4>1. CASE status[i] \in {"expired", "finished", "failed"}
        BY <3>2, <4>1 DEF ReadStatus
      <4>2. CASE status[i] \in {"queued", "started"}
        <5>1. told' = [told EXCEPT ![i] = status[i]]
          BY <3>2, <4>2 DEF ReadStatus
        <5>2. \/ told[i] \in {"none", "queued"}
              \/ told[i] = "started" /\ status[i] = "started"
          BY <3>1, <4>2 DEF PollTypes, PollInv, FinalAnswers
        <5> QED  BY <3>1, <4>2, <5>1, <5>2 DEF PollTypes, Stage
      <4>3. status[i] \in Statuses /\ status[i] # "none"
        BY <3>1, <3>2 DEF ReadStatus, PollInv, GateTypes
      <4> QED  BY <4>1, <4>2, <4>3 DEF Statuses
    <3>3. CASE ReadResult(i)
      <4> DEFINE a == IF seen[i] = "failed" THEN "failed"
                      ELSE IF status[i] = "expired" THEN "finished"
                      ELSE IF result[i] = "admitted" THEN "admitted" ELSE "rejected"
      <4>1. told' = [told EXCEPT ![i] = a]
        BY <3>3 DEF ReadResult
      <4>2. \/ seen[i] = "failed" /\ status[i] = "failed"
            \/ seen[i] # "failed" /\ status[i] \in {"finished", "expired"}
        BY <3>1, <3>3 DEF ReadResult, PollTypes, PollInv
      <4>3. /\ a \in {"admitted", "rejected", "failed", "finished"}
            /\ \/ told[i] \in {a, "none", "queued", "started"}
               \/ a = "finished" /\ told[i] \in {"admitted", "rejected"}
        BY <3>1, <4>2 DEF PollTypes, PollInv, FinalAnswers
      <4> HIDE DEF a
      <4> QED  BY <3>1, <4>1, <4>3 DEF PollTypes, Stage
    <3>4. CASE StartPoll(i) \/ FetchJob(i) \/ PollFails(i)
      BY <3>4 DEF StartPoll, FetchJob, PollFails
    <3> QED  BY <2>2, <3>2, <3>3, <3>4 DEF PollStep
  <2> QED  BY <1>1, SessionSteps, <2>1, <2>2
<1> QED  BY <1>1, SessionInvariance, PTL DEF SessionSpec, AnswersOnlyAdvance

-----------------------------------------------------------------------------
(* The read path in the session.                                           *)

RP == INSTANCE ReadPathProofs WITH Mems <- Submissions, committed <- Committed

LEMMA AppendNotEmpty ==
  ASSUME NEW S, NEW q \in Seq(S), NEW e \in S
  PROVE  Append(q, e) # <<>>
<1>1. Len(Append(q, e)) = Len(q) + 1 /\ Len(q) \in Nat
  OBVIOUS
<1>2. Len(<<>>) = 0
  OBVIOUS
<1> QED  BY <1>1, <1>2

(* A step of the write path commits one submission at most. *)
LEMMA OneCommit ==
  ASSUME Types, [Next]_vars
  PROVE  \/ Committed' = Committed
         \/ \E s \in Submissions \ Committed : Committed' = Committed \cup {s}
<1>1. CASE memories' = memories
  BY <1>1 DEF Committed
<1>2. ASSUME NEW s \in Submissions, Evaluate(s)
      PROVE  \/ Committed' = Committed
             \/ \E m \in Submissions \ Committed : Committed' = Committed \cup {m}
  <2>1. memories \in [Submissions -> Seq(Traces)]
    BY TypesSplit DEF EvaluationTypes, EvaluationTypeOK
  <2>2. CASE StoreMemory(s)
    <3>1. memories' = [memories EXCEPT ![s] = Append(memories[s], Trace(s))]
      BY <2>2 DEF StoreMemory
    <3>2. memories[s] \in Seq(Traces)
      BY <2>1
    <3>3. Append(memories[s], Trace(s)) # <<>>
      <4>1. Trace(s) \in Traces
        BY TypesSplit DEF EvaluationTypes, EvaluationTypeOK, Trace, Traces
      <4> QED  BY <3>2, <4>1, AppendNotEmpty
    <3>4. \A m \in Submissions : memories'[m] # <<>> <=> m = s \/ memories[m] # <<>>
      BY <2>1, <3>1, <3>3
    <3>5. Committed' = Committed \cup {s}
      BY <3>4 DEF Committed
    <3> QED  BY <3>5
  <2>3. CASE ~ StoreMemory(s)
    <3>1. memories' = memories
      BY <1>2, <2>3 DEF Evaluate, EvaluationStep, Progress, ScanText, AskProvider, ProviderAnswers,
         ProviderFails, JudgeLocally, Judged, RecordReject, Encode, Raise
    <3> QED  BY <3>1, <1>1
  <2> QED  BY <2>2, <2>3
<1>3. ASSUME \A s \in Submissions : ~ Evaluate(s)
      PROVE  memories' = memories
  BY <1>3 DEF Next, vars, evalVars, HandlerStep, CheckCapacity, Enqueue, SaveMeta, HandlerFails,
       ExpireResult, CreateMemory, RespondDirect, ApiDies, Begin, Kill, WorkerStep, TakeJob,
       FinishJob, FailJob, WorkerFault, HorseKilled, WorkerDies, WorkerRestarts, FailAbandoned
<1> QED  BY <1>1, <1>2, <1>3

(* Each step of the session is a step of the read path or a stutter. *)
LEMMA ReadSteps ==
  ASSUME Types, [SessionNext]_sessionVars
  PROVE  [Read!Next]_(Read!vars)
<1>1. CASE WritePath
  <2>1. [Next]_vars /\ UNCHANGED readVars
    BY <1>1 DEF WritePath
  <2>2. CASE Committed' = Committed
    BY <2>1, <2>2 DEF Read!vars, readVars
  <2>3. CASE \E s \in Submissions \ Committed : Committed' = Committed \cup {s}
    <3>1. Read!CommitMemory
      BY <2>1, <2>3 DEF Read!CommitMemory, Read!request, readVars
    <3> QED  BY <3>1 DEF Read!Next
  <2> QED  BY <2>1, <2>2, <2>3, OneCommit
<1>2. CASE Ask
  BY <1>2 DEF Ask, Read!Next
<1>3. CASE Retrieve
  BY <1>3 DEF Retrieve, Read!Next
<1>4. ASSUME NEW j \in Jobs, PollStep(j)
      PROVE  [Read!Next]_(Read!vars)
  <2>1. UNCHANGED <<vars, readVars>>
    BY <1>4 DEF PollStep, StartPoll, FetchJob, ReadStatus, ReadResult, PollFails
  <2>2. Committed' = Committed
    BY <2>1 DEF vars, evalVars, Committed
  <2> QED  BY <2>1, <2>2 DEF Read!vars, readVars
<1>5. CASE UNCHANGED sessionVars
  <2>1. UNCHANGED <<vars, readVars>>
    BY <1>5 DEF sessionVars
  <2>2. Committed' = Committed
    BY <2>1 DEF vars, evalVars, Committed
  <2> QED  BY <2>1, <2>2 DEF Read!vars, readVars
<1> QED  BY <1>1, <1>2, <1>3, <1>4, <1>5 DEF SessionNext, PollStep

(* The write path and the polls are, to a retrieval, commits of other      *)
(* requests.                                                               *)
THEOREM SessionImplementsReadPath == SessionSpec => Read!Spec
<1>1. SessionInit => Read!Init
  BY DEF SessionInit
<1>2. SessionInv /\ [SessionNext]_sessionVars => [Read!Next]_(Read!vars)
  BY ReadSteps, InvParts DEF SessionInv
<1> QED  BY <1>1, <1>2, SessionInvariance, PTL DEF SessionSpec, Read!Spec

-----------------------------------------------------------------------------
(* A caller that reads what it wrote. *)

(* Read and RP instantiate one module: their operators agree. *)
LEMMA SameCardinality ==
  \A S : /\ Read!Cardinality(S) = Cardinality(S) /\ RP!Cardinality(S) = Cardinality(S)
         /\ Read!IsFiniteSet(S) <=> IsFiniteSet(S)
         /\ RP!IsFiniteSet(S) <=> IsFiniteSet(S)
BY Zenon DEF Read!Cardinality, RP!Cardinality, Cardinality,
   Read!IsFiniteSet, RP!IsFiniteSet, IsFiniteSet

LEMMA SameEnumerations ==
  \A S : Read!SetToSeqs(S) = RP!SetToSeqs(S) /\ Read!SetToSeq(S) = RP!SetToSeq(S)
BY SameCardinality, Zenon DEF Read!SetToSeqs, RP!SetToSeqs, Read!SetToSeq, RP!SetToSeq,
   Read!IsInjective, RP!IsInjective

(* The assumption of ReadPath holds of the session's constants. *)
LEMMA ReadConstants == RP!ReadAssumption /\ Read!ReadAssumption
<1>1. IsFiniteSet(Submissions)
  BY SessionAssumption, JobsAssumption, FS_Union DEF Submissions
<1> QED  BY <1>1, SessionAssumption, SameCardinality DEF RP!ReadAssumption, Read!ReadAssumption

LEMMA SameInit == Read!Init => RP!Init
BY DEF Read!Init, RP!Init, Read!NoReply, RP!NoReply

LEMMA SameSignals ==
  /\ Read!VectorSignal => RP!VectorSignal
  /\ Read!KeywordSignal => RP!KeywordSignal
  /\ Read!GraphSignal => RP!GraphSignal
BY SameCardinality DEF Read!VectorSignal, RP!VectorSignal, Read!KeywordSignal, RP!KeywordSignal,
       Read!GraphSignal, RP!GraphSignal, Read!Signal, RP!Signal, Read!request, RP!request,
       Read!UpTo, RP!UpTo, Read!CandidateLimit, RP!CandidateLimit

LEMMA SameRankHits == Read!RankHits => RP!RankHits
BY SameEnumerations, Zenon DEF Read!RankHits, RP!RankHits, Read!request, RP!request

LEMMA SameRespond == Read!Respond => RP!Respond
BY Zenon DEF Read!Respond, RP!Respond, Read!Packed, RP!Packed, Read!PackIntoBudget, RP!PackIntoBudget,
   Read!PlaceHeadTail, RP!PlaceHeadTail, Read!TotalTokenCount, RP!TotalTokenCount,
   Read!EstimateTokens, RP!EstimateTokens, Read!request, RP!request

LEMMA SameNext == [Read!Next]_(Read!vars) => [RP!Next]_(RP!vars)
<1>1. Read!CommitMemory => RP!CommitMemory
  BY DEF Read!CommitMemory, RP!CommitMemory, Read!request, RP!request
<1>2. (Read!Ask => RP!Ask) /\ (Read!EncodeQuery => RP!EncodeQuery)
  BY DEF Read!Ask, RP!Ask, Read!EncodeQuery, RP!EncodeQuery, Read!request, RP!request
<1>3. Read!Degrade => RP!Degrade
  BY DEF Read!Degrade, RP!Degrade, Read!DegradedResponse, RP!DegradedResponse, Read!request, RP!request
<1>4. UNCHANGED Read!vars => UNCHANGED RP!vars
  BY DEF Read!vars, RP!vars
<1> QED  BY <1>1, <1>2, <1>3, <1>4, SameSignals, SameRankHits, SameRespond DEF Read!Next, RP!Next

(* What ReadPathProofs shows of RP!Spec holds of Read!Spec. *)
LEMMA SameSpec == Read!Spec => RP!Spec
BY SameInit, SameNext, PTL DEF Read!Spec, RP!Spec

LEMMA SameTypes == RP!TypeOK => Read!TypeOK
<1>1. RP!Orders = Read!Orders
  BY SameEnumerations, Zenon DEF RP!Orders, Read!Orders
<1> QED  BY <1>1, Zenon DEF RP!TypeOK, Read!TypeOK, RP!Signals, Read!Signals

(* Two theorems of ReadPathProofs, for the retrieval of the session. *)
LEMMA ReadTypes == SessionSpec => []Read!TypeOK
<1>1. RP!Spec => []RP!TypeOK
  BY RP!TypeCorrect, ReadConstants
<1> QED  BY <1>1, SameSpec, SameTypes, SessionImplementsReadPath, PTL

LEMMA RepliesLoseNothing == SessionSpec => []RP!NothingLostSilently
<1>1. RP!Spec => []RP!NothingLostSilently
  BY RP!NothingIsLostSilently, ReadConstants
<1> QED  BY <1>1, SameSpec, SessionImplementsReadPath, PTL

(* What the caller knew was stored when the request came in. *)
KnewInv == knew \subseteq Committed /\ (phase # "idle" => knew \subseteq before)

LEMMA KnewInitInv == SessionInit => KnewInv
BY DEF SessionInit, KnewInv, Read!Init

(* Ask reads Known off the caller's answers, which are true. *)
LEMMA KnewNextInv ==
  ASSUME KnewInv, Types, DirectWriteIsAudited, AnswersAreTrue, [SessionNext]_sessionVars
  PROVE  KnewInv'
<1>1. CASE WritePath
  <2>1. [Next]_vars /\ knew' = knew /\ phase' = phase /\ before' = before
    BY <1>1 DEF WritePath, readVars
  <2>2. Committed \subseteq Committed'
    BY <2>1, OneCommit
  <2> QED  BY <2>1, <2>2 DEF KnewInv
<1>2. CASE Ask
  <2>1. knew' = Known /\ before' = Committed
    BY <1>2 DEF Ask, Read!Ask
  <2>2. Committed' = Committed
    BY <1>2 DEF Ask, vars, evalVars, Committed
  <2>3. Known \subseteq Committed
    <3>1. ASSUME NEW j \in Jobs, told[j] = "admitted"
          PROVE  j \in Committed
      BY <3>1 DEF AnswersAreTrue, Committed, Submissions
    <3>2. ASSUME NEW d \in Directs, api[d] = "created"
          PROVE  d \in Committed
      <4>1. Len(memories[d]) = 1
        BY <3>2 DEF DirectWriteIsAudited
      <4>2. memories[d] # <<>>
        <5>1. Len(<<>>) = 0
          OBVIOUS
        <5> QED  BY <4>1, <5>1
      <4> QED  BY <4>2 DEF Committed, Submissions
    <3> QED  BY <3>1, <3>2 DEF Known
  <2> QED  BY <2>1, <2>2, <2>3 DEF KnewInv
<1>3. CASE Retrieve
  <2>1. knew' = knew /\ phase # "idle" /\ before' = before
    BY <1>3 DEF Retrieve, Read!EncodeQuery, Read!VectorSignal, Read!KeywordSignal, Read!GraphSignal,
       Read!Signal, Read!RankHits, Read!Respond, Read!Degrade, Read!request
  <2>2. Committed' = Committed
    BY <1>3 DEF Retrieve, vars, evalVars, Committed
  <2> QED  BY <2>1, <2>2 DEF KnewInv
<1>4. ASSUME NEW j \in Jobs, PollStep(j)
      PROVE  KnewInv'
  <2>1. UNCHANGED <<vars, knew, readVars>>
    BY <1>4 DEF PollStep, StartPoll, FetchJob, ReadStatus, ReadResult, PollFails
  <2> QED  BY <2>1 DEF vars, evalVars, readVars, KnewInv, Committed
<1>5. CASE UNCHANGED sessionVars
  BY <1>5 DEF sessionVars, vars, evalVars, readVars, KnewInv, Committed
<1> QED  BY <1>1, <1>2, <1>3, <1>4, <1>5 DEF SessionNext, PollStep

LEMMA KnewInvariance == SessionSpec => []KnewInv
<1>1. SessionInv => Types /\ DirectWriteIsAudited
  BY InvParts DEF SessionInv, DirectWrites
<1>2. KnewInv /\ SessionInv /\ AnswersAreTrue /\ [SessionNext]_sessionVars => KnewInv'
  BY <1>1, KnewNextInv
<1> QED  BY KnewInitInv, <1>2, SessionInvariance, AnswersTrue, PTL DEF SessionSpec

(* Type correctness of the session, the retrieval in it included. *)
THEOREM SessionTypes == SessionSpec => []SessionTypeOK
<1>1. SessionInv /\ KnewInv /\ Read!TypeOK => SessionTypeOK
  <2> SUFFICES ASSUME SessionInv, KnewInv, Read!TypeOK PROVE SessionTypeOK
    OBVIOUS
  <2>1. Types /\ PollTypes
    BY InvParts DEF SessionInv
  <2>2. TypeOK
    BY <2>1 DEF Types
  <2> QED  BY <2>1, <2>2 DEF SessionTypeOK, PollTypes, KnewInv
<1> QED  BY <1>1, SessionInvariance, KnewInvariance, ReadTypes, PTL

(* Read your writes: what the caller was told is stored, by a 201 or by a  *)
(* poll, is in the next reply, unless a limit, the budget or the keyword   *)
(* signal stands in the way, and then the reply says so.                   *)
THEOREM OwnWritesAreRead == SessionSpec => []ReadYourWrites
<1>1. RP!NothingLostSilently /\ KnewInv => ReadYourWrites
  <2> SUFFICES ASSUME RP!NothingLostSilently, KnewInv,
                      Read!Replied, reply # Read!DegradedResponse,
                      "keyword" \notin failed, Cardinality(pool) < limit, Read!Tokens(pool) <= budget,
                      NEW s \in knew \cap Match
               PROVE  \E i \in DOMAIN reply.memories : reply.memories[i] = s
    BY DEF ReadYourWrites
  <2>1. RP!Replied /\ phase # "idle"
    BY DEF Read!Replied, RP!Replied
  <2>2. reply # RP!DegradedResponse
    BY DEF Read!DegradedResponse, RP!DegradedResponse
  <2>3. RP!Tokens(pool) = Read!Tokens(pool)
    <3>1. \A q : RP!TotalTokenCount(q, length) = Read!TotalTokenCount(q, length)
      BY Zenon DEF RP!TotalTokenCount, Read!TotalTokenCount, RP!EstimateTokens, Read!EstimateTokens
    <3> QED  BY <3>1, SameEnumerations DEF RP!Tokens, Read!Tokens
  <2>4. before \cap Match \subseteq RP!ToSet(reply.memories)
    BY <2>1, <2>2, <2>3, SameCardinality DEF RP!NothingLostSilently
  <2>5. s \in RP!ToSet(reply.memories)
    BY <2>1, <2>4 DEF KnewInv
  <2> QED  BY <2>5 DEF RP!ToSet
<1> QED  BY <1>1, RepliesLoseNothing, KnewInvariance, PTL
=============================================================================
