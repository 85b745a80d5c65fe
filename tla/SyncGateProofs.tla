---------------------------- MODULE SyncGateProofs ----------------------------
(***************************************************************************)
(* Theorems about SyncGate for every finite set of jobs and any number of  *)
(* remote providers: the rows of a job, its marker in Redis, and the       *)
(* ledger they implement.                                                  *)
(***************************************************************************)
EXTENDS SyncGate, EvaluationProofs, TLAPS

SyncTypes ==
  /\ api \in [Jobs -> {"new", "marked", "accepted", "error"}]
  /\ thread \in [Jobs -> {"none", "running", "gone"}]
  /\ marker \in [Jobs -> {"none", "queued", "finished", "expired"}]
  /\ stored \in [Jobs -> Outcomes]

(* A job's marker is the handler's until its thread runs, and the thread's *)
(* from then on; what the thread has stored is what its rows say.          *)
ThreadInv ==
  \A j \in Jobs :
    /\ api[j] \in {"new", "marked"} => thread[j] = "none"
    /\ api[j] = "new" => marker[j] = "none"
    /\ thread[j] = "none" => pc[j] = "none"
    /\ thread[j] # "gone" => stored[j] = "none" /\ marker[j] # "finished"
    /\ marker[j] = "finished" => stored[j] # "none"
    /\ stored[j] # "none" => /\ audit[j] # <<>>
                             /\ stored[j] = "admitted" <=> memories[j] # <<>>

IInv == EvaluationTypes /\ SyncTypes /\ RowsInv /\ ThreadInv

LEMMA OnlyJobs == Submissions = Jobs
  BY SyncAssumption DEF Submissions

LEMMA InitInv == Init => IInv
<1> SUFFICES ASSUME Init PROVE IInv
  OBVIOUS
<1> USE OnlyJobs DEF Init, EvaluationInit
<1>1. EvaluationTypes
  BY RemotesAssumption DEF EvaluationTypes, EvaluationTypeOK, AskedIsRemote, PiiStatuses, Outcomes
<1>2. SyncTypes
  BY DEF SyncTypes, Outcomes
<1>3. RowsInv
  BY DEF RowsInv, PathInv, PiiStaysInside, DecidedOnce
<1>4. ThreadInv
  BY DEF ThreadInv
<1> QED  BY <1>1, <1>2, <1>3, <1>4 DEF IInv

(* Steps of a handler, of Redis, or of a thread that has ended its call.   *)
LEMMA OutsideStep ==
  ASSUME IInv, NEW j \in Jobs,
         MarkPending(j) \/ HandlerFails(j) \/ StoreResult(j) \/ ThreadEnds(j) \/ ExpireMarker(j)
  PROVE  IInv'
<1>1. EvaluationTypes' /\ RowsInv' /\ UNCHANGED evalVars
  BY IdleEvaluationType, RowsUntouched
     DEF IInv, MarkPending, HandlerFails, StoreResult, ThreadEnds, ExpireMarker
<1>2. SyncTypes /\ ThreadInv /\ pc' = pc /\ audit' = audit /\ memories' = memories
  BY <1>1 DEF IInv, evalVars
<1>3. CASE MarkPending(j)
  BY <1>1, <1>2, <1>3 DEF MarkPending, SyncTypes, ThreadInv, IInv
<1>4. CASE HandlerFails(j)
  BY <1>1, <1>2, <1>4 DEF HandlerFails, SyncTypes, ThreadInv, IInv
<1>5. CASE StoreResult(j)
  <2>1. /\ outcome[j] \in Outcomes /\ outcome[j] # "none" /\ audit[j] # <<>>
        /\ outcome[j] = "admitted" <=> memories[j] # <<>>
    BY <1>5, OnlyJobs DEF StoreResult, IInv, EvaluationTypes, EvaluationTypeOK, RowsInv, PathInv
  <2> QED  BY <1>1, <1>2, <1>5, <2>1 DEF StoreResult, SyncTypes, ThreadInv, IInv
<1>6. CASE ThreadEnds(j)
  BY <1>1, <1>2, <1>6 DEF ThreadEnds, SyncTypes, ThreadInv, IInv
<1>7. CASE ExpireMarker(j)
  BY <1>1, <1>2, <1>7 DEF ExpireMarker, SyncTypes, ThreadInv, IInv
<1> QED  BY <1>3, <1>4, <1>5, <1>6, <1>7

LEMMA StartStep ==
  ASSUME IInv, NEW j \in Jobs, StartThread(j)
  PROVE  IInv'
<1>1. EvaluationTypes /\ RowsInv /\ SyncTypes /\ ThreadInv /\ j \in Submissions
  BY OnlyJobs DEF IInv
<1>2. Begin(j, "scan") /\ pc[j] = "none"
  BY <1>1 DEF StartThread, ThreadInv
<1>3. EvaluationTypes' /\ RowsInv'
  BY <1>1, <1>2, BeginType, BeginRows DEF Working
<1>4. SyncTypes'
  BY <1>1 DEF StartThread, SyncTypes
<1>5. ThreadInv'
  BY <1>1, <1>2, OnlyJobs DEF StartThread, Begin, ThreadInv, SyncTypes, EvaluationTypes, EvaluationTypeOK
<1> QED  BY <1>3, <1>4, <1>5 DEF IInv

LEMMA EvaluateStep ==
  ASSUME IInv, NEW j \in Jobs, Evaluate(j)
  PROVE  IInv'
<1>1. EvaluationTypes /\ RowsInv /\ SyncTypes /\ ThreadInv /\ j \in Submissions
  BY OnlyJobs DEF IInv
<1>2. EvaluationStep(j) /\ UNCHANGED <<api, thread, marker, stored>> /\ thread[j] = "running"
  BY DEF Evaluate, syncVars
<1>3. EvaluationTypes' /\ RowsInv'
  BY <1>1, <1>2, EvaluationStepType, EvaluationStepRows
<1>4. \A i \in Jobs : i # j => pc'[i] = pc[i] /\ memories'[i] = memories[i] /\ audit'[i] = audit[i]
  BY <1>1, <1>2, OnlyJobs, EvaluationStepFrame
<1>5. SyncTypes' /\ ThreadInv'
  BY <1>1, <1>2, <1>4 DEF SyncTypes, ThreadInv
<1> QED  BY <1>3, <1>5 DEF IInv

LEMMA ApiDiesStep ==
  ASSUME IInv, ApiDies
  PROVE  IInv'
<1>1. EvaluationTypes /\ RowsInv /\ SyncTypes /\ ThreadInv
  BY DEF IInv
<1> USE OnlyJobs
<1>2. EvaluationTypes'
  BY <1>1 DEF ApiDies, EvaluationTypes, EvaluationTypeOK, AskedIsRemote, Over
<1>3. RowsInv'
  BY <1>1 DEF ApiDies, RowsInv, PathInv, PiiStaysInside, DecidedOnce, Working
<1>4. SyncTypes'
  BY <1>1 DEF ApiDies, SyncTypes
<1>5. ThreadInv'
  BY <1>1 DEF ApiDies, SyncTypes, ThreadInv
<1> QED  BY <1>2, <1>3, <1>4, <1>5 DEF IInv

LEMMA NextInv == IInv /\ [Next]_vars => IInv'
<1>1. ASSUME IInv, UNCHANGED vars PROVE IInv'
  BY <1>1, IdleEvaluationType, RowsUntouched DEF vars, syncVars, evalVars, IInv, SyncTypes, ThreadInv
<1> QED  BY <1>1, OutsideStep, StartStep, EvaluateStep, ApiDiesStep DEF Next

LEMMA Invariance == Spec => []IInv
  BY InitInv, NextInv, PTL DEF Spec

(* Every variable keeps its type in every behaviour.                       *)
THEOREM TypeCorrect == Spec => []TypeOK
<1>1. IInv => TypeOK
  BY DEF IInv, EvaluationTypes, SyncTypes, TypeOK
<1> QED  BY <1>1, Invariance, PTL

(* Synchronous mode keeps the promises of the queued mode.  No text the    *)
(* PII filter blocks is sent to a provider or stored, by any thread.       *)
THEOREM PiiNeverLeaves == Spec => []PiiStaysInside
<1>1. IInv => PiiStaysInside
  BY DEF IInv, RowsInv
<1> QED  BY <1>1, Invariance, PTL

(* A candidate is decided at most once, with one audit event, although     *)
(* daemon threads die with the API process at any step.                    *)
THEOREM AtMostOneDecision == Spec => []DecidedOnce
<1>1. IInv => DecidedOnce
  BY DEF IInv, RowsInv
<1> QED  BY <1>1, Invariance, PTL

(* A "finished" marker has a result and is never overwritten by the        *)
(* handler's "queued".                                                     *)
THEOREM FinishedStays == Spec => FinishedIsFinal
<1>1. ASSUME IInv, [Next]_vars
      PROVE  [\A j \in Jobs : /\ marker[j] = "finished" => marker'[j] \in {"finished", "expired"}
                              /\ marker'[j] = "finished" => stored'[j] # "none"]_vars
  <2>1. IInv'
    BY <1>1, NextInv
  <2>2. \A j \in Jobs : marker'[j] = "finished" => stored'[j] # "none"
    BY <2>1 DEF IInv, ThreadInv
  <2>3. ASSUME NEW j \in Jobs, marker[j] = "finished", Next
        PROVE  marker'[j] \in {"finished", "expired"}
    <3>1. SyncTypes /\ ThreadInv
      BY <1>1 DEF IInv
    <3>2. PICK i \in Jobs : \/ MarkPending(i) \/ StartThread(i) \/ HandlerFails(i) \/ Evaluate(i)
                            \/ StoreResult(i) \/ ThreadEnds(i) \/ ExpireMarker(i) \/ ApiDies
      BY <2>3 DEF Next
    <3> QED  BY <2>3, <3>1, <3>2 DEF MarkPending, StartThread, HandlerFails, Evaluate, StoreResult,
                  ThreadEnds, ExpireMarker, ApiDies, syncVars, SyncTypes, ThreadInv
  <2> QED  BY <1>1, <2>2, <2>3
<1> QED  BY <1>1, Invariance, PTL DEF Spec, FinishedIsFinal
-----------------------------------------------------------------------------
(* Refinement: SyncGate implements AdmissionLedger. *)

ledger == [j \in Jobs |-> SyncDecision(j)]
told == [j \in Jobs |-> SyncAnswer(j)]

LEMMA InitLedger == Init => Ledger!LedgerInit
  BY OnlyJobs DEF Init, EvaluationInit, Ledger!LedgerInit, SyncDecision, SyncAnswer

(* A committed row is a decision of the ledger. *)
LEMMA EvaluateDecides ==
  ASSUME IInv, NEW s \in Jobs, Evaluate(s)
  PROVE  [Ledger!LedgerNext]_<<ledger, told>>
<1> USE OnlyJobs
<1>0. /\ EvaluationTypes /\ RowsInv /\ ThreadInv
      /\ EvaluationStep(s) /\ stored' = stored /\ thread[s] = "running"
  BY DEF IInv, Evaluate, syncVars
<1>1. told' = told
  BY <1>0 DEF told, SyncAnswer
<1>2. CASE RecordReject(s) \/ StoreMemory(s)
  <2> DEFINE d == IF StoreMemory(s) THEN "admitted" ELSE "rejected"
  <2>1. SyncAnswer(s) = "pending"
    BY <1>0 DEF ThreadInv, SyncAnswer
  <2>2. SyncDecision(s) = "open"
    BY <1>0, <1>2 DEF RowsInv, PathInv, RecordReject, StoreMemory, Working, SyncDecision
  <2>3. SyncDecision(s)' = d /\ (d = "admitted" => s \notin Pii)
    <3>1. CASE StoreMemory(s)
      <4>1. memories'[s] # <<>>
        BY <1>0, <3>1 DEF StoreMemory, RowsInv, PathInv, Working, EvaluationTypes, EvaluationTypeOK
      <4> QED  BY <1>0, <3>1, <4>1 DEF StoreMemory, RowsInv, PathInv, SyncDecision
    <3>2. CASE ~ StoreMemory(s)
      <4>1. memories'[s] = <<>> /\ audit'[s] # <<>>
        BY <1>0, <1>2, <3>2 DEF RecordReject, RowsInv, PathInv, Working, EvaluationTypes, EvaluationTypeOK
      <4> QED  BY <3>2, <4>1 DEF SyncDecision
    <3> QED  BY <3>1, <3>2
  <2>4. \A j \in Jobs : j # s => SyncDecision(j)' = SyncDecision(j)
    BY <1>0, EvaluationStepFrame DEF SyncDecision
  <2>5. ledger' = [ledger EXCEPT ![s] = d]
    <3> HIDE DEF d
    <3> QED  BY <2>3, <2>4 DEF ledger
  <2>6. d \in {"admitted", "rejected"}
    OBVIOUS
  <2> HIDE DEF d
  <2>7. Ledger!Decide(s, d)
    BY <1>1, <2>1, <2>2, <2>3, <2>5 DEF Ledger!Decide, ledger, told
  <2> QED  BY <2>6, <2>7 DEF Ledger!LedgerNext, Ledger!Decisions
<1>3. CASE ~ (RecordReject(s) \/ StoreMemory(s))
  <2>1. memories' = memories /\ audit' = audit
    BY <1>0, <1>3 DEF EvaluationStep, Progress, ScanText, ScanVerdict, AskProvider, ProviderAnswers,
       ProviderFails, JudgeLocally, LocalVerdict, Judged, Encode, Raise
  <2> QED  BY <1>1, <2>1 DEF ledger, SyncDecision
<1> QED  BY <1>2, <1>3

(* A result that reaches Redis is a reply of the ledger. *)
LEMMA StoreReplies ==
  ASSUME IInv, NEW j \in Jobs, StoreResult(j)
  PROVE  [Ledger!LedgerNext]_<<ledger, told>>
<1>1. ledger' = ledger
  BY DEF StoreResult, evalVars, ledger, SyncDecision
<1>2. CASE UNCHANGED stored
  BY <1>1, <1>2 DEF told, SyncAnswer
<1>3. CASE stored' = [stored EXCEPT ![j] = outcome[j]]
  <2> DEFINE a == SyncAnswer(j)'
  <2>1. SyncAnswer(j) = "pending"
    BY DEF IInv, ThreadInv, StoreResult, SyncAnswer
  <2>2. a = SyncDecision(j) /\ a \in {"admitted", "rejected"}
    BY <1>3 DEF IInv, SyncTypes, RowsInv, PathInv, StoreResult, SyncAnswer, SyncDecision
  <2>3. \A i \in Jobs : i # j => SyncAnswer(i)' = SyncAnswer(i)
    BY <1>3 DEF IInv, SyncTypes, SyncAnswer
  <2>4. told' = [told EXCEPT ![j] = a]
    <3>1. SyncAnswer(j)' = a
      OBVIOUS
    <3> HIDE DEF a
    <3> QED  BY <2>3, <3>1 DEF told
  <2> HIDE DEF a
  <2>5. Ledger!Reply(j, a)
    BY <1>1, <2>1, <2>2, <2>4 DEF Ledger!Reply, ledger, told
  <2> QED  BY <2>2, <2>5 DEF Ledger!LedgerNext, Ledger!Decisions
<1> QED  BY <1>2, <1>3 DEF StoreResult

LEMMA NextLedger ==
  ASSUME IInv, [Next]_vars
  PROVE  [Ledger!LedgerNext]_<<ledger, told>>
<1>0. ASSUME UNCHANGED <<memories, audit, stored>>
      PROVE  [Ledger!LedgerNext]_<<ledger, told>>
  BY <1>0 DEF ledger, told, SyncDecision, SyncAnswer
<1>1. ASSUME NEW j \in Jobs, MarkPending(j) \/ StartThread(j) \/ HandlerFails(j) \/ ThreadEnds(j) \/ ExpireMarker(j)
      PROVE  UNCHANGED <<memories, audit, stored>>
  BY <1>1 DEF MarkPending, StartThread, Begin, HandlerFails, ThreadEnds, ExpireMarker, evalVars
<1>2. ASSUME ApiDies \/ UNCHANGED vars
      PROVE  UNCHANGED <<memories, audit, stored>>
  BY <1>2 DEF ApiDies, vars, evalVars, syncVars
<1> QED  BY <1>0, <1>1, <1>2, EvaluateDecides, StoreReplies DEF Next

(* Every behaviour of handlers, daemon threads and transactions is a       *)
(* behaviour of the ledger, whenever the API process dies.                 *)
THEOREM LedgerRefinement == Spec => ImplementsLedger
<1>1. IInv /\ [Next]_vars => [Ledger!LedgerNext]_<<ledger, told>>
  BY NextLedger
<1>2. Init => Ledger!LedgerInit
  BY InitLedger
<1> QED  BY <1>1, <1>2, Invariance, PTL
         DEF Spec, ImplementsLedger, Ledger!LedgerSpec, Ledger!ledgerVars, ledger, told
=============================================================================
