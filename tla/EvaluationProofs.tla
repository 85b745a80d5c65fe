-------------------------- MODULE EvaluationProofs --------------------------
(***************************************************************************)
(* Lemmas about the steps of one evaluation (module Evaluation), for any   *)
(* set of submissions and any number of remote providers.  The proofs      *)
(* about both ways to run evaluations, WriteGateProofs and SyncGateProofs, *)
(* rest on them.                                                           *)
(***************************************************************************)
EXTENDS Evaluation, TLAPS

(* A remote provider that is being asked is one of the chain. *)
AskedIsRemote == \A s \in Submissions : pc[s] = "asked" => at[s] <= Remotes

EvaluationTypes == EvaluationTypeOK /\ AskedIsRemote

(* Every step of an evaluation keeps its variables in their types. *)
LEMMA EvaluationStepType ==
  ASSUME EvaluationTypes, NEW s \in Submissions, EvaluationStep(s)
  PROVE  EvaluationTypes'
<1> USE RemotesAssumption DEF EvaluationTypes, AskedIsRemote
<1>a. Trace(s) \in Traces
  BY DEF EvaluationTypeOK, Trace, Traces
<1>1. CASE ScanText(s)
  BY <1>1 DEF ScanText, ScanVerdict, EvaluationTypeOK, Working, Over, PiiStatuses
<1>2. CASE AskProvider(s)
  BY <1>2 DEF AskProvider, EvaluationTypeOK, Working, Over
<1>3. CASE ProviderAnswers(s)
  BY <1>3 DEF ProviderAnswers, Judged, EvaluationTypeOK, Working, Over, Verdicts
<1>4. CASE ProviderFails(s)
  BY <1>4 DEF ProviderFails, EvaluationTypeOK, Working, Over
<1>5. CASE JudgeLocally(s)
  BY <1>5 DEF JudgeLocally, LocalVerdict, Judged, EvaluationTypeOK, Working, Over, Verdicts
<1>6. CASE RecordReject(s)
  <2> DEFINE row == [event |-> "reject", trace |-> Trace(s)]
  <2>1. row \in AuditRows
    BY <1>a DEF AuditRows
  <2>2. audit' \in [Submissions -> Seq(AuditRows)]
    <3> HIDE DEF row
    <3>1. audit[s] \in Seq(AuditRows)
      BY DEF EvaluationTypeOK
    <3>2. Append(audit[s], row) \in Seq(AuditRows)
      BY <2>1, <3>1
    <3> QED  BY <1>6, <3>2 DEF RecordReject, EvaluationTypeOK, row
  <2> HIDE DEF row
  <2>3. pc' \in [Submissions -> Working \cup Over \cup {"none"}] /\ AskedIsRemote'
    BY <1>6 DEF RecordReject, EvaluationTypeOK, Working, Over
  <2> QED  BY <1>6, <2>2, <2>3 DEF RecordReject, EvaluationTypeOK, Outcomes
<1>7. CASE Encode(s)
  BY <1>7 DEF Encode, EvaluationTypeOK, Working, Over
<1>8. CASE StoreMemory(s)
  <2> DEFINE row == [event |-> "admit", trace |-> Trace(s)]
  <2>1. row \in AuditRows
    BY <1>a DEF AuditRows
  <2>2. audit' \in [Submissions -> Seq(AuditRows)] /\ memories' \in [Submissions -> Seq(Traces)]
    <3> HIDE DEF row
    <3>1. audit[s] \in Seq(AuditRows) /\ memories[s] \in Seq(Traces)
      BY DEF EvaluationTypeOK
    <3>2. Append(audit[s], row) \in Seq(AuditRows) /\ Append(memories[s], Trace(s)) \in Seq(Traces)
      BY <1>a, <2>1, <3>1
    <3> QED  BY <1>8, <3>2 DEF StoreMemory, EvaluationTypeOK, row
  <2> HIDE DEF row
  <2>3. pc' \in [Submissions -> Working \cup Over \cup {"none"}] /\ AskedIsRemote'
    BY <1>8 DEF StoreMemory, EvaluationTypeOK, Working, Over
  <2> QED  BY <1>8, <2>2, <2>3 DEF StoreMemory, EvaluationTypeOK, Outcomes
<1>9. CASE Raise(s)
  BY <1>9 DEF Raise, EvaluationTypeOK, Working, Over
<1> QED  BY <1>1, <1>2, <1>3, <1>4, <1>5, <1>6, <1>7, <1>8, <1>9 DEF EvaluationStep, Progress
LEMMA BeginType ==
  ASSUME EvaluationTypes, NEW s \in Submissions, NEW entry \in Working \ {"asked"}, Begin(s, entry)
  PROVE  EvaluationTypes'
  BY RemotesAssumption DEF EvaluationTypes, AskedIsRemote, EvaluationTypeOK, Begin, Working, Over,
       PiiStatuses, Outcomes

LEMMA KillType ==
  ASSUME EvaluationTypes, NEW s \in Submissions, pc' = [pc EXCEPT ![s] = "killed"],
         UNCHANGED <<at, pii, verdict, outcome, disclosed, memories, audit>>
  PROVE  EvaluationTypes'
  BY DEF EvaluationTypes, AskedIsRemote, EvaluationTypeOK, Over

LEMMA IdleEvaluationType ==
  ASSUME EvaluationTypes, UNCHANGED evalVars
  PROVE  EvaluationTypes'
  BY DEF EvaluationTypes, AskedIsRemote, EvaluationTypeOK, evalVars

-----------------------------------------------------------------------------
(* Evaluation steps move pc of their own submission only. *)
LEMMA EvaluationStepFrame ==
  ASSUME EvaluationTypes, NEW s \in Submissions, EvaluationStep(s),
         NEW r \in Submissions, r # s
  PROVE  pc'[r] = pc[r] /\ memories'[r] = memories[r] /\ audit'[r] = audit[r]
<1> USE DEF EvaluationTypes, EvaluationTypeOK
<1>1. CASE ScanText(s) \/ AskProvider(s) \/ ProviderFails(s) \/ Encode(s) \/ Raise(s)
  BY <1>1 DEF ScanText, ScanVerdict, AskProvider, ProviderFails, Encode, Raise
<1>2. CASE ProviderAnswers(s) \/ JudgeLocally(s)
  BY <1>2 DEF ProviderAnswers, JudgeLocally, LocalVerdict, Judged
<1>3. CASE RecordReject(s)
  BY <1>3 DEF RecordReject
<1>4. CASE StoreMemory(s)
  BY <1>4 DEF StoreMemory
<1> QED  BY <1>1, <1>2, <1>3, <1>4 DEF EvaluationStep, Progress

-----------------------------------------------------------------------------
(* Rows: what an evaluation may leave in the database. *)

RowsInv == PathInv /\ PiiStaysInside /\ DecidedOnce

(* A step that touches neither rows nor disclosures and puts no evaluation *)
(* into a phase keeps the row invariants.                                  *)
LEMMA RowsUntouched ==
  ASSUME RowsInv, UNCHANGED evalVars
  PROVE  RowsInv'
  BY DEF RowsInv, PathInv, PiiStaysInside, DecidedOnce, evalVars

LEMMA EvaluationStepRows ==
  ASSUME EvaluationTypes, RowsInv, NEW s \in Submissions, EvaluationStep(s)
  PROVE  RowsInv'
<1> USE DEF Submissions, EvaluationTypes, EvaluationTypeOK
<1>1. CASE ScanText(s)
  BY <1>1 DEF ScanText, ScanVerdict, RowsInv, PathInv, PiiStaysInside, DecidedOnce, Working
<1>2. CASE AskProvider(s)
  BY <1>2 DEF AskProvider, RowsInv, PathInv, PiiStaysInside, DecidedOnce, Working
<1>3. CASE ProviderAnswers(s)
  BY <1>3 DEF ProviderAnswers, Judged, Verdicts, RowsInv, PathInv, PiiStaysInside, DecidedOnce, Working
<1>4. CASE ProviderFails(s)
  BY <1>4 DEF ProviderFails, RowsInv, PathInv, PiiStaysInside, DecidedOnce, Working
<1>5. CASE JudgeLocally(s)
  BY <1>5 DEF JudgeLocally, LocalVerdict, Judged, RowsInv, PathInv, PiiStaysInside, DecidedOnce, Working
<1>6. CASE RecordReject(s)
  <2> DEFINE row == [event |-> "reject", trace |-> Trace(s)]
  <2>1. ASSUME NEW j \in Jobs, j # s
        PROVE  /\ memories'[j] = memories[j] /\ audit'[j] = audit[j] /\ pc'[j] = pc[j]
               /\ outcome'[j] = outcome[j]
    BY <1>6, <2>1 DEF RecordReject
  <2>2. ASSUME s \in Jobs
        PROVE  /\ memories[s] = <<>> /\ memories'[s] = <<>> /\ audit[s] = <<>>
               /\ audit'[s] = Append(<<>>, row)
               /\ pii[s] = IF s \in Pii THEN "blocked" ELSE "clean"
               /\ pc'[s] \in {"returned", "raised"}
               /\ pc'[s] = "returned" => outcome'[s] # "admitted"
    BY <1>6, <2>2 DEF RecordReject, RowsInv, PathInv, Working
  <2>3. ASSUME s \in Jobs
        PROVE  /\ Len(audit'[s]) = 1 /\ audit'[s][1] = row /\ audit'[s] # <<>>
               /\ row.event = "reject" /\ row.trace.pii = pii[s]
    <3>1. row.event = "reject" /\ row.trace.pii = pii[s]
      BY DEF Trace
    <3>2. audit'[s] = <<row>>
      BY <2>2, <2>3
    <3> HIDE DEF row
    <3> QED  BY <3>1, <3>2
  <2> HIDE DEF row
  <2>4. PathInv'
    BY <1>6, <2>1, <2>2, <2>3 DEF RecordReject, RowsInv, PathInv, Working
  <2>5. PiiStaysInside'
    BY <1>6 DEF RecordReject, RowsInv, PiiStaysInside
  <2>6. DecidedOnce'
    <3> SUFFICES ASSUME NEW j \in Jobs
                 PROVE  \/ memories'[j] = <<>> /\ audit'[j] = <<>>
                        \/ /\ memories'[j] = <<>>
                           /\ Len(audit'[j]) = 1
                           /\ audit'[j][1].event = "reject"
                           /\ audit'[j][1].trace.pii = IF j \in Pii THEN "blocked" ELSE "clean"
                        \/ /\ memories'[j] = <<[pii |-> "clean", verdict |-> "admit"]>>
                           /\ audit'[j] = <<[event |-> "admit", trace |-> memories'[j][1]]>>
      BY DEF DecidedOnce
    <3>1. CASE j = s
      BY <2>2, <2>3, <3>1
    <3>2. CASE j # s
      BY <2>1, <3>2 DEF RowsInv, DecidedOnce
    <3> QED  BY <3>1, <3>2
  <2> QED  BY <2>4, <2>5, <2>6 DEF RowsInv
<1>7. CASE Encode(s)
  BY <1>7 DEF Encode, RowsInv, PathInv, PiiStaysInside, DecidedOnce, Working
<1>8. CASE StoreMemory(s)
  <2> DEFINE row == [event |-> "admit", trace |-> Trace(s)]
  <2>1. ASSUME NEW j \in Jobs, j # s
        PROVE  /\ memories'[j] = memories[j] /\ audit'[j] = audit[j] /\ pc'[j] = pc[j]
               /\ outcome'[j] = outcome[j]
    BY <1>8, <2>1 DEF StoreMemory
  <2>2. ASSUME s \in Jobs
        PROVE  /\ memories[s] = <<>> /\ audit[s] = <<>> /\ s \notin Pii
               /\ memories'[s] = Append(<<>>, Trace(s)) /\ audit'[s] = Append(<<>>, row)
               /\ pii[s] = "clean" /\ verdict[s] = "admit"
               /\ pc'[s] \in {"returned", "raised"}
               /\ pc'[s] = "returned" => outcome'[s] = "admitted"
    BY <1>8, <2>2 DEF StoreMemory, RowsInv, PathInv, Working
  <2>3. ASSUME s \in Jobs
        PROVE  /\ memories'[s] = <<[pii |-> "clean", verdict |-> "admit"]>>
               /\ audit'[s] = <<[event |-> "admit", trace |-> memories'[s][1]]>>
               /\ memories'[s] # <<>> /\ audit'[s] # <<>>
    BY <2>2, <2>3 DEF Trace
  <2> HIDE DEF row
  <2>4. PathInv'
    BY <1>8, <2>1, <2>2, <2>3 DEF StoreMemory, RowsInv, PathInv, Working
  <2>5. PiiStaysInside'
    BY <1>8, <2>1, <2>2 DEF StoreMemory, RowsInv, PiiStaysInside
  <2>6. DecidedOnce'
    BY <2>1, <2>3 DEF RowsInv, DecidedOnce
  <2> QED  BY <2>4, <2>5, <2>6 DEF RowsInv
<1>9. CASE Raise(s)
  BY <1>9 DEF Raise, RowsInv, PathInv, PiiStaysInside, DecidedOnce, Working
<1> QED  BY <1>1, <1>2, <1>3, <1>4, <1>5, <1>6, <1>7, <1>8, <1>9 DEF EvaluationStep, Progress

LEMMA KillRows ==
  ASSUME EvaluationTypes, RowsInv, NEW s \in Submissions, pc' = [pc EXCEPT ![s] = "killed"],
         UNCHANGED <<at, pii, verdict, outcome, disclosed, memories, audit>>
  PROVE  RowsInv'
  BY DEF EvaluationTypes, EvaluationTypeOK, Submissions, RowsInv, PathInv, PiiStaysInside,
       DecidedOnce, Working

(* Only an evaluation without rows may begin: WorkerInv says why it has none. *)
LEMMA BeginRows ==
  ASSUME EvaluationTypes, RowsInv, NEW s \in Submissions, pc[s] = "none" \/ s \notin Jobs,
         NEW entry \in Working, entry = "scan" \/ s \notin Jobs, Begin(s, entry)
  PROVE  RowsInv'
  BY DEF EvaluationTypes, EvaluationTypeOK, Submissions, Begin, RowsInv, PathInv,
       PiiStaysInside, DecidedOnce, Working
=============================================================================
