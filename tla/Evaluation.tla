----------------------------- MODULE Evaluation -----------------------------
(***************************************************************************)
(* evaluate_candidate (worker/write_gate.py) and the durable rows it       *)
(* leaves, one evaluation per submission, step by step: PII scan, provider *)
(* chain, reject event in its own transaction, or encoder and store_memory.*)
(* A direct write (POST /v1/memories) enters the same code at the encoder. *)
(*                                                                         *)
(* The module has the steps only.  WriteGate runs them under RQ workers,   *)
(* SyncGate under daemon threads of the API process.  A step ends when the *)
(* outside can see it: a text sent to a provider, a committed transaction. *)
(***************************************************************************)
EXTENDS Naturals, Sequences

CONSTANTS
  Jobs,        \* candidates posted to /v1/memories:evaluate
  Directs,     \* submissions posted to /v1/memories
  Pii,         \* submissions whose text matches a PII pattern
  UserFacts,   \* submissions whose text starts with "the user"
  Remotes      \* number of configured remote judges: nim, gemini or none

Submissions == Jobs \cup Directs

ASSUME SubmissionsAssumption == /\ Jobs \cap Directs = {}
                                /\ Pii \subseteq Submissions
                                /\ UserFacts \subseteq Submissions
ASSUME RemotesAssumption == Remotes \in Nat

VARIABLES
  pc,         \* where the evaluation stands
  at,         \* position in the judge chain; Remotes + 1 is the local judge
  pii,        \* verdict of the PII filter
  verdict,    \* verdict of the judge
  outcome,    \* "outcome"/"reason" of the returned dict
  disclosed,  \* submissions whose text was sent to a remote provider
  memories,   \* per submission, the committed rows of table memories
  audit       \* per submission, the committed rows of table memory_audit

evalVars == <<pc, at, pii, verdict, outcome, disclosed, memories, audit>>

Working == {"scan", "judge", "asked", "reject", "encode", "store"}
Over    == {"returned", "raised", "killed"}
Verdicts == {"admit", "reject", "update"}
PiiStatuses == {"none", "clean", "blocked"}
Outcomes == {"none", "admitted", "pii_blocked", "judge_reject"}

(* The part of WriteGateTrace that properties read. *)
Traces == [pii : PiiStatuses, verdict : Verdicts \cup {"none"}]
AuditRows == [event : {"admit", "reject"}, trace : Traces]

EvaluationTypeOK ==
  /\ pc \in [Submissions -> Working \cup Over \cup {"none"}]
  /\ at \in [Submissions -> 1..(Remotes + 1)]
  /\ pii \in [Submissions -> PiiStatuses]
  /\ verdict \in [Submissions -> Verdicts \cup {"none"}]
  /\ outcome \in [Submissions -> Outcomes]
  /\ disclosed \in SUBSET Submissions
  /\ memories \in [Submissions -> Seq(Traces)]
  /\ audit \in [Submissions -> Seq(AuditRows)]

EvaluationInit ==
  /\ pc = [s \in Submissions |-> "none"]
  /\ at = [s \in Submissions |-> 1]
  /\ pii = [s \in Submissions |-> "none"]
  /\ verdict = [s \in Submissions |-> "none"]
  /\ outcome = [s \in Submissions |-> "none"]
  /\ disclosed = {}
  /\ memories = [s \in Submissions |-> <<>>]
  /\ audit = [s \in Submissions |-> <<>>]

Trace(s) == [pii |-> pii[s], verdict |-> verdict[s]]

-----------------------------------------------------------------------------
(* A run starts with fresh locals, whatever an earlier run of s left behind. *)
Begin(s, entry) ==
  /\ pc[s] \notin Working
  /\ pc' = [pc EXCEPT ![s] = entry]
  /\ at' = [at EXCEPT ![s] = 1]
  /\ pii' = [pii EXCEPT ![s] = "none"]
  /\ verdict' = [verdict EXCEPT ![s] = "none"]
  /\ outcome' = [outcome EXCEPT ![s] = "none"]
  /\ UNCHANGED <<disclosed, memories, audit>>

(* scan_text *)
ScanVerdict(s) == IF s \in Pii THEN "blocked" ELSE "clean"

(* LocalRuleJudge: only what states a fact about the user is admitted. *)
LocalVerdict(s) == IF s \in UserFacts THEN "admit" ELSE "reject"

(* Mutant: the early return after a block is forgotten. *)
ScanTextFallsThrough(s) ==
  /\ pc[s] = "scan"
  /\ pii' = [pii EXCEPT ![s] = ScanVerdict(s)]
  /\ pc' = [pc EXCEPT ![s] = "judge"]
  /\ UNCHANGED <<at, verdict, outcome, disclosed, memories, audit>>

(* scan_text, and the branch on its verdict. *)
ScanText(s) ==
  /\ pc[s] = "scan"
  /\ pii' = [pii EXCEPT ![s] = ScanVerdict(s)]
  /\ pc' = [pc EXCEPT ![s] = IF ScanVerdict(s) = "blocked" THEN "reject" ELSE "judge"]
  /\ UNCHANGED <<at, verdict, outcome, disclosed, memories, audit>>

(* Mutant: the chain does not stop after its last remote provider. *)
AskProviderPastTheEnd(s) ==
  /\ pc[s] = "judge"
  /\ disclosed' = disclosed \cup {s}
  /\ pc' = [pc EXCEPT ![s] = "asked"]
  /\ UNCHANGED <<at, pii, verdict, outcome, memories, audit>>

(* The next remote provider of the chain is sent the text. *)
AskProvider(s) ==
  /\ pc[s] = "judge"
  /\ at[s] <= Remotes
  /\ disclosed' = disclosed \cup {s}
  /\ pc' = [pc EXCEPT ![s] = "asked"]
  /\ UNCHANGED <<at, pii, verdict, outcome, memories, audit>>

(* Only "admit" goes on to the store: "update" is rejected like "reject". *)
Judged(s, v) ==
  /\ verdict' = [verdict EXCEPT ![s] = v]
  /\ pc' = [pc EXCEPT ![s] = IF v = "admit" THEN "encode" ELSE "reject"]
  /\ UNCHANGED <<at, pii, outcome, disclosed, memories, audit>>

ProviderAnswers(s) == pc[s] = "asked" /\ \E v \in Verdicts : Judged(s, v)

(* Timeout, HTTP error, bad JSON, unknown verdict, and also RQ's own job   *)
(* timeout, which is an Exception raised inside the call: the chain goes on*)
ProviderFails(s) ==
  /\ pc[s] = "asked"
  /\ at' = [at EXCEPT ![s] = @ + 1]
  /\ pc' = [pc EXCEPT ![s] = "judge"]
  /\ UNCHANGED <<pii, verdict, outcome, disclosed, memories, audit>>

JudgeLocally(s) ==
  /\ pc[s] = "judge"
  /\ at[s] = Remotes + 1
  /\ Judged(s, LocalVerdict(s))

(* Mutant: the early return after a reject event is forgotten. *)
RecordRejectFallsThrough(s) ==
  /\ pc[s] = "reject"
  /\ audit' = [audit EXCEPT ![s] = Append(@, [event |-> "reject", trace |-> Trace(s)])]
  /\ pc' = [pc EXCEPT ![s] = "encode"]
  /\ UNCHANGED <<at, pii, verdict, outcome, disclosed, memories>>

(* record_audit_event in its own transaction.  The commit may succeed and  *)
(* the call still raise: the acknowledgement is lost.                      *)
RecordReject(s) ==
  /\ pc[s] = "reject"
  /\ audit' = [audit EXCEPT ![s] = Append(@, [event |-> "reject", trace |-> Trace(s)])]
  /\ \/ /\ pc' = [pc EXCEPT ![s] = "returned"]
        /\ outcome' = [outcome EXCEPT ![s] =
                         IF pii[s] = "blocked" THEN "pii_blocked" ELSE "judge_reject"]
     \/ /\ pc' = [pc EXCEPT ![s] = "raised"]
        /\ UNCHANGED outcome
  /\ UNCHANGED <<at, pii, verdict, disclosed, memories>>

(* get_encoder and encode.  They precede the transaction. *)
Encode(s) ==
  /\ pc[s] = "encode"
  /\ pc' = [pc EXCEPT ![s] = "store"]
  /\ UNCHANGED <<at, pii, verdict, outcome, disclosed, memories, audit>>

(* Mutant: the answer does not wait for the commit, which never comes. *)
StoreMemoryUncommitted(s) ==
  /\ pc[s] = "store"
  /\ pc' = [pc EXCEPT ![s] = "returned"]
  /\ outcome' = [outcome EXCEPT ![s] = "admitted"]
  /\ UNCHANGED <<at, pii, verdict, disclosed, memories, audit>>

(* store_memory: memory, admit event and entity links commit together      *)
(* (module MemoryStore has the statements).  MemoryRecord.from_row runs    *)
(* after the commit, so raising does not undo it.                          *)
StoreMemory(s) ==
  /\ pc[s] = "store"
  /\ memories' = [memories EXCEPT ![s] = Append(@, Trace(s))]
  /\ audit' = [audit EXCEPT ![s] = Append(@, [event |-> "admit", trace |-> Trace(s)])]
  /\ \/ /\ pc' = [pc EXCEPT ![s] = "returned"]
        /\ outcome' = [outcome EXCEPT ![s] = "admitted"]
     \/ /\ pc' = [pc EXCEPT ![s] = "raised"]
        /\ UNCHANGED outcome
  /\ UNCHANGED <<at, pii, verdict, disclosed>>

(* An exception nobody catches: encoder not loadable, database down, a     *)
(* transaction rolled back, RQ's job timeout outside a provider call.      *)
Raise(s) ==
  /\ pc[s] \in Working \ {"asked"}
  /\ pc' = [pc EXCEPT ![s] = "raised"]
  /\ UNCHANGED <<at, pii, verdict, outcome, disclosed, memories, audit>>

(* The process that runs s is gone; an open transaction rolls back. *)
Kill(s) ==
  /\ pc[s] \in Working \cup {"returned", "raised"}
  /\ pc' = [pc EXCEPT ![s] = "killed"]
  /\ UNCHANGED <<at, pii, verdict, outcome, disclosed, memories, audit>>

(* The steps the running process takes by itself, failures apart. *)
Progress(s) == \/ ScanText(s)
               \/ AskProvider(s)
               \/ ProviderAnswers(s)
               \/ ProviderFails(s)
               \/ JudgeLocally(s)
               \/ RecordReject(s)
               \/ Encode(s)
               \/ StoreMemory(s)

EvaluationStep(s) == Progress(s) \/ Raise(s)
-----------------------------------------------------------------------------
(* Properties of the rows, whoever runs the evaluations. *)

(* worker/write_gate.py scans before it judges and returns on a block, in   *)
(* whatever order providers fail and processes die: a text the filter      *)
(* blocks is never sent to a provider and never stored through the gate.   *)
PiiStaysInside ==
  \A j \in Jobs \cap Pii : j \notin disclosed /\ memories[j] = <<>>

(* One candidate leaves nothing, one reject event, or one memory with one  *)
(* admit event, and the two carry the same trace: a clean scan and an      *)
(* admit verdict.  Crashes, lost acknowledgements and the cleaning of      *)
(* abandoned jobs never make a second decision.                            *)
DecidedOnce ==
  \A j \in Jobs :
    \/ memories[j] = <<>> /\ audit[j] = <<>>
    \/ /\ memories[j] = <<>>
       /\ Len(audit[j]) = 1
       /\ audit[j][1].event = "reject"
       /\ audit[j][1].trace.pii = IF j \in Pii THEN "blocked" ELSE "clean"
    \/ /\ memories[j] = <<[pii |-> "clean", verdict |-> "admit"]>>
       /\ audit[j] = <<[event |-> "admit", trace |-> memories[j][1]]>>

(* How far an evaluation is and what it has committed.                     *)
PathInv ==
  \A j \in Jobs :
    /\ pc[j] \in Working \cup {"none"} => memories[j] = <<>> /\ audit[j] = <<>>
    /\ pc[j] \in {"judge", "asked", "encode", "store"} => pii[j] = "clean" /\ j \notin Pii
    /\ pc[j] \in {"encode", "store"} => verdict[j] = "admit"
    /\ pc[j] = "reject" => pii[j] = IF j \in Pii THEN "blocked" ELSE "clean"
    /\ pc[j] = "returned" => /\ audit[j] # <<>> /\ outcome[j] # "none"
                             /\ outcome[j] = "admitted" <=> memories[j] # <<>>
=============================================================================
