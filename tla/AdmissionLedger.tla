--------------------------- MODULE AdmissionLedger ---------------------------
(***************************************************************************)
(* What the Write Gate promises about one candidate fact, with queue,      *)
(* workers, providers and transactions left out.  A candidate is decided   *)
(* at most once and durably; the client is answered at most once; an       *)
(* answer that tells a decision tells the one that was taken; and nothing  *)
(* is decided any more once the client has been told that the job failed.  *)
(* A failure may be reported for a candidate that was decided: the code    *)
(* commits first and reports second.                                       *)
(***************************************************************************)
CONSTANTS
  Jobs,   \* candidates submitted for evaluation
  Pii     \* those whose text matches a pattern of the PII filter

VARIABLES
  decision,   \* [Jobs -> {"open", "admitted", "rejected"}]: what the database holds
  answer      \* [Jobs -> {"pending", "admitted", "rejected", "failed"}]: what the job status says

ledgerVars == <<decision, answer>>

Decisions == {"admitted", "rejected"}

LedgerTypeOK ==
  /\ decision \in [Jobs -> Decisions \cup {"open"}]
  /\ answer \in [Jobs -> Decisions \cup {"pending", "failed"}]

LedgerInit ==
  /\ decision = [j \in Jobs |-> "open"]
  /\ answer = [j \in Jobs |-> "pending"]

(* One transaction commits: the memory with its admit event, or the reject event. *)
Decide(j, d) ==
  /\ decision[j] = "open"
  /\ answer[j] = "pending"
  /\ d = "admitted" => j \notin Pii
  /\ decision' = [decision EXCEPT ![j] = d]
  /\ UNCHANGED answer

(* The job reaches its final status. *)
Reply(j, a) ==
  /\ answer[j] = "pending"
  /\ a \in {decision[j], "failed"} \ {"open"}
  /\ answer' = [answer EXCEPT ![j] = a]
  /\ UNCHANGED decision

LedgerNext == \E j \in Jobs : \/ \E d \in Decisions : Decide(j, d)
                              \/ \E a \in Decisions \cup {"failed"} : Reply(j, a)

LedgerSpec == LedgerInit /\ [][LedgerNext]_ledgerVars
=============================================================================
