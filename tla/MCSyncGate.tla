----------------------------- MODULE MCSyncGate -----------------------------
(* SyncGate with two jobs, one of them PII, and one remote provider. *)
EXTENDS SyncGate
=============================================================================
