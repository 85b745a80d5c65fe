----------------------------- MODULE MCWriteGate -----------------------------
(* WriteGate on small instances: candidates of two tenants, among them a    *)
(* user fact, a text with PII that also looks like a user fact, and a text  *)
(* the local judge rejects.                                                 *)
EXTENDS WriteGate, TLC

CONSTANTS j1, j2, j3, d1, t1, t2

MCTenantOf == [j \in Jobs |-> IF j = j2 THEN t2 ELSE t1]

(* Workers are interchangeable: no definition names one. *)
WorkerSymmetry == Permutations(Workers)
=============================================================================
