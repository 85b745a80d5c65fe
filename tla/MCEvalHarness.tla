---------------------------- MODULE MCEvalHarness ----------------------------
(* A suite of two labelled candidates and two queries, one of them with no   *)
(* answer, on a database that is migrated up and down and has two memories.  *)
EXTENDS EvalHarness

CONSTANTS c1, c2, q1, q2

MCRelevant == [q \in Queries |-> IF q = q1 THEN {c1} ELSE {}]
=============================================================================
