------------------------------ MODULE MCSession ------------------------------
(* Session with one candidate, one worker and one request to read.          *)
EXTENDS Session

CONSTANTS j1, t1

MCTenantOf == [j \in Jobs |-> t1]
=============================================================================
