---------------------------- MODULE MCWorkerHealth ----------------------------
(* WorkerHealth with two workers and the times of the code in units of 5 s:  *)
(* a beat every 5 s, stale after 15 s, a socket timeout of 5 s, three waits  *)
(* to open a connection (connect and the replies to two CLIENT SETINFO); the *)
(* second after a failure is rounded up.                                     *)
EXTENDS WorkerHealth
=============================================================================
