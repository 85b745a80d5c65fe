----------------------------- MODULE MCReadPath -----------------------------
(* ReadPath with four memories of none, one or three tokens.  With a limit   *)
(* of two, the limit and the candidate limits cut; with four, the budget.    *)
EXTENDS ReadPath

CONSTANTS m1, m2, m3, m4
MemSymmetry == Permutations({m1, m2, m3})
=============================================================================
