--------------------------- MODULE MCRecoveryCase ---------------------------
(***************************************************************************)
(* RecoveryCase with two interchangeable threads and one restart.          *)
(***************************************************************************)
EXTENDS RecoveryCase, TLC

CONSTANTS t1, t2

MCThreads == {t1, t2}
Symmetry == Permutations(MCThreads)
=============================================================================
