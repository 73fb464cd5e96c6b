-------------------------- MODULE MCPromisingQueue --------------------------
(***************************************************************************)
(* PromisingQueue twice: as a heap that a single thread uses, large enough *)
(* for a removal to disturb the order upwards, and between threads.        *)
(***************************************************************************)
EXTENDS PromisingQueue, TLC

\* The threads and the candidates are interchangeable for safety.
Interchangeable == Permutations(Threads) \cup Permutations(Candidates)
=============================================================================
