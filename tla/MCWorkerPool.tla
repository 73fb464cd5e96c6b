---------------------------- MODULE MCWorkerPool ----------------------------
(***************************************************************************)
(* WorkerPool with two threads and two clients.                            *)
(***************************************************************************)
EXTENDS WorkerPool
=============================================================================
