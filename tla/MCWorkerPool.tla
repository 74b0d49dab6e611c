---------------------------- MODULE MCWorkerPool ----------------------------
(* The worker pool with a few jobs, workers and callers of Shutdown.         *)
EXTENDS WorkerPool, TLC

CONSTANTS j1, j2, j3, w1, w2, w3, x1, x2

Symmetry == Permutations(Jobs) \cup Permutations(Workers)
=============================================================================
