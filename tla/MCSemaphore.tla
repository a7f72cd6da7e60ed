----------------------------- MODULE MCSemaphore -----------------------------
(* Model checking of Semaphore.tla on a few threads and calls.              *)
EXTENDS Semaphore, TLC

(* Threads are interchangeable (safety only). *)
Symmetry == Permutations(Threads)
=============================================================================
