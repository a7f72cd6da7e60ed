------------------------------- MODULE MCMutex -------------------------------
(* Model checking of Mutex.tla on a few threads. *)
EXTENDS Mutex
=============================================================================
