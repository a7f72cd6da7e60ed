------------------------------ MODULE MCCondVar ------------------------------
(* Model checking of CondVar.tla on a few threads, condition variables and  *)
(* one mutex.                                                               *)
EXTENDS CondVar, TLC

(* Threads and condition variables are interchangeable (safety only). *)
Symmetry == Permutations(Threads) \cup Permutations(Conds)
=============================================================================
