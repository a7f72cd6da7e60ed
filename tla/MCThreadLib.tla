----------------------------- MODULE MCThreadLib -----------------------------
(* Model checking of ThreadLib.tla on a few threads and stacks.             *)
EXTENDS ThreadLib, TLC

(* The threads other than the root and the statuses are interchangeable    *)
(* (safety only).                                                           *)
Symmetry == Permutations(Tids \ {Root}) \cup Permutations(Statuses)
=============================================================================
