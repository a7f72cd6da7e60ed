------------------------------- MODULE MCHeap -------------------------------
(* Model checking of Heap.tla on a heap of a few pages. *)
EXTENDS Heap, TLC

(* A product, one with nmemb = 0, one that overflows, and one that is       *)
(* negative as an int.                                                      *)
SomeProducts == {<<2, 1>>, <<0, 1>>, <<33, 2>>, <<2, 20>>}

(* None of them wraps when the tags are added: the hypothesis of the proofs *)
(* in HeapProofs.tla holds here.                                            *)
ASSUME SizesAreGood == GoodSizes

Symmetry == Permutations(Threads)
=============================================================================
