---------------------------- MODULE MCLinkedList ----------------------------
(* Model checking of LinkedList.tla on four nodes and four threads: enough  *)
(* for a node with neighbours on both sides, of which one is not an end.    *)
EXTENDS LinkedList
=============================================================================
