------------------------------ MODULE LockSpec ------------------------------
(***************************************************************************)
(* What a mutex promises its callers: at most one thread owns it, a thread *)
(* becomes the owner only while nobody is, and only the owner gives it up. *)
(* Mutex.tla shows that user/libthread/mutex.c implements this; the models *)
(* of the code built on mutexes acquire and release them this way.         *)
(***************************************************************************)
CONSTANTS Threads,  \* the threads of the task
          NoThread  \* the owner of a mutex nobody holds

VARIABLE owner

Init == owner = NoThread

Acquire(t) == owner = NoThread /\ owner' = t

Release(t) == owner = t /\ owner' = NoThread

Next == \E t \in Threads : Acquire(t) \/ Release(t)

Spec == Init /\ [][Next]_owner
=============================================================================
