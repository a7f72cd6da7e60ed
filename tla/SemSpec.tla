------------------------------- MODULE SemSpec -------------------------------
(***************************************************************************)
(* What a semaphore promises: no more sem_wait() calls complete than the   *)
(* initial count and the sem_signal() calls allow.                         *)
(***************************************************************************)
EXTENDS Integers

CONSTANT Counts  \* the initial counts

VARIABLES avail,  \* the permits that no completed sem_wait() has used
          active  \* initialised, and no sem_destroy() has begun

Init == avail = 0 /\ active = FALSE

(* sem_init() *)
Start == ~active /\ active' = TRUE /\ avail' \in Counts

(* A sem_wait() gets through. *)
Take == avail > 0 /\ avail' = avail - 1 /\ UNCHANGED active

(* A sem_signal() takes effect. *)
Give == avail' = avail + 1 /\ UNCHANGED active

(* sem_destroy() *)
Stop == active /\ active' = FALSE /\ UNCHANGED avail

Next == Start \/ Take \/ Give \/ Stop

Spec == Init /\ [][Next]_<<avail, active>>
=============================================================================
