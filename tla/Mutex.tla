-------------------------------- MODULE Mutex --------------------------------
(***************************************************************************)
(* The mutex of user/libthread/mutex.c: a test-and-set lock built on the   *)
(* atomic_exchange of user/libatomic/atomic.S, which yields the processor  *)
(* between two attempts.                                                   *)
(*                                                                         *)
(* One mutex is shared by all Threads.  Each access to its two flags is a  *)
(* step of its own, so a thread can be interrupted between the test of a   *)
(* flag and the write that depends on it.  Callers keep to the contract    *)
(* of the interface: they initialise the mutex before they use it, unlock  *)
(* it only while they hold it, and destroy it only while no other thread   *)
(* is inside one of its operations or holds it.                            *)
(***************************************************************************)
EXTENDS Naturals

CONSTANTS Threads,  \* the threads of the task
          NoThread  \* not a thread

ASSUME ThreadsAssumption == NoThread \notin Threads

VARIABLES
  lockFlag,        \* mutex_t.lockFlag: 1 while the mutex is locked
  initializeFlag,  \* mutex_t.initializeFlag: 1 once it is initialised
  pc,              \* where each thread is in the code
  usable,          \* the callers' view: initialised and not destroyed
  panicked         \* assert(0) was reached: panic() ended the whole task

vars == <<lockFlag, initializeFlag, pc, usable, panicked>>

-----------------------------------------------------------------------------
(* "out" is the caller's own code without the mutex, "crit" its code with  *)
(* the mutex held; the others are the points inside the operations.        *)
Locations == {"out", "spin", "yield", "crit", "unlock", "destroy"}

Goto(t, from, to) == pc[t] = from /\ pc' = [pc EXCEPT ![t] = to]

(* assert(c): when c fails panic() calls task_vanish(), which ends every   *)
(* thread of the task.                                                     *)
AssertThat(c) == panicked' = ~c

Idle == \A t \in Threads : pc[t] = "out"

(* A mutex_t is raw memory before mutex_init(): both flags are arbitrary.  *)
Init == /\ lockFlag \in {0, 1}
        /\ initializeFlag \in {0, 1}
        /\ pc = [t \in Threads |-> "out"]
        /\ usable = FALSE
        /\ panicked = FALSE

-----------------------------------------------------------------------------
(* The values the operations write into lockFlag; first, the mistakes of   *)
(* leaving it as it was and of keeping it.                                 *)
ForgottenLockFlag == lockFlag
KeptLockFlag == 1
InitialLockFlag == 0
ReleasedLockFlag == 0

(* A mutex_init() that sets lockFlag alone. *)
InitLockFlagOnly(t) ==
  /\ Idle /\ ~usable
  /\ lockFlag' = 0 /\ usable' = TRUE
  /\ UNCHANGED <<initializeFlag, pc, panicked>>

mutex_init(t) ==
  /\ Idle /\ ~usable
  /\ initializeFlag' = 1
  /\ lockFlag' = InitialLockFlag
  /\ usable' = TRUE
  /\ UNCHANGED <<pc, panicked>>

(* mutex_lock(): the test of initializeFlag, before the loop. *)
mutex_lock(t) ==
  /\ usable
  /\ Goto(t, "out", "spin")
  /\ AssertThat(initializeFlag = 1)
  /\ UNCHANGED <<lockFlag, initializeFlag, usable>>

(* An exchange whose result is read the wrong way round. *)
InvertedExchange(t) ==
  /\ Goto(t, "spin", IF lockFlag = 0 THEN "yield" ELSE "crit")
  /\ lockFlag' = 1
  /\ UNCHANGED <<initializeFlag, usable, panicked>>

(* while (atomic_exchange(&mutex->lockFlag, 1) == 1): one locked exchange. *)
lock_exchange(t) ==
  /\ Goto(t, "spin", IF lockFlag = 1 THEN "yield" ELSE "crit")
  /\ lockFlag' = 1
  /\ UNCHANGED <<initializeFlag, usable, panicked>>

(* An if in place of the while: one yield, and the mutex counts as taken. *)
YieldOnce(t) ==
  /\ Goto(t, "yield", "crit")
  /\ UNCHANGED <<lockFlag, initializeFlag, usable, panicked>>

(* yield(gettid()): give up the processor, then try again. *)
lock_yield(t) ==
  /\ Goto(t, "yield", "spin")
  /\ UNCHANGED <<lockFlag, initializeFlag, usable, panicked>>

(* mutex_unlock(): the test of both flags. *)
mutex_unlock(t) ==
  /\ Goto(t, "crit", "unlock")
  /\ AssertThat(initializeFlag = 1 /\ lockFlag = 1)
  /\ UNCHANGED <<lockFlag, initializeFlag, usable>>

(* atomic_exchange(&mutex->lockFlag, 0) gives the mutex up. *)
unlock_exchange(t) ==
  /\ Goto(t, "unlock", "out")
  /\ lockFlag' = ReleasedLockFlag
  /\ UNCHANGED <<initializeFlag, usable, panicked>>

(* mutex_destroy(): the test of both flags. *)
mutex_destroy(t) ==
  /\ Idle /\ usable
  /\ Goto(t, "out", "destroy")
  /\ AssertThat(initializeFlag = 1 /\ lockFlag # 1)
  /\ usable' = FALSE
  /\ UNCHANGED <<lockFlag, initializeFlag>>

destroy_clear(t) ==
  /\ Goto(t, "destroy", "out")
  /\ initializeFlag' = 0
  /\ UNCHANGED <<lockFlag, usable, panicked>>

-----------------------------------------------------------------------------
(* The steps a thread takes once it has called an operation. *)
Step(t) == \/ lock_exchange(t) \/ lock_yield(t)
           \/ unlock_exchange(t) \/ destroy_clear(t)

Next == /\ ~panicked
        /\ \E t \in Threads :
              \/ mutex_init(t) \/ mutex_destroy(t)
              \/ mutex_lock(t) \/ mutex_unlock(t)
              \/ Step(t)

(* The kernel schedules every runnable thread, so a thread inside an       *)
(* operation keeps taking steps; nothing makes a caller start one, or      *)
(* leave its critical section.                                             *)
Fairness == \A t \in Threads : WF_vars(~panicked /\ Step(t))

Spec == Init /\ [][Next]_vars

FairSpec == Spec /\ Fairness

-----------------------------------------------------------------------------
(* The flags are 0 or 1 and every thread is at a location of the code.      *)
TypeOK == /\ lockFlag \in {0, 1}
          /\ initializeFlag \in {0, 1}
          /\ pc \in [Threads -> Locations]
          /\ usable \in BOOLEAN
          /\ panicked \in BOOLEAN

(* A thread holds the mutex from the exchange that found lockFlag clear to *)
(* the exchange that clears it.                                            *)
Holds(t) == pc[t] \in {"crit", "unlock"}

Contends(t) == pc[t] \in {"spin", "yield"}

(* mutex_lock() "ensures mutual exclusion in the region between itself and *)
(* a call to mutex_unlock()": no two threads hold the mutex, whatever      *)
(* interleaving of exchanges, yields, destruction and re-initialisation.   *)
MutualExclusion == \A t, u \in Threads : Holds(t) /\ Holds(u) => t = u

(* Callers that keep the contract never reach one of the assert(0) of      *)
(* mutex.c, although each tests the flags in a step of its own and acts on *)
(* them in a later one.                                                    *)
NoPanic == ~panicked

(* The flag and the holder agree while the mutex is usable: a set lockFlag *)
(* without a holder would leave every caller spinning for ever.            *)
FlagMatchesHolder ==
  usable => /\ initializeFlag = 1
            /\ (lockFlag = 1) <=> (\E t \in Threads : Holds(t))

(* Once a thread spins for the mutex, some thread gets it: the loop of     *)
(* exchange and yield() cannot spin on a mutex that nobody holds.  (Which  *)
(* thread gets it is left to the scheduler: a given caller may starve.)    *)
SomeoneEnters ==
  (\E t \in Threads : Contends(t)) ~> (\E t \in Threads : Holds(t))

(* The mutex implements LockSpec. *)
Owner == IF \E t \in Threads : Holds(t)
         THEN CHOOSE t \in Threads : Holds(t)
         ELSE NoThread

Lock == INSTANCE LockSpec WITH owner <- Owner

(* Every step of mutex.c takes the abstract lock when it is free, gives it *)
(* up as its owner, or leaves its owner alone; in particular no step hands *)
(* the mutex from one thread to another.                                   *)
ImplementsLock == Lock!Spec
=============================================================================
