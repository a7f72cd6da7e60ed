------------------------------ MODULE Semaphore ------------------------------
(***************************************************************************)
(* The semaphores of user/libthread/sem.c, on the mutexes and condition    *)
(* variables of CondSpec.  A negative count is the number of threads that  *)
(* are blocked; sem_signal() hands its permit to the one that has waited   *)
(* longest.                                                                *)
(*                                                                         *)
(* What an operation does with semMutex held is one step, for nobody else  *)
(* touches the semaphore meanwhile; acquiring and releasing the mutex are  *)
(* steps of their own.  Callers keep to the contract: they initialise the  *)
(* semaphore first, with a count that is not negative, and destroy it only *)
(* when no thread waits on it or is entering one of its operations.        *)
(***************************************************************************)
EXTENDS Integers, Sequences, FiniteSets

CONSTANTS Threads, NoThread,
          Counts,   \* the initial counts passed to sem_init()
          MaxCalls  \* bound on the calls of a run

ASSUME SemAssumption == /\ NoThread \notin Threads
                        /\ Counts \subseteq Nat
                        /\ MaxCalls \in Nat

VARIABLES
  owner, held, queue, phase,  \* sem_t.semMutex and sem_t.semCond
  semaphore,       \* sem_t.semaphore
  initializeFlag,  \* sem_t.initializeFlag
  mutexInit,       \* sem_t.semMutex.initializeFlag
  condInit,        \* sem_t.semCond.initializeFlag
  pc,              \* where each thread is in the code
  usable,          \* the callers' view: initialised and not destroyed
  calls,           \* the calls made so far
  panicked         \* an assert failed: panic() ended the whole task

semCond == "semCond"
semMutex == "semMutex"

CV == INSTANCE CondSpec WITH Conds <- {semCond}, Mutexes <- {semMutex},
                             NoMutex <- "none"

cvVars   == <<owner, held, queue, phase>>
semVars  == <<semaphore, initializeFlag, mutexInit, condInit>>
vars == <<cvVars, semVars, pc, usable, calls, panicked>>

-----------------------------------------------------------------------------
Locations == {"app", "w_lock", "w_body", "w_wait", "w_unlock",
              "s_lock", "s_body", "s_unlock",
              "d_lock", "d_body", "d_unlock", "d_mutex"}

Goto(t, from, to) == pc[t] = from /\ pc' = [pc EXCEPT ![t] = to]

(* assert(c): when c fails panic() calls task_vanish(), which ends every   *)
(* thread of the task.                                                     *)
AssertThat(c) == panicked' = ~c

(* A sem_t is raw memory before sem_init(); its flags may say anything,    *)
(* and sem_init() reads none of them.                                      *)
Init == /\ CV!Init
        /\ semaphore = 0 /\ initializeFlag = 0
        /\ mutexInit = 0 /\ condInit = 0
        /\ pc = [t \in Threads |-> "app"]
        /\ usable = FALSE
        /\ calls = 0
        /\ panicked = FALSE

(* The call of an operation, up to the loop of mutex_lock(&semMutex). *)
Call(t, to) == /\ usable /\ calls < MaxCalls
               /\ calls' = calls + 1
               /\ Goto(t, "app", to)
               /\ AssertThat(mutexInit = 1)
               /\ UNCHANGED <<cvVars, semVars>>

Acquire(t, from, to) == /\ Goto(t, from, to)
                        /\ CV!Lock(t, semMutex)
                        /\ UNCHANGED <<semVars, usable, calls, panicked>>

Release(t, from, to) == /\ Goto(t, from, to)
                        /\ CV!Unlock(t, semMutex)
                        /\ AssertThat(mutexInit = 1)
                        /\ UNCHANGED <<semVars, usable, calls>>

-----------------------------------------------------------------------------
(* initializeFlag after sem_init(). *)
FlagSet(count) == 1

sem_init(t, count) ==
  /\ pc[t] = "app" /\ ~usable /\ calls < MaxCalls
  /\ \A u \in Threads : pc[u] = "app"
  /\ calls' = calls + 1
  /\ mutexInit' = 1 /\ condInit' = 1
  /\ initializeFlag' = FlagSet(count)
  /\ semaphore' = count
  /\ usable' = TRUE
  /\ UNCHANGED <<cvVars, pc, panicked>>

(* sem_wait(sem) *)
sem_wait(t) == Call(t, "w_lock") /\ UNCHANGED usable

w_lock(t) == Acquire(t, "w_lock", "w_body")

(* Whether the decremented semaphore makes its caller block; first, off by *)
(* one either way.                                                         *)
BlockAtZero(n) == n <= 0
BlockTooLate(n) == n < -1
MustBlock(n) == n < 0

w_pass(t) ==
  /\ ~MustBlock(semaphore - 1)
  /\ Goto(t, "w_body", "w_unlock")
  /\ AssertThat(initializeFlag = 1)
  /\ semaphore' = semaphore - 1
  /\ UNCHANGED <<cvVars, initializeFlag, mutexInit, condInit, usable, calls>>

w_block(t) ==
  /\ MustBlock(semaphore - 1)
  /\ Goto(t, "w_body", "w_wait")
  /\ AssertThat(initializeFlag = 1 /\ condInit = 1)
  /\ semaphore' = semaphore - 1
  /\ CV!Wait(t, semMutex, semCond)
  /\ UNCHANGED <<initializeFlag, mutexInit, condInit, usable, calls>>

(* cond_wait() returns: mutex_lock(&semMutex) tests that it is initialised. *)
w_woken(t) ==
  /\ Goto(t, "w_wait", "w_unlock")
  /\ CV!Return(t, semMutex)
  /\ AssertThat(mutexInit = 1)
  /\ UNCHANGED <<semVars, usable, calls>>

w_unlock(t) == Release(t, "w_unlock", "app")

(* sem_signal(sem) *)
sem_signal(t) == Call(t, "s_lock") /\ UNCHANGED usable

s_lock(t) == Acquire(t, "s_lock", "s_body")

(* Whether somebody is blocked, by the value before the increment; and the *)
(* same test made after it.                                                *)
BlockedAfter(n) == n + 1 < 0
Blocked(n) == n < 0

(* cond_signal() wakes nobody when the queue is empty. *)
s_body(t) ==
  /\ Goto(t, "s_body", "s_unlock")
  /\ AssertThat(initializeFlag = 1 /\ (Blocked(semaphore) => condInit = 1))
  /\ IF Blocked(semaphore) /\ queue[semCond] # <<>>
     THEN CV!Signal(semCond)
     ELSE UNCHANGED cvVars
  /\ semaphore' = semaphore + 1
  /\ UNCHANGED <<initializeFlag, mutexInit, condInit, usable, calls>>

s_unlock(t) == Release(t, "s_unlock", "app")

(* sem_destroy(sem).  A sem_signal() that has the mutex does not hinder    *)
(* it: the destroyer may be the thread that this very signal let through.  *)
Entering == {"w_lock", "w_body", "w_wait", "s_lock"}

sem_destroy(t) ==
  /\ \A u \in Threads : pc[u] \notin Entering
  /\ Call(t, "d_lock")
  /\ usable' = FALSE

d_lock(t) == Acquire(t, "d_lock", "d_body")

(* cond_destroy() asserts that the condition variable is initialised and   *)
(* that nobody waits on it.                                                *)
d_body(t) ==
  /\ Goto(t, "d_body", "d_unlock")
  /\ AssertThat(initializeFlag = 1 /\ condInit = 1 /\ queue[semCond] = <<>>)
  /\ initializeFlag' = 0 /\ condInit' = 0
  /\ UNCHANGED <<cvVars, semaphore, mutexInit, usable, calls>>

(* A sem_destroy() that destroys the mutex while it holds it. *)
ForgetToUnlock(t) ==
  /\ Goto(t, "d_unlock", "d_mutex")
  /\ UNCHANGED <<cvVars, semVars, usable, calls, panicked>>

d_unlock(t) == Release(t, "d_unlock", "d_mutex")

(* mutex_destroy(&semMutex) *)
d_mutex(t) ==
  /\ Goto(t, "d_mutex", "app")
  /\ AssertThat(mutexInit = 1 /\ owner[semMutex] = NoThread)
  /\ mutexInit' = 0
  /\ UNCHANGED <<cvVars, semaphore, initializeFlag, condInit, usable, calls>>

-----------------------------------------------------------------------------
AppStep(t) == \/ \E n \in Counts : sem_init(t, n)
              \/ sem_wait(t) \/ sem_signal(t) \/ sem_destroy(t)

LibStep(t) == \/ w_lock(t) \/ w_pass(t) \/ w_block(t) \/ w_woken(t) \/ w_unlock(t)
              \/ s_lock(t) \/ s_body(t) \/ s_unlock(t)
              \/ d_lock(t) \/ d_body(t) \/ d_unlock(t) \/ d_mutex(t)

Next == /\ ~panicked
        /\ \E t \in Threads : AppStep(t) \/ LibStep(t)

Spec == Init /\ [][Next]_vars

(* The kernel keeps running every runnable thread; the bound on the calls  *)
(* excludes that others take semMutex for ever.                            *)
FairSpec == Spec /\ \A t \in Threads : WF_vars(~panicked /\ LibStep(t))

-----------------------------------------------------------------------------
(* The fields of the semaphore and of what it is made of keep their types.  *)
TypeOK ==
  /\ owner \in [{semMutex} -> Threads \cup {NoThread}]
  /\ held \in [Threads -> {semMutex, "none"}]
  /\ queue \in [{semCond} -> Seq(Threads)]
  /\ phase \in [Threads -> {"running", "waiting", "woken"}]
  /\ semaphore \in Int
  /\ initializeFlag \in {0, 1} /\ mutexInit \in {0, 1} /\ condInit \in {0, 1}
  /\ pc \in [Threads -> Locations]
  /\ usable \in BOOLEAN
  /\ calls \in 0..MaxCalls
  /\ panicked \in BOOLEAN

(* Callers that keep the contract never reach an assert of sem.c or of the *)
(* mutex and the condition variable inside it, even when the semaphore is  *)
(* destroyed while the last sem_signal() is on its way out.                *)
NoPanic == ~panicked

(* A negative semaphore counts the sleeping threads: nobody sleeps while   *)
(* there is a permit, and a sem_wait() that does not block overtakes no    *)
(* thread that does.                                                       *)
CountMatchesWaiters ==
  Len(queue[semCond]) = IF semaphore < 0 THEN -semaphore ELSE 0

Woken == {t \in Threads : phase[t] = "woken"}

(* The permits that no sem_wait() has used yet: those handed to a thread   *)
(* that was woken and has not returned are among them.                     *)
Avail == semaphore + Len(queue[semCond]) + Cardinality(Woken)

Abstract == INSTANCE SemSpec WITH avail <- Avail, active <- usable

(* sem.c implements SemSpec: sem_wait() returns only when there is a       *)
(* permit to use, each sem_signal() makes exactly one, and none is lost or *)
(* made when a thread goes to sleep or wakes up.                           *)
ImplementsSem == Abstract!Spec

(* A permit does not lie unused while a thread is in sem_wait(): either it *)
(* is used or no thread wants it.                                          *)
PermitsGetUsed ==
  (Avail > 0 /\ \E t \in Threads : pc[t] \in {"w_lock", "w_body", "w_wait"})
    ~> \/ Avail = 0
       \/ \A t \in Threads : pc[t] \notin {"w_lock", "w_body", "w_wait"}
=============================================================================
