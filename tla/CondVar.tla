------------------------------- MODULE CondVar -------------------------------
(***************************************************************************)
(* The condition variables of user/libthread/cond.c, on the mutexes of     *)
(* LockSpec and the deschedule() and make_runnable() calls of the Pebbles  *)
(* kernel.                                                                 *)
(*                                                                         *)
(* A step is a run of code between two points where another thread can see *)
(* a difference: an acquisition or a release of a mutex, an access to the  *)
(* waitFlag of a waiter (which no mutex protects), a system call.  Threads *)
(* keep to the contract of the interface: they wait with the mutex held,   *)
(* use a condition variable only between cond_init() and cond_destroy(),   *)
(* and destroy it only when nobody waits on it or is entering one of its   *)
(* operations.  They may signal without holding the mutex.                 *)
(***************************************************************************)
EXTENDS Naturals, Sequences, FiniteSets

CONSTANTS Threads, Conds, Mutexes,
          NoThread, NoMutex, NoCond,
          MallocMayFail  \* whether malloc() may return NULL

ASSUME CondAssumption == /\ NoThread \notin Threads
                         /\ NoMutex \notin Mutexes
                         /\ NoCond \notin Conds
                         /\ MallocMayFail \in BOOLEAN

VARIABLES
  mutex,           \* owner of each of the callers' mutexes
  held,            \* the mutex a thread holds or passed to cond_wait()
  condMutex,       \* owner of cond_t.condMutex
  condMutexInit,   \* cond_t.condMutex.initializeFlag
  initializeFlag,  \* cond_t.initializeFlag
  list,            \* cond_t.list: the waiters, from the tail to the head
  waitFlag,        \* thread_cond_t.waitFlag of each thread's latest wait
  allocated,       \* whether that thread_cond_t is allocated
  descheduled,     \* the kernel's view: suspended by deschedule()
  pc,              \* where each thread is in the code
  cond,            \* the condition variable of its latest operation
  target,          \* cond_signal(): the waiter just taken off the list
  left,            \* cond_signal(): the waiters it has still to wake
  usable,          \* the callers' view: initialised and not destroyed
  panicked         \* assert(0) was reached: panic() ended the whole task

condVars   == <<condMutexInit, initializeFlag, usable>>
waitVars   == <<waitFlag, allocated, descheduled>>
threadVars == <<cond, target, left>>
vars == <<mutex, held, condMutex, condVars, list, waitVars, pc, threadVars,
          panicked>>

-----------------------------------------------------------------------------
(* Where a thread can be: in its own code ("app"), in cond_wait() ("w_"),  *)
(* in cond_signal() or cond_broadcast() ("s_"), in cond_destroy() ("d_"),  *)
(* or killed by the kernel after a fault.                                  *)
WaitLocations == {"w_lock", "w_insert", "w_unlock_mutex", "w_unlock_cond",
                  "w_test", "w_deschedule", "w_asleep", "w_free", "w_relock"}
SignalLocations == {"s_lock_one", "s_lock_all", "s_loop", "s_flag", "s_wake",
                    "s_unlock"}
DestroyLocations == {"d_lock", "d_check", "d_unlock", "d_mutex"}
Locations == {"app", "killed"} \cup WaitLocations \cup SignalLocations
                               \cup DestroyLocations

Goto(t, from, to) == pc[t] = from /\ pc' = [pc EXCEPT ![t] = to]

(* assert(c): when c fails panic() calls task_vanish(), which ends every   *)
(* thread of the task.                                                     *)
AssertThat(c) == panicked' = ~c

(* mutex_lock() and mutex_unlock() of condMutex, as LockSpec has them.     *)
LockCond(t) == /\ condMutex[cond[t]] = NoThread
               /\ condMutex' = [condMutex EXCEPT ![cond[t]] = t]
UnlockCond(t) == /\ AssertThat(condMutexInit[cond[t]] = 1)
                 /\ condMutex' = [condMutex EXCEPT ![cond[t]] = NoThread]

(* A list used at the wrong end. *)
InsertAtTail(l, t) == <<t>> \o l
DequeueHead(l) == SubSeq(l, 1, Len(l) - 1)

(* list_insert() puts a waiter at the head of the list, list_dequeue()     *)
(* takes one from its tail; the list is written from the tail on.          *)
list_insert(l, t) == Append(l, t)
list_dequeue(l) == Tail(l)

Init == /\ mutex = [m \in Mutexes |-> NoThread]
        /\ held = [t \in Threads |-> NoMutex]
        /\ condMutex = [c \in Conds |-> NoThread]
        /\ condMutexInit = [c \in Conds |-> 0]
        /\ initializeFlag = [c \in Conds |-> 0]
        /\ list = [c \in Conds |-> <<>>]
        /\ waitFlag = [t \in Threads |-> 0]
        /\ allocated = [t \in Threads |-> FALSE]
        /\ descheduled = [t \in Threads |-> FALSE]
        /\ pc = [t \in Threads |-> "app"]
        /\ cond = [t \in Threads |-> NoCond]
        /\ target = [t \in Threads |-> NoThread]
        /\ left = [t \in Threads |-> 0]
        /\ usable = [c \in Conds |-> FALSE]
        /\ panicked = FALSE

-----------------------------------------------------------------------------
(* The callers' code around the operations. *)

app_lock(t, m) ==
  /\ pc[t] = "app" /\ held[t] = NoMutex
  /\ mutex[m] = NoThread
  /\ mutex' = [mutex EXCEPT ![m] = t]
  /\ held' = [held EXCEPT ![t] = m]
  /\ UNCHANGED <<condMutex, condVars, list, waitVars, pc, threadVars, panicked>>

app_unlock(t) ==
  /\ pc[t] = "app" /\ held[t] # NoMutex
  /\ mutex' = [mutex EXCEPT ![held[t]] = NoThread]
  /\ held' = [held EXCEPT ![t] = NoMutex]
  /\ UNCHANGED <<condMutex, condVars, list, waitVars, pc, threadVars, panicked>>

(* A call of an operation on c, up to the loop of mutex_lock(condMutex):   *)
(* mutex_lock() tests that condMutex is initialised.                       *)
Call(t, c, to) ==
  /\ usable[c]
  /\ Goto(t, "app", to)
  /\ cond' = [cond EXCEPT ![t] = c]
  /\ AssertThat(condMutexInit[c] = 1)
  /\ UNCHANGED <<mutex, held, condMutex, condMutexInit, initializeFlag, list,
                 waitVars, target, left>>

(* The return from an operation: its local variables are gone. *)
Return(t, from) ==
  /\ Goto(t, from, "app")
  /\ cond' = [cond EXCEPT ![t] = NoCond]
  /\ target' = [target EXCEPT ![t] = NoThread]
  /\ UNCHANGED left

(* The steps that touch the cond_t after the call. *)
Uses(t, c) == /\ cond[t] = c
              /\ pc[t] \in {"w_lock", "w_insert", "w_unlock_mutex",
                            "w_unlock_cond"} \cup SignalLocations
                                             \cup DestroyLocations

(* cond_init(): the flag, the mutex and the empty list. *)
cond_init(t, c) ==
  /\ pc[t] = "app"
  /\ ~usable[c] /\ \A u \in Threads : ~Uses(u, c)
  /\ initializeFlag' = [initializeFlag EXCEPT ![c] = 1]
  /\ condMutexInit' = [condMutexInit EXCEPT ![c] = 1]
  /\ condMutex' = [condMutex EXCEPT ![c] = NoThread]
  /\ list' = [list EXCEPT ![c] = <<>>]
  /\ usable' = [usable EXCEPT ![c] = TRUE]
  /\ UNCHANGED <<mutex, held, waitVars, pc, threadVars, panicked>>

-----------------------------------------------------------------------------
(* cond_wait(cond, mutex) *)

cond_wait(t, c) == /\ held[t] # NoMutex
                   /\ Call(t, c, "w_lock")
                   /\ UNCHANGED usable

w_lock(t) ==
  /\ Goto(t, "w_lock", "w_insert")
  /\ LockCond(t)
  /\ UNCHANGED <<mutex, held, condVars, list, waitVars, threadVars, panicked>>

(* The waitFlag of a new thread_cond_t; the mistake before it stores the   *)
(* value that ends the wait.                                               *)
SetWaitFlag == 1
NewWaitFlag == 0

(* Allocate and fill the thread_cond_t, then insert it. *)
w_insert(t) ==
  /\ Goto(t, "w_insert", "w_unlock_mutex")
  /\ AssertThat(initializeFlag[cond[t]] # 0)
  /\ allocated' = [allocated EXCEPT ![t] = TRUE]
  /\ waitFlag' = [waitFlag EXCEPT ![t] = NewWaitFlag]
  /\ list' = [list EXCEPT ![cond[t]] = list_insert(@, t)]
  /\ UNCHANGED <<mutex, held, condMutex, condVars, descheduled, threadVars>>

(* malloc() of the thread_cond_t returns NULL, which is not tested: the    *)
(* store to its threadID faults and the kernel kills the thread, with both *)
(* mutexes held.                                                           *)
w_malloc_null(t) ==
  /\ MallocMayFail
  /\ Goto(t, "w_insert", "killed")
  /\ UNCHANGED <<mutex, held, condMutex, condVars, list, waitVars, threadVars,
                 panicked>>

(* list_insert() cannot allocate its node: unlock, assert(0). *)
w_insert_fails(t) ==
  /\ MallocMayFail
  /\ Goto(t, "w_insert", "killed")
  /\ allocated' = [allocated EXCEPT ![t] = TRUE]
  /\ waitFlag' = [waitFlag EXCEPT ![t] = NewWaitFlag]
  /\ condMutex' = [condMutex EXCEPT ![cond[t]] = NoThread]
  /\ AssertThat(FALSE)
  /\ UNCHANGED <<mutex, held, condVars, list, descheduled, threadVars>>

w_unlock_mutex(t) ==
  /\ Goto(t, "w_unlock_mutex", "w_unlock_cond")
  /\ mutex' = [mutex EXCEPT ![held[t]] = NoThread]
  /\ UNCHANGED <<held, condMutex, condVars, list, waitVars, threadVars, panicked>>

w_unlock_cond(t) ==
  /\ Goto(t, "w_unlock_cond", "w_test")
  /\ UnlockCond(t)
  /\ UNCHANGED <<mutex, held, condVars, list, waitVars, threadVars>>

(* while (!waitFlag) *)
w_test(t) ==
  /\ Goto(t, "w_test", IF waitFlag[t] = 0 THEN "w_deschedule" ELSE "w_free")
  /\ UNCHANGED <<mutex, held, condMutex, condVars, list, waitVars, threadVars,
                 panicked>>

(* deschedule() of a flag that is never set. *)
BlindDeschedule(t) ==
  /\ Goto(t, "w_deschedule", "w_asleep")
  /\ descheduled' = [descheduled EXCEPT ![t] = TRUE]
  /\ UNCHANGED <<mutex, held, condMutex, condVars, list, waitFlag, allocated,
                 threadVars, panicked>>

(* deschedule(&waitFlag): in one step the kernel tests the flag and either *)
(* suspends the thread or returns at once.                                 *)
deschedule(t) ==
  /\ Goto(t, "w_deschedule", IF waitFlag[t] = 0 THEN "w_asleep" ELSE "w_test")
  /\ descheduled' = [descheduled EXCEPT ![t] = waitFlag[t] = 0]
  /\ UNCHANGED <<mutex, held, condMutex, condVars, list, waitFlag, allocated,
                 threadVars, panicked>>

(* deschedule() returns once some thread has made this one runnable; the   *)
(* loop tests the flag again.                                              *)
NoSecondTest == "w_free"
AfterDeschedule == "w_test"
w_resume(t) ==
  /\ ~descheduled[t]
  /\ Goto(t, "w_asleep", AfterDeschedule)
  /\ UNCHANGED <<mutex, held, condMutex, condVars, list, waitVars, threadVars,
                 panicked>>

w_free(t) ==
  /\ Goto(t, "w_free", "w_relock")
  /\ allocated' = [allocated EXCEPT ![t] = FALSE]
  /\ UNCHANGED <<mutex, held, condMutex, condVars, list, waitFlag, descheduled,
                 threadVars, panicked>>

w_relock(t) ==
  /\ Return(t, "w_relock")
  /\ mutex[held[t]] = NoThread
  /\ mutex' = [mutex EXCEPT ![held[t]] = t]
  /\ UNCHANGED <<held, condMutex, condVars, list, waitVars, panicked>>

-----------------------------------------------------------------------------
(* cond_signal(cond) and cond_broadcast(cond) *)

cond_signal(t, c) == Call(t, c, "s_lock_one") /\ UNCHANGED usable
cond_broadcast(t, c) == Call(t, c, "s_lock_all") /\ UNCHANGED usable

(* The waiters to wake, counted with condMutex held. *)
SignalCount(n) == IF n # 0 THEN 1 ELSE 0
BroadcastCount(n) == n

s_lock(t) ==
  /\ \/ /\ Goto(t, "s_lock_one", "s_loop")
        /\ left' = [left EXCEPT ![t] = SignalCount(Len(list[cond[t]]))]
     \/ /\ Goto(t, "s_lock_all", "s_loop")
        /\ left' = [left EXCEPT ![t] = BroadcastCount(Len(list[cond[t]]))]
  /\ LockCond(t)
  /\ AssertThat(initializeFlag[cond[t]] = 1)
  /\ UNCHANGED <<mutex, held, condVars, list, waitVars, cond, target>>

(* list_dequeue(), and the read of the waiter's threadID. *)
s_dequeue(t) ==
  /\ left[t] > 0
  /\ Goto(t, "s_loop", "s_flag")
  /\ AssertThat(list[cond[t]] # <<>>)
  /\ target' = [target EXCEPT ![t] = Head(list[cond[t]])]
  /\ list' = [list EXCEPT ![cond[t]] = list_dequeue(@)]
  /\ UNCHANGED <<mutex, held, condMutex, condVars, waitVars, cond, left>>

s_done(t) ==
  /\ left[t] = 0
  /\ Goto(t, "s_loop", "s_unlock")
  /\ UNCHANGED <<mutex, held, condMutex, condVars, list, waitVars, threadVars,
                 panicked>>

s_flag(t) ==
  /\ Goto(t, "s_flag", "s_wake")
  /\ waitFlag' = [waitFlag EXCEPT ![target[t]] = 1]
  /\ UNCHANGED <<mutex, held, condMutex, condVars, list, allocated, descheduled,
                 threadVars, panicked>>

(* A signaller that sets the flag and forgets to wake the thread. *)
ForgetToWake(t) ==
  /\ Goto(t, "s_wake", "s_loop")
  /\ left' = [left EXCEPT ![t] = @ - 1]
  /\ UNCHANGED <<mutex, held, condMutex, condVars, list, waitVars, cond, target,
                 panicked>>

(* make_runnable(tid): wakes the thread if it is descheduled, whatever it  *)
(* is descheduled for; otherwise an error that is ignored.                 *)
make_runnable(t) ==
  /\ Goto(t, "s_wake", "s_loop")
  /\ descheduled' = [descheduled EXCEPT ![target[t]] = FALSE]
  /\ left' = [left EXCEPT ![t] = @ - 1]
  /\ UNCHANGED <<mutex, held, condMutex, condVars, list, waitFlag, allocated,
                 cond, target, panicked>>

s_unlock(t) ==
  /\ Return(t, "s_unlock")
  /\ UnlockCond(t)
  /\ UNCHANGED <<mutex, held, condVars, list, waitVars>>

-----------------------------------------------------------------------------
(* cond_destroy(cond).  A thread that already holds condMutex (a signaller *)
(* that has just woken the last waiter) does not hinder it.                *)

Entering == {"w_lock", "w_insert", "s_lock_one", "s_lock_all"}

cond_destroy(t, c) ==
  /\ list[c] = <<>>
  /\ \A u \in Threads : cond[u] = c => pc[u] \notin Entering
  /\ Call(t, c, "d_lock")
  /\ usable' = [usable EXCEPT ![c] = FALSE]

d_lock(t) ==
  /\ Goto(t, "d_lock", "d_check")
  /\ LockCond(t)
  /\ UNCHANGED <<mutex, held, condVars, list, waitVars, threadVars, panicked>>

d_check(t) ==
  /\ Goto(t, "d_check", "d_unlock")
  /\ AssertThat(initializeFlag[cond[t]] # 0 /\ Len(list[cond[t]]) = 0)
  /\ initializeFlag' = [initializeFlag EXCEPT ![cond[t]] = 0]
  /\ list' = [list EXCEPT ![cond[t]] = <<>>]
  /\ UNCHANGED <<mutex, held, condMutex, condMutexInit, usable, waitVars,
                 threadVars>>

(* A cond_destroy() that destroys condMutex while it holds it. *)
ForgetToUnlock(t) ==
  /\ Goto(t, "d_unlock", "d_mutex")
  /\ UNCHANGED <<mutex, held, condMutex, condVars, list, waitVars, threadVars,
                 panicked>>

d_unlock(t) ==
  /\ Goto(t, "d_unlock", "d_mutex")
  /\ UnlockCond(t)
  /\ UNCHANGED <<mutex, held, condVars, list, waitVars, threadVars>>

(* mutex_destroy(&cond->condMutex) *)
d_mutex(t) ==
  /\ Return(t, "d_mutex")
  /\ AssertThat(condMutexInit[cond[t]] = 1 /\ condMutex[cond[t]] = NoThread)
  /\ condMutexInit' = [condMutexInit EXCEPT ![cond[t]] = 0]
  /\ UNCHANGED <<mutex, held, condMutex, initializeFlag, usable, list, waitVars>>

-----------------------------------------------------------------------------
(* What threads choose to do, and what they do once they have chosen. *)
AppStep(t) ==
  \/ \E m \in Mutexes : app_lock(t, m)
  \/ app_unlock(t)
  \/ \E c \in Conds : \/ cond_init(t, c) \/ cond_destroy(t, c)
                      \/ cond_wait(t, c)
                      \/ cond_signal(t, c) \/ cond_broadcast(t, c)

LibStep(t) ==
  \/ w_lock(t) \/ w_insert(t) \/ w_malloc_null(t) \/ w_insert_fails(t)
  \/ w_unlock_mutex(t) \/ w_unlock_cond(t)
  \/ w_test(t) \/ deschedule(t) \/ w_resume(t) \/ w_free(t) \/ w_relock(t)
  \/ s_lock(t) \/ s_dequeue(t) \/ s_done(t) \/ s_flag(t) \/ make_runnable(t)
  \/ s_unlock(t)
  \/ d_lock(t) \/ d_check(t) \/ d_unlock(t) \/ d_mutex(t)

Next == /\ ~panicked
        /\ \E t \in Threads : AppStep(t) \/ LibStep(t)

Spec == Init /\ [][Next]_vars

(* The kernel keeps running every runnable thread, and only that: a thread *)
(* inside an operation takes its next step, but nothing says that it wins  *)
(* a mutex that others keep taking.                                        *)
FairSpec == Spec /\ \A t \in Threads : WF_vars(~panicked /\ LibStep(t))

-----------------------------------------------------------------------------
(* Fields, registers and locations keep their types; in particular the      *)
(* count of a signaller never goes below 0.                                 *)
TypeOK ==
  /\ mutex \in [Mutexes -> Threads \cup {NoThread}]
  /\ held \in [Threads -> Mutexes \cup {NoMutex}]
  /\ condMutex \in [Conds -> Threads \cup {NoThread}]
  /\ condMutexInit \in [Conds -> {0, 1}]
  /\ initializeFlag \in [Conds -> {0, 1}]
  /\ list \in [Conds -> Seq(Threads)]
  /\ waitFlag \in [Threads -> {0, 1}]
  /\ allocated \in [Threads -> BOOLEAN]
  /\ descheduled \in [Threads -> BOOLEAN]
  /\ pc \in [Threads -> Locations]
  /\ cond \in [Threads -> Conds \cup {NoCond}]
  /\ target \in [Threads -> Threads \cup {NoThread}]
  /\ left \in [Threads -> Nat]
  /\ usable \in [Conds -> BOOLEAN]
  /\ panicked \in BOOLEAN

(* Callers that keep the contract never reach an assert(0) of cond.c or of *)
(* the mutexes inside it, other than the one for a failed allocation, even *)
(* when cond_destroy() runs while a signaller is still on its way out of   *)
(* cond_signal().                                                          *)
NoPanic == panicked => \E t \in Threads : pc[t] = "killed"

(* No wakeup is lost: a thread that sleeps although its waitFlag is set    *)
(* still has a signaller on its way to make_runnable() for it.  This is    *)
(* the race between the test of the flag in cond_wait() and deschedule().  *)
NoLostWakeup ==
  \A t \in Threads :
     descheduled[t] /\ waitFlag[t] = 1 =>
        \E s \in Threads : pc[s] = "s_wake" /\ target[s] = t

Waits(t) == pc[t] \in {"w_unlock_mutex", "w_unlock_cond", "w_test",
                      "w_deschedule", "w_asleep"}

(* A thread between the insertion of its thread_cond_t and the setting of  *)
(* its waitFlag can be found by exactly one signaller to come: it is once  *)
(* on the list of its condition variable, or a signaller has just taken it *)
(* off.  No other thread is on any list.                                   *)
EveryWaiterCanBeWoken ==
  \A t \in Threads :
     LET places == {p \in UNION {{c} \X (1..Len(list[c])) : c \in Conds} :
                      list[p[1]][p[2]] = t}
         takers == {s \in Threads : pc[s] = "s_flag" /\ target[s] = t}
     IN Cardinality(places) + Cardinality(takers)
          = IF Waits(t) /\ waitFlag[t] = 0 THEN 1 ELSE 0

(* cond_signal() never writes the waitFlag of a thread_cond_t that its     *)
(* waiter has freed: between list_dequeue() and the write the waiter may   *)
(* run, be made runnable by a late make_runnable() of an earlier wait, and *)
(* test its flag, but it must not leave cond_wait().                       *)
NoUseAfterFree ==
  \A s \in Threads : pc[s] = "s_flag" => allocated[target[s]]

(* Nobody's wait ends before it was signalled, whatever stray              *)
(* make_runnable() reaches the thread: when cond_wait() frees its record   *)
(* the flag is set and no list mentions the thread.                        *)
NoSpuriousReturn ==
  \A t \in Threads : pc[t] = "w_free" =>
     waitFlag[t] = 1 /\ \A c \in Conds : \A i \in 1..Len(list[c]) : list[c][i] # t

-----------------------------------------------------------------------------
(* The refinement of CondSpec.  A wait takes effect when cond_wait()       *)
(* releases the caller's mutex, a signal or broadcast when it has acquired *)
(* condMutex and counted the waiters: those it is about to take off the    *)
(* list are awake already.                                                 *)

ToBeWoken(t) == CASE pc[t] = "s_loop" -> left[t]
                  [] pc[t] \in {"s_flag", "s_wake"} -> left[t] - 1
                  [] OTHER -> 0

AbsQueue(c) ==
  LET t == condMutex[c]
  IN IF t = NoThread THEN list[c]
     ELSE IF pc[t] = "w_unlock_mutex" THEN SubSeq(list[c], 1, Len(list[c]) - 1)
     ELSE SubSeq(list[c], ToBeWoken(t) + 1, Len(list[c]))

Queues == [c \in Conds |-> AbsQueue(c)]

Waiting(t) == \E c \in Conds : \E i \in 1..Len(AbsQueue(c)) : AbsQueue(c)[i] = t

Phase(t) == IF pc[t] \notin WaitLocations \ {"w_lock", "w_insert", "w_unlock_mutex"}
            THEN "running"
            ELSE IF Waiting(t) THEN "waiting" ELSE "woken"

Abstract == INSTANCE CondSpec
              WITH owner <- mutex, queue <- Queues,
                   phase <- [t \in Threads |-> Phase(t)]

(* cond.c implements the condition variables of CondSpec: the release of   *)
(* the mutex and the start of the wait are one step to everybody else,     *)
(* waiters are woken in the order in which they started to wait, and a     *)
(* broadcast wakes exactly the threads that wait when it begins.           *)
ImplementsCond == Abstract!Spec

(* A thread that was woken comes out of its sleep: it reaches the point    *)
(* where cond_wait() takes the mutex again.                                *)
WokenLeaves ==
  \A t \in Threads : (Phase(t) = "woken") ~> (pc[t] = "w_relock")
=============================================================================
