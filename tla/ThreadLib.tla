------------------------------ MODULE ThreadLib ------------------------------
(***************************************************************************)
(* Thread management, user/libthread/thread.c: thr_init, thr_create,       *)
(* thr_join and thr_exit, on the mutexes and condition variables of        *)
(* CondSpec (which CondVar.tla shows cond.c to implement) and on the       *)
(* thread_fork(), new_pages(), remove_pages() and vanish() calls of the    *)
(* Pebbles kernel.                                                         *)
(*                                                                         *)
(* The list of threads, the thread_t records and top_stack_address are     *)
(* only touched with thread_list_mutex held; what another thread can see   *)
(* in the middle of a critical section is the child that thread_fork()     *)
(* started and the stacks that are mapped and unmapped, and the steps are  *)
(* cut there.  A stack is a slot; slots are numbered downwards in the      *)
(* address space, in the order in which thr_create() tries them.           *)
(***************************************************************************)
EXTENDS Naturals, Sequences, FiniteSets

CONSTANTS
  Tids,       \* the thread IDs
  MaxCreates, \* bound on the calls of thr_create()
  Root,       \* the thread that runs main()
  NoTid,      \* not a thread
  Slots,      \* the last stack slot that can be mapped
  NoSlot,     \* the baseAddress of the root thread: NULL
  Window,     \* how many slots below top_stack_address thr_create() tries
  Statuses,   \* exit statuses
  NoStatus,   \* the status of a thread that has not exited: NULL
  WellBehaved, \* whether callers join each thread at most once, and only
              \* threads that exist
  Failures    \* what may fail: "malloc", "fork", "func" (a NULL function),
              \* "size" (a stack size of zero)

ASSUME ThreadAssumption ==
  /\ Root \in Tids /\ NoTid \notin Tids
  /\ IsFiniteSet(Tids) /\ MaxCreates \in 0..(Cardinality(Tids) - 1)
  /\ Slots \in Nat /\ Window \in Nat /\ NoSlot \notin Nat
  /\ NoStatus \notin Statuses
  /\ WellBehaved \in BOOLEAN
  /\ Failures \subseteq {"malloc", "fork", "func", "size"}

VARIABLES
  owner, held, queue, phase,  \* thread_list_mutex and the threadConds
  pc,        \* where each thread is in the code
  listed,    \* list_of_threads: the IDs with a node in it
  td,        \* the thread_t of each thread
  top,       \* top_stack_address
  mapped,    \* the slots that new_pages() has mapped, and the root's stack
  stackOf,   \* the slot whose memory a thread runs on
  peer,      \* the thread that thr_join() joins, or thr_create() creates
  newSlot,   \* thr_create(): the local variable address
  value,     \* the argument of the thread's thr_exit()
  got,       \* what thr_join() stored in *status
  creates,   \* the calls of thr_create() so far
  claimed,   \* the threads that some thread has called thr_join() for
  panicked   \* an assert failed: panic() ended the whole task

Mutexes == {"thread_list_mutex"}
ListMutex == "thread_list_mutex"

CV == INSTANCE CondSpec WITH Threads <- Tids, Conds <- Tids,
                             NoThread <- NoTid, NoMutex <- "none"

cvVars    == <<owner, held, queue, phase>>
stackVars == <<top, mapped, stackOf, newSlot>>
callVars  == <<creates, got, claimed>>
vars == <<cvVars, pc, listed, td, stackVars, peer, value, callVars, panicked>>

-----------------------------------------------------------------------------
(* thread_t: mem says whether the record is allocated, cond whether its    *)
(* threadCond is initialised.                                              *)
NoRecord == [mem |-> "none", cond |-> 0, exitFlag |-> 0, joinedFlag |-> 0,
             status |-> NoStatus, baseAddress |-> NoSlot]

Records == [mem : {"none", "live", "freed"}, cond : {0, 1},
            exitFlag : {0, 1}, joinedFlag : {0, 1},
            status : Statuses \cup {NoStatus},
            baseAddress : 0..Slots \cup {NoSlot}]

NewRecord(slot) == [NoRecord EXCEPT !.mem = "live", !.cond = 1,
                                    !.baseAddress = slot]

Locations == {"unborn", "start", "app", "gone",
              "c_lock", "c_pages", "c_fork", "c_insert",
              "j_lock", "j_check", "j_wait", "j_clean", "j_pages", "j_remove",
              "x_lock", "x_signal", "x_unlock", "x_vanish"}

Goto(t, from, to) == pc[t] = from /\ pc' = [pc EXCEPT ![t] = to]

(* assert(c): when c fails panic() calls task_vanish(), which ends every   *)
(* thread of the task.                                                     *)
AssertThat(c) == panicked' = ~c

Lock(t) == CV!Lock(t, ListMutex)
Unlock(t) == CV!Unlock(t, ListMutex)

(* main() is about to call thr_init(), on a stack that the kernel set up. *)
Init == /\ CV!Init
        /\ pc = [t \in Tids |-> IF t = Root THEN "start" ELSE "unborn"]
        /\ listed = {}
        /\ td = [t \in Tids |-> NoRecord]
        /\ top = 0
        /\ mapped = {0}
        /\ stackOf = [t \in Tids |-> IF t = Root THEN 0 ELSE NoSlot]
        /\ peer = [t \in Tids |-> NoTid]
        /\ newSlot = [t \in Tids |-> NoSlot]
        /\ value = [t \in Tids |-> NoStatus]
        /\ got = [t \in Tids |-> NoStatus]
        /\ creates = 0
        /\ claimed = {}
        /\ panicked = FALSE

-----------------------------------------------------------------------------
(* thr_init(stack_size) *)

thr_init(t) ==
  /\ t = Root /\ Goto(t, "start", "app")
  /\ td' = [td EXCEPT ![t] = NewRecord(NoSlot)]
  /\ listed' = {t}
  /\ UNCHANGED <<cvVars, stackVars, peer, value, callVars, panicked>>

(* A stack size of zero, or no memory for the node of the root thread (and *)
(* list_destroy() of the empty list): -1, and the program cannot go on.    *)
thr_init_fails(t) ==
  /\ t = Root /\ Goto(t, "start", "gone")
  /\ \/ "size" \in Failures /\ UNCHANGED td
     \/ "malloc" \in Failures /\ td' = [td EXCEPT ![t] = NewRecord(NoSlot)]
  /\ UNCHANGED <<cvVars, listed, stackVars, peer, value, callVars, panicked>>

(* No memory for the thread_t of the root thread: mutex_unlock() of        *)
(* thread_list_mutex, which is initialised and not locked.                 *)
thr_init_malloc_null(t) ==
  /\ "malloc" \in Failures
  /\ t = Root /\ Goto(t, "start", "gone")
  /\ AssertThat(owner[ListMutex] # NoTid)
  /\ UNCHANGED <<cvVars, listed, td, stackVars, peer, value, callVars>>

-----------------------------------------------------------------------------
(* thr_create(func, arg) *)

thr_create(t) ==
  /\ creates < MaxCreates
  /\ Goto(t, "app", "c_lock")
  /\ creates' = creates + 1
  /\ UNCHANGED <<cvVars, listed, td, stackVars, peer, value, got, claimed,
                 panicked>>

c_lock(t) ==
  /\ Goto(t, "c_lock", "c_pages")
  /\ Lock(t)
  /\ UNCHANGED <<listed, td, stackVars, peer, value, callVars, panicked>>

(* The error returns: unlock, return -1. *)
CreateFails(t, from) ==
  /\ Goto(t, from, "app")
  /\ Unlock(t)
  /\ newSlot' = [newSlot EXCEPT ![t] = NoSlot]
  /\ peer' = [peer EXCEPT ![t] = NoTid]
  /\ UNCHANGED <<value, callVars>>

c_null_func(t) ==
  /\ "func" \in Failures
  /\ CreateFails(t, "c_pages")
  /\ UNCHANGED <<listed, td, top, mapped, stackOf, panicked>>

(* new_pages() fails for a slot that is mapped or beyond the last one; the *)
(* loop tries the next slot down, as far as the window below               *)
(* top_stack_address, and remembers where it stopped.                      *)
Candidates == {s \in top..(top + Window) : s <= Slots /\ s \notin mapped}

c_pages(t) ==
  /\ Goto(t, "c_pages", "c_fork")
  /\ \E slot \in Candidates :
       /\ \A s \in Candidates : slot <= s
       /\ top' = slot
       /\ mapped' = mapped \cup {slot}
       /\ newSlot' = [newSlot EXCEPT ![t] = slot]
  /\ UNCHANGED <<cvVars, listed, td, stackOf, peer, value, callVars, panicked>>

c_no_pages(t) ==
  /\ Candidates = {}
  /\ CreateFails(t, "c_pages")
  /\ UNCHANGED <<listed, td, top, mapped, stackOf, panicked>>

(* malloc() of the thread_t fails: the stack stays mapped. *)
c_malloc_null(t) ==
  /\ "malloc" \in Failures
  /\ CreateFails(t, "c_fork")
  /\ UNCHANGED <<listed, td, top, mapped, stackOf, panicked>>

(* malloc(), cond_init(), thread_fork(): the child c runs from here on. *)
c_fork(t) ==
  /\ pc[t] = "c_fork"
  /\ \E c \in Tids :
       /\ pc[c] = "unborn"
       /\ pc' = [pc EXCEPT ![t] = "c_insert", ![c] = "app"]
       /\ stackOf' = [stackOf EXCEPT ![c] = newSlot[t]]
       /\ td' = [td EXCEPT ![c].mem = "live", ![c].cond = 1]
       /\ peer' = [peer EXCEPT ![t] = c]
  /\ UNCHANGED <<cvVars, listed, top, mapped, newSlot, value, callVars, panicked>>

(* thread_fork() fails: cond_destroy(), free(), remove_pages() (the first  *)
(* definition forgets the last).                                           *)
KeepPages(t) == mapped
ReturnPages(t) == mapped \ {newSlot[t]}

c_fork_fails(t) ==
  /\ "fork" \in Failures
  /\ CreateFails(t, "c_fork")
  /\ mapped' = ReturnPages(t)
  /\ UNCHANGED <<listed, td, top, stackOf, panicked>>

(* list_insert() of the child, and its absence. *)
NotInserted(t) == listed
Inserted(t) == listed \cup {peer[t]}

(* Fill in the thread_t, list_insert(), unlock, return the ID. *)
c_insert(t) ==
  /\ Goto(t, "c_insert", "app")
  /\ Unlock(t)
  /\ td' = [td EXCEPT ![peer[t]] = NewRecord(newSlot[t])]
  /\ listed' = Inserted(t)
  /\ peer' = [peer EXCEPT ![t] = NoTid]
  /\ newSlot' = [newSlot EXCEPT ![t] = NoSlot]
  /\ UNCHANGED <<top, mapped, stackOf, value, callVars, panicked>>

(* No memory for the node: cond_destroy(), free(), remove_pages() of the   *)
(* stack that the child runs on.                                           *)
c_insert_fails(t) ==
  /\ "malloc" \in Failures
  /\ CreateFails(t, "c_insert")
  /\ td' = [td EXCEPT ![peer[t]].mem = "freed", ![peer[t]].cond = 0]
  /\ mapped' = ReturnPages(t)
  /\ AssertThat(queue[peer[t]] = <<>>)
  /\ UNCHANGED <<listed, top, stackOf>>

-----------------------------------------------------------------------------
(* thr_join(tid, status).  A caller may know an ID before thr_create() has *)
(* returned it: the thread itself can hand it on.                          *)

thr_join(t, x) ==
  /\ x # t
  /\ WellBehaved => pc[x] # "unborn" /\ x \notin claimed
  /\ Goto(t, "app", "j_lock")
  /\ peer' = [peer EXCEPT ![t] = x]
  /\ claimed' = claimed \cup {x}
  /\ UNCHANGED <<cvVars, listed, td, stackVars, value, creates, got, panicked>>

j_lock(t) ==
  /\ Goto(t, "j_lock", "j_check")
  /\ Lock(t)
  /\ UNCHANGED <<listed, td, stackVars, peer, value, callVars, panicked>>

(* list_find() asserts that there is a node for the ID. *)
j_not_found(t) ==
  /\ peer[t] \notin listed
  /\ Goto(t, "j_check", "j_check")
  /\ AssertThat(FALSE)
  /\ UNCHANGED <<cvVars, listed, td, stackVars, peer, value, callVars>>

JoinReturns(t, from) ==
  /\ Goto(t, from, "app")
  /\ Unlock(t)
  /\ peer' = [peer EXCEPT ![t] = NoTid]
  /\ UNCHANGED <<stackVars, value, creates, claimed, panicked>>

(* Somebody else is joining the thread: -1. *)
j_refused(t) ==
  /\ peer[t] \in listed /\ td[peer[t]].joinedFlag = 1
  /\ JoinReturns(t, "j_check")
  /\ UNCHANGED <<listed, td, got>>

(* The target has not exited: thr_join() waits for it. *)
NeverWait(x) == FALSE
MustWait(x) == td[x].exitFlag # 1

(* The joiner's mark on the thread_t, and a joiner that leaves none. *)
Unmarked(r) == r
Joined(r) == [r EXCEPT !.joinedFlag = 1]

(* The thread has not exited: joinedFlag, cond_wait(). *)
j_waits(t) ==
  /\ peer[t] \in listed /\ td[peer[t]].joinedFlag # 1
  /\ MustWait(peer[t])
  /\ Goto(t, "j_check", "j_wait")
  /\ td' = [td EXCEPT ![peer[t]] = Joined(@)]
  /\ CV!Wait(t, ListMutex, peer[t])
  /\ UNCHANGED <<listed, stackVars, peer, value, callVars, panicked>>

j_exited(t) ==
  /\ peer[t] \in listed /\ td[peer[t]].joinedFlag # 1
  /\ ~MustWait(peer[t])
  /\ Goto(t, "j_check", "j_clean")
  /\ UNCHANGED <<cvVars, listed, td, stackVars, peer, value, callVars, panicked>>

(* cond_wait() returns, with thread_list_mutex acquired again. *)
j_woken(t) ==
  /\ Goto(t, "j_wait", "j_clean")
  /\ CV!Return(t, ListMutex)
  /\ UNCHANGED <<listed, td, stackVars, peer, value, callVars, panicked>>

(* *status, the flags, cond_destroy(). *)
j_clean(t) ==
  /\ Goto(t, "j_clean", "j_pages")
  /\ got' = [got EXCEPT ![t] = td[peer[t]].status]
  /\ AssertThat(td[peer[t]].cond = 1 /\ queue[peer[t]] = <<>>)
  /\ td' = [td EXCEPT ![peer[t]].joinedFlag = 0, ![peer[t]].exitFlag = 1,
                      ![peer[t]].cond = 0]
  /\ UNCHANGED <<cvVars, listed, stackVars, peer, value, creates, claimed>>

(* remove_pages() of the stack; the root thread's is the kernel's.  It     *)
(* fails only for a slot that is not mapped, which CleanupIsSafe rules out *)
(* for this step.                                                          *)
j_pages(t) ==
  /\ Goto(t, "j_pages", "j_remove")
  /\ LET slot == td[peer[t]].baseAddress
     IN /\ slot \in mapped \cup {NoSlot}
        /\ mapped' = mapped \ {slot}
  /\ UNCHANGED <<cvVars, listed, td, top, stackOf, newSlot, peer, value,
                 callVars, panicked>>

(* list_remove(), which frees the thread_t too, and unlock. *)
j_remove(t) ==
  /\ JoinReturns(t, "j_remove")
  /\ listed' = listed \ {peer[t]}
  /\ td' = [td EXCEPT ![peer[t]].mem = "freed"]
  /\ UNCHANGED got

-----------------------------------------------------------------------------
(* thr_exit(status); thread_fork() calls it with what the body returned. *)

thr_exit(t, v) ==
  /\ Goto(t, "app", "x_lock")
  /\ value' = [value EXCEPT ![t] = v]
  /\ UNCHANGED <<cvVars, listed, td, stackVars, peer, callVars, panicked>>

x_lock(t) ==
  /\ Goto(t, "x_lock", "x_signal")
  /\ Lock(t)
  /\ UNCHANGED <<listed, td, stackVars, peer, value, callVars, panicked>>

(* What thr_exit() stores in the thread_t; first, without the status.      *)
ExitedSilently(r, v) == [r EXCEPT !.exitFlag = 1, !.joinedFlag = 0]
Exited(r, v) == [r EXCEPT !.exitFlag = 1, !.status = v, !.joinedFlag = 0]

(* cond_signal(&threadCond), and its absence. *)
WakeNobody(t) == UNCHANGED cvVars
WakeJoiner(t) == IF queue[t] = <<>> THEN UNCHANGED cvVars ELSE CV!Signal(t)

(* list_find() asserts that there is a node; cond_signal() that threadCond *)
(* is initialised.                                                         *)
x_signal(t) ==
  /\ Goto(t, "x_signal", "x_unlock")
  /\ AssertThat(t \in listed /\ td[t].cond = 1)
  /\ td' = [td EXCEPT ![t] = Exited(@, value[t])]
  /\ WakeJoiner(t)
  /\ UNCHANGED <<listed, stackVars, peer, value, callVars>>

x_unlock(t) ==
  /\ Goto(t, "x_unlock", "x_vanish")
  /\ Unlock(t)
  /\ UNCHANGED <<listed, td, stackVars, peer, value, callVars, panicked>>

vanish(t) ==
  /\ Goto(t, "x_vanish", "gone")
  /\ UNCHANGED <<cvVars, listed, td, stackVars, peer, value, callVars, panicked>>

-----------------------------------------------------------------------------
Alive(t) == pc[t] \notin {"unborn", "gone"}

(* A thread whose stack is no longer mapped faults at its next call, push  *)
(* or return, and the kernel makes it vanish; what it holds stays held.    *)
fault(t) ==
  /\ Alive(t) /\ stackOf[t] \notin mapped
  /\ phase[t] # "waiting"
  /\ pc' = [pc EXCEPT ![t] = "gone"]
  /\ UNCHANGED <<cvVars, listed, td, stackVars, peer, value, callVars, panicked>>

AppStep(t) ==
  \/ thr_create(t)
  \/ \E x \in Tids : thr_join(t, x)
  \/ \E v \in Statuses : thr_exit(t, v)

LibStep(t) ==
  \/ thr_init(t) \/ thr_init_fails(t) \/ thr_init_malloc_null(t)
  \/ c_lock(t) \/ c_null_func(t) \/ c_pages(t) \/ c_no_pages(t)
  \/ c_malloc_null(t) \/ c_fork(t) \/ c_fork_fails(t)
  \/ c_insert(t) \/ c_insert_fails(t)
  \/ j_lock(t) \/ j_not_found(t) \/ j_refused(t) \/ j_waits(t) \/ j_exited(t)
  \/ j_woken(t) \/ j_clean(t) \/ j_pages(t) \/ j_remove(t)
  \/ x_lock(t) \/ x_signal(t) \/ x_unlock(t) \/ vanish(t)

(* Two threads run on one stack, or a joiner uses a thread_t that was      *)
(* freed: what the program does next is not defined, and the model stops.  *)
StackShared == \E t, u \in Tids : /\ t # u /\ Alive(t) /\ Alive(u)
                                  /\ stackOf[t] = stackOf[u]

UsesFreed == \E t \in Tids : /\ pc[t] \in {"j_clean", "j_pages", "j_remove"}
                             /\ td[peer[t]].mem # "live"

Defined == ~panicked /\ ~StackShared /\ ~UsesFreed

Runs(t) == Defined /\ stackOf[t] \in mapped
Faults(t) == Defined /\ fault(t)

Next == \E t \in Tids : \/ Runs(t) /\ AppStep(t)
                        \/ Runs(t) /\ LibStep(t)
                        \/ Faults(t)

Spec == Init /\ [][Next]_vars

(* The kernel keeps running every runnable thread.  Threads need not call  *)
(* thr_exit(), and nothing says that a thread wins a contended mutex.      *)
FairSpec == /\ Spec
            /\ \A t \in Tids : /\ WF_vars(Runs(t) /\ LibStep(t))
                               /\ WF_vars(Faults(t))

-----------------------------------------------------------------------------
(* The fields of thread_t, the stack slots and the locations keep their     *)
(* types.                                                                   *)
TypeOK ==
  /\ owner \in [Mutexes -> Tids \cup {NoTid}]
  /\ held \in [Tids -> Mutexes \cup {"none"}]
  /\ queue \in [Tids -> Seq(Tids)]
  /\ phase \in [Tids -> {"running", "waiting", "woken"}]
  /\ pc \in [Tids -> Locations]
  /\ listed \subseteq Tids
  /\ td \in [Tids -> Records]
  /\ top \in 0..Slots
  /\ mapped \subseteq 0..Slots
  /\ stackOf \in [Tids -> 0..Slots \cup {NoSlot}]
  /\ peer \in [Tids -> Tids \cup {NoTid}]
  /\ newSlot \in [Tids -> 0..Slots \cup {NoSlot}]
  /\ value \in [Tids -> Statuses \cup {NoStatus}]
  /\ got \in [Tids -> Statuses \cup {NoStatus}]
  /\ creates \in 0..MaxCreates
  /\ claimed \subseteq Tids
  /\ panicked \in BOOLEAN

(* No assert is reached by well-behaved callers: a child that exits before *)
(* thr_create() has returned finds its node, and a threadCond is destroyed *)
(* only when nobody waits on it.                                           *)
NoPanic == ~panicked

(* A thread has its own mapped stack until it has released                 *)
(* thread_list_mutex for the last time in thr_exit(), whatever threads are *)
(* created and joined meanwhile.                                           *)
Running(t) == Alive(t) /\ pc[t] # "x_vanish"

StacksPrivate ==
  \A t \in Tids : Running(t) =>
     /\ stackOf[t] \in mapped
     /\ \A u \in Tids : Running(u) /\ stackOf[u] = stackOf[t] => u = t

(* While malloc() succeeds, every mapped stack and every thread_t is owned  *)
(* by exactly one thread that is being created or has not been joined:     *)
(* thr_join() leaves nothing behind and frees nothing twice, nor does      *)
(* thr_create() when it is given no function, finds no stack or its        *)
(* thread_fork() fails.  The property is false of the two returns for want *)
(* of memory: c_malloc_null leaves the new stack mapped, with no owner,    *)
(* and c_insert_fails unmaps the stack of a child that runs.               *)
Creating(x) == \E t \in Tids : pc[t] = "c_insert" /\ peer[t] = x

Owners(slot) ==
  {t \in Tids : pc[t] \in {"c_fork", "c_insert"} /\ newSlot[t] = slot} \cup
  {x \in listed : /\ td[x].baseAddress = slot
                  /\ \A t \in Tids : ~(pc[t] = "j_remove" /\ peer[t] = x)}

NothingLeaks ==
  /\ \A slot \in 1..Slots :
        Cardinality(Owners(slot)) = IF slot \in mapped THEN 1 ELSE 0
  /\ \A x \in Tids : (td[x].mem = "live") <=> (x \in listed \/ Creating(x))

(* When thr_join() cleans up after a thread, that thread has taken its     *)
(* last step with thread_list_mutex, its thread_t is on the list and       *)
(* allocated, and the stack that will be unmapped is mapped.               *)
CleanupIsSafe ==
  \A t \in Tids : pc[t] \in {"j_clean", "j_pages", "j_remove"} =>
     LET x == peer[t]
     IN /\ pc[x] \in {"x_vanish", "gone"}
        /\ x \in listed /\ td[x].mem = "live"
        /\ pc[t] # "j_remove" => td[x].baseAddress \in mapped \cup {NoSlot}

(* thr_join() stores the very value that the joined thread gave to         *)
(* thr_exit(), never the initial NULL.                                     *)
JoinGetsStatus ==
  \A t \in Tids : pc[t] \in {"j_pages", "j_remove"} =>
     got[t] = value[peer[t]] /\ got[t] # NoStatus

(* However often a thread is joined, at most one joiner sleeps on its      *)
(* threadCond, so the single cond_signal() of thr_exit() is enough.        *)
OneWaiter == \A x \in Tids : Len(queue[x]) <= 1

(* A join of a thread that exits returns: the joiner does not sleep on     *)
(* after the signal, nor wait for a mutex that nobody releases.            *)
JoinEnds ==
  \A t, x \in Tids :
     (/\ pc[t] \in {"j_lock", "j_check", "j_wait"} /\ peer[t] = x
      /\ pc[x] \in {"x_lock", "x_signal", "x_unlock", "x_vanish", "gone"})
        ~> (pc[t] = "app" \/ ~Defined)

-----------------------------------------------------------------------------
(* What the documentation says, and the code does not do. *)

(* thr_join() frees "any kind of memory related to that thread after       *)
(* vanish is called in thr_exit" (thread.c): no new thread runs on the     *)
(* stack of one that has not vanished.                                     *)
OneThreadPerStack == ~StackShared
=============================================================================
