------------------------------- MODULE Client -------------------------------
(***************************************************************************)
(* A task whose threads call the thread library, for the test programs of  *)
(* 410user/progs.  The library appears as what its modules are shown to    *)
(* implement: a mutex is a LockSpec, a condition variable a CondSpec, a    *)
(* semaphore a SemSpec, and threads are created, exit and are joined as in *)
(* ThreadLib.tla, each call one step.  The thread groups of                *)
(* 410user/libthrgrp/thrgrp.c are modelled in full on top of it, because   *)
(* the programs run on them.                                               *)
(*                                                                         *)
(* A thread is a stack of line numbers: the line it is about to execute,   *)
(* then the lines its callers resume at.  A step runs from one call into   *)
(* the library, or one access to unprotected shared data, to the next.  A  *)
(* critical section that only touches what its mutex protects may be one   *)
(* step, taken when the mutex is free: nobody can look inside.             *)
(***************************************************************************)
EXTENDS Integers, Sequences, FiniteSets

CONSTANT MaxThreads  \* bound: how many threads the kernel has room for

ASSUME MaxThreadsAssumption == MaxThreads \in Nat \ {0}

Tids == 1..MaxThreads
Main == 1
NULL == 0

Mutexes == {"count_mutex", "lock_print", "lock_running", "lock", "little_lock",
            "lock1", "lock2", "big_global_mutex", "worldLock", "updateLock",
            "bar_mutex", "console_lock", "tg.lock", "mtxs[0]", "mtxs[1]",
            "mtxs[2]", "cell[0]", "cell[1]"}
Conds == {"cvar", "cvar1", "cvar2", "a", "b", "c", "updates", "gameOver",
          "bar_cond", "traps[0]", "tg.cv"}
Sems == {"sem", "lock", "sems[0]", "sems[1]", "sems[2]", "bar1", "bar2",
         "test_sem"}

VARIABLES
  prog,    \* the program that runs
  stack,   \* of each thread, the line it is at, then those it returns to
  mine,    \* the local variables of each thread
  data,    \* the global variables of the program
  owner,   \* the thread that holds each mutex, or NULL
  queue,   \* the threads asleep on each condition variable, oldest first
  wants,   \* the mutex a thread must have back to return from cond_wait()
  count,   \* the count of each semaphore
  life,    \* free, live, exited (and not joined), reaped, or gone
  status,  \* what each exited thread passed to thr_exit()
  grp      \* the thread group: its zombie queue and the memory it is made of

sync == <<owner, queue, wants, count>>
vars == <<prog, stack, mine, data, sync, life, status, grp>>

NoMutex == "none"

Locals0 == [arg |-> 0, i |-> 0, j |-> 0, r |-> 0, s |-> 0, z |-> NULL]

(* main() is about to execute its first modelled line; the library and the *)
(* objects the program initialises first are ready.                        *)
Begin(p, line, globals, counts) ==
  /\ prog = p
  /\ stack = [t \in Tids |-> IF t = Main THEN <<line>> ELSE <<>>]
  /\ mine = [t \in Tids |-> Locals0]
  /\ data = [x \in DOMAIN globals \cup {"bad"} |->
               IF x = "bad" THEN 0 ELSE globals[x]]
  /\ owner = [m \in Mutexes |-> NULL]
  /\ queue = [c \in Conds |-> <<>>]
  /\ wants = [t \in Tids |-> NoMutex]
  /\ count = [s \in Sems |-> IF s \in DOMAIN counts THEN counts[s] ELSE 0]
  /\ life = [t \in Tids |-> IF t = Main THEN "live" ELSE "free"]
  /\ status = [t \in Tids |-> 0]
  /\ grp = [in |-> NULL, out |-> NULL, next |-> [t \in Tids |-> NULL],
            mem |-> [t \in Tids |-> "none"], func |-> [t \in Tids |-> 0]]

-----------------------------------------------------------------------------
(* Control and data *)

At(t, line) == /\ life[t] = "live" /\ wants[t] = NoMutex
               /\ Head(stack[t]) = line

Goto(t, line) == stack' = [stack EXCEPT ![t] = <<line>> \o Tail(@)]

Quiet == UNCHANGED <<prog, life, status, grp>>

Keep == UNCHANGED <<data, mine>>

(* The variables of f after the assignments of values to some of them. *)
Assign(f, values) ==
  [x \in DOMAIN f |-> IF x \in DOMAIN values THEN values[x] ELSE f[x]]

Store(globals) == data' = Assign(data, globals) /\ UNCHANGED mine

Local(t, locals) == /\ mine' = [mine EXCEPT ![t] = Assign(@, locals)]
                    /\ UNCHANGED data

Both(t, globals, locals) == /\ data' = Assign(data, globals)
                            /\ mine' = [mine EXCEPT ![t] = Assign(@, locals)]

(* What the program holds against the library when c fails. *)
Complaint(c) == IF c THEN data.bad ELSE 1

(* No library call: only the program's own variables change. *)
Step(t, line) == Goto(t, line) /\ Quiet /\ UNCHANGED sync

Call(t, f, back) == /\ stack' = [stack EXCEPT ![t] = <<f, back>> \o Tail(@)]
                    /\ Quiet /\ UNCHANGED sync

Return(t) == /\ Len(stack[t]) > 1
             /\ stack' = [stack EXCEPT ![t] = Tail(@)]
             /\ Quiet /\ UNCHANGED sync

-----------------------------------------------------------------------------
(* The thread library *)

Released(m) == [owner EXCEPT ![m] = NULL]
OneWoken(c) == [queue EXCEPT ![c] = IF @ = <<>> THEN @ ELSE Tail(@)]

mutex_lock(t, m, line) ==
  /\ owner[m] = NULL
  /\ owner' = [owner EXCEPT ![m] = t]
  /\ Goto(t, line) /\ Quiet /\ UNCHANGED <<queue, wants, count>>

mutex_unlock(t, m, line) ==
  /\ owner[m] = t
  /\ owner' = Released(m)
  /\ Goto(t, line) /\ Quiet /\ UNCHANGED <<queue, wants, count>>

Sleep(t, c, m, line) ==
  /\ queue' = [queue EXCEPT ![c] = Append(@, t)]
  /\ wants' = [wants EXCEPT ![t] = m]
  /\ Goto(t, line) /\ Quiet /\ UNCHANGED count

cond_wait(t, c, m, line) ==
  /\ owner[m] = t
  /\ owner' = Released(m) /\ Sleep(t, c, m, line)

(* mutex_lock() and, nothing having come up, cond_wait(). *)
lock_and_wait(t, c, m, line) ==
  /\ owner[m] = NULL
  /\ UNCHANGED owner /\ Sleep(t, c, m, line)

Asleep(t) == \E c \in Conds : \E i \in DOMAIN queue[c] : queue[c][i] = t

(* The end of cond_wait() in a thread that has been woken. *)
wake_up(t) ==
  /\ life[t] = "live" /\ wants[t] # NoMutex /\ ~Asleep(t)
  /\ owner[wants[t]] = NULL
  /\ owner' = [owner EXCEPT ![wants[t]] = t]
  /\ wants' = [wants EXCEPT ![t] = NoMutex]
  /\ UNCHANGED <<stack, mine, data, queue, count>> /\ Quiet

cond_signal(t, c, line) ==
  /\ queue' = OneWoken(c)
  /\ Goto(t, line) /\ Quiet /\ UNCHANGED <<owner, wants, count>>

cond_broadcast(t, c, line) ==
  /\ queue' = [queue EXCEPT ![c] = <<>>]
  /\ Goto(t, line) /\ Quiet /\ UNCHANGED <<owner, wants, count>>

sem_wait(t, s, line) ==
  /\ count[s] > 0
  /\ count' = [count EXCEPT ![s] = @ - 1]
  /\ Goto(t, line) /\ Quiet /\ UNCHANGED <<owner, queue, wants>>

sem_signal(t, s, line) ==
  /\ count' = [count EXCEPT ![s] = @ + 1]
  /\ Goto(t, line) /\ Quiet /\ UNCHANGED <<owner, queue, wants>>

(* The kernel numbers threads in the order they are created. *)
Newest == Cardinality({t \in Tids : life[t] # "free"})

(* A new thread starts at line f with argument a; the caller finds its tid *)
(* in its local variable x.                                                *)
NewThread(t, x, f, a, line) ==
  LET u == Newest + 1
  IN /\ u \in Tids
     /\ life' = [life EXCEPT ![u] = "live"]
     /\ stack' = [stack EXCEPT ![t] = <<line>> \o Tail(@), ![u] = <<f>>]
     /\ mine' = [mine EXCEPT ![t][x] = u, ![u].arg = a]
     /\ UNCHANGED <<prog, data, sync, status>>

thr_create(t, x, f, a, line) == NewThread(t, x, f, a, line) /\ UNCHANGED grp

thr_exit(t, v) ==
  /\ life' = [life EXCEPT ![t] = "exited"]
  /\ status' = [status EXCEPT ![t] = v]
  /\ stack' = [stack EXCEPT ![t] = <<>>]
  /\ UNCHANGED <<prog, sync, grp>>

(* vanish() and exit(): the thread is gone, its entry in the list of       *)
(* threads is not.                                                         *)
vanish(t) == /\ life' = [life EXCEPT ![t] = "gone"]
             /\ stack' = [stack EXCEPT ![t] = <<>>]
             /\ UNCHANGED <<prog, sync, status, grp>>

(* task_vanish() ends every thread. *)
task_vanish(t) ==
  /\ life' = [u \in Tids |-> IF life[u] = "live" THEN "gone" ELSE life[u]]
  /\ stack' = [u \in Tids |-> <<>>]
  /\ UNCHANGED <<prog, sync, status, grp>>

(* thr_join() waits for u to exit and finds its status in s.  For a thread *)
(* that was joined before, or never was, list_find() finds no node: its    *)
(* assertion fails, and panic() ends every thread as task_vanish() does.   *)
(* (In these programs no two threads join the same one at a time.)         *)
thr_join(t, u, line) ==
  \/ /\ u \in Tids /\ life[u] = "exited"
     /\ life' = [life EXCEPT ![u] = "reaped"]
     /\ mine' = [mine EXCEPT ![t].r = 0, ![t].s = status[u]]
     /\ Goto(t, line) /\ UNCHANGED <<prog, sync, status, grp>>
  \/ /\ u \notin Tids \/ life[u] \in {"free", "reaped"}
     /\ task_vanish(t) /\ UNCHANGED mine

(* A function returns v; the function a thread started in ends the thread. *)
Leave(t, v) == \/ Return(t) /\ Local(t, [s |-> v])
               \/ Len(stack[t]) = 1 /\ thr_exit(t, v) /\ Keep

-----------------------------------------------------------------------------
(* 410user/libthrgrp/thrgrp.c.  Its lines are counted from TG(0) so that   *)
(* they differ from the program's.  grp.mem[t] says what the union         *)
(* allocated for thread t holds: the arguments of thrgrp_bottom(), then    *)
(* the queue element, then nothing once it is freed.                       *)
TG(line) == 1000 + line

thrgrp_create(t, f, a, line) ==
  /\ NewThread(t, "r", TG(81), a, line)
  /\ grp' = [grp EXCEPT !.mem[Newest + 1] = "args", !.func[Newest + 1] = f]

(* Puts the element of thread t on the zombie queue; the mistake before it *)
(* forgets to link it behind the last one.                                 *)
EnqueueUnlinked(t) ==
  [grp EXCEPT !.in = t, !.out = IF grp.out = NULL THEN t ELSE @]
Enqueue(t) ==
  [grp EXCEPT !.next = IF grp.in = NULL THEN @ ELSE [@ EXCEPT ![grp.in] = t],
              !.in = t,
              !.out = IF grp.out = NULL THEN t ELSE @]

QuietThreads == UNCHANGED <<prog, life, status>>

thrgrp_bottom(t) ==
  \/ /\ At(t, TG(81)) /\ UNCHANGED <<sync, data, mine>> /\ QuietThreads
     /\ stack' = [stack EXCEPT ![t] = <<grp.func[t], TG(98)>>]
     /\ grp' = [grp EXCEPT !.mem[t] = "element"]
  \/ /\ At(t, TG(98)) /\ owner["tg.lock"] = NULL
     /\ grp' = Enqueue(t)
     /\ queue' = OneWoken("tg.cv")
     /\ Goto(t, TG(110)) /\ QuietThreads /\ Keep
     /\ UNCHANGED <<owner, wants, count>>
  \/ At(t, TG(110)) /\ thr_exit(t, mine[t].s) /\ Keep

(* Takes the oldest zombie off the queue and frees its element. *)
Dequeue ==
  LET g == [grp EXCEPT !.mem[grp.out] = "freed", !.next[grp.out] = NULL]
  IN IF g.out = g.in THEN [g EXCEPT !.in = NULL, !.out = NULL]
     ELSE [g EXCEPT !.out = grp.next[grp.out]]

(* Entered with Call(t, TG(170), line); the status is left in s. *)
thrgrp_join(t) ==
  \/ /\ grp.out = NULL /\ Keep
     /\ \/ /\ At(t, TG(170))
           /\ lock_and_wait(t, "tg.cv", "tg.lock", TG(172))
        \/ At(t, TG(172)) /\ cond_wait(t, "tg.cv", "tg.lock", TG(172))
  \/ /\ \/ At(t, TG(170)) /\ owner["tg.lock"] = NULL
        \/ At(t, TG(172))
     /\ grp.out # NULL
     /\ Local(t, [z |-> grp.out])
     /\ grp' = Dequeue
     /\ owner' = Released("tg.lock") /\ UNCHANGED <<queue, wants, count>>
     /\ Goto(t, TG(194)) /\ QuietThreads
  \/ At(t, TG(194)) /\ thr_join(t, mine[t].z, TG(195)) /\ UNCHANGED data
  \/ At(t, TG(195)) /\ Return(t) /\ Local(t, [z |-> NULL])

(* What mutex_destroy() and cond_destroy() assert of the group's mutex and *)
(* condition variable.                                                     *)
GroupAtRest == owner["tg.lock"] = NULL /\ queue["tg.cv"] = <<>>

(* Entered with Call(t, TG(61), line); r is 1 when zombies are left, and   *)
(* then the mutex and the condition variable are not destroyed.            *)
thrgrp_destroy_group(t) ==
  \/ /\ At(t, TG(61)) /\ owner["tg.lock"] = NULL /\ Step(t, TG(70))
     /\ Local(t, [r |-> IF grp.in # NULL \/ grp.out # NULL THEN 1 ELSE 0])
  \/ /\ At(t, TG(70)) /\ Keep
     /\ IF mine[t].r # 0 \/ GroupAtRest THEN Return(t) ELSE task_vanish(t)

Library(t) == \/ wake_up(t) \/ thrgrp_bottom(t) \/ thrgrp_join(t)
              \/ thrgrp_destroy_group(t)
=============================================================================
