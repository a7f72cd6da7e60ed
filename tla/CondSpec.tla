------------------------------ MODULE CondSpec ------------------------------
(***************************************************************************)
(* What condition variables promise: cond_wait() releases the mutex and    *)
(* joins the queue of waiters in one step; cond_signal() wakes the thread  *)
(* that has waited longest, cond_broadcast() every thread waiting at that  *)
(* moment; a woken thread, and only a woken thread, returns, and does so   *)
(* with the mutex acquired again.  CondVar.tla shows that                  *)
(* user/libthread/cond.c implements this; Semaphore.tla and ThreadLib.tla  *)
(* use condition variables this way.                                       *)
(***************************************************************************)
EXTENDS Naturals, Sequences

CONSTANTS Threads, Conds, Mutexes, NoThread, NoMutex

VARIABLES
  owner,  \* the owner of each mutex
  held,   \* the mutex a thread holds, or gave to the cond_wait() it is in
  queue,  \* the waiters of each condition variable, longest waiting first
  phase   \* of each thread: running, waiting, or woken and not yet returned

vars == <<owner, held, queue, phase>>

Init == /\ owner = [m \in Mutexes |-> NoThread]
        /\ held = [t \in Threads |-> NoMutex]
        /\ queue = [c \in Conds |-> <<>>]
        /\ phase = [t \in Threads |-> "running"]

Lock(t, m) == /\ phase[t] = "running" /\ held[t] = NoMutex
              /\ owner[m] = NoThread
              /\ owner' = [owner EXCEPT ![m] = t]
              /\ held' = [held EXCEPT ![t] = m]
              /\ UNCHANGED <<queue, phase>>

Unlock(t, m) == /\ phase[t] = "running" /\ held[t] = m
                /\ owner' = [owner EXCEPT ![m] = NoThread]
                /\ held' = [held EXCEPT ![t] = NoMutex]
                /\ UNCHANGED <<queue, phase>>

Wait(t, m, c) == /\ phase[t] = "running" /\ held[t] = m
                 /\ owner' = [owner EXCEPT ![m] = NoThread]
                 /\ queue' = [queue EXCEPT ![c] = Append(@, t)]
                 /\ phase' = [phase EXCEPT ![t] = "waiting"]
                 /\ UNCHANGED held

(* Wakes the n threads that have waited longest: n = 1 for a signal, all   *)
(* of the queue for a broadcast.                                           *)
Wake(c, n) == /\ queue' = [queue EXCEPT ![c] = SubSeq(@, n + 1, Len(@))]
              /\ phase' = [t \in Threads |->
                             IF \E i \in 1..n : queue[c][i] = t
                             THEN "woken" ELSE phase[t]]
              /\ UNCHANGED <<owner, held>>

Signal(c) == Len(queue[c]) > 0 /\ Wake(c, 1)

Broadcast(c) == Wake(c, Len(queue[c]))

Return(t, m) == /\ phase[t] = "woken" /\ held[t] = m
                /\ owner[m] = NoThread
                /\ owner' = [owner EXCEPT ![m] = t]
                /\ phase' = [phase EXCEPT ![t] = "running"]
                /\ UNCHANGED <<held, queue>>

Next == \/ \E t \in Threads, m \in Mutexes :
             \/ Lock(t, m) \/ Unlock(t, m) \/ Return(t, m)
             \/ \E c \in Conds : Wait(t, m, c)
        \/ \E c \in Conds : Signal(c) \/ Broadcast(c)

Spec == Init /\ [][Next]_vars
=============================================================================
