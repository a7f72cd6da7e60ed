---------------------------- MODULE CondVarProofs ----------------------------
(***************************************************************************)
(* Proofs about CondVar.tla for any threads, condition variables and       *)
(* mutexes, whether or not malloc() may fail: no wakeup is lost, no record *)
(* is used after it was freed, no wait ends early, no assertion is reached *)
(* but the one for a failed allocation, and CondSpec.tla is implemented.   *)
(***************************************************************************)
EXTENDS CondVar, FiniteSetTheorems, SequenceTheorems, TLAPS

(* condMutex: who is inside an operation that holds it is its owner.       *)
HoldLocations == {"w_insert", "w_unlock_mutex", "w_unlock_cond", "s_loop",
                  "s_flag", "s_wake", "s_unlock", "d_check", "d_unlock"}

UseLocations == {"w_lock", "w_insert", "w_unlock_mutex", "w_unlock_cond"}
                  \cup SignalLocations \cup DestroyLocations

HoldersOwn == \A t \in Threads : pc[t] \in HoldLocations =>
                                    condMutex[cond[t]] = t

UsersHaveCond == \A t \in Threads : pc[t] \in UseLocations => cond[t] \in Conds

(* A signaller never expects more waiters than there are. *)
CountsFit ==
  \A t \in Threads :
     /\ pc[t] = "s_loop" => left[t] <= Len(list[cond[t]])
     /\ pc[t] \in {"s_flag", "s_wake"} => /\ left[t] >= 1
                                          /\ left[t] <= Len(list[cond[t]]) + 1

(* Who is on a list waits for it, with its flag clear, and is there once. *)
PendingWait(t) == Waits(t) /\ waitFlag[t] = 0

ListsPending == \A c \in Conds : \A i \in 1..Len(list[c]) : PendingWait(list[c][i])

ListsDistinct == \A c, d \in Conds : \A i \in 1..Len(list[c]), j \in 1..Len(list[d]) :
                    list[c][i] = list[d][j] => c = d /\ i = j

(* So is the one a signaller has just taken off, and no other signaller    *)
(* has taken it too.                                                       *)
TargetsPending ==
  \A s \in Threads : pc[s] = "s_flag" =>
     /\ target[s] \in Threads
     /\ PendingWait(target[s])
     /\ \A c \in Conds : \A i \in 1..Len(list[c]) : list[c][i] # target[s]
     /\ \A r \in Threads : pc[r] = "s_flag" /\ target[r] = target[s] => r = s

WaitersAllocated == \A t \in Threads : Waits(t) => allocated[t]

FreersSignalled == \A t \in Threads : pc[t] = "w_free" => waitFlag[t] = 1

SleepersWait == \A t \in Threads : descheduled[t] => pc[t] = "w_asleep"

(* A cond_t that is usable, or used by a thread that got in while it was,  *)
(* is initialised; only its destroyer finds it half destroyed, and it      *)
(* destroys it alone, with an empty list.                                  *)
UsableReady == \A c \in Conds : usable[c] =>
                  condMutexInit[c] = 1 /\ initializeFlag[c] = 1

UsersReady ==
  \A t \in Threads :
     /\ pc[t] \in UseLocations => condMutexInit[cond[t]] = 1
     /\ pc[t] \in Entering \cup {"d_lock", "d_check"} => initializeFlag[cond[t]] = 1

DestroyersAlone ==
  \A t \in Threads : pc[t] \in DestroyLocations =>
     /\ ~usable[cond[t]]
     /\ \A u \in Threads : cond[u] = cond[t] => pc[u] \notin Entering
     /\ \A u \in Threads : cond[u] = cond[t] /\ pc[u] \in DestroyLocations => u = t
     /\ list[cond[t]] = <<>>
     /\ pc[t] = "d_mutex" => condMutex[cond[t]] = NoThread

(* The parts of the inductive invariant, and the whole. *)
LockInv   == HoldersOwn /\ UsersHaveCond
QueueInv  == ListsPending /\ ListsDistinct /\ TargetsPending
RecordInv == WaitersAllocated /\ FreersSignalled /\ SleepersWait
ReadyInv  == UsableReady /\ UsersReady /\ DestroyersAlone /\ NoPanic

IInv == /\ TypeOK /\ LockInv /\ CountsFit /\ QueueInv /\ RecordInv
        /\ NoLostWakeup /\ ReadyInv

USE DEF Locations, WaitLocations, SignalLocations, DestroyLocations

-----------------------------------------------------------------------------
(* What list_insert() and list_dequeue() do to a list of threads. *)
LEMMA InsertFacts ==
  ASSUME NEW S, NEW l \in Seq(S), NEW e \in S
  PROVE  /\ list_insert(l, e) \in Seq(S)
         /\ Len(list_insert(l, e)) = Len(l) + 1
         /\ \A i \in 1..Len(l) : list_insert(l, e)[i] = l[i]
         /\ list_insert(l, e)[Len(l) + 1] = e
  BY DEF list_insert

LEMMA DequeueFacts ==
  ASSUME NEW S, NEW l \in Seq(S), l # <<>>
  PROVE  /\ list_dequeue(l) \in Seq(S)
         /\ Len(l) \in Nat /\ Len(l) > 0
         /\ Len(list_dequeue(l)) = Len(l) - 1
         /\ \A i \in 1..(Len(l) - 1) : list_dequeue(l)[i] = l[i + 1]
         /\ Head(l) = l[1] /\ l[1] \in S
  BY DEF list_dequeue

LEMMA LenFacts ==
  ASSUME NEW S, NEW l \in Seq(S)
  PROVE  Len(l) \in Nat /\ (l # <<>> <=> Len(l) > 0)
  OBVIOUS

(* Types are preserved: a signaller finds as many waiters as it counted. *)
LEMMA TypesStep ==
  ASSUME TypeOK, LockInv, CountsFit, [Next]_vars
  PROVE  TypeOK'
  <1> USE CondAssumption DEF TypeOK, LockInv, condVars, waitVars, threadVars,
               Goto, AssertThat
  <1>1. ASSUME NEW t \in Threads, NEW m \in Mutexes, app_lock(t, m) PROVE TypeOK'
    BY <1>1 DEF app_lock
  <1>2. ASSUME NEW t \in Threads, app_unlock(t) PROVE TypeOK'
    BY <1>2 DEF app_unlock
  <1>3. ASSUME NEW t \in Threads, NEW c \in Conds, cond_init(t, c) PROVE TypeOK'
    BY <1>3 DEF cond_init, Uses
  <1>4. ASSUME NEW t \in Threads, NEW c \in Conds, cond_destroy(t, c) PROVE TypeOK'
    BY <1>4 DEF cond_destroy, Call
  <1>5. ASSUME NEW t \in Threads, NEW c \in Conds, cond_wait(t, c) PROVE TypeOK'
    BY <1>5 DEF cond_wait, Call
  <1>6. ASSUME NEW t \in Threads, NEW c \in Conds, cond_signal(t, c) PROVE TypeOK'
    BY <1>6 DEF cond_signal, Call
  <1>7. ASSUME NEW t \in Threads, NEW c \in Conds, cond_broadcast(t, c) PROVE TypeOK'
    BY <1>7 DEF cond_broadcast, Call
  <1>8. ASSUME NEW t \in Threads, w_lock(t) PROVE TypeOK'
    BY <1>8 DEF w_lock, LockCond
  <1>9. ASSUME NEW t \in Threads, w_insert(t) PROVE TypeOK'
    <2>1. list' \in [Conds -> Seq(Threads)]
      BY <1>9, InsertFacts DEF w_insert, UsersHaveCond, UseLocations
    <2> QED
      BY <1>9, <2>1 DEF w_insert, NewWaitFlag
  <1>10. ASSUME NEW t \in Threads, w_malloc_null(t) PROVE TypeOK'
    BY <1>10 DEF w_malloc_null
  <1>11. ASSUME NEW t \in Threads, w_insert_fails(t) PROVE TypeOK'
    BY <1>11 DEF w_insert_fails, NewWaitFlag
  <1>12. ASSUME NEW t \in Threads, w_unlock_mutex(t) PROVE TypeOK'
    BY <1>12 DEF w_unlock_mutex
  <1>13. ASSUME NEW t \in Threads, w_unlock_cond(t) PROVE TypeOK'
    BY <1>13 DEF w_unlock_cond, UnlockCond
  <1>14. ASSUME NEW t \in Threads, w_test(t) PROVE TypeOK'
    BY <1>14 DEF w_test
  <1>15. ASSUME NEW t \in Threads, deschedule(t) PROVE TypeOK'
    BY <1>15 DEF deschedule
  <1>16. ASSUME NEW t \in Threads, w_resume(t) PROVE TypeOK'
    BY <1>16 DEF w_resume, AfterDeschedule
  <1>17. ASSUME NEW t \in Threads, w_free(t) PROVE TypeOK'
    BY <1>17 DEF w_free
  <1>18. ASSUME NEW t \in Threads, w_relock(t) PROVE TypeOK'
    BY <1>18 DEF w_relock, Return
  <1>19. ASSUME NEW t \in Threads, s_lock(t) PROVE TypeOK'
    <2>1. cond[t] \in Conds
      BY <1>19 DEF s_lock, UsersHaveCond, UseLocations
    <2>2. Len(list[cond[t]]) \in Nat
      BY <2>1, LenFacts
    <2>3. left' \in [Threads -> Nat]
      BY <1>19, <2>2 DEF s_lock, SignalCount, BroadcastCount
    <2> QED
      BY <1>19, <2>3 DEF s_lock, LockCond
  <1>20. ASSUME NEW t \in Threads, s_dequeue(t) PROVE TypeOK'
    <2>1. cond[t] \in Conds /\ list[cond[t]] # <<>>
      BY <1>20, LenFacts DEF s_dequeue, UsersHaveCond, UseLocations, CountsFit
    <2>2. list' \in [Conds -> Seq(Threads)]
      BY <1>20, <2>1, DequeueFacts DEF s_dequeue
    <2>3. target' \in [Threads -> Threads \cup {NoThread}]
      BY <1>20, <2>1, DequeueFacts DEF s_dequeue
    <2> QED
      BY <1>20, <2>2, <2>3 DEF s_dequeue
  <1>21. ASSUME NEW t \in Threads, s_done(t) PROVE TypeOK'
    BY <1>21 DEF s_done
  <1>22. ASSUME NEW t \in Threads, s_flag(t) PROVE TypeOK'
    BY <1>22 DEF s_flag
  <1>23. ASSUME NEW t \in Threads, make_runnable(t) PROVE TypeOK'
    <2>1. left' \in [Threads -> Nat]
      BY <1>23 DEF make_runnable, CountsFit
    <2> QED
      BY <1>23, <2>1 DEF make_runnable
  <1>24. ASSUME NEW t \in Threads, s_unlock(t) PROVE TypeOK'
    BY <1>24 DEF s_unlock, UnlockCond, Return
  <1>25. ASSUME NEW t \in Threads, d_lock(t) PROVE TypeOK'
    BY <1>25 DEF d_lock, LockCond
  <1>26. ASSUME NEW t \in Threads, d_check(t) PROVE TypeOK'
    <2>1. <<>> \in Seq(Threads)
      OBVIOUS
    <2>2. list' \in [Conds -> Seq(Threads)]
      BY <1>26, <2>1 DEF d_check
    <2> QED
      BY <1>26, <2>2 DEF d_check
  <1>27. ASSUME NEW t \in Threads, d_unlock(t) PROVE TypeOK'
    BY <1>27 DEF d_unlock, UnlockCond
  <1>28. ASSUME NEW t \in Threads, d_mutex(t) PROVE TypeOK'
    BY <1>28 DEF d_mutex, Return
  <1>29. CASE UNCHANGED vars
    BY <1>29 DEF vars, condVars, waitVars, threadVars
  <1> QED
    BY <1>1, <1>2, <1>3, <1>4, <1>5, <1>6, <1>7, <1>8, <1>9, <1>10, <1>11,
       <1>12, <1>13, <1>14, <1>15, <1>16, <1>17, <1>18, <1>19, <1>20, <1>21,
       <1>22, <1>23, <1>24, <1>25, <1>26, <1>27, <1>28, <1>29
       DEF Next, AppStep, LibStep

(* condMutex belongs to the thread inside. *)
LEMMA LocksStep ==
  ASSUME TypeOK, LockInv, [Next]_vars
  PROVE  LockInv'
  <1> USE CondAssumption DEF TypeOK, LockInv, HoldersOwn, UsersHaveCond,
               HoldLocations, UseLocations, condVars, waitVars, threadVars,
               Goto, AssertThat
  <1>1. ASSUME NEW t \in Threads, NEW m \in Mutexes, app_lock(t, m) PROVE LockInv'
    BY <1>1 DEF app_lock
  <1>2. ASSUME NEW t \in Threads, app_unlock(t) PROVE LockInv'
    BY <1>2 DEF app_unlock
  <1>3. ASSUME NEW t \in Threads, NEW c \in Conds, cond_init(t, c) PROVE LockInv'
    BY <1>3 DEF cond_init, Uses
  <1>4. ASSUME NEW t \in Threads, NEW c \in Conds, cond_destroy(t, c) PROVE LockInv'
    BY <1>4 DEF cond_destroy, Call
  <1>5. ASSUME NEW t \in Threads, NEW c \in Conds, cond_wait(t, c) PROVE LockInv'
    BY <1>5 DEF cond_wait, Call
  <1>6. ASSUME NEW t \in Threads, NEW c \in Conds, cond_signal(t, c) PROVE LockInv'
    BY <1>6 DEF cond_signal, Call
  <1>7. ASSUME NEW t \in Threads, NEW c \in Conds, cond_broadcast(t, c) PROVE LockInv'
    BY <1>7 DEF cond_broadcast, Call
  <1>8. ASSUME NEW t \in Threads, w_lock(t) PROVE LockInv'
    BY <1>8 DEF w_lock, LockCond
  <1>9. ASSUME NEW t \in Threads, w_insert(t) PROVE LockInv'
    BY <1>9 DEF w_insert, list_insert, NewWaitFlag
  <1>10. ASSUME NEW t \in Threads, w_malloc_null(t) PROVE LockInv'
    BY <1>10 DEF w_malloc_null
  <1>11. ASSUME NEW t \in Threads, w_insert_fails(t) PROVE LockInv'
    BY <1>11 DEF w_insert_fails, NewWaitFlag
  <1>12. ASSUME NEW t \in Threads, w_unlock_mutex(t) PROVE LockInv'
    BY <1>12 DEF w_unlock_mutex
  <1>13. ASSUME NEW t \in Threads, w_unlock_cond(t) PROVE LockInv'
    BY <1>13 DEF w_unlock_cond, UnlockCond
  <1>14. ASSUME NEW t \in Threads, w_test(t) PROVE LockInv'
    BY <1>14 DEF w_test
  <1>15. ASSUME NEW t \in Threads, deschedule(t) PROVE LockInv'
    BY <1>15 DEF deschedule
  <1>16. ASSUME NEW t \in Threads, w_resume(t) PROVE LockInv'
    BY <1>16 DEF w_resume, AfterDeschedule
  <1>17. ASSUME NEW t \in Threads, w_free(t) PROVE LockInv'
    BY <1>17 DEF w_free
  <1>18. ASSUME NEW t \in Threads, w_relock(t) PROVE LockInv'
    BY <1>18 DEF w_relock, Return
  <1>19. ASSUME NEW t \in Threads, s_lock(t) PROVE LockInv'
    BY <1>19 DEF s_lock, LockCond, SignalCount, BroadcastCount
  <1>20. ASSUME NEW t \in Threads, s_dequeue(t) PROVE LockInv'
    BY <1>20 DEF s_dequeue, list_dequeue
  <1>21. ASSUME NEW t \in Threads, s_done(t) PROVE LockInv'
    BY <1>21 DEF s_done
  <1>22. ASSUME NEW t \in Threads, s_flag(t) PROVE LockInv'
    BY <1>22 DEF s_flag
  <1>23. ASSUME NEW t \in Threads, make_runnable(t) PROVE LockInv'
    BY <1>23 DEF make_runnable
  <1>24. ASSUME NEW t \in Threads, s_unlock(t) PROVE LockInv'
    BY <1>24 DEF s_unlock, UnlockCond, Return
  <1>25. ASSUME NEW t \in Threads, d_lock(t) PROVE LockInv'
    BY <1>25 DEF d_lock, LockCond
  <1>26. ASSUME NEW t \in Threads, d_check(t) PROVE LockInv'
    BY <1>26 DEF d_check
  <1>27. ASSUME NEW t \in Threads, d_unlock(t) PROVE LockInv'
    BY <1>27 DEF d_unlock, UnlockCond
  <1>28. ASSUME NEW t \in Threads, d_mutex(t) PROVE LockInv'
    BY <1>28 DEF d_mutex, Return
  <1>29. CASE UNCHANGED vars
    BY <1>29 DEF vars, condVars, waitVars, threadVars
  <1> QED
    BY <1>1, <1>2, <1>3, <1>4, <1>5, <1>6, <1>7, <1>8, <1>9, <1>10, <1>11,
       <1>12, <1>13, <1>14, <1>15, <1>16, <1>17, <1>18, <1>19, <1>20, <1>21,
       <1>22, <1>23, <1>24, <1>25, <1>26, <1>27, <1>28, <1>29
       DEF Next, AppStep, LibStep

(* The list of a condition variable changes only in the hands of the owner *)
(* of its condMutex, so what a signaller counted stays true.               *)
LEMMA CountsStep ==
  ASSUME TypeOK, LockInv, CountsFit, [Next]_vars
  PROVE  CountsFit'
  <1> USE CondAssumption DEF TypeOK, LockInv, HoldersOwn, UsersHaveCond,
               CountsFit, HoldLocations, UseLocations, condVars, waitVars,
               threadVars, Goto, AssertThat
  <1>1. ASSUME NEW t \in Threads, NEW m \in Mutexes, app_lock(t, m) PROVE CountsFit'
    BY <1>1 DEF app_lock
  <1>2. ASSUME NEW t \in Threads, app_unlock(t) PROVE CountsFit'
    BY <1>2 DEF app_unlock
  <1>3. ASSUME NEW t \in Threads, NEW c \in Conds, cond_init(t, c) PROVE CountsFit'
    BY <1>3 DEF cond_init, Uses
  <1>4. ASSUME NEW t \in Threads, NEW c \in Conds, cond_destroy(t, c) PROVE CountsFit'
    BY <1>4 DEF cond_destroy, Call
  <1>5. ASSUME NEW t \in Threads, NEW c \in Conds, cond_wait(t, c) PROVE CountsFit'
    BY <1>5 DEF cond_wait, Call
  <1>6. ASSUME NEW t \in Threads, NEW c \in Conds, cond_signal(t, c) PROVE CountsFit'
    BY <1>6 DEF cond_signal, Call
  <1>7. ASSUME NEW t \in Threads, NEW c \in Conds, cond_broadcast(t, c) PROVE CountsFit'
    BY <1>7 DEF cond_broadcast, Call
  <1>8. ASSUME NEW t \in Threads, w_lock(t) PROVE CountsFit'
    BY <1>8 DEF w_lock, LockCond
  <1>9. ASSUME NEW t \in Threads, w_insert(t) PROVE CountsFit'
    BY <1>9 DEF w_insert, list_insert, NewWaitFlag
  <1>10. ASSUME NEW t \in Threads, w_malloc_null(t) PROVE CountsFit'
    BY <1>10 DEF w_malloc_null
  <1>11. ASSUME NEW t \in Threads, w_insert_fails(t) PROVE CountsFit'
    BY <1>11 DEF w_insert_fails, NewWaitFlag
  <1>12. ASSUME NEW t \in Threads, w_unlock_mutex(t) PROVE CountsFit'
    BY <1>12 DEF w_unlock_mutex
  <1>13. ASSUME NEW t \in Threads, w_unlock_cond(t) PROVE CountsFit'
    BY <1>13 DEF w_unlock_cond, UnlockCond
  <1>14. ASSUME NEW t \in Threads, w_test(t) PROVE CountsFit'
    BY <1>14 DEF w_test
  <1>15. ASSUME NEW t \in Threads, deschedule(t) PROVE CountsFit'
    BY <1>15 DEF deschedule
  <1>16. ASSUME NEW t \in Threads, w_resume(t) PROVE CountsFit'
    BY <1>16 DEF w_resume, AfterDeschedule
  <1>17. ASSUME NEW t \in Threads, w_free(t) PROVE CountsFit'
    BY <1>17 DEF w_free
  <1>18. ASSUME NEW t \in Threads, w_relock(t) PROVE CountsFit'
    BY <1>18 DEF w_relock, Return
  <1>19. ASSUME NEW t \in Threads, s_lock(t) PROVE CountsFit'
    <2>1. cond[t] \in Conds /\ cond' = cond /\ list' = list
      BY <1>19 DEF s_lock
    <2>2. Len(list[cond[t]]) \in Nat
      BY <2>1, LenFacts
    <2>3. left'[t] \in Nat /\ left'[t] <= Len(list[cond[t]]) /\ pc'[t] = "s_loop"
      BY <1>19, <2>2 DEF s_lock, SignalCount, BroadcastCount
    <2>4. \A u \in Threads \ {t} : left'[u] = left[u] /\ pc'[u] = pc[u]
      BY <1>19 DEF s_lock
    <2> QED
      BY <2>1, <2>3, <2>4
  <1>20. ASSUME NEW t \in Threads, s_dequeue(t) PROVE CountsFit'
    BY <1>20 DEF s_dequeue, list_dequeue
  <1>21. ASSUME NEW t \in Threads, s_done(t) PROVE CountsFit'
    BY <1>21 DEF s_done
  <1>22. ASSUME NEW t \in Threads, s_flag(t) PROVE CountsFit'
    BY <1>22 DEF s_flag
  <1>23. ASSUME NEW t \in Threads, make_runnable(t) PROVE CountsFit'
    BY <1>23 DEF make_runnable
  <1>24. ASSUME NEW t \in Threads, s_unlock(t) PROVE CountsFit'
    BY <1>24 DEF s_unlock, UnlockCond, Return
  <1>25. ASSUME NEW t \in Threads, d_lock(t) PROVE CountsFit'
    BY <1>25 DEF d_lock, LockCond
  <1>26. ASSUME NEW t \in Threads, d_check(t) PROVE CountsFit'
    BY <1>26 DEF d_check
  <1>27. ASSUME NEW t \in Threads, d_unlock(t) PROVE CountsFit'
    BY <1>27 DEF d_unlock, UnlockCond
  <1>28. ASSUME NEW t \in Threads, d_mutex(t) PROVE CountsFit'
    BY <1>28 DEF d_mutex, Return
  <1>29. CASE UNCHANGED vars
    BY <1>29 DEF vars, condVars, waitVars, threadVars
  <1> QED
    BY <1>1, <1>2, <1>3, <1>4, <1>5, <1>6, <1>7, <1>8, <1>9, <1>10, <1>11,
       <1>12, <1>13, <1>14, <1>15, <1>16, <1>17, <1>18, <1>19, <1>20, <1>21,
       <1>22, <1>23, <1>24, <1>25, <1>26, <1>27, <1>28, <1>29
       DEF Next, AppStep, LibStep

(* A waiter keeps its record, leaves its loop signalled, sleeps in its loop. *)
LEMMA RecordsStep ==
  ASSUME TypeOK, RecordInv, [Next]_vars
  PROVE  RecordInv'
  <1> USE CondAssumption DEF TypeOK, RecordInv, WaitersAllocated,
               FreersSignalled, SleepersWait, Waits, condVars, waitVars,
               threadVars, Goto, AssertThat
  <1>1. ASSUME NEW t \in Threads, NEW m \in Mutexes, app_lock(t, m) PROVE RecordInv'
    BY <1>1 DEF app_lock
  <1>2. ASSUME NEW t \in Threads, app_unlock(t) PROVE RecordInv'
    BY <1>2 DEF app_unlock
  <1>3. ASSUME NEW t \in Threads, NEW c \in Conds, cond_init(t, c) PROVE RecordInv'
    BY <1>3 DEF cond_init, Uses
  <1>4. ASSUME NEW t \in Threads, NEW c \in Conds, cond_destroy(t, c) PROVE RecordInv'
    BY <1>4 DEF cond_destroy, Call
  <1>5. ASSUME NEW t \in Threads, NEW c \in Conds, cond_wait(t, c) PROVE RecordInv'
    BY <1>5 DEF cond_wait, Call
  <1>6. ASSUME NEW t \in Threads, NEW c \in Conds, cond_signal(t, c) PROVE RecordInv'
    BY <1>6 DEF cond_signal, Call
  <1>7. ASSUME NEW t \in Threads, NEW c \in Conds, cond_broadcast(t, c) PROVE RecordInv'
    BY <1>7 DEF cond_broadcast, Call
  <1>8. ASSUME NEW t \in Threads, w_lock(t) PROVE RecordInv'
    BY <1>8 DEF w_lock, LockCond
  <1>9. ASSUME NEW t \in Threads, w_insert(t) PROVE RecordInv'
    BY <1>9 DEF w_insert, list_insert, NewWaitFlag
  <1>10. ASSUME NEW t \in Threads, w_malloc_null(t) PROVE RecordInv'
    BY <1>10 DEF w_malloc_null
  <1>11. ASSUME NEW t \in Threads, w_insert_fails(t) PROVE RecordInv'
    BY <1>11 DEF w_insert_fails, NewWaitFlag
  <1>12. ASSUME NEW t \in Threads, w_unlock_mutex(t) PROVE RecordInv'
    BY <1>12 DEF w_unlock_mutex
  <1>13. ASSUME NEW t \in Threads, w_unlock_cond(t) PROVE RecordInv'
    BY <1>13 DEF w_unlock_cond, UnlockCond
  <1>14. ASSUME NEW t \in Threads, w_test(t) PROVE RecordInv'
    BY <1>14 DEF w_test
  <1>15. ASSUME NEW t \in Threads, deschedule(t) PROVE RecordInv'
    BY <1>15 DEF deschedule
  <1>16. ASSUME NEW t \in Threads, w_resume(t) PROVE RecordInv'
    BY <1>16 DEF w_resume, AfterDeschedule
  <1>17. ASSUME NEW t \in Threads, w_free(t) PROVE RecordInv'
    BY <1>17 DEF w_free
  <1>18. ASSUME NEW t \in Threads, w_relock(t) PROVE RecordInv'
    BY <1>18 DEF w_relock, Return
  <1>19. ASSUME NEW t \in Threads, s_lock(t) PROVE RecordInv'
    BY <1>19 DEF s_lock, LockCond, SignalCount, BroadcastCount
  <1>20. ASSUME NEW t \in Threads, s_dequeue(t) PROVE RecordInv'
    BY <1>20 DEF s_dequeue, list_dequeue
  <1>21. ASSUME NEW t \in Threads, s_done(t) PROVE RecordInv'
    BY <1>21 DEF s_done
  <1>22. ASSUME NEW t \in Threads, s_flag(t) PROVE RecordInv'
    BY <1>22 DEF s_flag
  <1>23. ASSUME NEW t \in Threads, make_runnable(t) PROVE RecordInv'
    BY <1>23 DEF make_runnable
  <1>24. ASSUME NEW t \in Threads, s_unlock(t) PROVE RecordInv'
    BY <1>24 DEF s_unlock, UnlockCond, Return
  <1>25. ASSUME NEW t \in Threads, d_lock(t) PROVE RecordInv'
    BY <1>25 DEF d_lock, LockCond
  <1>26. ASSUME NEW t \in Threads, d_check(t) PROVE RecordInv'
    BY <1>26 DEF d_check
  <1>27. ASSUME NEW t \in Threads, d_unlock(t) PROVE RecordInv'
    BY <1>27 DEF d_unlock, UnlockCond
  <1>28. ASSUME NEW t \in Threads, d_mutex(t) PROVE RecordInv'
    BY <1>28 DEF d_mutex, Return
  <1>29. CASE UNCHANGED vars
    BY <1>29 DEF vars, condVars, waitVars, threadVars
  <1> QED
    BY <1>1, <1>2, <1>3, <1>4, <1>5, <1>6, <1>7, <1>8, <1>9, <1>10, <1>11,
       <1>12, <1>13, <1>14, <1>15, <1>16, <1>17, <1>18, <1>19, <1>20, <1>21,
       <1>22, <1>23, <1>24, <1>25, <1>26, <1>27, <1>28, <1>29
       DEF Next, AppStep, LibStep

(* A sleeper whose flag is set is about to be made runnable. *)
LEMMA WakeupStep ==
  ASSUME TypeOK, RecordInv, NoLostWakeup, [Next]_vars
  PROVE  NoLostWakeup'
  <1> USE CondAssumption DEF TypeOK, RecordInv, SleepersWait, NoLostWakeup,
               condVars, waitVars, threadVars, Goto, AssertThat
  <1>1. ASSUME NEW t \in Threads, NEW m \in Mutexes, app_lock(t, m) PROVE NoLostWakeup'
    BY <1>1 DEF app_lock
  <1>2. ASSUME NEW t \in Threads, app_unlock(t) PROVE NoLostWakeup'
    BY <1>2 DEF app_unlock
  <1>3. ASSUME NEW t \in Threads, NEW c \in Conds, cond_init(t, c) PROVE NoLostWakeup'
    BY <1>3 DEF cond_init, Uses
  <1>4. ASSUME NEW t \in Threads, NEW c \in Conds, cond_destroy(t, c) PROVE NoLostWakeup'
    BY <1>4 DEF cond_destroy, Call
  <1>5. ASSUME NEW t \in Threads, NEW c \in Conds, cond_wait(t, c) PROVE NoLostWakeup'
    BY <1>5 DEF cond_wait, Call
  <1>6. ASSUME NEW t \in Threads, NEW c \in Conds, cond_signal(t, c) PROVE NoLostWakeup'
    BY <1>6 DEF cond_signal, Call
  <1>7. ASSUME NEW t \in Threads, NEW c \in Conds, cond_broadcast(t, c) PROVE NoLostWakeup'
    BY <1>7 DEF cond_broadcast, Call
  <1>8. ASSUME NEW t \in Threads, w_lock(t) PROVE NoLostWakeup'
    BY <1>8 DEF w_lock, LockCond
  <1>9. ASSUME NEW t \in Threads, w_insert(t) PROVE NoLostWakeup'
    BY <1>9 DEF w_insert, list_insert, NewWaitFlag
  <1>10. ASSUME NEW t \in Threads, w_malloc_null(t) PROVE NoLostWakeup'
    BY <1>10 DEF w_malloc_null
  <1>11. ASSUME NEW t \in Threads, w_insert_fails(t) PROVE NoLostWakeup'
    BY <1>11 DEF w_insert_fails, NewWaitFlag
  <1>12. ASSUME NEW t \in Threads, w_unlock_mutex(t) PROVE NoLostWakeup'
    BY <1>12 DEF w_unlock_mutex
  <1>13. ASSUME NEW t \in Threads, w_unlock_cond(t) PROVE NoLostWakeup'
    BY <1>13 DEF w_unlock_cond, UnlockCond
  <1>14. ASSUME NEW t \in Threads, w_test(t) PROVE NoLostWakeup'
    BY <1>14 DEF w_test
  <1>15. ASSUME NEW t \in Threads, deschedule(t) PROVE NoLostWakeup'
    BY <1>15 DEF deschedule
  <1>16. ASSUME NEW t \in Threads, w_resume(t) PROVE NoLostWakeup'
    BY <1>16 DEF w_resume, AfterDeschedule
  <1>17. ASSUME NEW t \in Threads, w_free(t) PROVE NoLostWakeup'
    BY <1>17 DEF w_free
  <1>18. ASSUME NEW t \in Threads, w_relock(t) PROVE NoLostWakeup'
    BY <1>18 DEF w_relock, Return
  <1>19. ASSUME NEW t \in Threads, s_lock(t) PROVE NoLostWakeup'
    BY <1>19 DEF s_lock, LockCond, SignalCount, BroadcastCount
  <1>20. ASSUME NEW t \in Threads, s_dequeue(t) PROVE NoLostWakeup'
    BY <1>20 DEF s_dequeue, list_dequeue
  <1>21. ASSUME NEW t \in Threads, s_done(t) PROVE NoLostWakeup'
    BY <1>21 DEF s_done
  <1>22. ASSUME NEW t \in Threads, s_flag(t) PROVE NoLostWakeup'
    BY <1>22 DEF s_flag
  <1>23. ASSUME NEW t \in Threads, make_runnable(t) PROVE NoLostWakeup'
    BY <1>23 DEF make_runnable
  <1>24. ASSUME NEW t \in Threads, s_unlock(t) PROVE NoLostWakeup'
    BY <1>24 DEF s_unlock, UnlockCond, Return
  <1>25. ASSUME NEW t \in Threads, d_lock(t) PROVE NoLostWakeup'
    BY <1>25 DEF d_lock, LockCond
  <1>26. ASSUME NEW t \in Threads, d_check(t) PROVE NoLostWakeup'
    BY <1>26 DEF d_check
  <1>27. ASSUME NEW t \in Threads, d_unlock(t) PROVE NoLostWakeup'
    BY <1>27 DEF d_unlock, UnlockCond
  <1>28. ASSUME NEW t \in Threads, d_mutex(t) PROVE NoLostWakeup'
    BY <1>28 DEF d_mutex, Return
  <1>29. CASE UNCHANGED vars
    BY <1>29 DEF vars, condVars, waitVars, threadVars
  <1> QED
    BY <1>1, <1>2, <1>3, <1>4, <1>5, <1>6, <1>7, <1>8, <1>9, <1>10, <1>11,
       <1>12, <1>13, <1>14, <1>15, <1>16, <1>17, <1>18, <1>19, <1>20, <1>21,
       <1>22, <1>23, <1>24, <1>25, <1>26, <1>27, <1>28, <1>29
       DEF Next, AppStep, LibStep

(* cond_wait() puts a thread on a list on which, and on no other, it was   *)
(* not before.                                                             *)
LEMMA InsertQueue ==
  ASSUME TypeOK, LockInv, QueueInv, NEW t \in Threads, w_insert(t)
  PROVE  QueueInv'
  <1> DEFINE c == cond[t]
             l == list[c]
  <1>1. c \in Conds /\ pc[t] = "w_insert" /\ ~Waits(t)
    BY DEF w_insert, Goto, LockInv, UsersHaveCond, UseLocations, Waits
  <1>2. l \in Seq(Threads)
    BY <1>1 DEF TypeOK
  <1>3. Len(l) \in Nat
    BY <1>2
  <1>4. list' = [list EXCEPT ![c] = list_insert(l, t)]
    BY DEF w_insert
  <1>5. /\ Len(list_insert(l, t)) = Len(l) + 1
        /\ \A i \in 1..Len(l) : list_insert(l, t)[i] = l[i]
        /\ list_insert(l, t)[Len(l) + 1] = t
    <2> HIDE DEF l
    <2> QED
      BY <1>2, InsertFacts
  <1>6. list'[c] = list_insert(l, t) /\ \A d \in Conds \ {c} : list'[d] = list[d]
    BY <1>1, <1>4 DEF TypeOK
  <1>7. \A d \in Conds : \A i \in 1..Len(list'[d]) :
           \/ i \in 1..Len(list[d]) /\ list'[d][i] = list[d][i]
           \/ d = c /\ i = Len(l) + 1 /\ list'[d][i] = t
    <2> HIDE DEF c, l
    <2> QED
      BY <1>3, <1>5, <1>6 DEF l
  <1>8. \A d \in Conds : \A i \in 1..Len(list[d]) :
           list[d][i] # t /\ PendingWait(list[d][i])
    BY <1>1 DEF QueueInv, ListsPending, PendingWait
  <1>9. \A s \in Threads : pc[s] = "s_flag" => target[s] # t
    BY <1>1 DEF QueueInv, TargetsPending, PendingWait
  <1>10. /\ PendingWait(t)'
         /\ \A u \in Threads \ {t} : PendingWait(u) => PendingWait(u)'
         /\ \A s \in Threads : pc'[s] = "s_flag" <=> pc[s] = "s_flag"
         /\ target' = target
    BY <1>1 DEF w_insert, Goto, NewWaitFlag, TypeOK, PendingWait, Waits, threadVars
  <1>11. \A d \in Conds : \A i \in 1..Len(list[d]) : list[d][i] \in Threads
    BY DEF TypeOK
  <1> HIDE DEF c, l
  <1>12. ListsPending'
    BY <1>7, <1>8, <1>10, <1>11 DEF ListsPending
  <1>13. ListsDistinct'
    BY <1>7, <1>8 DEF QueueInv, ListsDistinct
  <1>14. TargetsPending'
    BY <1>7, <1>9, <1>10 DEF QueueInv, TargetsPending
  <1> QED
    BY <1>12, <1>13, <1>14 DEF QueueInv

(* cond_signal() takes the oldest waiter off its list, and nobody else has *)
(* it then.                                                                *)
LEMMA DequeueQueue ==
  ASSUME TypeOK, LockInv, CountsFit, QueueInv, NEW t \in Threads, s_dequeue(t)
  PROVE  QueueInv'
  <1> DEFINE c == cond[t]
             l == list[c]
  <1>1. c \in Conds /\ pc[t] = "s_loop"
    BY DEF s_dequeue, Goto, LockInv, UsersHaveCond, UseLocations
  <1>2. l \in Seq(Threads) /\ left[t] \in Nat
    BY <1>1 DEF TypeOK
  <1>3. l # <<>>
    BY <1>1, <1>2, LenFacts DEF s_dequeue, CountsFit
  <1>4. /\ list' = [list EXCEPT ![c] = list_dequeue(l)]
        /\ target' = [target EXCEPT ![t] = Head(l)]
    BY DEF s_dequeue
  <1>5. /\ Len(l) \in Nat /\ Len(l) > 0
        /\ Len(list_dequeue(l)) = Len(l) - 1
        /\ \A i \in 1..(Len(l) - 1) : list_dequeue(l)[i] = l[i + 1]
        /\ Head(l) = l[1] /\ l[1] \in Threads
    BY <1>2, <1>3, DequeueFacts
  <1>6. /\ list'[c] = list_dequeue(l) /\ \A d \in Conds \ {c} : list'[d] = list[d]
        /\ target'[t] = l[1] /\ \A s \in Threads \ {t} : target'[s] = target[s]
    BY <1>1, <1>4, <1>5 DEF TypeOK
  <1>7. /\ \A u \in Threads : PendingWait(u) => PendingWait(u)'
        /\ \A s \in Threads \ {t} : pc'[s] = pc[s]
    BY <1>1 DEF s_dequeue, Goto, TypeOK, PendingWait, Waits, waitVars
  <1>8. \A d \in Conds : \A i \in 1..Len(list[d]) : list[d][i] \in Threads
    BY DEF TypeOK
  <1> HIDE DEF c
  <1>9. \A d \in Conds : \A i \in 1..Len(list'[d]) :
           \/ d # c /\ i \in 1..Len(list[d]) /\ list'[d][i] = list[d][i]
           \/ d = c /\ i + 1 \in 1..Len(list[d]) /\ list'[d][i] = list[d][i + 1]
    BY <1>5, <1>6
  <1>10. /\ 1 \in 1..Len(list[c]) /\ target'[t] = list[c][1]
         /\ target'[t] \in Threads
    BY <1>5, <1>6
  <1> HIDE DEF l
  <1>11. ListsPending'
    BY <1>7, <1>8, <1>9 DEF QueueInv, ListsPending
  <1>12. ListsDistinct'
    BY <1>9 DEF QueueInv, ListsDistinct
  <1>13. \A d \in Conds : \A i \in 1..Len(list'[d]) : list'[d][i] # target'[t]
    BY <1>1, <1>9, <1>10 DEF QueueInv, ListsDistinct
  <1>14. \A s \in Threads \ {t} : pc[s] = "s_flag" => target[s] # target'[t]
    BY <1>1, <1>10 DEF QueueInv, TargetsPending
  <1>15. \A s \in Threads \ {t} : pc[s] = "s_flag" =>
            \A d \in Conds : \A i \in 1..Len(list'[d]) : list'[d][i] # target[s]
    BY <1>9 DEF QueueInv, TargetsPending
  <1>16. PendingWait(target'[t])
    BY <1>1, <1>10 DEF QueueInv, ListsPending
  <1>17. TargetsPending'
    BY <1>6, <1>7, <1>10, <1>13, <1>14, <1>15, <1>16 DEF QueueInv, TargetsPending
  <1> QED
    BY <1>11, <1>12, <1>17 DEF QueueInv

(* Nothing changes for the waiters when only a thread moves that neither   *)
(* waits nor has a waiter in its hands.                                    *)
LEMMA QueueUnchanged ==
  ASSUME TypeOK, QueueInv, NEW t \in Threads,
         pc[t] \notin {"s_flag"}, pc'[t] \notin {"s_flag"}, ~Waits(t),
         \A u \in Threads \ {t} : pc'[u] = pc[u],
         list' = list, target' = target, waitFlag' = waitFlag
  PROVE  QueueInv'
  <1>1. \A d \in Conds : \A i \in 1..Len(list[d]) : list[d][i] \in Threads
    BY DEF TypeOK
  <1>2. \A u \in Threads : PendingWait(u) => PendingWait(u)'
    BY DEF PendingWait, Waits
  <1>3. \A u \in Threads : pc'[u] = "s_flag" <=> pc[u] = "s_flag"
    OBVIOUS
  <1>4. ListsPending' /\ ListsDistinct'
    BY <1>1, <1>2 DEF QueueInv, ListsPending, ListsDistinct
  <1>5. TargetsPending'
    BY <1>2, <1>3 DEF QueueInv, TargetsPending
  <1> QED
    BY <1>4, <1>5 DEF QueueInv

(* A waiter leaves its list only into the hands of one signaller, and that *)
(* signaller sets its flag before the waiter can leave.                    *)
LEMMA QueueStep ==
  ASSUME TypeOK, LockInv, CountsFit, QueueInv, [Next]_vars
  PROVE  QueueInv'
  <1> USE CondAssumption DEF TypeOK, LockInv, QueueInv, ListsPending,
               ListsDistinct, TargetsPending, PendingWait, Waits, condVars,
               waitVars, threadVars, Goto, AssertThat
  <1>1. ASSUME NEW t \in Threads, NEW m \in Mutexes, app_lock(t, m) PROVE QueueInv'
    BY <1>1 DEF app_lock
  <1>2. ASSUME NEW t \in Threads, app_unlock(t) PROVE QueueInv'
    BY <1>2 DEF app_unlock
  <1>3. ASSUME NEW t \in Threads, NEW c \in Conds, cond_init(t, c) PROVE QueueInv'
    BY <1>3 DEF cond_init, Uses
  <1>4. ASSUME NEW t \in Threads, NEW c \in Conds, cond_destroy(t, c) PROVE QueueInv'
    BY <1>4 DEF cond_destroy, Call
  <1>5. ASSUME NEW t \in Threads, NEW c \in Conds, cond_wait(t, c) PROVE QueueInv'
    BY <1>5 DEF cond_wait, Call
  <1>6. ASSUME NEW t \in Threads, NEW c \in Conds, cond_signal(t, c) PROVE QueueInv'
    BY <1>6 DEF cond_signal, Call
  <1>7. ASSUME NEW t \in Threads, NEW c \in Conds, cond_broadcast(t, c) PROVE QueueInv'
    BY <1>7 DEF cond_broadcast, Call
  <1>8. ASSUME NEW t \in Threads, w_lock(t) PROVE QueueInv'
    BY <1>8 DEF w_lock, LockCond
  <1>9. ASSUME NEW t \in Threads, w_insert(t) PROVE QueueInv'
    BY <1>9, InsertQueue
  <1>10. ASSUME NEW t \in Threads, w_malloc_null(t) PROVE QueueInv'
    BY <1>10 DEF w_malloc_null
  <1>11. ASSUME NEW t \in Threads, w_insert_fails(t) PROVE QueueInv'
    BY <1>11 DEF w_insert_fails, NewWaitFlag
  <1>12. ASSUME NEW t \in Threads, w_unlock_mutex(t) PROVE QueueInv'
    BY <1>12 DEF w_unlock_mutex
  <1>13. ASSUME NEW t \in Threads, w_unlock_cond(t) PROVE QueueInv'
    BY <1>13 DEF w_unlock_cond, UnlockCond
  <1>14. ASSUME NEW t \in Threads, w_test(t) PROVE QueueInv'
    BY <1>14 DEF w_test
  <1>15. ASSUME NEW t \in Threads, deschedule(t) PROVE QueueInv'
    BY <1>15 DEF deschedule
  <1>16. ASSUME NEW t \in Threads, w_resume(t) PROVE QueueInv'
    BY <1>16 DEF w_resume, AfterDeschedule
  <1>17. ASSUME NEW t \in Threads, w_free(t) PROVE QueueInv'
    BY <1>17 DEF w_free
  <1>18. ASSUME NEW t \in Threads, w_relock(t) PROVE QueueInv'
    BY <1>18 DEF w_relock, Return
  <1>19. ASSUME NEW t \in Threads, s_lock(t) PROVE QueueInv'
    <2>1. pc[t] \notin {"s_flag"} /\ pc'[t] \notin {"s_flag"} /\ ~Waits(t)
      BY <1>19 DEF s_lock
    <2>2. /\ \A u \in Threads \ {t} : pc'[u] = pc[u]
          /\ list' = list /\ target' = target /\ waitFlag' = waitFlag
      BY <1>19 DEF s_lock
    <2> QED
      BY <2>1, <2>2, QueueUnchanged
  <1>20. ASSUME NEW t \in Threads, s_dequeue(t) PROVE QueueInv'
    BY <1>20, DequeueQueue
  <1>21. ASSUME NEW t \in Threads, s_done(t) PROVE QueueInv'
    BY <1>21 DEF s_done
  <1>22. ASSUME NEW t \in Threads, s_flag(t) PROVE QueueInv'
    BY <1>22 DEF s_flag
  <1>23. ASSUME NEW t \in Threads, make_runnable(t) PROVE QueueInv'
    BY <1>23 DEF make_runnable
  <1>24. ASSUME NEW t \in Threads, s_unlock(t) PROVE QueueInv'
    BY <1>24 DEF s_unlock, UnlockCond, Return
  <1>25. ASSUME NEW t \in Threads, d_lock(t) PROVE QueueInv'
    BY <1>25 DEF d_lock, LockCond
  <1>26. ASSUME NEW t \in Threads, d_check(t) PROVE QueueInv'
    BY <1>26 DEF d_check
  <1>27. ASSUME NEW t \in Threads, d_unlock(t) PROVE QueueInv'
    BY <1>27 DEF d_unlock, UnlockCond
  <1>28. ASSUME NEW t \in Threads, d_mutex(t) PROVE QueueInv'
    BY <1>28 DEF d_mutex, Return
  <1>29. CASE UNCHANGED vars
    BY <1>29 DEF vars, condVars, waitVars, threadVars
  <1> QED
    BY <1>1, <1>2, <1>3, <1>4, <1>5, <1>6, <1>7, <1>8, <1>9, <1>10, <1>11,
       <1>12, <1>13, <1>14, <1>15, <1>16, <1>17, <1>18, <1>19, <1>20, <1>21,
       <1>22, <1>23, <1>24, <1>25, <1>26, <1>27, <1>28, <1>29
       DEF Next, AppStep, LibStep

(* Operations in progress find the cond_t initialised. *)
LEMMA ReadyStep ==
  ASSUME TypeOK, LockInv, CountsFit, ReadyInv, [Next]_vars
  PROVE  ReadyInv'
  <1> USE CondAssumption DEF TypeOK, LockInv, UsersHaveCond, ReadyInv,
               UsableReady, UsersReady, DestroyersAlone, NoPanic,
               UseLocations, Entering, condVars, waitVars, threadVars, Goto,
               AssertThat
  <1>1. ASSUME NEW t \in Threads, NEW m \in Mutexes, app_lock(t, m) PROVE ReadyInv'
    BY <1>1 DEF app_lock
  <1>2. ASSUME NEW t \in Threads, app_unlock(t) PROVE ReadyInv'
    BY <1>2 DEF app_unlock
  <1>3. ASSUME NEW t \in Threads, NEW c \in Conds, cond_init(t, c) PROVE ReadyInv'
    BY <1>3 DEF cond_init, Uses
  <1>4. ASSUME NEW t \in Threads, NEW c \in Conds, cond_destroy(t, c) PROVE ReadyInv'
    BY <1>4 DEF cond_destroy, Call
  <1>5. ASSUME NEW t \in Threads, NEW c \in Conds, cond_wait(t, c) PROVE ReadyInv'
    BY <1>5 DEF cond_wait, Call
  <1>6. ASSUME NEW t \in Threads, NEW c \in Conds, cond_signal(t, c) PROVE ReadyInv'
    BY <1>6 DEF cond_signal, Call
  <1>7. ASSUME NEW t \in Threads, NEW c \in Conds, cond_broadcast(t, c) PROVE ReadyInv'
    BY <1>7 DEF cond_broadcast, Call
  <1>8. ASSUME NEW t \in Threads, w_lock(t) PROVE ReadyInv'
    BY <1>8 DEF w_lock, LockCond
  <1>9. ASSUME NEW t \in Threads, w_insert(t) PROVE ReadyInv'
    BY <1>9 DEF w_insert, list_insert, NewWaitFlag
  <1>10. ASSUME NEW t \in Threads, w_malloc_null(t) PROVE ReadyInv'
    BY <1>10 DEF w_malloc_null
  <1>11. ASSUME NEW t \in Threads, w_insert_fails(t) PROVE ReadyInv'
    BY <1>11 DEF w_insert_fails, NewWaitFlag
  <1>12. ASSUME NEW t \in Threads, w_unlock_mutex(t) PROVE ReadyInv'
    BY <1>12 DEF w_unlock_mutex
  <1>13. ASSUME NEW t \in Threads, w_unlock_cond(t) PROVE ReadyInv'
    BY <1>13 DEF w_unlock_cond, UnlockCond
  <1>14. ASSUME NEW t \in Threads, w_test(t) PROVE ReadyInv'
    BY <1>14 DEF w_test
  <1>15. ASSUME NEW t \in Threads, deschedule(t) PROVE ReadyInv'
    BY <1>15 DEF deschedule
  <1>16. ASSUME NEW t \in Threads, w_resume(t) PROVE ReadyInv'
    BY <1>16 DEF w_resume, AfterDeschedule
  <1>17. ASSUME NEW t \in Threads, w_free(t) PROVE ReadyInv'
    BY <1>17 DEF w_free
  <1>18. ASSUME NEW t \in Threads, w_relock(t) PROVE ReadyInv'
    BY <1>18 DEF w_relock, Return
  <1>19. ASSUME NEW t \in Threads, s_lock(t) PROVE ReadyInv'
    BY <1>19 DEF s_lock, LockCond, SignalCount, BroadcastCount
  <1>20. ASSUME NEW t \in Threads, s_dequeue(t) PROVE ReadyInv'
    <2>1. cond[t] \in Conds /\ list[cond[t]] # <<>>
      BY <1>20, LenFacts DEF s_dequeue, CountsFit
    <2> QED
      BY <1>20, <2>1 DEF s_dequeue
  <1>21. ASSUME NEW t \in Threads, s_done(t) PROVE ReadyInv'
    BY <1>21 DEF s_done
  <1>22. ASSUME NEW t \in Threads, s_flag(t) PROVE ReadyInv'
    BY <1>22 DEF s_flag
  <1>23. ASSUME NEW t \in Threads, make_runnable(t) PROVE ReadyInv'
    BY <1>23 DEF make_runnable
  <1>24. ASSUME NEW t \in Threads, s_unlock(t) PROVE ReadyInv'
    BY <1>24 DEF s_unlock, UnlockCond, Return
  <1>25. ASSUME NEW t \in Threads, d_lock(t) PROVE ReadyInv'
    BY <1>25 DEF d_lock, LockCond
  <1>26. ASSUME NEW t \in Threads, d_check(t) PROVE ReadyInv'
    BY <1>26 DEF d_check
  <1>27. ASSUME NEW t \in Threads, d_unlock(t) PROVE ReadyInv'
    BY <1>27 DEF d_unlock, UnlockCond
  <1>28. ASSUME NEW t \in Threads, d_mutex(t) PROVE ReadyInv'
    <2>1. condMutex[cond[t]] = NoThread /\ ~usable[cond[t]] /\ cond[t] \in Conds
      BY <1>28 DEF d_mutex, Return
    <2>2. \A u \in Threads \ {t} : pc[u] \in UseLocations => cond[u] # cond[t]
      BY <1>28, <2>1 DEF d_mutex, Return, HoldersOwn, HoldLocations
    <2> QED
      BY <1>28, <2>1, <2>2 DEF d_mutex, Return
  <1>29. CASE UNCHANGED vars
    BY <1>29 DEF vars, condVars, waitVars, threadVars
  <1> QED
    BY <1>1, <1>2, <1>3, <1>4, <1>5, <1>6, <1>7, <1>8, <1>9, <1>10, <1>11,
       <1>12, <1>13, <1>14, <1>15, <1>16, <1>17, <1>18, <1>19, <1>20, <1>21,
       <1>22, <1>23, <1>24, <1>25, <1>26, <1>27, <1>28, <1>29
       DEF Next, AppStep, LibStep

-----------------------------------------------------------------------------
(* The invariant holds before any call. *)
LEMMA InitInv == Init => IInv
  <1> SUFFICES ASSUME Init PROVE IInv
    OBVIOUS
  <1> USE CondAssumption DEF Init
  <1>1. <<>> \in Seq(Threads) /\ Len(<<>>) = 0
    OBVIOUS
  <1>2. TypeOK
    BY <1>1 DEF TypeOK
  <1>3. LockInv /\ CountsFit
    BY DEF LockInv, HoldersOwn, UsersHaveCond, CountsFit, HoldLocations,
           UseLocations
  <1>4. QueueInv
    BY <1>1 DEF QueueInv, ListsPending, ListsDistinct, TargetsPending
  <1>5. RecordInv /\ NoLostWakeup
    BY DEF RecordInv, WaitersAllocated, FreersSignalled, SleepersWait, Waits,
           NoLostWakeup
  <1>6. ReadyInv
    BY DEF ReadyInv, UsableReady, UsersReady, DestroyersAlone, NoPanic,
           UseLocations, Entering
  <1> QED
    BY <1>2, <1>3, <1>4, <1>5, <1>6 DEF IInv

(* Every step of every operation preserves the invariant. *)
LEMMA StepInv == IInv /\ [Next]_vars => IInv'
  BY TypesStep, LocksStep, CountsStep, RecordsStep, WakeupStep, QueueStep,
     ReadyStep DEF IInv

(* The inductive invariant holds in every state: the types, who owns       *)
(* condMutex, what the lists hold, and what is initialised.                *)
THEOREM Invariance == Spec => []IInv
  BY InitInv, StepInv, PTL DEF Spec

(* The variables of cond.c keep their types; in particular a signaller     *)
(* counts down to 0 and never below, and takes only threads off a list.    *)
THEOREM TypesHold == Spec => []TypeOK
  <1>1. IInv => TypeOK
    BY DEF IInv
  <1> QED
    BY <1>1, Invariance, PTL

(* No wakeup is lost between the test of waitFlag and deschedule(), for    *)
(* any number of waiters, signallers and condition variables.              *)
THEOREM WakeupsArrive == Spec => []NoLostWakeup
  <1>1. IInv => NoLostWakeup
    BY DEF IInv
  <1> QED
    BY <1>1, Invariance, PTL

(* cond_signal() writes only to the thread_cond_t of a thread that is      *)
(* still in cond_wait(): the one it took off the list waits with its flag  *)
(* clear, and cannot leave before this write.                              *)
THEOREM WritesAreToLiveRecords == Spec => []NoUseAfterFree
  <1>1. IInv => NoUseAfterFree
    BY DEF IInv, QueueInv, TargetsPending, PendingWait, RecordInv,
           WaitersAllocated, NoUseAfterFree
  <1> QED
    BY <1>1, Invariance, PTL

(* No wait ends unsignalled, whichever late make_runnable() reaches the    *)
(* thread, and a thread that leaves cond_wait() is on no list.             *)
THEOREM WaitsEndSignalled == Spec => []NoSpuriousReturn
  <1>1. IInv => NoSpuriousReturn
    BY DEF IInv, QueueInv, ListsPending, PendingWait, Waits, RecordInv,
           FreersSignalled, NoSpuriousReturn
  <1> QED
    BY <1>1, Invariance, PTL

(* Callers that keep the contract reach no assert(0) of cond.c but the one *)
(* for a failed allocation, however cond_destroy() overlaps with a         *)
(* signaller that is still inside cond_signal().                           *)
THEOREM AssertionsHold == Spec => []NoPanic
  <1>1. IInv => NoPanic
    BY DEF IInv, ReadyInv
  <1> QED
    BY <1>1, Invariance, PTL

-----------------------------------------------------------------------------
(***************************************************************************)
(* CondVar implements CondSpec, and every waiter can be found by exactly   *)
(* one signaller.  The lists of CondVar are the queues of CondSpec but for *)
(* what the owner of condMutex is about to do to them.                     *)
(***************************************************************************)
(* The owner of condMutex is inside an operation on that cond_t, or was    *)
(* killed there.                                                           *)
OwnersHold ==
  \A c \in Conds : condMutex[c] # NoThread =>
     /\ pc[condMutex[c]] \in HoldLocations \cup {"killed"}
     /\ cond[condMutex[c]] = c

(* A waiter is on the list of the condition variable that it waits for;    *)
(* until it has released the caller's mutex it is the last on it.          *)
ListsOwn == \A c \in Conds : \A i \in 1..Len(list[c]) : cond[list[c][i]] = c

InsertersLast ==
  \A t \in Threads : pc[t] = "w_unlock_mutex" =>
     /\ Len(list[cond[t]]) > 0
     /\ list[cond[t]][Len(list[cond[t]])] = t

(* A condition variable that cannot be used has no waiters, and nobody is  *)
(* entering one of its operations.                                         *)
EnterersMay == \A t \in Threads : pc[t] \in Entering => usable[cond[t]]

UnusableEmpty == \A c \in Conds : ~usable[c] => list[c] = <<>>

(* Who is in cond_wait() holds, or held, a mutex. *)
WaitersHeld == \A t \in Threads : pc[t] \in WaitLocations => held[t] \in Mutexes

(* A waiter that was not signalled is on a list, or with a signaller. *)
OnSomeList(t) == \E c \in Conds : \E i \in 1..Len(list[c]) : list[c][i] = t
WaitersFound ==
  \A t \in Threads : PendingWait(t) =>
     \/ OnSomeList(t)
     \/ \E s \in Threads : pc[s] = "s_flag" /\ target[s] = t

OwnerInv == OwnersHold /\ EnterersMay /\ UnusableEmpty /\ WaitersHeld
ListInv  == ListsOwn /\ InsertersLast /\ WaitersFound

RInv == IInv /\ OwnerInv /\ ListInv

USE DEF Locations, WaitLocations, SignalLocations, DestroyLocations

-----------------------------------------------------------------------------
(* The owner of condMutex stays where it holds it, and what cannot be used  *)
(* stays empty.                                                             *)
LEMMA OwnersStep ==
  ASSUME TypeOK, LockInv, CountsFit, ReadyInv, OwnerInv, [Next]_vars
  PROVE  OwnerInv'
  <1> USE CondAssumption DEF TypeOK, LockInv, HoldersOwn, UsersHaveCond,
               HoldLocations, UseLocations, Entering, OwnerInv, OwnersHold,
               EnterersMay, UnusableEmpty, WaitersHeld, condVars, waitVars,
               threadVars, Goto, AssertThat
  <1>1. ASSUME NEW t \in Threads, NEW m \in Mutexes, app_lock(t, m)
        PROVE  OwnerInv'
    BY <1>1 DEF app_lock
  <1>2. ASSUME NEW t \in Threads, app_unlock(t) PROVE OwnerInv'
    BY <1>2 DEF app_unlock
  <1>3. ASSUME NEW t \in Threads, NEW c \in Conds, cond_init(t, c)
        PROVE  OwnerInv'
    BY <1>3 DEF cond_init, Uses
  <1>4. ASSUME NEW t \in Threads, NEW c \in Conds, cond_destroy(t, c)
        PROVE  OwnerInv'
    BY <1>4 DEF cond_destroy, Call
  <1>5. ASSUME NEW t \in Threads, NEW c \in Conds, cond_wait(t, c)
        PROVE  OwnerInv'
    BY <1>5 DEF cond_wait, Call
  <1>6. ASSUME NEW t \in Threads, NEW c \in Conds, cond_signal(t, c)
        PROVE  OwnerInv'
    BY <1>6 DEF cond_signal, Call
  <1>7. ASSUME NEW t \in Threads, NEW c \in Conds, cond_broadcast(t, c)
        PROVE  OwnerInv'
    BY <1>7 DEF cond_broadcast, Call
  <1>8. ASSUME NEW t \in Threads, w_lock(t) PROVE OwnerInv'
    BY <1>8 DEF w_lock, LockCond
  <1>9. ASSUME NEW t \in Threads, w_insert(t) PROVE OwnerInv'
    BY <1>9 DEF w_insert
  <1>10. ASSUME NEW t \in Threads, w_malloc_null(t) PROVE OwnerInv'
    BY <1>10 DEF w_malloc_null
  <1>11. ASSUME NEW t \in Threads, w_insert_fails(t) PROVE OwnerInv'
    BY <1>11 DEF w_insert_fails, NewWaitFlag
  <1>12. ASSUME NEW t \in Threads, w_unlock_mutex(t) PROVE OwnerInv'
    BY <1>12 DEF w_unlock_mutex
  <1>13. ASSUME NEW t \in Threads, w_unlock_cond(t) PROVE OwnerInv'
    BY <1>13 DEF w_unlock_cond, UnlockCond
  <1>14. ASSUME NEW t \in Threads, w_test(t) PROVE OwnerInv'
    BY <1>14 DEF w_test
  <1>15. ASSUME NEW t \in Threads, deschedule(t) PROVE OwnerInv'
    BY <1>15 DEF deschedule
  <1>16. ASSUME NEW t \in Threads, w_resume(t) PROVE OwnerInv'
    BY <1>16 DEF w_resume, AfterDeschedule
  <1>17. ASSUME NEW t \in Threads, w_free(t) PROVE OwnerInv'
    BY <1>17 DEF w_free
  <1>18. ASSUME NEW t \in Threads, w_relock(t) PROVE OwnerInv'
    BY <1>18 DEF w_relock, Return
  <1>19. ASSUME NEW t \in Threads, s_lock(t) PROVE OwnerInv'
    BY <1>19 DEF s_lock, LockCond
  <1>20. ASSUME NEW t \in Threads, s_dequeue(t) PROVE OwnerInv'
    <2>1. cond[t] \in Conds /\ list[cond[t]] # <<>>
      BY <1>20, LenFacts DEF s_dequeue, CountsFit
    <2>2. usable[cond[t]]
      BY <2>1
    <2>3. \A c \in Conds : c # cond[t] => list'[c] = list[c]
      BY <1>20 DEF s_dequeue
    <2> QED
      BY <1>20, <2>2, <2>3 DEF s_dequeue
  <1>21. ASSUME NEW t \in Threads, s_done(t) PROVE OwnerInv'
    BY <1>21 DEF s_done
  <1>22. ASSUME NEW t \in Threads, s_flag(t) PROVE OwnerInv'
    BY <1>22 DEF s_flag
  <1>23. ASSUME NEW t \in Threads, make_runnable(t) PROVE OwnerInv'
    BY <1>23 DEF make_runnable
  <1>24. ASSUME NEW t \in Threads, s_unlock(t) PROVE OwnerInv'
    BY <1>24 DEF s_unlock, UnlockCond, Return
  <1>25. ASSUME NEW t \in Threads, d_lock(t) PROVE OwnerInv'
    BY <1>25 DEF d_lock, LockCond
  <1>26. ASSUME NEW t \in Threads, d_check(t) PROVE OwnerInv'
    BY <1>26 DEF d_check
  <1>27. ASSUME NEW t \in Threads, d_unlock(t) PROVE OwnerInv'
    BY <1>27 DEF d_unlock, UnlockCond
  <1>28. ASSUME NEW t \in Threads, d_mutex(t) PROVE OwnerInv'
    BY <1>28 DEF d_mutex, Return
  <1>29. CASE UNCHANGED vars
    BY <1>29 DEF vars, condVars, waitVars, threadVars
  <1> QED
    BY <1>1, <1>2, <1>3, <1>4, <1>5, <1>6, <1>7, <1>8, <1>9, <1>10, <1>11,
       <1>12, <1>13, <1>14, <1>15, <1>16, <1>17, <1>18, <1>19, <1>20, <1>21,
       <1>22, <1>23, <1>24, <1>25, <1>26, <1>27, <1>28, <1>29
       DEF Next, AppStep, LibStep

(* What a step has to keep when it leaves the lists alone: waiters their   *)
(* cond, the last one its place, and signallers their targets.             *)
LEMMA ListsSame ==
  ASSUME TypeOK, QueueInv, ListInv, list' = list,
         \A u \in Threads : Waits(u) => cond'[u] = cond[u],
         \A u \in Threads : pc'[u] = "w_unlock_mutex" =>
            pc[u] = "w_unlock_mutex" /\ cond'[u] = cond[u],
         \A u \in Threads : PendingWait(u)' => PendingWait(u),
         \A s \in Threads : pc[s] = "s_flag" =>
            \/ pc'[s] = "s_flag" /\ target'[s] = target[s]
            \/ waitFlag'[target[s]] = 1
  PROVE  ListInv'
  <1>1. ListsOwn'
    BY DEF TypeOK, QueueInv, ListsPending, PendingWait, ListInv, ListsOwn
  <1>2. InsertersLast'
    BY DEF ListInv, InsertersLast
  <1>3. WaitersFound'
    <2> SUFFICES ASSUME NEW u \in Threads, PendingWait(u)'
                 PROVE  \/ OnSomeList(u)'
                        \/ \E s \in Threads : pc'[s] = "s_flag" /\ target'[s] = u
      BY DEF WaitersFound
    <2>1. CASE OnSomeList(u)
      BY <2>1 DEF OnSomeList
    <2>2. CASE \E s \in Threads : pc[s] = "s_flag" /\ target[s] = u
      <3>1. PICK s \in Threads : pc[s] = "s_flag" /\ target[s] = u
        BY <2>2
      <3>2. waitFlag'[u] # 1
        BY DEF PendingWait
      <3> QED
        BY <3>1, <3>2
    <2> QED
      BY <2>1, <2>2 DEF ListInv, WaitersFound
  <1> QED
    BY <1>1, <1>2, <1>3 DEF ListInv

(* list_insert() puts the caller behind the others. *)
LEMMA InsertLists ==
  ASSUME TypeOK, LockInv, QueueInv, ListInv, NEW t \in Threads, w_insert(t)
  PROVE  ListInv'
  <1> DEFINE c0 == cond[t]
             l == list[c0]
  <1>1. /\ c0 \in Conds /\ l \in Seq(Threads)
        /\ condMutex[c0] = t /\ cond' = cond /\ target' = target
        /\ pc[t] = "w_insert" /\ pc' = [pc EXCEPT ![t] = "w_unlock_mutex"]
        /\ list' = [list EXCEPT ![c0] = list_insert(l, t)]
        /\ waitFlag' = [waitFlag EXCEPT ![t] = 0]
    BY DEF TypeOK, LockInv, HoldersOwn, UsersHaveCond, HoldLocations,
           UseLocations, w_insert, Goto, threadVars, NewWaitFlag
  <1>2. /\ \A c \in Conds : c # c0 => list'[c] = list[c]
        /\ list'[c0] = list_insert(l, t)
    BY <1>1 DEF TypeOK
  <1>3. /\ Len(l) \in Nat /\ Len(list'[c0]) = Len(l) + 1
        /\ \A i \in 1..Len(l) : list'[c0][i] = l[i]
        /\ list'[c0][Len(l) + 1] = t
    <2>1. l \in Seq(Threads)
      BY <1>1
    <2> HIDE DEF l, c0
    <2>2. Len(l) \in Nat
      BY <2>1, LenFacts
    <2>3. /\ Len(list_insert(l, t)) = Len(l) + 1
          /\ \A i \in 1..Len(l) : list_insert(l, t)[i] = l[i]
          /\ list_insert(l, t)[Len(l) + 1] = t
      BY <2>1 DEF list_insert
    <2> QED
      BY <2>2, <2>3, <1>2
  <1>4. \A u \in Threads \ {t} : pc[u] = "w_unlock_mutex" =>
                                   cond[u] # c0 /\ cond[u] \in Conds
    BY <1>1 DEF LockInv, HoldersOwn, UsersHaveCond, HoldLocations, UseLocations
  <1>5. ListsOwn'
    <2> SUFFICES ASSUME NEW c \in Conds, NEW i \in 1..Len(list'[c])
                 PROVE  cond'[list'[c][i]] = c
      BY DEF ListsOwn
    <2>1. CASE c # c0
      BY <2>1, <1>1, <1>2 DEF ListInv, ListsOwn
    <2>2. CASE c = c0 /\ i \in 1..Len(l)
      BY <2>2, <1>1, <1>3 DEF ListInv, ListsOwn
    <2>3. CASE c = c0 /\ i = Len(l) + 1
      BY <2>3, <1>1, <1>3
    <2> QED
      BY <2>1, <2>2, <2>3, <1>3
  <1>6. InsertersLast'
    <2> SUFFICES ASSUME NEW u \in Threads, pc'[u] = "w_unlock_mutex"
                 PROVE  /\ Len(list'[cond'[u]]) > 0
                        /\ list'[cond'[u]][Len(list'[cond'[u]])] = u
      BY DEF InsertersLast
    <2>1. CASE u = t
      BY <2>1, <1>1, <1>3
    <2>2. CASE u # t
      BY <2>2, <1>1, <1>2, <1>4 DEF TypeOK, ListInv, InsertersLast
    <2> QED
      BY <2>1, <2>2
  <1>7. WaitersFound'
    <2> SUFFICES ASSUME NEW u \in Threads, PendingWait(u)'
                 PROVE  \/ OnSomeList(u)'
                        \/ \E s \in Threads : pc'[s] = "s_flag" /\ target'[s] = u
      BY DEF WaitersFound
    <2>1. CASE u = t
      <3>1. Len(l) + 1 \in 1..Len(list'[c0])
        BY <1>3
      <3> QED
        BY <2>1, <3>1, <1>1, <1>3 DEF OnSomeList
    <2>2. CASE u # t
      <3>1. PendingWait(u)
        BY <2>2, <1>1 DEF PendingWait, Waits, TypeOK
      <3>2. CASE OnSomeList(u)
        <4>1. PICK c \in Conds : \E i \in 1..Len(list[c]) : list[c][i] = u
          BY <3>2 DEF OnSomeList
        <4>2. PICK i \in 1..Len(list[c]) : list[c][i] = u
          BY <4>1
        <4>3. i \in 1..Len(list'[c]) /\ list'[c][i] = u
          BY <4>2, <1>2, <1>3
        <4> QED
          BY <4>3 DEF OnSomeList
      <3>3. CASE \E s \in Threads : pc[s] = "s_flag" /\ target[s] = u
        <4>1. PICK s \in Threads : pc[s] = "s_flag" /\ target[s] = u
          BY <3>3
        <4>2. pc'[s] = "s_flag" /\ target'[s] = u
          BY <4>1, <1>1 DEF TypeOK
        <4> QED
          BY <4>2
      <3> QED
        BY <3>1, <3>2, <3>3 DEF ListInv, WaitersFound
    <2> QED
      BY <2>1, <2>2
  <1> QED
    BY <1>5, <1>6, <1>7 DEF ListInv

(* list_dequeue() gives the longest waiting thread to the signaller. *)
LEMMA DequeueLists ==
  ASSUME TypeOK, LockInv, CountsFit, QueueInv, ListInv,
         NEW t \in Threads, s_dequeue(t)
  PROVE  ListInv'
  <1> DEFINE c0 == cond[t]
             l == list[c0]
  <1>1. /\ c0 \in Conds /\ l \in Seq(Threads)
        /\ condMutex[c0] = t /\ cond' = cond /\ waitFlag' = waitFlag
        /\ pc[t] = "s_loop" /\ pc' = [pc EXCEPT ![t] = "s_flag"]
        /\ list' = [list EXCEPT ![c0] = list_dequeue(l)]
        /\ target' = [target EXCEPT ![t] = Head(l)]
        /\ left[t] > 0
    BY DEF TypeOK, LockInv, HoldersOwn, UsersHaveCond, HoldLocations,
           UseLocations, s_dequeue, Goto, waitVars
  <1>2. l # <<>>
    BY <1>1, LenFacts DEF CountsFit, TypeOK
  <1>3. /\ \A c \in Conds : c # c0 => list'[c] = list[c]
        /\ list'[c0] = list_dequeue(l)
    BY <1>1 DEF TypeOK
  <1>4. /\ Len(l) \in Nat /\ Len(l) > 0 /\ Len(list'[c0]) = Len(l) - 1
        /\ \A i \in 1..(Len(l) - 1) : list'[c0][i] = l[i + 1]
        /\ Head(l) = l[1]
    BY <1>1, <1>2, <1>3, DequeueFacts
  <1>5. \A u \in Threads : pc[u] = "w_unlock_mutex" =>
                             u # t /\ cond[u] # c0 /\ cond[u] \in Conds
    BY <1>1 DEF LockInv, HoldersOwn, UsersHaveCond, HoldLocations, UseLocations
  <1>6. ListsOwn'
    <2> SUFFICES ASSUME NEW c \in Conds, NEW i \in 1..Len(list'[c])
                 PROVE  cond'[list'[c][i]] = c
      BY DEF ListsOwn
    <2>1. CASE c # c0
      BY <2>1, <1>1, <1>3 DEF ListInv, ListsOwn
    <2>2. CASE c = c0
      <3>1. i + 1 \in 1..Len(l) /\ list'[c][i] = l[i + 1]
        BY <2>2, <1>4
      <3> QED
        BY <2>2, <3>1, <1>1 DEF ListInv, ListsOwn
    <2> QED
      BY <2>1, <2>2
  <1>7. InsertersLast'
    BY <1>1, <1>3, <1>5 DEF TypeOK, ListInv, InsertersLast
  <1>8. WaitersFound'
    <2> SUFFICES ASSUME NEW u \in Threads, PendingWait(u)'
                 PROVE  \/ OnSomeList(u)'
                        \/ \E s \in Threads : pc'[s] = "s_flag" /\ target'[s] = u
      BY DEF WaitersFound
    <2>1. PendingWait(u)
      BY <1>1 DEF PendingWait, Waits, TypeOK
    <2>2. CASE OnSomeList(u)
      <3>1. PICK c \in Conds : \E i \in 1..Len(list[c]) : list[c][i] = u
        BY <2>2 DEF OnSomeList
      <3>2. PICK i \in 1..Len(list[c]) : list[c][i] = u
        BY <3>1
      <3>3. CASE c # c0
        BY <3>2, <3>3, <1>3 DEF OnSomeList
      <3>4. CASE c = c0 /\ i = 1
        BY <3>2, <3>4, <1>1, <1>4 DEF TypeOK
      <3>5. CASE c = c0 /\ i # 1
        <4>1. i - 1 \in 1..Len(list'[c]) /\ list'[c][i - 1] = l[(i - 1) + 1]
          BY <3>5, <1>4
        <4>2. list'[c][i - 1] = u
          BY <4>1, <3>2, <3>5
        <4> QED
          BY <4>1, <4>2 DEF OnSomeList
      <3> QED
        BY <3>3, <3>4, <3>5
    <2>3. CASE \E s \in Threads : pc[s] = "s_flag" /\ target[s] = u
      <3>1. PICK s \in Threads : pc[s] = "s_flag" /\ target[s] = u
        BY <2>3
      <3>2. pc'[s] = "s_flag" /\ target'[s] = u
        BY <3>1, <1>1 DEF TypeOK
      <3> QED
        BY <3>2
    <2> QED
      BY <2>1, <2>2, <2>3 DEF ListInv, WaitersFound
  <1> QED
    BY <1>6, <1>7, <1>8 DEF ListInv

(* Waiters stay on the list of their condition variable, in their places,  *)
(* and are not forgotten.                                                  *)
LEMMA ListsStep ==
  ASSUME TypeOK, LockInv, CountsFit, QueueInv, ReadyInv, OwnerInv, ListInv, [Next]_vars
  PROVE  ListInv'
  <1> USE CondAssumption DEF TypeOK, PendingWait, Waits, condVars, waitVars,
               threadVars, Goto, AssertThat
  <1>1. ASSUME NEW t \in Threads, NEW m \in Mutexes, app_lock(t, m)
        PROVE  ListInv'
    BY <1>1, ListsSame DEF app_lock
  <1>2. ASSUME NEW t \in Threads, app_unlock(t) PROVE ListInv'
    BY <1>2, ListsSame DEF app_unlock
  <1>3. ASSUME NEW t \in Threads, NEW c \in Conds, cond_init(t, c)
        PROVE  ListInv'
    <2>1. list' = list
      BY <1>3 DEF cond_init, Uses, OwnerInv, UnusableEmpty
    <2> QED
      BY <1>3, <2>1, ListsSame DEF cond_init, Uses
  <1>4. ASSUME NEW t \in Threads, NEW c \in Conds, cond_destroy(t, c)
        PROVE  ListInv'
    BY <1>4, ListsSame DEF cond_destroy, Call
  <1>5. ASSUME NEW t \in Threads, NEW c \in Conds, cond_wait(t, c)
        PROVE  ListInv'
    BY <1>5, ListsSame DEF cond_wait, Call
  <1>6. ASSUME NEW t \in Threads, NEW c \in Conds, cond_signal(t, c)
        PROVE  ListInv'
    BY <1>6, ListsSame DEF cond_signal, Call
  <1>7. ASSUME NEW t \in Threads, NEW c \in Conds, cond_broadcast(t, c)
        PROVE  ListInv'
    BY <1>7, ListsSame DEF cond_broadcast, Call
  <1>8. ASSUME NEW t \in Threads, w_lock(t) PROVE ListInv'
    BY <1>8, ListsSame DEF w_lock, LockCond
  <1>9. ASSUME NEW t \in Threads, w_insert(t) PROVE ListInv'
    BY <1>9, InsertLists
  <1>10. ASSUME NEW t \in Threads, w_malloc_null(t) PROVE ListInv'
    BY <1>10, ListsSame DEF w_malloc_null
  <1>11. ASSUME NEW t \in Threads, w_insert_fails(t) PROVE ListInv'
    BY <1>11, ListsSame DEF w_insert_fails, NewWaitFlag
  <1>12. ASSUME NEW t \in Threads, w_unlock_mutex(t) PROVE ListInv'
    BY <1>12, ListsSame DEF w_unlock_mutex
  <1>13. ASSUME NEW t \in Threads, w_unlock_cond(t) PROVE ListInv'
    BY <1>13, ListsSame DEF w_unlock_cond, UnlockCond
  <1>14. ASSUME NEW t \in Threads, w_test(t) PROVE ListInv'
    BY <1>14, ListsSame DEF w_test
  <1>15. ASSUME NEW t \in Threads, deschedule(t) PROVE ListInv'
    BY <1>15, ListsSame DEF deschedule
  <1>16. ASSUME NEW t \in Threads, w_resume(t) PROVE ListInv'
    BY <1>16, ListsSame DEF w_resume, AfterDeschedule
  <1>17. ASSUME NEW t \in Threads, w_free(t) PROVE ListInv'
    BY <1>17, ListsSame DEF w_free
  <1>18. ASSUME NEW t \in Threads, w_relock(t) PROVE ListInv'
    BY <1>18, ListsSame DEF w_relock, Return
  <1>19. ASSUME NEW t \in Threads, s_lock(t) PROVE ListInv'
    <2>1. pc[t] \notin {"s_flag"} /\ pc'[t] \notin {"s_flag"} /\ ~Waits(t)
          /\ ~Waits(t)'
      BY <1>19 DEF s_lock
    <2>2. /\ \A u \in Threads \ {t} : pc'[u] = pc[u]
          /\ list' = list /\ target' = target /\ waitFlag' = waitFlag
          /\ cond' = cond
      BY <1>19 DEF s_lock
    <2>3. pc'[t] # "w_unlock_mutex"
      BY <1>19 DEF s_lock
    <2> QED
      BY <2>1, <2>2, <2>3, ListsSame
  <1>20. ASSUME NEW t \in Threads, s_dequeue(t) PROVE ListInv'
    BY <1>20, DequeueLists
  <1>21. ASSUME NEW t \in Threads, s_done(t) PROVE ListInv'
    BY <1>21, ListsSame DEF s_done
  <1>22. ASSUME NEW t \in Threads, s_flag(t) PROVE ListInv'
    <2>1. waitFlag'[target[t]] = 1
      BY <1>22 DEF s_flag, QueueInv, TargetsPending
    <2> QED
      BY <1>22, <2>1, ListsSame DEF s_flag
  <1>23. ASSUME NEW t \in Threads, make_runnable(t) PROVE ListInv'
    BY <1>23, ListsSame DEF make_runnable
  <1>24. ASSUME NEW t \in Threads, s_unlock(t) PROVE ListInv'
    BY <1>24, ListsSame DEF s_unlock, UnlockCond, Return
  <1>25. ASSUME NEW t \in Threads, d_lock(t) PROVE ListInv'
    BY <1>25, ListsSame DEF d_lock, LockCond
  <1>26. ASSUME NEW t \in Threads, d_check(t) PROVE ListInv'
    <2>1. list' = list
      BY <1>26 DEF d_check, ReadyInv, DestroyersAlone
    <2> QED
      BY <1>26, <2>1, ListsSame DEF d_check
  <1>27. ASSUME NEW t \in Threads, d_unlock(t) PROVE ListInv'
    BY <1>27, ListsSame DEF d_unlock, UnlockCond
  <1>28. ASSUME NEW t \in Threads, d_mutex(t) PROVE ListInv'
    BY <1>28, ListsSame DEF d_mutex, Return
  <1>29. CASE UNCHANGED vars
    BY <1>29, ListsSame DEF vars, condVars, waitVars, threadVars
  <1> QED
    BY <1>1, <1>2, <1>3, <1>4, <1>5, <1>6, <1>7, <1>8, <1>9, <1>10, <1>11,
       <1>12, <1>13, <1>14, <1>15, <1>16, <1>17, <1>18, <1>19, <1>20, <1>21,
       <1>22, <1>23, <1>24, <1>25, <1>26, <1>27, <1>28, <1>29
       DEF Next, AppStep, LibStep

-----------------------------------------------------------------------------
(* The two invariants together, in every state. *)
LEMMA InitOwners == Init => OwnerInv /\ ListInv
  <1> SUFFICES ASSUME Init PROVE OwnerInv /\ ListInv
    OBVIOUS
  <1> USE CondAssumption DEF Init
  <1>1. OwnerInv
    BY DEF OwnerInv, OwnersHold, EnterersMay, UnusableEmpty, WaitersHeld,
       Entering
  <1>2. ListInv
    BY DEF ListInv, ListsOwn, InsertersLast, WaitersFound, PendingWait, Waits
  <1> QED
    BY <1>1, <1>2

LEMMA StepRInv == RInv /\ [Next]_vars => RInv'
  BY StepInv, OwnersStep, ListsStep DEF RInv, IInv

(* Invariance of CondVarProofs, and besides: who owns condMutex, and where *)
(* each waiter is.                                                         *)
THEOREM RefinementInvariance == Spec => []RInv
  <1>1. Init => RInv
    BY InitInv, InitOwners DEF RInv
  <1> QED
    BY <1>1, StepRInv, PTL DEF Spec

-----------------------------------------------------------------------------
(* A waiter is in one place. *)
Places(t) == {p \in UNION {{c} \X (1..Len(list[c])) : c \in Conds} :
                list[p[1]][p[2]] = t}
Takers(t) == {s \in Threads : pc[s] = "s_flag" /\ target[s] = t}

LEMMA PlaceFacts ==
  ASSUME NEW t, NEW c \in Conds, NEW i \in 1..Len(list[c])
  PROVE  <<c, i>> \in Places(t) <=> list[c][i] = t
  BY DEF Places

LEMMA PlaceIsPair ==
  ASSUME NEW t, NEW p \in Places(t)
  PROVE  \E c \in Conds : \E i \in 1..Len(list[c]) :
            p = <<c, i>> /\ list[c][i] = t
  BY DEF Places

(* Between the insertion of its thread_cond_t and the setting of its       *)
(* waitFlag each waiter is once on a list or with one signaller, and no    *)
(* other thread is: a signal that is sent finds it, and only one does.     *)
THEOREM WaitersAreFoundOnce == Spec => []EveryWaiterCanBeWoken
  <1>1. RInv => EveryWaiterCanBeWoken
    <2> SUFFICES ASSUME RInv, NEW t \in Threads
                 PROVE  Cardinality(Places(t)) + Cardinality(Takers(t))
                          = IF Waits(t) /\ waitFlag[t] = 0 THEN 1 ELSE 0
      BY DEF EveryWaiterCanBeWoken, Places, Takers
    <2>inv. ListsPending /\ ListsDistinct /\ TargetsPending /\ WaitersFound
      BY DEF RInv, IInv, QueueInv, ListInv
    <2>1. \A p, q \in Places(t) : p = q
      BY <2>inv, PlaceIsPair DEF ListsDistinct
    <2>2. \A s, r \in Takers(t) : s = r
      BY <2>inv DEF Takers, TargetsPending
    <2>3. Places(t) = {} \/ Takers(t) = {}
      BY <2>inv, PlaceIsPair DEF Takers, TargetsPending
    <2>4. Places(t) # {} \/ Takers(t) # {} => PendingWait(t)
      BY <2>inv, PlaceIsPair DEF Takers, TargetsPending, ListsPending
    <2>5. PendingWait(t) => Places(t) # {} \/ Takers(t) # {}
      BY <2>inv, PlaceFacts DEF Takers, WaitersFound, OnSomeList
    <2>6. ASSUME NEW S, \A a, b \in S : a = b
          PROVE  Cardinality(S) = IF S = {} THEN 0 ELSE 1
      <3>1. CASE S = {}
        BY <3>1, FS_EmptySet
      <3>2. CASE S # {}
        <4>1. PICK a : S = {a}
          BY <2>6, <3>2
        <4> QED
          BY <4>1, <3>2, FS_Singleton
      <3> QED
        BY <3>1, <3>2
    <2>7. /\ Cardinality(Places(t)) = IF Places(t) = {} THEN 0 ELSE 1
          /\ Cardinality(Takers(t)) = IF Takers(t) = {} THEN 0 ELSE 1
      BY <2>1, <2>2, <2>6
    <2> QED
      BY <2>3, <2>4, <2>5, <2>7 DEF PendingWait
  <1> QED
    BY <1>1, RefinementInvariance, PTL

-----------------------------------------------------------------------------
(* The queue of CondSpec as a function of the list, of where the owner of  *)
(* condMutex is and of how many waiters it has still to wake.              *)
View(l, p, k) == IF p = "w_unlock_mutex" THEN SubSeq(l, 1, Len(l) - 1)
                 ELSE IF p = "s_loop" THEN SubSeq(l, k + 1, Len(l))
                 ELSE IF p \in {"s_flag", "s_wake"} THEN SubSeq(l, k, Len(l))
                 ELSE l

LEMMA ViewFacts ==
  ASSUME NEW l \in Seq(Threads), NEW p, NEW k \in Nat, NEW n,
         p = "s_loop" => n = k,
         p \in {"s_flag", "s_wake"} => n = k - 1,
         p \notin {"s_loop", "s_flag", "s_wake"} => n = 0
  PROVE  (IF p = "w_unlock_mutex" THEN SubSeq(l, 1, Len(l) - 1)
          ELSE SubSeq(l, n + 1, Len(l))) = View(l, p, k)
  <1>1. (k - 1) + 1 = k /\ 0 + 1 = 1
    OBVIOUS
  <1>2. SubSeq(l, 1, Len(l)) = l
    BY SubSeqFull
  <1>3. CASE p = "s_loop"
    BY <1>3 DEF View
  <1>4. CASE p \in {"s_flag", "s_wake"}
    BY <1>1, <1>4 DEF View
  <1>5. CASE p \notin {"s_loop", "s_flag", "s_wake"}
    BY <1>1, <1>2, <1>5 DEF View
  <1> QED
    BY <1>3, <1>4, <1>5

LEMMA ViewNow ==
  ASSUME TypeOK, NEW c \in Conds
  PROVE  AbsQueue(c) = IF condMutex[c] = NoThread THEN list[c]
                       ELSE View(list[c], pc[condMutex[c]], left[condMutex[c]])
  <1>1. CASE condMutex[c] # NoThread
    <2>1. /\ condMutex[c] \in Threads /\ list[c] \in Seq(Threads)
          /\ left[condMutex[c]] \in Nat
      BY <1>1 DEF TypeOK
    <2>2. /\ pc[condMutex[c]] = "s_loop" => ToBeWoken(condMutex[c]) = left[condMutex[c]]
          /\ pc[condMutex[c]] \in {"s_flag", "s_wake"} =>
               ToBeWoken(condMutex[c]) = left[condMutex[c]] - 1
          /\ pc[condMutex[c]] \notin {"s_loop", "s_flag", "s_wake"} =>
               ToBeWoken(condMutex[c]) = 0
      BY DEF ToBeWoken
    <2> QED
      BY <1>1, <2>1, <2>2, ViewFacts DEF AbsQueue
  <1> QED
    BY <1>1 DEF AbsQueue

LEMMA ViewNext ==
  ASSUME TypeOK', NEW c \in Conds
  PROVE  AbsQueue(c)' = IF condMutex'[c] = NoThread THEN list'[c]
                        ELSE View(list'[c], pc'[condMutex'[c]], left'[condMutex'[c]])
  <1>1. CASE condMutex'[c] # NoThread
    <2>1. /\ condMutex'[c] \in Threads /\ list'[c] \in Seq(Threads)
          /\ left'[condMutex'[c]] \in Nat
      BY <1>1 DEF TypeOK
    <2>2. /\ pc'[condMutex'[c]] = "s_loop" => ToBeWoken(condMutex[c])' = left'[condMutex'[c]]
          /\ pc'[condMutex'[c]] \in {"s_flag", "s_wake"} =>
               ToBeWoken(condMutex[c])' = left'[condMutex'[c]] - 1
          /\ pc'[condMutex'[c]] \notin {"s_loop", "s_flag", "s_wake"} =>
               ToBeWoken(condMutex[c])' = 0
      BY DEF ToBeWoken
    <2> QED
      BY <1>1, <2>1, <2>2, ViewFacts DEF AbsQueue
  <1> QED
    BY <1>1 DEF AbsQueue

(* What the steps of the owner of condMutex do to the view. *)
LEMMA ViewInsert ==
  ASSUME NEW l \in Seq(Threads), NEW t \in Threads, NEW k
  PROVE  View(list_insert(l, t), "w_unlock_mutex", k) = l
  <1> DEFINE a == Append(l, t)
  <1>1. /\ a \in Seq(Threads) /\ Len(l) \in Nat /\ Len(a) - 1 = Len(l)
        /\ \A i \in 1..Len(l) : a[i] = l[i]
    BY AppendProperties
  <1> HIDE DEF a
  <1>2. \A i \in 1..Len(l) : a[i] \in Threads
    BY <1>1, ElementOfSeq
  <1>3. /\ SubSeq(a, 1, Len(l)) \in Seq(Threads)
        /\ Len(SubSeq(a, 1, Len(l))) = Len(l)
        /\ \A i \in 1..Len(l) : SubSeq(a, 1, Len(l))[i] = a[i]
    BY <1>1, <1>2
  <1>4. SubSeq(a, 1, Len(l)) = l
    BY <1>1, <1>3, SeqEqual
  <1> QED
    BY <1>1, <1>4 DEF View, list_insert, a

LEMMA ViewWaits ==
  ASSUME NEW l \in Seq(Threads), Len(l) > 0, NEW t \in Threads,
         l[Len(l)] = t, NEW k
  PROVE  l = Append(View(l, "w_unlock_mutex", k), t)
  <1>0. Len(l) \in Nat
    OBVIOUS
  <1>1. SubSeq(l, 1, Len(l)) = SubSeq(l, 1, Len(l) - 1) \o << l[Len(l)] >>
    BY <1>0, SubSeqRecursiveSecond
  <1>2. SubSeq(l, 1, Len(l) - 1) \in Seq(Threads)
    BY <1>0, ElementOfSeq, SubSeqProperties
  <1>3. Append(SubSeq(l, 1, Len(l) - 1), t) = SubSeq(l, 1, Len(l) - 1) \o <<t>>
    BY <1>2, AppendIsConcat
  <1> QED
    BY <1>1, <1>3, SubSeqFull DEF View

LEMMA ViewDequeue ==
  ASSUME NEW l \in Seq(Threads), l # <<>>, NEW k \in Nat, k > 0
  PROVE  View(list_dequeue(l), "s_flag", k) = View(l, "s_loop", k)
  <1> DEFINE a == Tail(l)
             n == Len(l)
  <1>1. /\ n \in Nat /\ a \in Seq(Threads) /\ Len(a) = n - 1
        /\ \A i \in 1..(n - 1) : a[i] = l[i + 1]
        /\ \A i \in 1..n : l[i] \in Threads
    BY HeadTailProperties, ElementOfSeq, LenFacts
  <1> HIDE DEF a, n
  <1>2. /\ \A i \in k..(n - 1) : a[i] \in Threads
        /\ \A i \in (k + 1)..n : l[i] \in Threads
    BY <1>1
  <1>3. /\ SubSeq(a, k, n - 1) \in Seq(Threads)
        /\ Len(SubSeq(a, k, n - 1)) = IF k <= n - 1 THEN (n - 1) - k + 1 ELSE 0
        /\ \A i \in 1..((n - 1) - k + 1) : SubSeq(a, k, n - 1)[i] = a[k + i - 1]
    BY <1>1, <1>2, SubSeqProperties
  <1>4. /\ SubSeq(l, k + 1, n) \in Seq(Threads)
        /\ Len(SubSeq(l, k + 1, n)) = IF k + 1 <= n THEN n - (k + 1) + 1 ELSE 0
        /\ \A i \in 1..(n - (k + 1) + 1) : SubSeq(l, k + 1, n)[i] = l[(k + 1) + i - 1]
    BY <1>1, <1>2, SubSeqProperties
  <1>5. Len(SubSeq(a, k, n - 1)) = Len(SubSeq(l, k + 1, n))
    BY <1>1, <1>3, <1>4
  <1>6. ASSUME NEW i \in 1..Len(SubSeq(a, k, n - 1))
        PROVE  SubSeq(a, k, n - 1)[i] = SubSeq(l, k + 1, n)[i]
    <2>1. /\ i \in 1..((n - 1) - k + 1) /\ i \in 1..(n - (k + 1) + 1)
          /\ k + i - 1 \in 1..(n - 1) /\ (k + i - 1) + 1 = (k + 1) + i - 1
      BY <1>1, <1>3
    <2> QED
      BY <2>1, <1>1, <1>3, <1>4
  <1>7. SubSeq(a, k, n - 1) = SubSeq(l, k + 1, n)
    BY <1>3, <1>4, <1>5, <1>6, SeqEqual
  <1> QED
    BY <1>1, <1>7 DEF View, list_dequeue, a, n

(* Counting down, and having nobody left to wake. *)
LEMMA ViewCount ==
  ASSUME NEW l \in Seq(Threads), NEW k \in Nat
  PROVE  /\ k > 0 => View(l, "s_loop", k - 1) = View(l, "s_wake", k)
         /\ View(l, "s_flag", k) = View(l, "s_wake", k)
         /\ View(l, "s_loop", 0) = l
  <1>1. (k - 1) + 1 = k /\ 0 + 1 = 1
    OBVIOUS
  <1> QED
    BY <1>1, SubSeqFull DEF View

-----------------------------------------------------------------------------
(* A step of t changes the queue of no condition variable but the one it   *)
(* holds or takes.                                                         *)
LEMMA OtherQueue ==
  ASSUME TypeOK, TypeOK', NEW t \in Threads, NEW c \in Conds,
         \A u \in Threads \ {t} : pc'[u] = pc[u] /\ left'[u] = left[u],
         condMutex[c] # t, condMutex'[c] = condMutex[c], list'[c] = list[c]
  PROVE  AbsQueue(c)' = AbsQueue(c)
  <1>1. condMutex[c] # NoThread => condMutex[c] \in Threads \ {t}
    BY DEF TypeOK
  <1> QED
    BY <1>1, ViewNow, ViewNext

LEMMA ViewNextAt ==
  ASSUME TypeOK', NEW c \in Conds, condMutex'[c] \in Threads
  PROVE  AbsQueue(c)' = View(list'[c], pc'[condMutex'[c]], left'[condMutex'[c]])
  BY CondAssumption, ViewNext

LEMMA ViewNowAt ==
  ASSUME TypeOK, NEW c \in Conds, condMutex[c] \in Threads
  PROVE  AbsQueue(c) = View(list[c], pc[condMutex[c]], left[condMutex[c]])
  BY CondAssumption, ViewNow

(* A step outside condMutex, and one inside or at the border. *)
LEMMA FreeStep ==
  ASSUME TypeOK, TypeOK', OwnersHold, NEW t \in Threads,
         pc[t] \notin HoldLocations \cup {"killed"},
         \A u \in Threads \ {t} : pc'[u] = pc[u] /\ left'[u] = left[u],
         condMutex' = condMutex, list' = list
  PROVE  \A c \in Conds : AbsQueue(c)' = AbsQueue(c)
  <1> TAKE c \in Conds
  <1>1. condMutex[c] # t
    BY CondAssumption DEF OwnersHold
  <1> QED
    BY <1>1, OtherQueue

LEMMA HoldStep ==
  ASSUME TypeOK, TypeOK', OwnersHold, NEW t \in Threads, NEW c0 \in Conds,
         cond[t] = c0,
         \A u \in Threads \ {t} : pc'[u] = pc[u] /\ left'[u] = left[u],
         \A c \in Conds \ {c0} : condMutex'[c] = condMutex[c] /\ list'[c] = list[c]
  PROVE  \A c \in Conds \ {c0} : AbsQueue(c)' = AbsQueue(c)
  <1> TAKE c \in Conds \ {c0}
  <1>1. condMutex[c] # t
    BY CondAssumption DEF OwnersHold
  <1> QED
    BY <1>1, OtherQueue

(* Every step keeps the queues but two: the release of the caller's mutex  *)
(* and the counting of the waiters.                                        *)
LEMMA QueuesKept ==
  ASSUME TypeOK, TypeOK', LockInv, CountsFit, ReadyInv, OwnerInv, [Next]_vars,
         \A t \in Threads : ~w_unlock_mutex(t) /\ ~s_lock(t)
  PROVE  \A c \in Conds : AbsQueue(c)' = AbsQueue(c)
  <1> USE CondAssumption DEF condVars, waitVars, threadVars, Goto, AssertThat
  <1>types. /\ TypeOK /\ TypeOK' /\ OwnersHold
            /\ pc \in [Threads -> Locations] /\ left \in [Threads -> Nat]
            /\ list \in [Conds -> Seq(Threads)]
            /\ condMutex \in [Conds -> Threads \cup {NoThread}]
    BY DEF TypeOK, OwnerInv
  <1>1. ASSUME NEW t \in Threads, NEW m \in Mutexes, app_lock(t, m)
        PROVE  \A c \in Conds : AbsQueue(c)' = AbsQueue(c)
    <2>1. /\ pc[t] \notin HoldLocations \cup {"killed"}
          /\ \A u \in Threads \ {t} : pc'[u] = pc[u] /\ left'[u] = left[u]
          /\ condMutex' = condMutex /\ list' = list
      BY <1>1, <1>types DEF app_lock, HoldLocations
    <2> QED
      BY <2>1, <1>types, FreeStep
  <1>2. ASSUME NEW t \in Threads, app_unlock(t)
        PROVE  \A c \in Conds : AbsQueue(c)' = AbsQueue(c)
    <2>1. /\ pc[t] \notin HoldLocations \cup {"killed"}
          /\ \A u \in Threads \ {t} : pc'[u] = pc[u] /\ left'[u] = left[u]
          /\ condMutex' = condMutex /\ list' = list
      BY <1>2, <1>types DEF app_unlock, HoldLocations
    <2> QED
      BY <2>1, <1>types, FreeStep
  <1>3. ASSUME NEW t \in Threads, NEW c \in Conds, cond_init(t, c)
        PROVE  \A d \in Conds : AbsQueue(d)' = AbsQueue(d)
    <2>1. list' = list /\ list[c] \in Seq(Threads)
      BY <1>3, <1>types DEF cond_init, OwnerInv, UnusableEmpty
    <2>2. AbsQueue(c)' = AbsQueue(c)
      <3>1. condMutex[c] # NoThread => /\ condMutex[c] \in Threads
                                       /\ pc[condMutex[c]] = "killed"
        BY <1>3, <1>types DEF cond_init, Uses, OwnersHold, HoldLocations
      <3>2. condMutex'[c] = NoThread
        BY <1>3, <1>types DEF cond_init
      <3> QED
        BY <2>1, <3>1, <3>2, <1>types, ViewNow, ViewNext DEF View
    <2>3. ASSUME NEW d \in Conds, d # c PROVE AbsQueue(d)' = AbsQueue(d)
      <3>1. condMutex[d] # t
        <4>1. pc[t] \notin HoldLocations \cup {"killed"}
          BY <1>3 DEF cond_init, HoldLocations
        <4> QED
          BY <4>1, <1>types DEF OwnersHold
      <3>2. /\ \A u \in Threads \ {t} : pc'[u] = pc[u] /\ left'[u] = left[u]
            /\ condMutex'[d] = condMutex[d] /\ list'[d] = list[d]
        BY <1>3, <2>1, <2>3, <1>types DEF cond_init
      <3> QED
        BY <1>types, <3>1, <3>2, OtherQueue
    <2> QED
      BY <2>2, <2>3
  <1>4. ASSUME NEW t \in Threads, NEW c \in Conds, cond_destroy(t, c)
        PROVE  \A d \in Conds : AbsQueue(d)' = AbsQueue(d)
    <2>1. /\ pc[t] \notin HoldLocations \cup {"killed"}
          /\ \A u \in Threads \ {t} : pc'[u] = pc[u] /\ left'[u] = left[u]
          /\ condMutex' = condMutex /\ list' = list
      BY <1>4, <1>types DEF cond_destroy, Call, HoldLocations
    <2> QED
      BY <2>1, <1>types, FreeStep
  <1>5. ASSUME NEW t \in Threads, NEW c \in Conds, cond_wait(t, c)
        PROVE  \A d \in Conds : AbsQueue(d)' = AbsQueue(d)
    <2>1. /\ pc[t] \notin HoldLocations \cup {"killed"}
          /\ \A u \in Threads \ {t} : pc'[u] = pc[u] /\ left'[u] = left[u]
          /\ condMutex' = condMutex /\ list' = list
      BY <1>5, <1>types DEF cond_wait, Call, HoldLocations
    <2> QED
      BY <2>1, <1>types, FreeStep
  <1>6. ASSUME NEW t \in Threads, NEW c \in Conds, cond_signal(t, c)
        PROVE  \A d \in Conds : AbsQueue(d)' = AbsQueue(d)
    <2>1. /\ pc[t] \notin HoldLocations \cup {"killed"}
          /\ \A u \in Threads \ {t} : pc'[u] = pc[u] /\ left'[u] = left[u]
          /\ condMutex' = condMutex /\ list' = list
      BY <1>6, <1>types DEF cond_signal, Call, HoldLocations
    <2> QED
      BY <2>1, <1>types, FreeStep
  <1>7. ASSUME NEW t \in Threads, NEW c \in Conds, cond_broadcast(t, c)
        PROVE  \A d \in Conds : AbsQueue(d)' = AbsQueue(d)
    <2>1. /\ pc[t] \notin HoldLocations \cup {"killed"}
          /\ \A u \in Threads \ {t} : pc'[u] = pc[u] /\ left'[u] = left[u]
          /\ condMutex' = condMutex /\ list' = list
      BY <1>7, <1>types DEF cond_broadcast, Call, HoldLocations
    <2> QED
      BY <2>1, <1>types, FreeStep
  <1>8. ASSUME NEW t \in Threads, w_lock(t)
        PROVE  \A c \in Conds : AbsQueue(c)' = AbsQueue(c)
    <2>1. PICK c0 \in Conds : c0 = cond[t]
      BY <1>8 DEF w_lock, LockCond, LockInv, UsersHaveCond, UseLocations
    <2>2. PICK l \in Seq(Threads) : l = list[c0]
      BY <2>1, <1>types
    <2>3. /\ condMutex[c0] = NoThread /\ list[c0] = l
          /\ condMutex'[c0] = t /\ list'[c0] = l
          /\ pc'[t] = "w_insert" /\ left'[t] = left[t]
      BY <1>8, <2>1, <2>2, <1>types
         DEF w_lock, LockCond, LockInv, HoldersOwn, HoldLocations
    <2>4. AbsQueue(c0)' = AbsQueue(c0)
      <3>1. AbsQueue(c0) = l
        BY <2>3, <1>types, ViewNow
      <3>2. AbsQueue(c0)' = View(l, "w_insert", left[t])
        BY <2>3, <1>types, ViewNextAt
      <3> QED
        BY <3>1, <3>2 DEF View
    <2>5. \A c \in Conds \ {c0} : condMutex'[c] = condMutex[c] /\ list'[c] = list[c]
      BY <1>8, <2>1, <1>types DEF w_lock, LockCond
    <2>6. \A u \in Threads \ {t} : pc'[u] = pc[u] /\ left'[u] = left[u]
      BY <1>8, <1>types DEF w_lock, LockCond
    <2> QED
      BY <2>1, <2>4, <2>5, <2>6, <1>types, HoldStep
  <1>9. ASSUME NEW t \in Threads, w_insert(t)
        PROVE  \A c \in Conds : AbsQueue(c)' = AbsQueue(c)
    <2>1. PICK c0 \in Conds : c0 = cond[t]
      BY <1>9 DEF w_insert, LockInv, UsersHaveCond, UseLocations
    <2>2. PICK l \in Seq(Threads) : l = list[c0]
      BY <2>1, <1>types
    <2>3. /\ condMutex[c0] = t /\ list[c0] = l
          /\ pc[t] = "w_insert" /\ left[t] = left[t]
          /\ condMutex'[c0] = t /\ list'[c0] = list_insert(l, t)
          /\ pc'[t] = "w_unlock_mutex" /\ left'[t] = left[t]
      BY <1>9, <2>1, <2>2, <1>types
         DEF w_insert, LockInv, HoldersOwn, HoldLocations
    <2>4. AbsQueue(c0)' = AbsQueue(c0)
      <3>1. AbsQueue(c0) = View(l, "w_insert", left[t])
        BY <2>3, <1>types, ViewNowAt
      <3>2. AbsQueue(c0)' = View(list_insert(l, t), "w_unlock_mutex", left[t])
        BY <2>3, <1>types, ViewNextAt
      <3> QED
        BY <3>1, <3>2, <2>2, <1>types, ViewInsert DEF View
    <2>5. \A c \in Conds \ {c0} : condMutex'[c] = condMutex[c] /\ list'[c] = list[c]
      BY <1>9, <2>1, <1>types DEF w_insert
    <2>6. \A u \in Threads \ {t} : pc'[u] = pc[u] /\ left'[u] = left[u]
      BY <1>9, <1>types DEF w_insert
    <2> QED
      BY <2>1, <2>4, <2>5, <2>6, <1>types, HoldStep
  <1>10. ASSUME NEW t \in Threads, w_malloc_null(t)
        PROVE  \A c \in Conds : AbsQueue(c)' = AbsQueue(c)
    <2>1. PICK c0 \in Conds : c0 = cond[t]
      BY <1>10 DEF w_malloc_null, LockInv, UsersHaveCond, UseLocations
    <2>2. PICK l \in Seq(Threads) : l = list[c0]
      BY <2>1, <1>types
    <2>3. /\ condMutex[c0] = t /\ list[c0] = l
          /\ pc[t] = "w_insert" /\ left[t] = left[t]
          /\ condMutex'[c0] = t /\ list'[c0] = l
          /\ pc'[t] = "killed" /\ left'[t] = left[t]
      BY <1>10, <2>1, <2>2, <1>types
         DEF w_malloc_null, LockInv, HoldersOwn, HoldLocations
    <2>4. AbsQueue(c0)' = AbsQueue(c0)
      <3>1. AbsQueue(c0) = View(l, "w_insert", left[t])
        BY <2>3, <1>types, ViewNowAt
      <3>2. AbsQueue(c0)' = View(l, "killed", left[t])
        BY <2>3, <1>types, ViewNextAt
      <3> QED
        BY <3>1, <3>2 DEF View
    <2>5. \A c \in Conds \ {c0} : condMutex'[c] = condMutex[c] /\ list'[c] = list[c]
      BY <1>10, <2>1, <1>types DEF w_malloc_null
    <2>6. \A u \in Threads \ {t} : pc'[u] = pc[u] /\ left'[u] = left[u]
      BY <1>10, <1>types DEF w_malloc_null
    <2> QED
      BY <2>1, <2>4, <2>5, <2>6, <1>types, HoldStep
  <1>11. ASSUME NEW t \in Threads, w_insert_fails(t)
        PROVE  \A c \in Conds : AbsQueue(c)' = AbsQueue(c)
    <2>1. PICK c0 \in Conds : c0 = cond[t]
      BY <1>11
         DEF w_insert_fails, NewWaitFlag, LockInv, UsersHaveCond,
             UseLocations
    <2>2. PICK l \in Seq(Threads) : l = list[c0]
      BY <2>1, <1>types
    <2>3. /\ condMutex[c0] = t /\ list[c0] = l
          /\ pc[t] = "w_insert" /\ left[t] = left[t]
          /\ condMutex'[c0] = NoThread /\ list'[c0] = l
      BY <1>11, <2>1, <2>2, <1>types
         DEF w_insert_fails, NewWaitFlag, LockInv, HoldersOwn, HoldLocations
    <2>4. AbsQueue(c0)' = AbsQueue(c0)
      <3>1. AbsQueue(c0) = View(l, "w_insert", left[t])
        BY <2>3, <1>types, ViewNowAt
      <3>2. AbsQueue(c0)' = l
        BY <2>3, <1>types, ViewNext
      <3> QED
        BY <3>1, <3>2 DEF View
    <2>5. \A c \in Conds \ {c0} : condMutex'[c] = condMutex[c] /\ list'[c] = list[c]
      BY <1>11, <2>1, <1>types DEF w_insert_fails, NewWaitFlag
    <2>6. \A u \in Threads \ {t} : pc'[u] = pc[u] /\ left'[u] = left[u]
      BY <1>11, <1>types DEF w_insert_fails, NewWaitFlag
    <2> QED
      BY <2>1, <2>4, <2>5, <2>6, <1>types, HoldStep
  <1>12. ASSUME NEW t \in Threads, w_unlock_cond(t)
        PROVE  \A c \in Conds : AbsQueue(c)' = AbsQueue(c)
    <2>1. PICK c0 \in Conds : c0 = cond[t]
      BY <1>12
         DEF w_unlock_cond, UnlockCond, LockInv, UsersHaveCond, UseLocations
    <2>2. PICK l \in Seq(Threads) : l = list[c0]
      BY <2>1, <1>types
    <2>3. /\ condMutex[c0] = t /\ list[c0] = l
          /\ pc[t] = "w_unlock_cond" /\ left[t] = left[t]
          /\ condMutex'[c0] = NoThread /\ list'[c0] = l
      BY <1>12, <2>1, <2>2, <1>types
         DEF w_unlock_cond, UnlockCond, LockInv, HoldersOwn, HoldLocations
    <2>4. AbsQueue(c0)' = AbsQueue(c0)
      <3>1. AbsQueue(c0) = View(l, "w_unlock_cond", left[t])
        BY <2>3, <1>types, ViewNowAt
      <3>2. AbsQueue(c0)' = l
        BY <2>3, <1>types, ViewNext
      <3> QED
        BY <3>1, <3>2 DEF View
    <2>5. \A c \in Conds \ {c0} : condMutex'[c] = condMutex[c] /\ list'[c] = list[c]
      BY <1>12, <2>1, <1>types DEF w_unlock_cond, UnlockCond
    <2>6. \A u \in Threads \ {t} : pc'[u] = pc[u] /\ left'[u] = left[u]
      BY <1>12, <1>types DEF w_unlock_cond, UnlockCond
    <2> QED
      BY <2>1, <2>4, <2>5, <2>6, <1>types, HoldStep
  <1>13. ASSUME NEW t \in Threads, w_test(t)
        PROVE  \A c \in Conds : AbsQueue(c)' = AbsQueue(c)
    <2>1. /\ pc[t] \notin HoldLocations \cup {"killed"}
          /\ \A u \in Threads \ {t} : pc'[u] = pc[u] /\ left'[u] = left[u]
          /\ condMutex' = condMutex /\ list' = list
      BY <1>13, <1>types DEF w_test, HoldLocations
    <2> QED
      BY <2>1, <1>types, FreeStep
  <1>14. ASSUME NEW t \in Threads, deschedule(t)
        PROVE  \A c \in Conds : AbsQueue(c)' = AbsQueue(c)
    <2>1. /\ pc[t] \notin HoldLocations \cup {"killed"}
          /\ \A u \in Threads \ {t} : pc'[u] = pc[u] /\ left'[u] = left[u]
          /\ condMutex' = condMutex /\ list' = list
      BY <1>14, <1>types DEF deschedule, HoldLocations
    <2> QED
      BY <2>1, <1>types, FreeStep
  <1>15. ASSUME NEW t \in Threads, w_resume(t)
        PROVE  \A c \in Conds : AbsQueue(c)' = AbsQueue(c)
    <2>1. /\ pc[t] \notin HoldLocations \cup {"killed"}
          /\ \A u \in Threads \ {t} : pc'[u] = pc[u] /\ left'[u] = left[u]
          /\ condMutex' = condMutex /\ list' = list
      BY <1>15, <1>types DEF w_resume, AfterDeschedule, HoldLocations
    <2> QED
      BY <2>1, <1>types, FreeStep
  <1>16. ASSUME NEW t \in Threads, w_free(t)
        PROVE  \A c \in Conds : AbsQueue(c)' = AbsQueue(c)
    <2>1. /\ pc[t] \notin HoldLocations \cup {"killed"}
          /\ \A u \in Threads \ {t} : pc'[u] = pc[u] /\ left'[u] = left[u]
          /\ condMutex' = condMutex /\ list' = list
      BY <1>16, <1>types DEF w_free, HoldLocations
    <2> QED
      BY <2>1, <1>types, FreeStep
  <1>17. ASSUME NEW t \in Threads, w_relock(t)
        PROVE  \A c \in Conds : AbsQueue(c)' = AbsQueue(c)
    <2>1. /\ pc[t] \notin HoldLocations \cup {"killed"}
          /\ \A u \in Threads \ {t} : pc'[u] = pc[u] /\ left'[u] = left[u]
          /\ condMutex' = condMutex /\ list' = list
      BY <1>17, <1>types DEF w_relock, Return, HoldLocations
    <2> QED
      BY <2>1, <1>types, FreeStep
  <1>18. ASSUME NEW t \in Threads, s_dequeue(t)
        PROVE  \A c \in Conds : AbsQueue(c)' = AbsQueue(c)
    <2>1. PICK c0 \in Conds : c0 = cond[t]
      BY <1>18 DEF s_dequeue, LockInv, UsersHaveCond, UseLocations
    <2>2. PICK l \in Seq(Threads) : l = list[c0]
      BY <2>1, <1>types
    <2>3. /\ condMutex[c0] = t /\ list[c0] = l
          /\ pc[t] = "s_loop" /\ left[t] = left[t]
          /\ condMutex'[c0] = t /\ list'[c0] = list_dequeue(l)
          /\ pc'[t] = "s_flag" /\ left'[t] = left[t]
      BY <1>18, <2>1, <2>2, <1>types
         DEF s_dequeue, LockInv, HoldersOwn, HoldLocations
    <2>dq. l # <<>> /\ left[t] > 0
      BY <1>18, <2>1, <2>2, <1>types, LenFacts DEF s_dequeue, CountsFit
    <2>4. AbsQueue(c0)' = AbsQueue(c0)
      <3>1. AbsQueue(c0) = View(l, "s_loop", left[t])
        BY <2>3, <1>types, ViewNowAt
      <3>2. AbsQueue(c0)' = View(list_dequeue(l), "s_flag", left[t])
        BY <2>3, <1>types, ViewNextAt
      <3> QED
        BY <3>1, <3>2, <2>2, <1>types, <2>dq, ViewDequeue
    <2>5. \A c \in Conds \ {c0} : condMutex'[c] = condMutex[c] /\ list'[c] = list[c]
      BY <1>18, <2>1, <1>types DEF s_dequeue
    <2>6. \A u \in Threads \ {t} : pc'[u] = pc[u] /\ left'[u] = left[u]
      BY <1>18, <1>types DEF s_dequeue
    <2> QED
      BY <2>1, <2>4, <2>5, <2>6, <1>types, HoldStep
  <1>19. ASSUME NEW t \in Threads, s_done(t)
        PROVE  \A c \in Conds : AbsQueue(c)' = AbsQueue(c)
    <2>1. PICK c0 \in Conds : c0 = cond[t]
      BY <1>19 DEF s_done, LockInv, UsersHaveCond, UseLocations
    <2>2. PICK l \in Seq(Threads) : l = list[c0]
      BY <2>1, <1>types
    <2>3. /\ condMutex[c0] = t /\ list[c0] = l
          /\ pc[t] = "s_loop" /\ left[t] = left[t]
          /\ condMutex'[c0] = t /\ list'[c0] = l
          /\ pc'[t] = "s_unlock" /\ left'[t] = left[t]
      BY <1>19, <2>1, <2>2, <1>types
         DEF s_done, LockInv, HoldersOwn, HoldLocations
    <2>4. AbsQueue(c0)' = AbsQueue(c0)
      <3>1. AbsQueue(c0) = View(l, "s_loop", left[t])
        BY <2>3, <1>types, ViewNowAt
      <3>2. AbsQueue(c0)' = View(l, "s_unlock", left[t])
        BY <2>3, <1>types, ViewNextAt
      <3> QED
        BY <3>1, <3>2, <2>2, <1>types, <1>19, ViewCount DEF s_done, View
    <2>5. \A c \in Conds \ {c0} : condMutex'[c] = condMutex[c] /\ list'[c] = list[c]
      BY <1>19, <2>1, <1>types DEF s_done
    <2>6. \A u \in Threads \ {t} : pc'[u] = pc[u] /\ left'[u] = left[u]
      BY <1>19, <1>types DEF s_done
    <2> QED
      BY <2>1, <2>4, <2>5, <2>6, <1>types, HoldStep
  <1>20. ASSUME NEW t \in Threads, s_flag(t)
        PROVE  \A c \in Conds : AbsQueue(c)' = AbsQueue(c)
    <2>1. PICK c0 \in Conds : c0 = cond[t]
      BY <1>20 DEF s_flag, LockInv, UsersHaveCond, UseLocations
    <2>2. PICK l \in Seq(Threads) : l = list[c0]
      BY <2>1, <1>types
    <2>3. /\ condMutex[c0] = t /\ list[c0] = l
          /\ pc[t] = "s_flag" /\ left[t] = left[t]
          /\ condMutex'[c0] = t /\ list'[c0] = l
          /\ pc'[t] = "s_wake" /\ left'[t] = left[t]
      BY <1>20, <2>1, <2>2, <1>types
         DEF s_flag, LockInv, HoldersOwn, HoldLocations
    <2>4. AbsQueue(c0)' = AbsQueue(c0)
      <3>1. AbsQueue(c0) = View(l, "s_flag", left[t])
        BY <2>3, <1>types, ViewNowAt
      <3>2. AbsQueue(c0)' = View(l, "s_wake", left[t])
        BY <2>3, <1>types, ViewNextAt
      <3> QED
        BY <3>1, <3>2, <2>2, <1>types, ViewCount
    <2>5. \A c \in Conds \ {c0} : condMutex'[c] = condMutex[c] /\ list'[c] = list[c]
      BY <1>20, <2>1, <1>types DEF s_flag
    <2>6. \A u \in Threads \ {t} : pc'[u] = pc[u] /\ left'[u] = left[u]
      BY <1>20, <1>types DEF s_flag
    <2> QED
      BY <2>1, <2>4, <2>5, <2>6, <1>types, HoldStep
  <1>21. ASSUME NEW t \in Threads, make_runnable(t)
        PROVE  \A c \in Conds : AbsQueue(c)' = AbsQueue(c)
    <2>1. PICK c0 \in Conds : c0 = cond[t]
      BY <1>21 DEF make_runnable, LockInv, UsersHaveCond, UseLocations
    <2>2. PICK l \in Seq(Threads) : l = list[c0]
      BY <2>1, <1>types
    <2>3. /\ condMutex[c0] = t /\ list[c0] = l
          /\ pc[t] = "s_wake" /\ left[t] = left[t]
          /\ condMutex'[c0] = t /\ list'[c0] = l
          /\ pc'[t] = "s_loop" /\ left'[t] = left[t] - 1
      BY <1>21, <2>1, <2>2, <1>types
         DEF make_runnable, LockInv, HoldersOwn, HoldLocations
    <2>4. AbsQueue(c0)' = AbsQueue(c0)
      <3>1. AbsQueue(c0) = View(l, "s_wake", left[t])
        BY <2>3, <1>types, ViewNowAt
      <3>2. AbsQueue(c0)' = View(l, "s_loop", left[t] - 1)
        BY <2>3, <1>types, ViewNextAt
      <3> QED
        BY <3>1, <3>2, <2>2, <1>types, <1>21, ViewCount
           DEF make_runnable, Goto, CountsFit
    <2>5. \A c \in Conds \ {c0} : condMutex'[c] = condMutex[c] /\ list'[c] = list[c]
      BY <1>21, <2>1, <1>types DEF make_runnable
    <2>6. \A u \in Threads \ {t} : pc'[u] = pc[u] /\ left'[u] = left[u]
      BY <1>21, <1>types DEF make_runnable
    <2> QED
      BY <2>1, <2>4, <2>5, <2>6, <1>types, HoldStep
  <1>22. ASSUME NEW t \in Threads, s_unlock(t)
        PROVE  \A c \in Conds : AbsQueue(c)' = AbsQueue(c)
    <2>1. PICK c0 \in Conds : c0 = cond[t]
      BY <1>22
         DEF s_unlock, UnlockCond, Return, LockInv, UsersHaveCond,
             UseLocations
    <2>2. PICK l \in Seq(Threads) : l = list[c0]
      BY <2>1, <1>types
    <2>3. /\ condMutex[c0] = t /\ list[c0] = l
          /\ pc[t] = "s_unlock" /\ left[t] = left[t]
          /\ condMutex'[c0] = NoThread /\ list'[c0] = l
      BY <1>22, <2>1, <2>2, <1>types
         DEF s_unlock, UnlockCond, Return, LockInv, HoldersOwn, HoldLocations
    <2>4. AbsQueue(c0)' = AbsQueue(c0)
      <3>1. AbsQueue(c0) = View(l, "s_unlock", left[t])
        BY <2>3, <1>types, ViewNowAt
      <3>2. AbsQueue(c0)' = l
        BY <2>3, <1>types, ViewNext
      <3> QED
        BY <3>1, <3>2 DEF View
    <2>5. \A c \in Conds \ {c0} : condMutex'[c] = condMutex[c] /\ list'[c] = list[c]
      BY <1>22, <2>1, <1>types DEF s_unlock, UnlockCond, Return
    <2>6. \A u \in Threads \ {t} : pc'[u] = pc[u] /\ left'[u] = left[u]
      BY <1>22, <1>types DEF s_unlock, UnlockCond, Return
    <2> QED
      BY <2>1, <2>4, <2>5, <2>6, <1>types, HoldStep
  <1>23. ASSUME NEW t \in Threads, d_lock(t)
        PROVE  \A c \in Conds : AbsQueue(c)' = AbsQueue(c)
    <2>1. PICK c0 \in Conds : c0 = cond[t]
      BY <1>23 DEF d_lock, LockCond, LockInv, UsersHaveCond, UseLocations
    <2>2. PICK l \in Seq(Threads) : l = list[c0]
      BY <2>1, <1>types
    <2>3. /\ condMutex[c0] = NoThread /\ list[c0] = l
          /\ condMutex'[c0] = t /\ list'[c0] = l
          /\ pc'[t] = "d_check" /\ left'[t] = left[t]
      BY <1>23, <2>1, <2>2, <1>types
         DEF d_lock, LockCond, LockInv, HoldersOwn, HoldLocations
    <2>4. AbsQueue(c0)' = AbsQueue(c0)
      <3>1. AbsQueue(c0) = l
        BY <2>3, <1>types, ViewNow
      <3>2. AbsQueue(c0)' = View(l, "d_check", left[t])
        BY <2>3, <1>types, ViewNextAt
      <3> QED
        BY <3>1, <3>2 DEF View
    <2>5. \A c \in Conds \ {c0} : condMutex'[c] = condMutex[c] /\ list'[c] = list[c]
      BY <1>23, <2>1, <1>types DEF d_lock, LockCond
    <2>6. \A u \in Threads \ {t} : pc'[u] = pc[u] /\ left'[u] = left[u]
      BY <1>23, <1>types DEF d_lock, LockCond
    <2> QED
      BY <2>1, <2>4, <2>5, <2>6, <1>types, HoldStep
  <1>24. ASSUME NEW t \in Threads, d_check(t)
        PROVE  \A c \in Conds : AbsQueue(c)' = AbsQueue(c)
    <2>1. PICK c0 \in Conds : c0 = cond[t]
      BY <1>24 DEF d_check, LockInv, UsersHaveCond, UseLocations
    <2>2. PICK l \in Seq(Threads) : l = list[c0]
      BY <2>1, <1>types
    <2>3. /\ condMutex[c0] = t /\ list[c0] = l
          /\ pc[t] = "d_check" /\ left[t] = left[t]
          /\ condMutex'[c0] = t /\ list'[c0] = l
          /\ pc'[t] = "d_unlock" /\ left'[t] = left[t]
      BY <1>24, <2>1, <2>2, <1>types
         DEF d_check, LockInv, HoldersOwn, HoldLocations, ReadyInv,
             DestroyersAlone
    <2>4. AbsQueue(c0)' = AbsQueue(c0)
      <3>1. AbsQueue(c0) = View(l, "d_check", left[t])
        BY <2>3, <1>types, ViewNowAt
      <3>2. AbsQueue(c0)' = View(l, "d_unlock", left[t])
        BY <2>3, <1>types, ViewNextAt
      <3> QED
        BY <3>1, <3>2 DEF View
    <2>5. \A c \in Conds \ {c0} : condMutex'[c] = condMutex[c] /\ list'[c] = list[c]
      BY <1>24, <2>1, <1>types DEF d_check
    <2>6. \A u \in Threads \ {t} : pc'[u] = pc[u] /\ left'[u] = left[u]
      BY <1>24, <1>types DEF d_check
    <2> QED
      BY <2>1, <2>4, <2>5, <2>6, <1>types, HoldStep
  <1>25. ASSUME NEW t \in Threads, d_unlock(t)
        PROVE  \A c \in Conds : AbsQueue(c)' = AbsQueue(c)
    <2>1. PICK c0 \in Conds : c0 = cond[t]
      BY <1>25 DEF d_unlock, UnlockCond, LockInv, UsersHaveCond, UseLocations
    <2>2. PICK l \in Seq(Threads) : l = list[c0]
      BY <2>1, <1>types
    <2>3. /\ condMutex[c0] = t /\ list[c0] = l
          /\ pc[t] = "d_unlock" /\ left[t] = left[t]
          /\ condMutex'[c0] = NoThread /\ list'[c0] = l
      BY <1>25, <2>1, <2>2, <1>types
         DEF d_unlock, UnlockCond, LockInv, HoldersOwn, HoldLocations
    <2>4. AbsQueue(c0)' = AbsQueue(c0)
      <3>1. AbsQueue(c0) = View(l, "d_unlock", left[t])
        BY <2>3, <1>types, ViewNowAt
      <3>2. AbsQueue(c0)' = l
        BY <2>3, <1>types, ViewNext
      <3> QED
        BY <3>1, <3>2 DEF View
    <2>5. \A c \in Conds \ {c0} : condMutex'[c] = condMutex[c] /\ list'[c] = list[c]
      BY <1>25, <2>1, <1>types DEF d_unlock, UnlockCond
    <2>6. \A u \in Threads \ {t} : pc'[u] = pc[u] /\ left'[u] = left[u]
      BY <1>25, <1>types DEF d_unlock, UnlockCond
    <2> QED
      BY <2>1, <2>4, <2>5, <2>6, <1>types, HoldStep
  <1>26. ASSUME NEW t \in Threads, d_mutex(t)
        PROVE  \A c \in Conds : AbsQueue(c)' = AbsQueue(c)
    <2>1. /\ pc[t] \notin HoldLocations \cup {"killed"}
          /\ \A u \in Threads \ {t} : pc'[u] = pc[u] /\ left'[u] = left[u]
          /\ condMutex' = condMutex /\ list' = list
      BY <1>26, <1>types DEF d_mutex, Return, HoldLocations
    <2> QED
      BY <2>1, <1>types, FreeStep
  <1>27. CASE UNCHANGED vars
    BY <1>27 DEF AbsQueue, ToBeWoken, vars
  <1> QED
    BY <1>1, <1>2, <1>3, <1>4, <1>5, <1>6, <1>7, <1>8, <1>9, <1>10,
       <1>11, <1>12, <1>13, <1>14, <1>15, <1>16, <1>17, <1>18, <1>19,
       <1>20, <1>21, <1>22, <1>23, <1>24, <1>25, <1>26, <1>27
       DEF Next, AppStep, LibStep

-----------------------------------------------------------------------------
(* The phases.  A thread is past the start of its wait in PastStart.       *)
PastStart == WaitLocations \ {"w_lock", "w_insert", "w_unlock_mutex"}

LEMMA PhaseFacts ==
  ASSUME NEW u
  PROVE  /\ pc[u] \notin PastStart => Phase(u) = "running"
         /\ pc[u] \in PastStart /\ Waiting(u) => Phase(u) = "waiting"
         /\ pc[u] \in PastStart /\ ~Waiting(u) => Phase(u) = "woken"
  BY DEF Phase, PastStart

LEMMA PhaseFactsNext ==
  ASSUME NEW u
  PROVE  /\ pc'[u] \notin PastStart => Phase(u)' = "running"
         /\ pc'[u] \in PastStart /\ Waiting(u)' => Phase(u)' = "waiting"
         /\ pc'[u] \in PastStart /\ ~Waiting(u)' => Phase(u)' = "woken"
  BY DEF Phase, PastStart

LEMMA PhaseSame ==
  ASSUME NEW u, Waiting(u)' <=> Waiting(u),
         pc'[u] \in PastStart <=> pc[u] \in PastStart
  PROVE  Phase(u)' = Phase(u)
  BY PhaseFacts, PhaseFactsNext

LEMMA WaitingSame ==
  ASSUME \A c \in Conds : AbsQueue(c)' = AbsQueue(c), NEW u
  PROVE  Waiting(u)' <=> Waiting(u)
  BY DEF Waiting

(* Who is in a queue is on the list. *)
LEMMA ViewElements ==
  ASSUME NEW l \in Seq(Threads), NEW p, NEW k \in Nat,
         p \in {"s_flag", "s_wake"} => k >= 1,
         NEW i \in 1..Len(View(l, p, k))
  PROVE  \E j \in 1..Len(l) : View(l, p, k)[i] = l[j]
  <1>0. Len(l) \in Nat /\ \A j \in 1..Len(l) : l[j] \in Threads
    BY LenFacts, ElementOfSeq
  <1>1. ASSUME NEW m \in Nat, m >= 1, NEW n \in Int, n <= Len(l),
               View(l, p, k) = SubSeq(l, m, n)
        PROVE  \E j \in 1..Len(l) : View(l, p, k)[i] = l[j]
    <2>1. \A j \in m..n : l[j] \in Threads
      BY <1>0, <1>1
    <2>2. /\ Len(SubSeq(l, m, n)) = IF m <= n THEN n - m + 1 ELSE 0
          /\ \A j \in 1..(n - m + 1) : SubSeq(l, m, n)[j] = l[m + j - 1]
      BY <2>1, SubSeqProperties
    <2>3. i \in 1..(n - m + 1) /\ m + i - 1 \in 1..Len(l)
      BY <2>2, <1>0, <1>1
    <2> QED
      BY <2>2, <2>3, <1>1
  <1>2. CASE p = "w_unlock_mutex"
    <2>1. View(l, p, k) = SubSeq(l, 1, Len(l) - 1)
      BY <1>2 DEF View
    <2>2. 1 \in Nat /\ 1 >= 1 /\ Len(l) - 1 \in Int /\ Len(l) - 1 <= Len(l)
      BY <1>0
    <2> QED
      BY <2>1, <2>2, <1>1
  <1>3. CASE p = "s_loop"
    <2>1. View(l, p, k) = SubSeq(l, k + 1, Len(l))
      BY <1>3 DEF View
    <2>2. k + 1 \in Nat /\ k + 1 >= 1 /\ Len(l) \in Int /\ Len(l) <= Len(l)
      BY <1>0
    <2> QED
      BY <2>1, <2>2, <1>1
  <1>4. CASE p \in {"s_flag", "s_wake"}
    <2>1. View(l, p, k) = SubSeq(l, k, Len(l))
      BY <1>4 DEF View
    <2>2. k >= 1 /\ Len(l) \in Int /\ Len(l) <= Len(l)
      BY <1>0, <1>4
    <2> QED
      BY <2>1, <2>2, <1>1
  <1>5. CASE p \notin {"w_unlock_mutex", "s_loop", "s_flag", "s_wake"}
    BY <1>5 DEF View
  <1> QED
    BY <1>2, <1>3, <1>4, <1>5

LEMMA QueueElements ==
  ASSUME RInv, NEW c \in Conds, NEW i \in 1..Len(AbsQueue(c))
  PROVE  \E j \in 1..Len(list[c]) : AbsQueue(c)[i] = list[c][j]
  <1>1. TypeOK /\ CountsFit /\ list[c] \in Seq(Threads)
    BY DEF RInv, IInv, TypeOK
  <1>2. CASE condMutex[c] = NoThread
    BY <1>1, <1>2, ViewNow
  <1>3. CASE condMutex[c] # NoThread
    <2>1. PICK t \in Threads : condMutex[c] = t
      BY <1>1, <1>3 DEF TypeOK
    <2>2. /\ left[t] \in Nat
          /\ pc[t] \in {"s_flag", "s_wake"} => left[t] >= 1
      BY <1>1 DEF TypeOK, CountsFit
    <2>3. AbsQueue(c) = View(list[c], pc[t], left[t])
      BY <1>1, <2>1, ViewNowAt
    <2> QED
      BY <1>1, <2>2, <2>3, ViewElements
  <1> QED
    BY <1>2, <1>3

(* Who waits, to CondSpec, is waiting in cond_wait(), unsignalled. *)
LEMMA WaitingPending ==
  ASSUME RInv, NEW u, Waiting(u)
  PROVE  PendingWait(u)
  <1>1. PICK c \in Conds : \E i \in 1..Len(AbsQueue(c)) : AbsQueue(c)[i] = u
    BY DEF Waiting
  <1>2. PICK i \in 1..Len(AbsQueue(c)) : AbsQueue(c)[i] = u
    BY <1>1
  <1>3. PICK j \in 1..Len(list[c]) : u = list[c][j]
    BY <1>2, QueueElements
  <1> QED
    BY <1>3 DEF RInv, IInv, QueueInv, ListsPending

-----------------------------------------------------------------------------
LEMMA AppendElements ==
  ASSUME NEW q \in Seq(Threads), NEW t \in Threads, NEW u
  PROVE  (\E i \in 1..Len(Append(q, t)) : Append(q, t)[i] = u)
           <=> (u = t \/ \E i \in 1..Len(q) : q[i] = u)
  <1> DEFINE a == Append(q, t)
  <1>1. /\ Len(q) \in Nat /\ Len(a) = Len(q) + 1
        /\ \A i \in 1..Len(q) : a[i] = q[i]
        /\ a[Len(q) + 1] = t
    BY AppendProperties, LenFacts
  <1> HIDE DEF a
  <1>2. Len(q) + 1 \in 1..Len(a) /\ 1..Len(q) \subseteq 1..Len(a)
    BY <1>1
  <1>3. \A i \in 1..Len(a) : i = Len(q) + 1 \/ i \in 1..Len(q)
    BY <1>1
  <1>4. (\E i \in 1..Len(a) : a[i] = u) <=> (u = t \/ \E i \in 1..Len(q) : q[i] = u)
    BY <1>1, <1>2, <1>3
  <1> QED
    BY <1>4 DEF a

(* The steps that CondSpec sees. *)
LEMMA WaitStarts ==
  ASSUME RInv, TypeOK', NEW t \in Threads, w_unlock_mutex(t)
  PROVE  \E m \in Mutexes, c \in Conds : Abstract!Wait(t, m, c)
  <1>types. /\ TypeOK /\ LockInv /\ OwnersHold /\ InsertersLast /\ WaitersHeld
            /\ pc \in [Threads -> Locations] /\ left \in [Threads -> Nat]
            /\ list \in [Conds -> Seq(Threads)] /\ condMutex' = condMutex
            /\ pc[t] = "w_unlock_mutex" /\ pc' = [pc EXCEPT ![t] = "w_unlock_cond"]
            /\ list' = list /\ left' = left /\ held' = held
            /\ mutex' = [mutex EXCEPT ![held[t]] = NoThread]
    BY DEF RInv, IInv, OwnerInv, ListInv, TypeOK, w_unlock_mutex, Goto,
       threadVars
  <1>1. PICK c \in Conds : c = cond[t]
    BY <1>types DEF LockInv, UsersHaveCond, UseLocations
  <1>2. held[t] \in Mutexes
    BY <1>types DEF WaitersHeld
  <1>3. condMutex[c] = t
    BY <1>types, <1>1 DEF LockInv, HoldersOwn, HoldLocations
  <1>4. AbsQueue(c) = View(list[c], "w_unlock_mutex", left[t])
    BY <1>types, <1>3, ViewNowAt
  <1>5. AbsQueue(c)' = list[c]
    <2>1. AbsQueue(c)' = View(list[c], "w_unlock_cond", left[t])
      BY <1>types, <1>3, ViewNextAt
    <2> QED
      BY <2>1 DEF View
  <1>6. AbsQueue(c)' = Append(AbsQueue(c), t)
    <2>1. list[c] \in Seq(Threads) /\ Len(list[c]) > 0 /\ list[c][Len(list[c])] = t
      BY <1>types, <1>1 DEF InsertersLast
    <2> QED
      BY <2>1, <1>4, <1>5, ViewWaits
  <1>7. \A d \in Conds \ {c} : AbsQueue(d)' = AbsQueue(d)
    BY <1>types, <1>1, HoldStep
  <1>8. Queues' = [Queues EXCEPT ![c] = Append(@, t)]
    BY <1>6, <1>7 DEF Queues
  <1>9. AbsQueue(c) \in Seq(Threads) /\ AbsQueue(c)' \in Seq(Threads)
    <2>0. list[c] \in Seq(Threads)
      BY <1>types
    <2>1. SubSeq(list[c], 1, Len(list[c]) - 1) \in Seq(Threads)
      BY <2>0, LenFacts, ElementOfSeq, SubSeqProperties
    <2> QED
      BY <2>0, <2>1, <1>4, <1>5 DEF View
  <1>10. ASSUME NEW u \in Threads, u # t PROVE Waiting(u)' <=> Waiting(u)
    <2>1. (\E i \in 1..Len(AbsQueue(c)') : AbsQueue(c)'[i] = u)
            <=> (\E i \in 1..Len(AbsQueue(c)) : AbsQueue(c)[i] = u)
      BY <1>6, <1>9, <1>10, AppendElements
    <2> QED
      BY <2>1, <1>7 DEF Waiting
  <1>11. Waiting(t)'
    <2>1. \E i \in 1..Len(AbsQueue(c)') : AbsQueue(c)'[i] = t
      BY <1>6, <1>9, AppendElements
    <2> QED
      BY <2>1 DEF Waiting
  <1>12. Phase(t) = "running" /\ Phase(t)' = "waiting"
    <2>1. pc[t] \notin PastStart /\ pc'[t] \in PastStart
      BY <1>types DEF PastStart
    <2> QED
      BY <2>1, <1>11, PhaseFacts, PhaseFactsNext
  <1>13. ASSUME NEW u \in Threads, u # t PROVE Phase(u)' = Phase(u)
    <2>1. pc'[u] = pc[u]
      BY <1>types, <1>13
    <2> QED
      BY <2>1, <1>10, <1>13, PhaseSame
  <1>14. [u \in Threads |-> Phase(u)]'
           = [[u \in Threads |-> Phase(u)] EXCEPT ![t] = "waiting"]
    BY <1>12, <1>13
  <1>15. Abstract!Wait(t, held[t], c)
    BY <1>types, <1>8, <1>12, <1>14 DEF Abstract!Wait
  <1> QED
    BY <1>2, <1>15

(* Waking the first n of a queue takes them off it and leaves the others. *)
Distinct(l) == \A i, j \in 1..Len(l) : l[i] = l[j] => i = j
Among(u, l, n) == \E i \in 1..n : l[i] = u

LEMMA WakeElements ==
  ASSUME NEW l \in Seq(Threads), NEW n \in Nat, n <= Len(l), Distinct(l), NEW u,
         NEW r, r = SubSeq(l, n + 1, Len(l))
  PROVE  Among(u, r, Len(r)) <=> Among(u, l, Len(l)) /\ ~Among(u, l, n)
  <1> DEFINE k == Len(l)
  <1>0. k \in Nat /\ n <= k /\ \A j \in 1..k : l[j] \in Threads
    BY LenFacts, ElementOfSeq
  <1>1. \A j \in (n + 1)..k : l[j] \in Threads
    BY <1>0
  <1>2. /\ Len(r) = IF n + 1 <= k THEN k - (n + 1) + 1 ELSE 0
        /\ \A i \in 1..(k - (n + 1) + 1) : r[i] = l[(n + 1) + i - 1]
    BY <1>0, <1>1, SubSeqProperties
  <1>d. \A i, j \in 1..k : l[i] = l[j] => i = j
    BY DEF Distinct
  <1> HIDE DEF k
  <1>3. Len(r) = k - n /\ \A i \in 1..(k - n) : r[i] = l[n + i]
    BY <1>0, <1>2
  <1>4. ASSUME NEW i \in 1..Len(r), r[i] = u
        PROVE  (\E j \in 1..k : l[j] = u) /\ ~ \E j \in 1..n : l[j] = u
    <2>1. n + i \in 1..k /\ l[n + i] = u /\ n + i \notin 1..n /\ 1..n \subseteq 1..k
      BY <1>0, <1>3, <1>4
    <2> QED
      BY <2>1, <1>d
  <1>5. ASSUME NEW j \in 1..k, l[j] = u, j \notin 1..n
        PROVE  \E i \in 1..Len(r) : r[i] = u
    <2>1. j - n \in 1..(k - n) /\ n + (j - n) = j
      BY <1>0, <1>5
    <2> QED
      BY <2>1, <1>3, <1>5
  <1>6. (\E i \in 1..Len(r) : r[i] = u)
          <=> (\E j \in 1..k : l[j] = u) /\ ~ \E j \in 1..n : l[j] = u
    BY <1>4, <1>5
  <1> QED
    BY <1>6 DEF Among, k

LEMMA WakeStep ==
  ASSUME RInv, TypeOK', NEW t \in Threads, NEW c \in Conds, NEW n \in Nat,
         cond[t] = c, n <= Len(list[c]), condMutex[c] = NoThread,
         condMutex' = [condMutex EXCEPT ![c] = t], list' = list,
         pc[t] \in {"s_lock_one", "s_lock_all"},
         pc' = [pc EXCEPT ![t] = "s_loop"], left' = [left EXCEPT ![t] = n],
         UNCHANGED <<mutex, held>>
  PROVE  Abstract!Wake(c, n) /\ Queues[c] = list[c]
  <1>types. /\ TypeOK /\ LockInv /\ OwnersHold /\ ListsOwn /\ ListsDistinct
            /\ ListsPending
            /\ pc \in [Threads -> Locations] /\ left \in [Threads -> Nat]
            /\ list \in [Conds -> Seq(Threads)]
            /\ condMutex \in [Conds -> Threads \cup {NoThread}]
    BY DEF RInv, IInv, OwnerInv, ListInv, QueueInv, TypeOK
  <1>1. PICK l \in Seq(Threads) : l = list[c]
    BY <1>types
  <1>2. AbsQueue(c) = l
    BY <1>types, <1>1, ViewNow
  <1>3. AbsQueue(c)' = SubSeq(l, n + 1, Len(l))
    <2>1. condMutex'[c] = t /\ pc'[t] = "s_loop" /\ left'[t] = n
      BY <1>types
    <2>2. AbsQueue(c)' = View(l, "s_loop", n)
      BY <2>1, <1>1, ViewNextAt
    <2> QED
      BY <2>2 DEF View
  <1>4. \A d \in Conds \ {c} : AbsQueue(d)' = AbsQueue(d)
    BY <1>types, HoldStep
  <1>5. Queues' = [Queues EXCEPT ![c] = SubSeq(@, n + 1, Len(@))]
    BY <1>2, <1>3, <1>4 DEF Queues
  <1>6. Distinct(l) /\ n <= Len(l)
    BY <1>types, <1>1 DEF ListsDistinct, Distinct
  <1>7. \A u \in Threads : pc'[u] \in PastStart <=> pc[u] \in PastStart
    BY <1>types DEF PastStart
  <1>8. ASSUME NEW u \in Threads, \E i \in 1..n : l[i] = u
        PROVE  Phase(u)' = "woken"
    <2>1. PICK i \in 1..n : l[i] = u
      BY <1>8
    <2>2. i \in 1..Len(l)
      BY <1>1, LenFacts
    <2>3. cond[u] = c /\ Waits(u)
      BY <2>1, <2>2, <1>1, <1>types DEF ListsOwn, ListsPending, PendingWait
    <2>4. pc[u] # "w_unlock_mutex"
      BY <2>3, CondAssumption, <1>types DEF LockInv, HoldersOwn, HoldLocations
    <2>5. pc[u] \in PastStart
      BY <2>3, <2>4 DEF Waits, PastStart
    <2>6. ASSUME Waiting(u)' PROVE FALSE
      <3>1. PICK d \in Conds : \E k \in 1..Len(AbsQueue(d)') : AbsQueue(d)'[k] = u
        BY <2>6 DEF Waiting
      <3>2. CASE d = c
        <4>1. Among(u, AbsQueue(c)', Len(AbsQueue(c)')) /\ Among(u, l, n)
          BY <3>1, <3>2, <1>8 DEF Among
        <4> QED
          BY <4>1, <1>3, <1>6, WakeElements
      <3>3. CASE d # c
        <4>1. PICK k \in 1..Len(AbsQueue(d)) : AbsQueue(d)[k] = u
          BY <3>1, <3>3, <1>4
        <4>2. PICK j \in 1..Len(list[d]) : u = list[d][j]
          BY <4>1, QueueElements
        <4> QED
          BY <4>2, <2>1, <2>2, <1>1, <3>3, <1>types DEF ListsDistinct
      <3> QED
        BY <3>2, <3>3
    <2> QED
      BY <2>5, <2>6, <1>7, PhaseFactsNext
  <1>9. ASSUME NEW u \in Threads, ~ \E i \in 1..n : l[i] = u
        PROVE  Phase(u)' = Phase(u)
    <2>1. (\E i \in 1..Len(AbsQueue(c)') : AbsQueue(c)'[i] = u)
            <=> (\E i \in 1..Len(AbsQueue(c)) : AbsQueue(c)[i] = u)
      <3>1. Among(u, AbsQueue(c)', Len(AbsQueue(c)')) <=> Among(u, l, Len(l))
        <4>1. ~Among(u, l, n)
          BY <1>9 DEF Among
        <4> QED
          BY <4>1, <1>3, <1>6, WakeElements
      <3> QED
        BY <3>1, <1>2 DEF Among
    <2>2. Waiting(u)' <=> Waiting(u)
      BY <2>1, <1>4 DEF Waiting
    <2> QED
      BY <2>2, <1>7, PhaseSame
  <1>10. Queues[c] = l
    BY <1>2 DEF Queues
  <1>11. [u \in Threads |-> Phase(u)]' =
           [u \in Threads |-> IF \E i \in 1..n : Queues[c][i] = u
                              THEN "woken" ELSE [v \in Threads |-> Phase(v)][u]]
    BY <1>8, <1>9, <1>10
  <1> QED
    BY <1>1, <1>5, <1>10, <1>11 DEF Abstract!Wake

(* cond_signal() and cond_broadcast() take effect when they have condMutex *)
(* and count the waiters; a signal that finds nobody is a broadcast to     *)
(* nobody.                                                                 *)
LEMMA SignalCounts ==
  ASSUME RInv, TypeOK', NEW t \in Threads, s_lock(t)
  PROVE  \E c \in Conds : Abstract!Signal(c) \/ Abstract!Broadcast(c)
  <1>1. PICK c \in Conds : c = cond[t]
    BY DEF s_lock, Goto, RInv, IInv, LockInv, UsersHaveCond, UseLocations
  <1>2. Len(list[c]) \in Nat
    BY LenFacts DEF RInv, IInv, TypeOK
  <1>3. /\ condMutex[c] = NoThread /\ condMutex' = [condMutex EXCEPT ![c] = t]
        /\ list' = list /\ UNCHANGED <<mutex, held>>
    BY <1>1 DEF s_lock, LockCond
  <1>4. CASE /\ Goto(t, "s_lock_one", "s_loop")
             /\ left' = [left EXCEPT ![t] = SignalCount(Len(list[c]))]
             /\ Len(list[c]) > 0
    <2>1. left' = [left EXCEPT ![t] = 1] /\ 1 <= Len(list[c])
      <3>1. SignalCount(Len(list[c])) = 1 /\ 1 <= Len(list[c])
        BY <1>2, <1>4 DEF SignalCount
      <3> QED
        BY <3>1, <1>4
    <2>2. Abstract!Wake(c, 1) /\ Queues[c] = list[c]
      BY <1>1, <1>3, <1>4, <2>1, WakeStep DEF Goto
    <2> QED
      BY <1>4, <2>2 DEF Abstract!Signal
  <1>5. CASE /\ pc[t] \in {"s_lock_one", "s_lock_all"}
             /\ pc' = [pc EXCEPT ![t] = "s_loop"]
             /\ left' = [left EXCEPT ![t] = Len(list[c])]
    <2>1. Abstract!Wake(c, Len(list[c])) /\ Queues[c] = list[c]
      <3>1. Len(list[c]) <= Len(list[c])
        BY <1>2
      <3> QED
        BY <3>1, <1>1, <1>2, <1>3, <1>5, WakeStep
    <2> QED
      BY <2>1 DEF Abstract!Broadcast
  <1>6. CASE /\ Goto(t, "s_lock_one", "s_loop")
             /\ left' = [left EXCEPT ![t] = SignalCount(Len(list[c]))]
             /\ ~(Len(list[c]) > 0)
    <2>1. left' = [left EXCEPT ![t] = Len(list[c])]
      <3>1. SignalCount(Len(list[c])) = Len(list[c])
        BY <1>2, <1>6 DEF SignalCount
      <3> QED
        BY <3>1, <1>6
    <2> QED
      BY <2>1, <1>5, <1>6 DEF Goto
  <1>7. CASE /\ Goto(t, "s_lock_all", "s_loop")
             /\ left' = [left EXCEPT ![t] = BroadcastCount(Len(list[c]))]
    BY <1>5, <1>7 DEF Goto, BroadcastCount
  <1> QED
    BY <1>1, <1>4, <1>6, <1>7 DEF s_lock

(* cond.c implements CondSpec, for any threads, condition variables and     *)
(* mutexes, and whether or not malloc() may fail: the release of the mutex  *)
(* and the start of the wait are one step to everybody else, waiters are    *)
(* woken in the order in which they started to wait, and a broadcast wakes  *)
(* exactly the threads that wait when it begins.                            *)
THEOREM CondImplementsSpec == Spec => ImplementsCond
  <1> DEFINE phases == [t \in Threads |-> Phase(t)]
  <1>1. Init => Abstract!Init
    <2> SUFFICES ASSUME Init PROVE Abstract!Init
      OBVIOUS
    <2>1. \A c \in Conds : AbsQueue(c) = <<>>
      BY DEF Init, AbsQueue
    <2>2. \A t \in Threads : Phase(t) = "running"
      BY PhaseFacts DEF Init, PastStart
    <2> QED
      BY <2>1, <2>2 DEF Init, Queues, Abstract!Init
  <1>2. RInv /\ RInv' /\ [Next]_vars => [Abstract!Next]_(Abstract!vars)
    <2> SUFFICES ASSUME RInv, RInv', [Next]_vars
                 PROVE  Abstract!Next \/ UNCHANGED Abstract!vars
      OBVIOUS
    <2>types. /\ TypeOK /\ TypeOK' /\ WaitersHeld /\ LockInv
              /\ CountsFit /\ ReadyInv /\ OwnerInv
              /\ pc \in [Threads -> Locations]
              /\ held \in [Threads -> Mutexes \cup {NoMutex}]
      BY DEF RInv, IInv, OwnerInv, TypeOK
    <2>1. ASSUME NEW t \in Threads, w_unlock_mutex(t) PROVE Abstract!Next
      BY <2>1, <2>types, WaitStarts DEF Abstract!Next
    <2>2. ASSUME NEW t \in Threads, s_lock(t) PROVE Abstract!Next
      BY <2>2, <2>types, SignalCounts DEF Abstract!Next
    <2>3. CASE \A t \in Threads : ~w_unlock_mutex(t) /\ ~s_lock(t)
      <3>1. \A c \in Conds : AbsQueue(c)' = AbsQueue(c)
        BY <2>3, <2>types, QueuesKept
      <3>2. Queues' = Queues
        BY <3>1 DEF Queues
      <3>3. ASSUME NEW u \in Threads, pc'[u] \in PastStart <=> pc[u] \in PastStart
            PROVE  Phase(u)' = Phase(u)
        BY <3>1, <3>3, WaitingSame, PhaseSame
      <3>4. ASSUME NEW t \in Threads, NEW m \in Mutexes, app_lock(t, m)
            PROVE  Abstract!Next
        <4>1. pc' = pc /\ pc[t] \notin PastStart
          BY <3>4 DEF app_lock, PastStart
        <4>2. phases' = phases /\ phases[t] = "running"
          BY <4>1, <3>3, PhaseFacts
        <4>3. Abstract!Lock(t, m)
          BY <3>4, <3>2, <4>2 DEF app_lock, Abstract!Lock
        <4> QED
          BY <4>3 DEF Abstract!Next
      <3>5. ASSUME NEW t \in Threads, app_unlock(t) PROVE Abstract!Next
        <4>1. pc' = pc /\ pc[t] \notin PastStart
          BY <3>5 DEF app_unlock, PastStart
        <4>2. phases' = phases /\ phases[t] = "running"
          BY <4>1, <3>3, PhaseFacts
        <4>3. Abstract!Unlock(t, held[t]) /\ held[t] \in Mutexes
          BY <3>5, <3>2, <4>2, <2>types DEF app_unlock, Abstract!Unlock
        <4> QED
          BY <4>3 DEF Abstract!Next
      <3>6. ASSUME NEW t \in Threads, w_relock(t) PROVE Abstract!Next
        <4>1. /\ pc[t] = "w_relock" /\ pc' = [pc EXCEPT ![t] = "app"]
              /\ held[t] \in Mutexes
          BY <3>6, <2>types DEF w_relock, Return, Goto, WaitersHeld
        <4>2. ~Waiting(t)
          BY <4>1, WaitingPending DEF PendingWait, Waits
        <4>3. Phase(t) = "woken" /\ Phase(t)' = "running"
          <5>1. pc[t] \in PastStart /\ pc'[t] \notin PastStart
            BY <4>1, <2>types DEF PastStart
          <5> QED
            BY <5>1, <4>2, PhaseFacts, PhaseFactsNext
        <4>4. \A u \in Threads \ {t} : Phase(u)' = Phase(u)
          BY <4>1, <2>types, <3>3
        <4>5. phases' = [phases EXCEPT ![t] = "running"] /\ phases[t] = "woken"
          BY <4>3, <4>4
        <4>6. Abstract!Return(t, held[t])
          BY <3>6, <3>2, <4>5 DEF w_relock, Abstract!Return
        <4> QED
          BY <4>1, <4>6 DEF Abstract!Next
      <3>7. ASSUME UNCHANGED <<mutex, held>>,
                   \A u \in Threads : pc'[u] \in PastStart <=> pc[u] \in PastStart
            PROVE  UNCHANGED Abstract!vars
        <4>1. phases' = phases
          BY <3>7, <3>3
        <4> QED
          BY <4>1, <3>2, <3>7 DEF Abstract!vars
      <3>8. ASSUME NEW t \in Threads, NEW c \in Conds, cond_init(t, c)
            PROVE  UNCHANGED Abstract!vars
        BY <3>8, <3>7, <2>types DEF cond_init, Uses, Goto, PastStart
      <3>9. ASSUME NEW t \in Threads, NEW c \in Conds, cond_destroy(t, c)
            PROVE  UNCHANGED Abstract!vars
        BY <3>9, <3>7, <2>types DEF cond_destroy, Call, Goto, PastStart
      <3>10. ASSUME NEW t \in Threads, NEW c \in Conds, cond_wait(t, c)
            PROVE  UNCHANGED Abstract!vars
        BY <3>10, <3>7, <2>types DEF cond_wait, Call, Goto, PastStart
      <3>11. ASSUME NEW t \in Threads, NEW c \in Conds, cond_signal(t, c)
            PROVE  UNCHANGED Abstract!vars
        BY <3>11, <3>7, <2>types DEF cond_signal, Call, Goto, PastStart
      <3>12. ASSUME NEW t \in Threads, NEW c \in Conds, cond_broadcast(t, c)
            PROVE  UNCHANGED Abstract!vars
        BY <3>12, <3>7, <2>types DEF cond_broadcast, Call, Goto, PastStart
      <3>13. ASSUME NEW t \in Threads, w_lock(t)
            PROVE  UNCHANGED Abstract!vars
        BY <3>13, <3>7, <2>types DEF w_lock, LockCond, Goto, PastStart
      <3>14. ASSUME NEW t \in Threads, w_insert(t)
            PROVE  UNCHANGED Abstract!vars
        BY <3>14, <3>7, <2>types DEF w_insert, Goto, PastStart
      <3>15. ASSUME NEW t \in Threads, w_malloc_null(t)
            PROVE  UNCHANGED Abstract!vars
        BY <3>15, <3>7, <2>types DEF w_malloc_null, Goto, PastStart
      <3>16. ASSUME NEW t \in Threads, w_insert_fails(t)
            PROVE  UNCHANGED Abstract!vars
        BY <3>16, <3>7, <2>types
           DEF w_insert_fails, NewWaitFlag, Goto, PastStart
      <3>17. ASSUME NEW t \in Threads, w_unlock_cond(t)
            PROVE  UNCHANGED Abstract!vars
        BY <3>17, <3>7, <2>types DEF w_unlock_cond, UnlockCond, Goto, PastStart
      <3>18. ASSUME NEW t \in Threads, w_test(t)
            PROVE  UNCHANGED Abstract!vars
        BY <3>18, <3>7, <2>types DEF w_test, Goto, PastStart
      <3>19. ASSUME NEW t \in Threads, deschedule(t)
            PROVE  UNCHANGED Abstract!vars
        BY <3>19, <3>7, <2>types DEF deschedule, Goto, PastStart
      <3>20. ASSUME NEW t \in Threads, w_resume(t)
            PROVE  UNCHANGED Abstract!vars
        BY <3>20, <3>7, <2>types DEF w_resume, AfterDeschedule, Goto, PastStart
      <3>21. ASSUME NEW t \in Threads, w_free(t)
            PROVE  UNCHANGED Abstract!vars
        BY <3>21, <3>7, <2>types DEF w_free, Goto, PastStart
      <3>22. ASSUME NEW t \in Threads, s_dequeue(t)
            PROVE  UNCHANGED Abstract!vars
        BY <3>22, <3>7, <2>types DEF s_dequeue, Goto, PastStart
      <3>23. ASSUME NEW t \in Threads, s_done(t)
            PROVE  UNCHANGED Abstract!vars
        BY <3>23, <3>7, <2>types DEF s_done, Goto, PastStart
      <3>24. ASSUME NEW t \in Threads, s_flag(t)
            PROVE  UNCHANGED Abstract!vars
        BY <3>24, <3>7, <2>types DEF s_flag, Goto, PastStart
      <3>25. ASSUME NEW t \in Threads, make_runnable(t)
            PROVE  UNCHANGED Abstract!vars
        BY <3>25, <3>7, <2>types DEF make_runnable, Goto, PastStart
      <3>26. ASSUME NEW t \in Threads, s_unlock(t)
            PROVE  UNCHANGED Abstract!vars
        BY <3>26, <3>7, <2>types
           DEF s_unlock, UnlockCond, Return, Goto, PastStart
      <3>27. ASSUME NEW t \in Threads, d_lock(t)
            PROVE  UNCHANGED Abstract!vars
        BY <3>27, <3>7, <2>types DEF d_lock, LockCond, Goto, PastStart
      <3>28. ASSUME NEW t \in Threads, d_check(t)
            PROVE  UNCHANGED Abstract!vars
        BY <3>28, <3>7, <2>types DEF d_check, Goto, PastStart
      <3>29. ASSUME NEW t \in Threads, d_unlock(t)
            PROVE  UNCHANGED Abstract!vars
        BY <3>29, <3>7, <2>types DEF d_unlock, UnlockCond, Goto, PastStart
      <3>30. ASSUME NEW t \in Threads, d_mutex(t)
            PROVE  UNCHANGED Abstract!vars
        BY <3>30, <3>7, <2>types DEF d_mutex, Return, Goto, PastStart
      <3>31. CASE UNCHANGED vars
        BY <3>31, <3>7 DEF vars
      <3> QED
        BY <2>3, <3>4, <3>5, <3>6, <3>7, <3>8, <3>9, <3>10, <3>11, <3>12,
           <3>13, <3>14, <3>15, <3>16, <3>17, <3>18, <3>19, <3>20,
           <3>21, <3>22, <3>23, <3>24, <3>25, <3>26, <3>27, <3>28,
           <3>29, <3>30, <3>31
           DEF Next, AppStep, LibStep
    <2> QED
      BY <2>1, <2>2, <2>3
  <1> QED
    BY <1>1, <1>2, RefinementInvariance, PTL
       DEF Spec, ImplementsCond, Abstract!Spec
=============================================================================
