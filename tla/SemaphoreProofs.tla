--------------------------- MODULE SemaphoreProofs ---------------------------
(***************************************************************************)
(* Proofs about Semaphore.tla for any set of threads, initial counts and   *)
(* number of calls: no assertion is reached, a negative count is the       *)
(* number of sleeping threads, and sem.c implements SemSpec.               *)
(***************************************************************************)
EXTENDS Semaphore, FiniteSetTheorems, TLAPS

(* Where a thread holds semMutex. *)
HoldLocations == {"w_body", "w_unlock", "s_body", "s_unlock", "d_body",
                  "d_unlock"}
DestroyLocations == {"d_lock", "d_body", "d_unlock", "d_mutex"}

(* semMutex is held by the one thread that is at a place where it should   *)
(* be, and a thread in cond_wait() has given it away.                      *)
LockInv ==
  /\ \A t \in Threads : pc[t] \in HoldLocations <=> owner[semMutex] = t
  /\ \A t \in Threads :
        IF pc[t] \in HoldLocations \cup {"w_wait"} THEN held[t] = semMutex
                                                   ELSE held[t] = "none"
  /\ \A t \in Threads : pc[t] = "w_wait" <=> phase[t] # "running"

(* Who is on the queue waits, and is there once. *)
QueueInv ==
  /\ \A i \in 1..Len(queue[semCond]) : phase[queue[semCond][i]] = "waiting"
  /\ \A i, j \in 1..Len(queue[semCond]) :
        queue[semCond][i] = queue[semCond][j] => i = j
  /\ IsFiniteSet(Woken)

(* The semaphore and its parts are initialised while callers may use it    *)
(* and while a thread that got in before its destruction is inside; who    *)
(* destroys it is the last one inside.                                     *)
ReadyInv ==
  /\ usable => initializeFlag = 1 /\ mutexInit = 1 /\ condInit = 1
  /\ \A t \in Threads :
        /\ pc[t] # "app" => mutexInit = 1
        /\ pc[t] \notin {"app", "d_unlock", "d_mutex"} =>
              initializeFlag = 1 /\ condInit = 1
        /\ pc[t] \in DestroyLocations =>
              /\ ~usable
              /\ \A u \in Threads \ {t} :
                    pc[u] \in {"app", "w_unlock", "s_body", "s_unlock"}
        /\ pc[t] \in {"d_body", "d_unlock", "d_mutex"} =>
              \A u \in Threads \ {t} : pc[u] = "app"
  /\ NoPanic

IInv == TypeOK /\ LockInv /\ QueueInv /\ CountMatchesWaiters /\ ReadyInv

USE SemAssumption DEF semCond, semMutex

-----------------------------------------------------------------------------
(* What a wait and a signal do to the queue. *)
LEMMA AppendFacts ==
  ASSUME NEW S, NEW l \in Seq(S), NEW e \in S
  PROVE  /\ Append(l, e) \in Seq(S)
         /\ Len(l) \in Nat
         /\ Len(Append(l, e)) = Len(l) + 1
         /\ \A i \in 1..Len(l) : Append(l, e)[i] = l[i]
         /\ Append(l, e)[Len(l) + 1] = e
  OBVIOUS

LEMMA RestFacts ==
  ASSUME NEW S, NEW l \in Seq(S), l # <<>>
  PROVE  /\ SubSeq(l, 2, Len(l)) \in Seq(S)
         /\ Len(l) \in Nat \ {0}
         /\ Len(SubSeq(l, 2, Len(l))) = Len(l) - 1
         /\ \A i \in 1..(Len(l) - 1) : SubSeq(l, 2, Len(l))[i] = l[i + 1]
         /\ \A i \in 1..Len(l) : l[i] \in S
  OBVIOUS

LEMMA LenFacts ==
  ASSUME NEW S, NEW l \in Seq(S)
  PROVE  Len(l) \in Nat /\ (l = <<>> <=> Len(l) = 0)
  OBVIOUS

(* A signal of a queue that is not empty wakes its first thread. *)
LEMMA SignalFacts ==
  ASSUME TypeOK, CV!Signal(semCond), NEW q, q = queue[semCond]
  PROVE  /\ q # <<>> /\ q[1] \in Threads
         /\ queue' \in [{semCond} -> Seq(Threads)]
         /\ Len(q) \in Nat /\ Len(q) > 0
         /\ Len(queue'[semCond]) = Len(q) - 1
         /\ \A i \in 1..(Len(q) - 1) : queue'[semCond][i] = q[i + 1]
         /\ phase' = [phase EXCEPT ![q[1]] = "woken"]
         /\ UNCHANGED <<owner, held>>
  <1>1. q \in Seq(Threads) /\ Len(q) > 0
    BY DEF TypeOK, CV!Signal
  <1>2. q # <<>> /\ Len(q) \in Nat
    BY <1>1
  <1>3. /\ queue' = [queue EXCEPT ![semCond] = SubSeq(@, 2, Len(@))]
        /\ UNCHANGED <<owner, held>>
        /\ phase' = [t \in Threads |-> IF \E i \in 1..1 : q[i] = t
                                       THEN "woken" ELSE phase[t]]
    BY DEF CV!Signal, CV!Wake
  <1>4. queue'[semCond] = SubSeq(q, 2, Len(q))
    BY <1>3 DEF TypeOK
  <1>5. ASSUME NEW t PROVE (\E i \in 1..1 : q[i] = t) <=> q[1] = t
    OBVIOUS
  <1>6. phase' = [phase EXCEPT ![q[1]] = "woken"]
    BY <1>3, <1>5 DEF TypeOK
  <1>7. /\ SubSeq(q, 2, Len(q)) \in Seq(Threads)
        /\ Len(SubSeq(q, 2, Len(q))) = Len(q) - 1
        /\ \A i \in 1..(Len(q) - 1) : SubSeq(q, 2, Len(q))[i] = q[i + 1]
        /\ q[1] \in Threads
    BY <1>1, <1>2, RestFacts
  <1>8. queue' \in [{semCond} -> Seq(Threads)]
    BY <1>3, <1>4, <1>7 DEF TypeOK
  <1>9. /\ Len(queue'[semCond]) = Len(q) - 1
        /\ \A i \in 1..(Len(q) - 1) : queue'[semCond][i] = q[i + 1]
    BY <1>4, <1>7
  <1> QED
    BY <1>1, <1>2, <1>3, <1>6, <1>7, <1>8, <1>9

(* Nobody is on the queue, or woken, while nobody is in cond_wait(). *)
LEMMA EmptyQueue ==
  ASSUME TypeOK, LockInv, QueueInv, \A u \in Threads : pc[u] # "w_wait"
  PROVE  queue[semCond] = <<>> /\ Woken = {}
  <1>1. ASSUME queue[semCond] # <<>> PROVE FALSE
    <2>1. Len(queue[semCond]) \in Nat \ {0} /\ queue[semCond][1] \in Threads
      BY <1>1, RestFacts DEF TypeOK
    <2>2. pc[queue[semCond][1]] = "w_wait"
      BY <2>1 DEF QueueInv, LockInv
    <2> QED
      BY <2>1, <2>2
  <1>2. Woken = {}
    BY DEF Woken, LockInv
  <1> QED
    BY <1>1, <1>2

(* How the set of woken threads changes: a wait leaves it alone, a return  *)
(* takes a thread away, a signal adds one that was not there.              *)
LEMMA WaitWokenFacts ==
  ASSUME TypeOK, NEW t \in Threads, CV!Wait(t, semMutex, semCond)
  PROVE  Woken' = Woken
  BY DEF TypeOK, CV!Wait, Woken

LEMMA ReturnWokenFacts ==
  ASSUME TypeOK, NEW t \in Threads, CV!Return(t, semMutex)
  PROVE  t \in Woken /\ Woken' = Woken \ {t}
  BY DEF TypeOK, CV!Return, Woken

LEMMA SignalWokenFacts ==
  ASSUME TypeOK, QueueInv, CV!Signal(semCond)
  PROVE  \E u \in Threads : u \notin Woken /\ Woken' = Woken \cup {u}
  <1> DEFINE q == queue[semCond]
  <1>1. /\ q[1] \in Threads /\ Len(q) \in Nat /\ Len(q) > 0
        /\ phase' = [phase EXCEPT ![q[1]] = "woken"]
    BY SignalFacts
  <1>2. phase[q[1]] = "waiting"
    BY <1>1 DEF QueueInv
  <1> HIDE DEF q
  <1>3. Woken' = Woken \cup {q[1]} /\ q[1] \notin Woken
    BY <1>1, <1>2 DEF Woken, TypeOK
  <1> QED
    BY <1>1, <1>3

-----------------------------------------------------------------------------
(* Types are preserved. *)
LEMMA TypesStep ==
  ASSUME TypeOK, [Next]_vars
  PROVE  TypeOK'
  <1> USE DEF TypeOK, Locations, Goto, AssertThat, cvVars, semVars
  <1>1. ASSUME NEW t \in Threads, NEW n \in Counts, sem_init(t, n) PROVE TypeOK'
    BY <1>1 DEF sem_init, FlagSet
  <1>2. ASSUME NEW t \in Threads, sem_wait(t) PROVE TypeOK'
    BY <1>2 DEF sem_wait, Call
  <1>3. ASSUME NEW t \in Threads, sem_signal(t) PROVE TypeOK'
    BY <1>3 DEF sem_signal, Call
  <1>4. ASSUME NEW t \in Threads, sem_destroy(t) PROVE TypeOK'
    <2>1. Call(t, "d_lock") /\ usable' = FALSE
      BY <1>4 DEF sem_destroy
    <2>2. pc' \in [Threads -> Locations] /\ calls' \in 0..MaxCalls
      BY <2>1 DEF Call
    <2>3. panicked' \in BOOLEAN /\ usable' \in BOOLEAN
      BY <2>1, Zenon DEF Call
    <2> QED
      BY <2>1, <2>2, <2>3 DEF Call
  <1>5. ASSUME NEW t \in Threads, w_lock(t) PROVE TypeOK'
    BY <1>5 DEF w_lock, Acquire, CV!Lock
  <1>6. ASSUME NEW t \in Threads, w_pass(t) PROVE TypeOK'
    BY <1>6 DEF w_pass, MustBlock
  <1>7. ASSUME NEW t \in Threads, w_block(t) PROVE TypeOK'
    <2>1. queue[semCond] \in Seq(Threads)
      OBVIOUS
    <2>2. Append(queue[semCond], t) \in Seq(Threads)
      BY <2>1, AppendFacts
    <2> QED
      BY <1>7, <2>2 DEF w_block, MustBlock, CV!Wait
  <1>8. ASSUME NEW t \in Threads, w_woken(t) PROVE TypeOK'
    BY <1>8 DEF w_woken, CV!Return
  <1>9. ASSUME NEW t \in Threads, w_unlock(t) PROVE TypeOK'
    BY <1>9 DEF w_unlock, Release, CV!Unlock
  <1>10. ASSUME NEW t \in Threads, s_lock(t) PROVE TypeOK'
    BY <1>10 DEF s_lock, Acquire, CV!Lock
  <1>11. ASSUME NEW t \in Threads, s_body(t) PROVE TypeOK'
    <2>1. CASE CV!Signal(semCond)
      BY <1>11, <2>1, SignalFacts DEF s_body
    <2>2. CASE UNCHANGED cvVars
      BY <1>11, <2>2 DEF s_body
    <2> QED
      BY <1>11, <2>1, <2>2 DEF s_body
  <1>12. ASSUME NEW t \in Threads, s_unlock(t) PROVE TypeOK'
    BY <1>12 DEF s_unlock, Release, CV!Unlock
  <1>13. ASSUME NEW t \in Threads, d_lock(t) PROVE TypeOK'
    BY <1>13 DEF d_lock, Acquire, CV!Lock
  <1>14. ASSUME NEW t \in Threads, d_body(t) PROVE TypeOK'
    BY <1>14 DEF d_body
  <1>15. ASSUME NEW t \in Threads, d_unlock(t) PROVE TypeOK'
    BY <1>15 DEF d_unlock, Release, CV!Unlock
  <1>16. ASSUME NEW t \in Threads, d_mutex(t) PROVE TypeOK'
    BY <1>16 DEF d_mutex
  <1>17. CASE UNCHANGED vars
    BY <1>17 DEF vars, cvVars, semVars
  <1> QED
    BY <1>1, <1>2, <1>3, <1>4, <1>5, <1>6, <1>7, <1>8, <1>9, <1>10, <1>11, <1>12, <1>13, <1>14, <1>15, <1>16, <1>17
       DEF Next, AppStep, LibStep

(* semMutex is held where it should be. *)
LEMMA LockStep ==
  ASSUME TypeOK, LockInv, QueueInv, [Next]_vars
  PROVE  LockInv'
  <1> USE DEF TypeOK, LockInv, HoldLocations, Locations, Goto, AssertThat, cvVars, semVars
  <1>1. ASSUME NEW t \in Threads, NEW n \in Counts, sem_init(t, n) PROVE LockInv'
    BY <1>1 DEF sem_init, FlagSet
  <1>2. ASSUME NEW t \in Threads, sem_wait(t) PROVE LockInv'
    BY <1>2 DEF sem_wait, Call
  <1>3. ASSUME NEW t \in Threads, sem_signal(t) PROVE LockInv'
    BY <1>3 DEF sem_signal, Call
  <1>4. ASSUME NEW t \in Threads, sem_destroy(t) PROVE LockInv'
    BY <1>4 DEF sem_destroy, Call, Entering
  <1>5. ASSUME NEW t \in Threads, w_lock(t) PROVE LockInv'
    BY <1>5 DEF w_lock, Acquire, CV!Lock
  <1>6. ASSUME NEW t \in Threads, w_pass(t) PROVE LockInv'
    BY <1>6 DEF w_pass, MustBlock
  <1>7. ASSUME NEW t \in Threads, w_block(t) PROVE LockInv'
    BY <1>7 DEF w_block, MustBlock, CV!Wait
  <1>8. ASSUME NEW t \in Threads, w_woken(t) PROVE LockInv'
    BY <1>8 DEF w_woken, CV!Return
  <1>9. ASSUME NEW t \in Threads, w_unlock(t) PROVE LockInv'
    BY <1>9 DEF w_unlock, Release, CV!Unlock
  <1>10. ASSUME NEW t \in Threads, s_lock(t) PROVE LockInv'
    BY <1>10 DEF s_lock, Acquire, CV!Lock
  <1>11. ASSUME NEW t \in Threads, s_body(t) PROVE LockInv'
    <2>1. CASE CV!Signal(semCond)
      <3> DEFINE q == queue[semCond]
      <3>1. /\ q[1] \in Threads /\ Len(q) \in Nat /\ Len(q) > 0
            /\ phase' = [phase EXCEPT ![q[1]] = "woken"]
            /\ UNCHANGED <<owner, held>>
        BY <2>1, SignalFacts
      <3>2. phase[q[1]] = "waiting"
        BY <3>1 DEF QueueInv
      <3> QED
        BY <1>11, <3>1, <3>2 DEF s_body
    <2>2. CASE UNCHANGED cvVars
      BY <1>11, <2>2 DEF s_body
    <2> QED
      BY <1>11, <2>1, <2>2 DEF s_body
  <1>12. ASSUME NEW t \in Threads, s_unlock(t) PROVE LockInv'
    BY <1>12 DEF s_unlock, Release, CV!Unlock
  <1>13. ASSUME NEW t \in Threads, d_lock(t) PROVE LockInv'
    BY <1>13 DEF d_lock, Acquire, CV!Lock
  <1>14. ASSUME NEW t \in Threads, d_body(t) PROVE LockInv'
    BY <1>14 DEF d_body
  <1>15. ASSUME NEW t \in Threads, d_unlock(t) PROVE LockInv'
    BY <1>15 DEF d_unlock, Release, CV!Unlock
  <1>16. ASSUME NEW t \in Threads, d_mutex(t) PROVE LockInv'
    BY <1>16 DEF d_mutex
  <1>17. CASE UNCHANGED vars
    BY <1>17 DEF vars, cvVars, semVars
  <1> QED
    BY <1>1, <1>2, <1>3, <1>4, <1>5, <1>6, <1>7, <1>8, <1>9, <1>10, <1>11, <1>12, <1>13, <1>14, <1>15, <1>16, <1>17
       DEF Next, AppStep, LibStep

(* What is in use is initialised, and destroyed by the last one inside. *)
LEMMA ReadyStep ==
  ASSUME TypeOK, LockInv, QueueInv, ReadyInv, [Next]_vars
  PROVE  ReadyInv'
  <1> USE DEF TypeOK, ReadyInv, NoPanic, HoldLocations, DestroyLocations, Locations, Goto, AssertThat, cvVars, semVars
  <1>1. ASSUME NEW t \in Threads, NEW n \in Counts, sem_init(t, n) PROVE ReadyInv'
    BY <1>1 DEF sem_init, FlagSet
  <1>2. ASSUME NEW t \in Threads, sem_wait(t) PROVE ReadyInv'
    BY <1>2 DEF sem_wait, Call
  <1>3. ASSUME NEW t \in Threads, sem_signal(t) PROVE ReadyInv'
    BY <1>3 DEF sem_signal, Call
  <1>4. ASSUME NEW t \in Threads, sem_destroy(t) PROVE ReadyInv'
    BY <1>4 DEF sem_destroy, Call, Entering
  <1>5. ASSUME NEW t \in Threads, w_lock(t) PROVE ReadyInv'
    BY <1>5 DEF w_lock, Acquire, CV!Lock
  <1>6. ASSUME NEW t \in Threads, w_pass(t) PROVE ReadyInv'
    BY <1>6 DEF w_pass, MustBlock
  <1>7. ASSUME NEW t \in Threads, w_block(t) PROVE ReadyInv'
    BY <1>7 DEF w_block, MustBlock, CV!Wait
  <1>8. ASSUME NEW t \in Threads, w_woken(t) PROVE ReadyInv'
    BY <1>8 DEF w_woken, CV!Return
  <1>9. ASSUME NEW t \in Threads, w_unlock(t) PROVE ReadyInv'
    BY <1>9 DEF w_unlock, Release, CV!Unlock
  <1>10. ASSUME NEW t \in Threads, s_lock(t) PROVE ReadyInv'
    BY <1>10 DEF s_lock, Acquire, CV!Lock
  <1>11. ASSUME NEW t \in Threads, s_body(t) PROVE ReadyInv'
    BY <1>11 DEF s_body
  <1>12. ASSUME NEW t \in Threads, s_unlock(t) PROVE ReadyInv'
    BY <1>12 DEF s_unlock, Release, CV!Unlock
  <1>13. ASSUME NEW t \in Threads, d_lock(t) PROVE ReadyInv'
    <2>1. \A u \in Threads : pc[u] \notin HoldLocations
      BY <1>13 DEF d_lock, Acquire, CV!Lock, LockInv
    <2> QED
      BY <1>13, <2>1 DEF d_lock, Acquire, CV!Lock
  <1>14. ASSUME NEW t \in Threads, d_body(t) PROVE ReadyInv'
    <2>1. queue[semCond] = <<>>
      BY <1>14, EmptyQueue DEF d_body
    <2> QED
      BY <1>14, <2>1 DEF d_body
  <1>15. ASSUME NEW t \in Threads, d_unlock(t) PROVE ReadyInv'
    BY <1>15 DEF d_unlock, Release, CV!Unlock
  <1>16. ASSUME NEW t \in Threads, d_mutex(t) PROVE ReadyInv'
    <2>1. owner[semMutex] = NoThread
      BY <1>16 DEF d_mutex, LockInv
    <2> QED
      BY <1>16, <2>1 DEF d_mutex
  <1>17. CASE UNCHANGED vars
    BY <1>17 DEF vars, cvVars, semVars
  <1> QED
    BY <1>1, <1>2, <1>3, <1>4, <1>5, <1>6, <1>7, <1>8, <1>9, <1>10, <1>11, <1>12, <1>13, <1>14, <1>15, <1>16, <1>17
       DEF Next, AppStep, LibStep

(* The count of waiters is that of sleeping threads. *)
LEMMA CountStep ==
  ASSUME TypeOK, LockInv, QueueInv, ReadyInv, CountMatchesWaiters, [Next]_vars
  PROVE  CountMatchesWaiters'
  <1> USE DEF TypeOK, CountMatchesWaiters, Goto, cvVars, semVars
  <1>1. ASSUME NEW t \in Threads, NEW n \in Counts, sem_init(t, n) PROVE CountMatchesWaiters'
    <2>1. queue[semCond] = <<>>
      BY <1>1, EmptyQueue DEF sem_init
    <2> QED
      BY <1>1, <2>1 DEF sem_init
  <1>2. ASSUME NEW t \in Threads, sem_wait(t) PROVE CountMatchesWaiters'
    BY <1>2 DEF sem_wait, Call
  <1>3. ASSUME NEW t \in Threads, sem_signal(t) PROVE CountMatchesWaiters'
    BY <1>3 DEF sem_signal, Call
  <1>4. ASSUME NEW t \in Threads, sem_destroy(t) PROVE CountMatchesWaiters'
    BY <1>4 DEF sem_destroy, Call, Entering
  <1>5. ASSUME NEW t \in Threads, w_lock(t) PROVE CountMatchesWaiters'
    BY <1>5 DEF w_lock, Acquire, CV!Lock
  <1>6. ASSUME NEW t \in Threads, w_pass(t) PROVE CountMatchesWaiters'
    BY <1>6 DEF w_pass, MustBlock
  <1>7. ASSUME NEW t \in Threads, w_block(t) PROVE CountMatchesWaiters'
    BY <1>7 DEF w_block, MustBlock, CV!Wait
  <1>8. ASSUME NEW t \in Threads, w_woken(t) PROVE CountMatchesWaiters'
    BY <1>8 DEF w_woken, CV!Return
  <1>9. ASSUME NEW t \in Threads, w_unlock(t) PROVE CountMatchesWaiters'
    BY <1>9 DEF w_unlock, Release, CV!Unlock
  <1>10. ASSUME NEW t \in Threads, s_lock(t) PROVE CountMatchesWaiters'
    BY <1>10 DEF s_lock, Acquire, CV!Lock
  <1>11. ASSUME NEW t \in Threads, s_body(t) PROVE CountMatchesWaiters'
    <2>1. CASE Blocked(semaphore) /\ queue[semCond] # <<>>
      BY <1>11, <2>1, SignalFacts DEF s_body, Blocked
    <2>2. CASE ~(Blocked(semaphore) /\ queue[semCond] # <<>>)
      BY <1>11, <2>2, LenFacts DEF s_body, Blocked
    <2> QED
      BY <2>1, <2>2
  <1>12. ASSUME NEW t \in Threads, s_unlock(t) PROVE CountMatchesWaiters'
    BY <1>12 DEF s_unlock, Release, CV!Unlock
  <1>13. ASSUME NEW t \in Threads, d_lock(t) PROVE CountMatchesWaiters'
    BY <1>13 DEF d_lock, Acquire, CV!Lock
  <1>14. ASSUME NEW t \in Threads, d_body(t) PROVE CountMatchesWaiters'
    BY <1>14 DEF d_body
  <1>15. ASSUME NEW t \in Threads, d_unlock(t) PROVE CountMatchesWaiters'
    BY <1>15 DEF d_unlock, Release, CV!Unlock
  <1>16. ASSUME NEW t \in Threads, d_mutex(t) PROVE CountMatchesWaiters'
    BY <1>16 DEF d_mutex
  <1>17. CASE UNCHANGED vars
    BY <1>17 DEF vars, cvVars, semVars
  <1> QED
    BY <1>1, <1>2, <1>3, <1>4, <1>5, <1>6, <1>7, <1>8, <1>9, <1>10, <1>11, <1>12, <1>13, <1>14, <1>15, <1>16, <1>17
       DEF Next, AppStep, LibStep

(* A step that leaves the queue and the phases alone. *)
LEMMA QueueUnchanged ==
  ASSUME QueueInv, UNCHANGED <<queue, phase>>
  PROVE  QueueInv'
  BY DEF QueueInv, Woken

(* Who is on the queue waits, and is there once. *)
LEMMA QueueStep ==
  ASSUME TypeOK, LockInv, QueueInv, [Next]_vars
  PROVE  QueueInv'
  <1> USE DEF TypeOK, QueueInv, Goto, cvVars, semVars
  <1>1. ASSUME NEW t \in Threads, NEW n \in Counts, sem_init(t, n) PROVE QueueInv'
    BY <1>1, QueueUnchanged DEF sem_init, FlagSet
  <1>2. ASSUME NEW t \in Threads, sem_wait(t) PROVE QueueInv'
    BY <1>2, QueueUnchanged DEF sem_wait, Call
  <1>3. ASSUME NEW t \in Threads, sem_signal(t) PROVE QueueInv'
    BY <1>3, QueueUnchanged DEF sem_signal, Call
  <1>4. ASSUME NEW t \in Threads, sem_destroy(t) PROVE QueueInv'
    BY <1>4, QueueUnchanged DEF sem_destroy, Call, Entering
  <1>5. ASSUME NEW t \in Threads, w_lock(t) PROVE QueueInv'
    BY <1>5, QueueUnchanged DEF w_lock, Acquire, CV!Lock
  <1>6. ASSUME NEW t \in Threads, w_pass(t) PROVE QueueInv'
    BY <1>6, QueueUnchanged DEF w_pass, MustBlock
  <1>7. ASSUME NEW t \in Threads, w_block(t) PROVE QueueInv'
    <2> DEFINE q == queue[semCond]
    <2>1. /\ q \in Seq(Threads) /\ queue'[semCond] = Append(q, t)
          /\ phase[t] = "running"
          /\ phase' = [phase EXCEPT ![t] = "waiting"]
      BY <1>7 DEF w_block, MustBlock, CV!Wait
    <2>2. /\ Len(q) \in Nat
          /\ Len(queue'[semCond]) = Len(q) + 1
          /\ \A i \in 1..Len(q) : queue'[semCond][i] = q[i]
          /\ queue'[semCond][Len(q) + 1] = t
          /\ \A i \in 1..Len(q) : q[i] \in Threads
      BY <2>1, AppendFacts
    <2>3. \A i \in 1..Len(q) : q[i] # t
      BY <2>1
    <2> HIDE DEF q
    <2>4. \A i \in 1..(Len(q) + 1) : i \in 1..Len(q) \/ i = Len(q) + 1
      BY <2>2
    <2>5. \A i \in 1..Len(q) : phase[q[i]] = "waiting"
      BY DEF q
    <2>6. \A i, j \in 1..Len(q) : q[i] = q[j] => i = j
      BY DEF q
    <2>7. \A i \in 1..Len(queue'[semCond]) : phase'[queue'[semCond][i]] = "waiting"
      BY <2>1, <2>2, <2>4, <2>5
    <2>8. \A i, j \in 1..Len(queue'[semCond]) :
             queue'[semCond][i] = queue'[semCond][j] => i = j
      BY <2>2, <2>3, <2>4, <2>6
    <2>9. Woken' = Woken
      BY <1>7, WaitWokenFacts DEF w_block
    <2> QED
      BY <2>7, <2>8, <2>9
  <1>8. ASSUME NEW t \in Threads, w_woken(t) PROVE QueueInv'
    <2>1. CV!Return(t, semMutex) /\ Woken' = Woken \ {t}
      BY <1>8, ReturnWokenFacts DEF w_woken
    <2>2. IsFiniteSet(Woken')
      BY <2>1, FS_RemoveElement
    <2> QED
      BY <2>1, <2>2 DEF CV!Return
  <1>9. ASSUME NEW t \in Threads, w_unlock(t) PROVE QueueInv'
    BY <1>9, QueueUnchanged DEF w_unlock, Release, CV!Unlock
  <1>10. ASSUME NEW t \in Threads, s_lock(t) PROVE QueueInv'
    BY <1>10, QueueUnchanged DEF s_lock, Acquire, CV!Lock
  <1>11. ASSUME NEW t \in Threads, s_body(t) PROVE QueueInv'
    <2>1. CASE CV!Signal(semCond)
      <3> DEFINE q == queue[semCond]
      <3>1. /\ q[1] \in Threads /\ Len(q) \in Nat /\ Len(q) > 0
            /\ Len(queue'[semCond]) = Len(q) - 1
            /\ \A i \in 1..(Len(q) - 1) : queue'[semCond][i] = q[i + 1]
            /\ phase' = [phase EXCEPT ![q[1]] = "woken"]
        BY <2>1, SignalFacts
      <3>2. /\ \A i, j \in 1..Len(q) : q[i] = q[j] => i = j
            /\ \A i \in 1..Len(q) : phase[q[i]] = "waiting" /\ q[i] \in Threads
        OBVIOUS
      <3> HIDE DEF q
      <3>3. \A i \in 1..(Len(q) - 1) : phase'[q[i + 1]] = "waiting"
        BY <3>1, <3>2
      <3>4. IsFiniteSet(Woken')
        BY <2>1, SignalWokenFacts, FS_AddElement
      <3>5. \A i \in 1..Len(queue'[semCond]) : phase'[queue'[semCond][i]] = "waiting"
        BY <3>1, <3>3
      <3>6. \A i, j \in 1..Len(queue'[semCond]) :
               queue'[semCond][i] = queue'[semCond][j] => i = j
        BY <3>1, <3>2
      <3> QED
        BY <3>4, <3>5, <3>6
    <2>2. CASE UNCHANGED cvVars
      BY <2>2, QueueUnchanged
    <2> QED
      BY <1>11, <2>1, <2>2 DEF s_body
  <1>12. ASSUME NEW t \in Threads, s_unlock(t) PROVE QueueInv'
    BY <1>12, QueueUnchanged DEF s_unlock, Release, CV!Unlock
  <1>13. ASSUME NEW t \in Threads, d_lock(t) PROVE QueueInv'
    BY <1>13, QueueUnchanged DEF d_lock, Acquire, CV!Lock
  <1>14. ASSUME NEW t \in Threads, d_body(t) PROVE QueueInv'
    BY <1>14, QueueUnchanged DEF d_body
  <1>15. ASSUME NEW t \in Threads, d_unlock(t) PROVE QueueInv'
    BY <1>15, QueueUnchanged DEF d_unlock, Release, CV!Unlock
  <1>16. ASSUME NEW t \in Threads, d_mutex(t) PROVE QueueInv'
    BY <1>16, QueueUnchanged DEF d_mutex
  <1>17. CASE UNCHANGED vars
    BY <1>17, QueueUnchanged DEF vars, cvVars
  <1> QED
    BY <1>1, <1>2, <1>3, <1>4, <1>5, <1>6, <1>7, <1>8, <1>9, <1>10, <1>11, <1>12, <1>13, <1>14, <1>15, <1>16, <1>17
       DEF Next, AppStep, LibStep

-----------------------------------------------------------------------------
(* The invariant holds before the first call. *)
LEMMA InitInv == Init => IInv
  <1> SUFFICES ASSUME Init PROVE IInv
    OBVIOUS
  <1> USE DEF Init, CV!Init
  <1>0. <<>> \in Seq(Threads) /\ 0 \in 0..MaxCalls
    OBVIOUS
  <1>1. TypeOK
    <2>1. owner \in [{semMutex} -> Threads \cup {NoThread}]
      OBVIOUS
    <2>2. queue \in [{semCond} -> Seq(Threads)]
      BY <1>0
    <2>3. /\ held \in [Threads -> {semMutex, "none"}]
          /\ phase \in [Threads -> {"running", "waiting", "woken"}]
          /\ pc \in [Threads -> Locations]
      BY DEF Locations
    <2>4. /\ semaphore \in Int /\ calls \in 0..MaxCalls
          /\ initializeFlag \in {0, 1} /\ mutexInit \in {0, 1} /\ condInit \in {0, 1}
      BY <1>0
    <2>5. usable \in BOOLEAN /\ panicked \in BOOLEAN
      BY Zenon
    <2> HIDE DEF Init
    <2> QED
      BY <2>1, <2>2, <2>3, <2>4, <2>5 DEF TypeOK
  <1>2. LockInv
    BY DEF LockInv, HoldLocations
  <1>3. Woken = {} /\ queue[semCond] = <<>>
    BY DEF Woken
  <1>4. QueueInv /\ CountMatchesWaiters
    BY <1>3, FS_EmptySet DEF QueueInv, CountMatchesWaiters
  <1>5. ReadyInv
    BY DEF ReadyInv, NoPanic, DestroyLocations
  <1> QED
    BY <1>1, <1>2, <1>4, <1>5 DEF IInv

(* Every step of every operation preserves the invariant. *)
LEMMA StepInv == IInv /\ [Next]_vars => IInv'
  BY TypesStep, LockStep, QueueStep, CountStep, ReadyStep DEF IInv

(* The inductive invariant holds in every state. *)
THEOREM Invariance == Spec => []IInv
  BY InitInv, StepInv, PTL DEF Spec

(* Callers that keep the contract reach no assert() of sem.c, nor one of   *)
(* the mutex and the condition variable inside the semaphore, also when    *)
(* sem_destroy() runs while the last sem_signal() is on its way out.       *)
THEOREM SemAssertionsHold == Spec => []NoPanic
  <1>1. IInv => NoPanic
    BY DEF IInv, ReadyInv
  <1> QED
    BY <1>1, Invariance, PTL

(* A negative count is the number of sleeping threads, and nobody sleeps   *)
(* while there is a permit.                                                *)
THEOREM CountIsWaiters == Spec => []CountMatchesWaiters
  <1>1. IInv => CountMatchesWaiters
    BY DEF IInv
  <1> QED
    BY <1>1, Invariance, PTL

-----------------------------------------------------------------------------
(* The permits are counted by a natural number, at least as large as the   *)
(* number of threads that were handed one and have not returned.           *)
LEMMA AvailFacts ==
  ASSUME IInv
  PROVE  /\ Cardinality(Woken) \in Nat
         /\ Len(queue[semCond]) \in Nat
         /\ semaphore \in Int
         /\ Avail \in Int
         /\ semaphore + Len(queue[semCond]) >= 0
         /\ Avail = semaphore + Len(queue[semCond]) + Cardinality(Woken)
  <1>1. Cardinality(Woken) \in Nat
    BY FS_CardinalityType DEF IInv, QueueInv
  <1>2. Len(queue[semCond]) \in Nat /\ semaphore \in Int
    BY LenFacts DEF IInv, TypeOK
  <1> QED
    BY <1>1, <1>2 DEF IInv, CountMatchesWaiters, Avail

(* A step that leaves the count, the queue and the phases alone makes and  *)
(* uses no permit.                                                         *)
LEMMA AvailUnchanged ==
  ASSUME UNCHANGED <<semaphore, queue, phase>>
  PROVE  Avail' = Avail
  <1>1. Woken' = Woken
    BY DEF Woken
  <1> QED
    BY <1>1 DEF Avail

(* sem.c implements SemSpec: a sem_wait() that passes or returns from its  *)
(* sleep is Take, the step of sem_signal() with semMutex held is Give, and *)
(* neither going to sleep nor any other step makes or uses a permit.       *)
THEOREM SemImplementsSpec == Spec => ImplementsSem
  <1>1. Init => Abstract!Init
    <2> SUFFICES ASSUME Init PROVE Abstract!Init
      OBVIOUS
    <2>1. Woken = {} /\ semaphore = 0 /\ queue[semCond] = <<>>
      BY DEF Init, CV!Init, Woken
    <2>2. Cardinality(Woken) = 0 /\ Len(queue[semCond]) = 0
      BY <2>1, FS_EmptySet
    <2> QED
      BY <2>1, <2>2 DEF Abstract!Init, Avail, Init
  <1>2. IInv /\ [Next]_vars => [Abstract!Next]_<<Avail, usable>>
    <2> SUFFICES ASSUME IInv, [Next]_vars
                 PROVE  [Abstract!Next]_<<Avail, usable>>
      OBVIOUS
    <2>types. TypeOK /\ QueueInv /\ LockInv
      BY DEF IInv
    <2>inv. IInv'
      BY StepInv
    <2> USE DEF Goto, cvVars, semVars
    <2>1. ASSUME NEW t \in Threads, NEW n \in Counts, sem_init(t, n)
          PROVE  Abstract!Start
      <3>1. queue[semCond] = <<>> /\ Woken = {} /\ UNCHANGED <<queue, phase>>
        BY <2>1, <2>types, EmptyQueue DEF sem_init
      <3>2. Len(queue[semCond])' = 0 /\ Cardinality(Woken)' = 0
        BY <3>1, FS_EmptySet DEF Woken
      <3>3. Avail' = n
        BY <3>2, <2>1 DEF Avail, sem_init
      <3> QED
        BY <3>3, <2>1 DEF sem_init, Abstract!Start
    <2>2. ASSUME NEW t \in Threads, w_pass(t) PROVE Abstract!Take
      <3>1. Woken' = Woken /\ UNCHANGED <<queue, usable>>
        BY <2>2 DEF w_pass, Woken
      <3>2. semaphore > 0 /\ semaphore' = semaphore - 1
        BY <2>2, <2>types DEF w_pass, MustBlock, TypeOK
      <3>3. Avail' = Avail - 1 /\ Avail > 0
        BY <3>1, <3>2, AvailFacts DEF Avail
      <3> QED
        BY <3>1, <3>3 DEF Abstract!Take
    <2>3. ASSUME NEW t \in Threads, w_woken(t) PROVE Abstract!Take
      <3>1. /\ t \in Woken /\ Woken' = Woken \ {t}
            /\ UNCHANGED <<queue, semaphore, usable>>
        BY <2>3, <2>types, ReturnWokenFacts DEF w_woken, CV!Return
      <3>2. Cardinality(Woken') = Cardinality(Woken) - 1
        BY <3>1, <2>types, FS_RemoveElement DEF QueueInv
      <3>3. Cardinality(Woken') \in Nat
        BY <2>inv, FS_CardinalityType DEF IInv, QueueInv
      <3>4. Avail' = Avail - 1 /\ Avail > 0
        BY <3>1, <3>2, <3>3, AvailFacts DEF Avail
      <3> QED
        BY <3>1, <3>4 DEF Abstract!Take
    <2>4. ASSUME NEW t \in Threads, s_body(t) PROVE Abstract!Give
      <3>1. CASE Blocked(semaphore) /\ queue[semCond] # <<>>
        <4>0. semaphore' = semaphore + 1
          BY <2>4, <3>1 DEF s_body
        <4>1. CV!Signal(semCond)
          BY <2>4, <3>1 DEF s_body
        <4>2. Len(queue'[semCond]) = Len(queue[semCond]) - 1
          BY <4>1, <2>types, SignalFacts
        <4>3. Cardinality(Woken') = Cardinality(Woken) + 1
          BY <4>1, <2>types, SignalWokenFacts, FS_AddElement DEF QueueInv
        <4>4. /\ semaphore \in Int
              /\ Len(queue[semCond]) \in Int /\ Cardinality(Woken) \in Int
              /\ Avail = semaphore + Len(queue[semCond]) + Cardinality(Woken)
          BY AvailFacts
        <4>5. Avail' = semaphore' + Len(queue'[semCond]) + Cardinality(Woken')
          BY DEF Avail
        <4>6. Avail' = (semaphore + 1) + (Len(queue[semCond]) - 1)
                         + (Cardinality(Woken) + 1)
          BY <4>0, <4>2, <4>3, <4>5
        <4>7. ASSUME NEW a \in Int, NEW b \in Int, NEW c \in Int
              PROVE  (a + 1) + (b - 1) + (c + 1) = (a + b + c) + 1
          OBVIOUS
        <4>8. Avail' = Avail + 1
          BY <4>4, <4>6, <4>7
        <4> QED
          BY <2>4, <4>8 DEF Abstract!Give, s_body
      <3>2. CASE ~(Blocked(semaphore) /\ queue[semCond] # <<>>)
        <4>1. UNCHANGED cvVars /\ semaphore' = semaphore + 1
          BY <2>4, <3>2 DEF s_body
        <4>2. Woken' = Woken
          BY <4>1 DEF Woken
        <4> QED
          BY <2>4, <4>1, <4>2, AvailFacts DEF Avail, Abstract!Give, s_body
      <3> QED
        BY <3>1, <3>2
    <2>5. ASSUME NEW t \in Threads, w_block(t)
          PROVE  UNCHANGED <<Avail, usable>>
      <3>1. /\ Woken' = Woken /\ semaphore' = semaphore - 1 /\ usable' = usable
            /\ queue'[semCond] = Append(queue[semCond], t)
        BY <2>5, <2>types, WaitWokenFacts DEF w_block, CV!Wait, TypeOK
      <3>2. Len(queue'[semCond]) = Len(queue[semCond]) + 1
        BY <3>1, <2>types, AppendFacts DEF TypeOK
      <3> QED
        BY <3>1, <3>2, AvailFacts DEF Avail
    <2>6. ASSUME NEW t \in Threads, sem_destroy(t) PROVE Abstract!Stop
      <3>1. Avail' = Avail
        BY <2>6, AvailUnchanged DEF sem_destroy, Call
      <3> QED
        BY <2>6, <3>1 DEF sem_destroy, Call, Abstract!Stop
    <2>7. ASSUME NEW t \in Threads,
                 \/ sem_wait(t) \/ sem_signal(t)
                 \/ w_lock(t) \/ s_lock(t) \/ d_lock(t)
                 \/ w_unlock(t) \/ s_unlock(t) \/ d_unlock(t)
                 \/ d_body(t) \/ d_mutex(t)
          PROVE  UNCHANGED <<Avail, usable>>
      <3>1. UNCHANGED <<semaphore, queue, phase, usable>>
        BY <2>7 DEF sem_wait, sem_signal, Call, w_lock, s_lock, d_lock, Acquire,
                    CV!Lock, w_unlock, s_unlock, d_unlock, Release, CV!Unlock,
                    d_body, d_mutex
      <3> QED
        BY <3>1, AvailUnchanged
    <2>8. CASE UNCHANGED vars
      BY <2>8, AvailUnchanged DEF vars
    <2> QED
      BY <2>1, <2>2, <2>3, <2>4, <2>5, <2>6, <2>7, <2>8
         DEF Next, AppStep, LibStep, Abstract!Next
  <1> QED
    BY <1>1, <1>2, Invariance, PTL DEF Spec, ImplementsSem, Abstract!Spec
=============================================================================
