----------------------------- MODULE MutexProofs -----------------------------
(***************************************************************************)
(* Proofs about Mutex.tla for every set of threads: mutual exclusion, the  *)
(* absence of panics, and the implementation of LockSpec.                  *)
(***************************************************************************)
EXTENDS Mutex, TLAPS

(* An unusable mutex has no thread inside an operation but the one that    *)
(* destroys it; a usable one has no destroyer.                             *)
UsersOnlyWhileUsable ==
  \A t \in Threads : IF usable THEN pc[t] # "destroy"
                               ELSE pc[t] \in {"out", "destroy"}

(* The inductive invariant.  Mutual exclusion alone is not inductive: that *)
(* an exchange finds lockFlag clear must mean that nobody holds the mutex, *)
(* which FlagMatchesHolder says, and which holds only while no thread uses *)
(* a mutex that is being destroyed or initialised.                         *)
IInv == /\ TypeOK
        /\ MutualExclusion
        /\ NoPanic
        /\ FlagMatchesHolder
        /\ UsersOnlyWhileUsable

USE DEF Locations

-----------------------------------------------------------------------------
(* The invariant holds of a mutex_t before mutex_init(). *)
LEMMA InitInv == Init => IInv
  BY DEF Init, IInv, TypeOK, MutualExclusion, NoPanic, FlagMatchesHolder,
         UsersOnlyWhileUsable, Holds

(* Each step of each operation of mutex.c preserves the invariant. *)
LEMMA StepInv == IInv /\ [Next]_vars => IInv'
  <1> SUFFICES ASSUME IInv, [Next]_vars PROVE IInv'
    OBVIOUS
  <1> USE DEF IInv, TypeOK, MutualExclusion, NoPanic, FlagMatchesHolder,
              UsersOnlyWhileUsable, Holds, Goto, AssertThat, Idle
  <1>1. ASSUME NEW t \in Threads, mutex_init(t) PROVE IInv'
    BY <1>1 DEF mutex_init, InitialLockFlag
  <1>2. ASSUME NEW t \in Threads, mutex_destroy(t) PROVE IInv'
    BY <1>2 DEF mutex_destroy
  <1>3. ASSUME NEW t \in Threads, mutex_lock(t) PROVE IInv'
    BY <1>3 DEF mutex_lock
  <1>4. ASSUME NEW t \in Threads, mutex_unlock(t) PROVE IInv'
    BY <1>4 DEF mutex_unlock
  <1>5. ASSUME NEW t \in Threads, lock_exchange(t) PROVE IInv'
    BY <1>5 DEF lock_exchange
  <1>6. ASSUME NEW t \in Threads, lock_yield(t) PROVE IInv'
    BY <1>6 DEF lock_yield
  <1>7. ASSUME NEW t \in Threads, unlock_exchange(t) PROVE IInv'
    BY <1>7 DEF unlock_exchange, ReleasedLockFlag
  <1>8. ASSUME NEW t \in Threads, destroy_clear(t) PROVE IInv'
    BY <1>8 DEF destroy_clear
  <1>9. CASE UNCHANGED vars
    BY <1>9 DEF vars
  <1> QED
    BY <1>1, <1>2, <1>3, <1>4, <1>5, <1>6, <1>7, <1>8, <1>9 DEF Next, Step

(* The invariant holds in every reachable state. *)
THEOREM Invariance == Spec => []IInv
  BY InitInv, StepInv, PTL DEF Spec

(* mutex_lock() gives mutual exclusion to any number of threads. *)
THEOREM MutexExclusion == Spec => []MutualExclusion
  <1>1. IInv => MutualExclusion
    BY DEF IInv
  <1> QED
    BY <1>1, Invariance, PTL

(* lockFlag of a usable mutex is set exactly while some thread holds it:   *)
(* mutex_unlock() and mutex_destroy() never leave it set without a holder. *)
THEOREM MutexFlagHasHolder == Spec => []FlagMatchesHolder
  <1>1. IInv => FlagMatchesHolder
    BY DEF IInv
  <1> QED
    BY <1>1, Invariance, PTL

(* No contract-abiding caller reaches an assert(0) of mutex.c. *)
THEOREM MutexNoPanic == Spec => []NoPanic
  <1>1. IInv => NoPanic
    BY DEF IInv
  <1> QED
    BY <1>1, Invariance, PTL

-----------------------------------------------------------------------------
(* While the invariant holds, the abstract owner is the one holder. *)
LEMMA OwnerIs ==
  ASSUME MutualExclusion
  PROVE  /\ \A t \in Threads : Holds(t) => Owner = t
         /\ (\A t \in Threads : ~Holds(t)) => Owner = NoThread
  BY DEF MutualExclusion, Owner

(* The same after a step. *)
LEMMA OwnerIsNext ==
  ASSUME MutualExclusion'
  PROVE  /\ \A t \in Threads : Holds(t)' => Owner' = t
         /\ (\A t \in Threads : ~Holds(t)') => Owner' = NoThread
  BY DEF MutualExclusion, Owner

(* mutex.c implements the abstract lock: the exchange that finds lockFlag  *)
(* clear is Acquire, the exchange of mutex_unlock() is Release, and every  *)
(* other step leaves the owner alone.                                      *)
THEOREM MutexImplementsLock == Spec => ImplementsLock
  <1>1. Init => Lock!Init
    BY DEF Init, Lock!Init, Owner, Holds
  <1>2. IInv /\ IInv' /\ [Next]_vars => [Lock!Next]_Owner
    <2> SUFFICES ASSUME IInv, IInv', [Next]_vars PROVE [Lock!Next]_Owner
      OBVIOUS
    <2>inv. MutualExclusion /\ MutualExclusion' /\ TypeOK
      BY DEF IInv
    <2>1. ASSUME NEW t \in Threads, lock_exchange(t)
          PROVE [Lock!Next]_Owner
      <3>1. CASE lockFlag = 1
        <4>1. \A u \in Threads : Holds(u)' <=> Holds(u)
          BY <2>1, <3>1, <2>inv DEF lock_exchange, Goto, Holds, TypeOK
        <4> QED
          BY <4>1, <2>inv, OwnerIs, OwnerIsNext
      <3>2. CASE lockFlag # 1
        <4>1. \A u \in Threads : ~Holds(u)
          BY <2>1, <3>2 DEF IInv, FlagMatchesHolder, UsersOnlyWhileUsable,
                            lock_exchange, Goto, Holds
        <4>2. Holds(t)'
          BY <2>1, <3>2, <2>inv DEF lock_exchange, Goto, Holds, TypeOK
        <4> QED
          BY <4>1, <4>2, <2>inv, OwnerIs, OwnerIsNext
             DEF Lock!Next, Lock!Acquire
      <3> QED
        BY <3>1, <3>2
    <2>2. ASSUME NEW t \in Threads, unlock_exchange(t)
          PROVE [Lock!Next]_Owner
      <3>1. Holds(t) /\ \A u \in Threads : ~Holds(u)'
        BY <2>2, <2>inv DEF unlock_exchange, Goto, Holds, TypeOK, MutualExclusion
      <3> QED
        BY <3>1, <2>inv, OwnerIs, OwnerIsNext DEF Lock!Next, Lock!Release
    <2>3. ASSUME \A u \in Threads : Holds(u)' <=> Holds(u)
          PROVE [Lock!Next]_Owner
      BY <2>3, <2>inv, OwnerIs, OwnerIsNext
    <2>4. ASSUME NEW t \in Threads,
                 mutex_init(t) \/ mutex_destroy(t) \/ mutex_lock(t)
                   \/ mutex_unlock(t) \/ lock_yield(t) \/ destroy_clear(t)
          PROVE \A u \in Threads : Holds(u)' <=> Holds(u)
      BY <2>4, <2>inv DEF mutex_init, mutex_destroy, mutex_lock, mutex_unlock,
                          lock_yield, destroy_clear, Goto, Holds, TypeOK
    <2>5. CASE UNCHANGED vars
      BY <2>5, <2>3 DEF vars, Holds
    <2> QED
      BY <2>1, <2>2, <2>3, <2>4, <2>5 DEF Next, Step
  <1> QED
    BY <1>1, <1>2, Invariance, PTL DEF Spec, ImplementsLock, Lock!Spec
=============================================================================
