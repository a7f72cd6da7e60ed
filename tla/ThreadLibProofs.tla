--------------------------- MODULE ThreadLibProofs ---------------------------
(***************************************************************************)
(* Proofs about ThreadLib.tla, for any number of threads, stacks and exit  *)
(* statuses.  Whatever the callers do and whatever fails, at most one      *)
(* joiner sleeps for a thread.  Of callers that join each thread at most   *)
(* once, while malloc() does not fail: no assertion is reached, no two     *)
(* running threads share a stack, thr_join() cleans up only after a thread *)
(* that is done, leaves nothing behind and returns the right status.       *)
(***************************************************************************)
EXTENDS ThreadLib, FiniteSetTheorems, SequenceTheorems, TLAPS

(* thread_list_mutex: who is inside a critical section is its owner. *)
Critical == {"c_pages", "c_fork", "c_insert", "j_check", "j_clean", "j_pages",
             "j_remove", "x_signal", "x_unlock"}
Joining  == {"j_lock", "j_check", "j_wait", "j_clean", "j_pages", "j_remove"}
Cleaning == {"j_clean", "j_pages", "j_remove"}
ExitLocations == {"x_unlock", "x_vanish", "gone"}

HoldersOwn == \A t \in Tids : pc[t] \in Critical => owner[ListMutex] = t

(* The local variables of thr_create() and thr_join(). *)
LocalsSet ==
  \A t \in Tids : /\ pc[t] \in Joining \cup {"c_insert"} => peer[t] \in Tids
                  /\ pc[t] \in {"c_fork", "c_insert"} => newSlot[t] \in 0..Slots

(* Nobody can find a thread that is not on the list yet. *)
Fresh(x) == pc[x] \in {"unborn", "start"} \/ Creating(x)

FreshHidden == \A x \in Tids : Fresh(x) => x \notin listed /\ queue[x] = <<>>

ChildrenBorn == \A x \in Tids : Creating(x) => pc[x] \notin {"unborn", "start"}

(* Who sleeps for a thread has marked it as joined. *)
SleepersMark ==
  \A x \in Tids : queue[x] # <<>> /\ ~panicked => td[x].joinedFlag = 1

(* The inductive invariant for any callers and any failures. *)
IInv == /\ TypeOK /\ HoldersOwn /\ LocalsSet
        /\ FreshHidden /\ ChildrenBorn /\ SleepersMark /\ OneWaiter

-----------------------------------------------------------------------------
(* Callers that join each thread at most once; enough memory. *)
GoodCase == WellBehaved /\ "malloc" \notin Failures

(* Before thr_init() there is one thread; it may be the only one for ever. *)
NotStarted == /\ pc[Root] \in {"start", "gone"}
              /\ \A u \in Tids \ {Root} : pc[u] = "unborn"

StartsAlone == \A t \in Tids : pc[t] = "start" => t = Root /\ NotStarted

(* Every thread that was created is known, until it is joined. *)
Known(x) == x \in listed \/ Creating(x)

UnclaimedKnown ==
  NotStarted \/ \A x \in Tids : pc[x] # "unborn" /\ x \notin claimed => Known(x)

RunningKnown == \A x \in Tids : Running(x) /\ pc[x] # "start" => Known(x)

RecordsLive == \A x \in Tids : td[x].mem = "live" <=> Known(x)

StartInv == StartsAlone /\ UnclaimedKnown /\ RunningKnown /\ RecordsLive

(* A thread has one joiner; it finds the thread, sleeps on its threadCond  *)
(* until it exits, and cleans up when it is done.                          *)
JoinersClaim == \A t \in Tids : pc[t] \in Joining =>
                   peer[t] \in claimed /\ Known(peer[t])

OneJoiner == \A t, u \in Tids : /\ pc[t] \in Joining /\ pc[u] \in Joining
                                /\ peer[t] = peer[u]
                                => t = u

SleepersJoin == \A x \in Tids : queue[x] # <<>> =>
                   /\ pc[queue[x][1]] = "j_wait" /\ peer[queue[x][1]] = x
                   /\ phase[queue[x][1]] = "waiting"

WokenMay == \A t \in Tids : phase[t] = "woken" =>
               pc[t] = "j_wait" /\ pc[peer[t]] \in ExitLocations

CleanersMay == \A t \in Tids : pc[t] \in Cleaning =>
                  pc[peer[t]] \in {"x_vanish", "gone"}

JoinInv == JoinersClaim /\ OneJoiner /\ SleepersJoin /\ WokenMay /\ CleanersMay

(* The thread_t says what its thread did. *)
ExitFlagTrue == \A x \in listed : td[x].exitFlag = 1 => pc[x] \in ExitLocations

StatusKept ==
  \A x \in Tids :
     /\ pc[x] \in {"x_lock", "x_signal"} => value[x] \in Statuses
     /\ x \in listed /\ pc[x] \in ExitLocations =>
          td[x].status = value[x] /\ value[x] \in Statuses

CondReady ==
  \A x \in listed : \/ td[x].cond = 1
                    \/ \E t \in Tids : pc[t] \in {"j_pages", "j_remove"} /\ peer[t] = x

(* A child cannot get through thr_exit() before thr_create() is done. *)
ChildrenWait == \A x \in Tids : Creating(x) => pc[x] \notin ExitLocations

RecordInv == /\ ExitFlagTrue /\ StatusKept /\ CondReady /\ JoinGetsStatus
             /\ ChildrenWait /\ NoPanic

(* A stack other than the root thread's belongs to the thread on it, until *)
(* its joiner has unmapped it, or to the thr_create() that has mapped it.  *)
Unmapped(x) == \E t \in Tids : pc[t] = "j_remove" /\ peer[t] = x
Holds(x) == x \in listed \ {Root} /\ ~Unmapped(x)
Maps(t) == pc[t] \in {"c_fork", "c_insert"}

RootStack == stackOf[Root] = 0 /\ 0 \in mapped /\ pc[Root] # "unborn"

BasesTrue ==
  \A x \in listed : /\ x = Root => td[x].baseAddress = NoSlot
                    /\ x # Root => /\ td[x].baseAddress = stackOf[x]
                                   /\ stackOf[x] \in 1..Slots

HeldMapped == \A x \in Tids : Holds(x) => stackOf[x] \in mapped

HeldOnce == \A x, y \in Tids : Holds(x) /\ Holds(y) /\ stackOf[x] = stackOf[y] => x = y

NewMapped == \A t \in Tids : Maps(t) =>
                /\ newSlot[t] \in mapped \ {0}
                /\ \A x \in Tids : Holds(x) => stackOf[x] # newSlot[t]

ChildrenOn == \A t \in Tids : pc[t] = "c_insert" =>
                 stackOf[peer[t]] = newSlot[t] /\ peer[t] # Root

MappedOwned ==
  \A slot \in mapped \ {0} : \/ \E t \in Tids : Maps(t) /\ newSlot[t] = slot
                             \/ \E x \in Tids : Holds(x) /\ stackOf[x] = slot

StackInv == /\ RootStack /\ BasesTrue /\ HeldMapped /\ HeldOnce /\ NewMapped
            /\ ChildrenOn /\ MappedOwned

(* The inductive invariant for the good case. *)
GInv == IInv /\ StartInv /\ JoinInv /\ RecordInv /\ StackInv

-----------------------------------------------------------------------------
(* What waits and signals do to a queue. *)
LEMMA LenFacts ==
  ASSUME NEW S, NEW l \in Seq(S)
  PROVE  Len(l) \in Nat /\ (l = <<>> <=> Len(l) = 0)
  OBVIOUS

LEMMA AppendFacts ==
  ASSUME NEW S, NEW l \in Seq(S), NEW e \in S
  PROVE  /\ Append(l, e) \in Seq(S) /\ Append(l, e) # <<>>
         /\ Len(Append(l, e)) = Len(l) + 1
         /\ Len(l) = 0 => Append(l, e)[1] = e
  <1>1. Len(l) = 0 => Len(l) + 1 = 1
    OBVIOUS
  <1> QED
    BY <1>1, AppendProperties

LEMMA RestFacts ==
  ASSUME NEW S, NEW l \in Seq(S), l # <<>>
  PROVE  /\ SubSeq(l, 2, Len(l)) \in Seq(S)
         /\ Len(l) \in Nat \ {0}
         /\ Len(SubSeq(l, 2, Len(l))) = Len(l) - 1
         /\ l[1] \in S
  <1>1. Len(l) \in Nat \ {0} /\ \A i \in 1..Len(l) : l[i] \in S
    BY EmptySeq, ElementOfSeq
  <1>2. /\ SubSeq(l, 2, Len(l)) \in Seq(S)
        /\ Len(SubSeq(l, 2, Len(l)))
             = IF 2 <= Len(l) THEN Len(l) - 2 + 1 ELSE 0
    BY <1>1, SubSeqProperties
  <1>3. ASSUME NEW n \in Nat \ {0}
        PROVE  (IF 2 <= n THEN n - 2 + 1 ELSE 0) = n - 1 /\ 1 \in 1..n
    OBVIOUS
  <1>4. Len(SubSeq(l, 2, Len(l))) = Len(l) - 1 /\ 1 \in 1..Len(l)
    BY <1>1, <1>2, <1>3
  <1> QED
    BY <1>1, <1>2, <1>4

(* cond_signal() of a queue of one thread empties it. *)
LEMMA WakeFacts ==
  ASSUME TypeOK, NEW t \in Tids, NEW q, q = queue[t], q # <<>>, WakeJoiner(t)
  PROVE  /\ q \in Seq(Tids) /\ q[1] \in Tids
         /\ queue' \in [Tids -> Seq(Tids)]
         /\ \A x \in Tids \ {t} : queue'[x] = queue[x]
         /\ Len(q) \in Nat \ {0} /\ Len(queue'[t]) = Len(q) - 1
         /\ Len(q) <= 1 => queue'[t] = <<>>
         /\ phase' = [phase EXCEPT ![q[1]] = "woken"]
         /\ UNCHANGED <<owner, held>>
  <1>1. q \in Seq(Tids)
    BY DEF TypeOK
  <1>2. /\ queue' = [queue EXCEPT ![t] = SubSeq(@, 2, Len(@))]
        /\ UNCHANGED <<owner, held>>
        /\ phase' = [u \in Tids |-> IF \E i \in 1..1 : q[i] = u
                                    THEN "woken" ELSE phase[u]]
    BY DEF WakeJoiner, CV!Signal, CV!Wake
  <1>3. ASSUME NEW u PROVE (\E i \in 1..1 : q[i] = u) <=> q[1] = u
    OBVIOUS
  <1>4. phase' = [phase EXCEPT ![q[1]] = "woken"]
    BY <1>2, <1>3 DEF TypeOK
  <1>5. /\ SubSeq(q, 2, Len(q)) \in Seq(Tids) /\ Len(q) \in Nat \ {0}
        /\ Len(SubSeq(q, 2, Len(q))) = Len(q) - 1 /\ q[1] \in Tids
    BY <1>1, RestFacts
  <1>6. queue'[t] = SubSeq(q, 2, Len(q)) /\ \A x \in Tids \ {t} : queue'[x] = queue[x]
    BY <1>2 DEF TypeOK
  <1>7. queue' \in [Tids -> Seq(Tids)]
    BY <1>2, <1>5 DEF TypeOK
  <1>8. Len(q) <= 1 => queue'[t] = <<>>
    <2>1. SUFFICES ASSUME Len(q) <= 1 PROVE queue'[t] = <<>>
      OBVIOUS
    <2>2. Len(queue'[t]) = 0
      BY <1>5, <1>6, <2>1
    <2> QED
      BY <2>2, <1>7, LenFacts
  <1> QED
    BY <1>1, <1>2, <1>4, <1>5, <1>6, <1>7, <1>8

(* The thread_t records: what each operation does to them. *)
LEMMA NewRecordFacts ==
  ASSUME NEW s \in 0..Slots \cup {NoSlot}
  PROVE  /\ NewRecord(s) \in Records
         /\ NewRecord(s).mem = "live" /\ NewRecord(s).cond = 1
         /\ NewRecord(s).exitFlag = 0 /\ NewRecord(s).joinedFlag = 0
         /\ NewRecord(s).status = NoStatus /\ NewRecord(s).baseAddress = s
  BY DEF NewRecord, NoRecord, Records

LEMMA ForkRecord ==
  ASSUME NEW f \in [Tids -> Records], NEW c \in Tids, NEW g,
         g = [f EXCEPT ![c].mem = "live", ![c].cond = 1]
  PROVE  /\ g \in [Tids -> Records] /\ \A x \in Tids \ {c} : g[x] = f[x]
         /\ g[c].mem = "live" /\ g[c].cond = 1
         /\ g[c].exitFlag = f[c].exitFlag /\ g[c].joinedFlag = f[c].joinedFlag
         /\ g[c].status = f[c].status /\ g[c].baseAddress = f[c].baseAddress
  BY DEF Records

LEMMA DropRecord ==
  ASSUME NEW f \in [Tids -> Records], NEW c \in Tids, NEW g,
         g = [f EXCEPT ![c].mem = "freed", ![c].cond = 0]
  PROVE  /\ g \in [Tids -> Records] /\ \A x \in Tids \ {c} : g[x] = f[x]
         /\ g[c].mem = "freed" /\ g[c].cond = 0
         /\ g[c].exitFlag = f[c].exitFlag /\ g[c].joinedFlag = f[c].joinedFlag
         /\ g[c].status = f[c].status /\ g[c].baseAddress = f[c].baseAddress
  BY DEF Records

LEMMA CleanRecord ==
  ASSUME NEW f \in [Tids -> Records], NEW c \in Tids, NEW g,
         g = [f EXCEPT ![c].joinedFlag = 0, ![c].exitFlag = 1, ![c].cond = 0]
  PROVE  /\ g \in [Tids -> Records] /\ \A x \in Tids \ {c} : g[x] = f[x]
         /\ g[c].mem = f[c].mem /\ g[c].cond = 0
         /\ g[c].exitFlag = 1 /\ g[c].joinedFlag = 0
         /\ g[c].status = f[c].status /\ g[c].baseAddress = f[c].baseAddress
  BY DEF Records

LEMMA FreeRecord ==
  ASSUME NEW f \in [Tids -> Records], NEW c \in Tids, NEW g,
         g = [f EXCEPT ![c].mem = "freed"]
  PROVE  /\ g \in [Tids -> Records] /\ \A x \in Tids \ {c} : g[x] = f[x]
         /\ g[c].mem = "freed" /\ g[c].cond = f[c].cond
         /\ g[c].exitFlag = f[c].exitFlag /\ g[c].joinedFlag = f[c].joinedFlag
         /\ g[c].status = f[c].status /\ g[c].baseAddress = f[c].baseAddress
  BY DEF Records

LEMMA JoinRecord ==
  ASSUME NEW f \in [Tids -> Records], NEW c \in Tids, NEW g,
         g = [f EXCEPT ![c] = Joined(@)]
  PROVE  /\ g \in [Tids -> Records] /\ \A x \in Tids \ {c} : g[x] = f[x]
         /\ g[c].mem = f[c].mem /\ g[c].cond = f[c].cond
         /\ g[c].exitFlag = f[c].exitFlag /\ g[c].joinedFlag = 1
         /\ g[c].status = f[c].status /\ g[c].baseAddress = f[c].baseAddress
  BY DEF Records, Joined

LEMMA ExitRecord ==
  ASSUME NEW f \in [Tids -> Records], NEW c \in Tids, NEW v \in Statuses \cup {NoStatus}, NEW g,
         g = [f EXCEPT ![c] = Exited(@, v)]
  PROVE  /\ g \in [Tids -> Records] /\ \A x \in Tids \ {c} : g[x] = f[x]
         /\ g[c].mem = f[c].mem /\ g[c].cond = f[c].cond
         /\ g[c].exitFlag = 1 /\ g[c].joinedFlag = 0
         /\ g[c].status = v /\ g[c].baseAddress = f[c].baseAddress
  BY DEF Records, Exited

(* What the operations do to a thread_t. *)
LEMMA InsertEffect ==
  ASSUME TypeOK, NEW t \in Tids, peer[t] \in Tids, newSlot[t] \in 0..Slots, c_insert(t)
  PROVE  /\ \A x \in Tids \ {peer[t]} : td'[x] = td[x]
         /\ td'[peer[t]].mem = "live" /\ td'[peer[t]].cond = 1
         /\ td'[peer[t]].exitFlag = 0 /\ td'[peer[t]].joinedFlag = 0
         /\ td'[peer[t]].status = NoStatus /\ td'[peer[t]].baseAddress = newSlot[t]
  <1>1. td \in [Tids -> Records] /\ td' = [td EXCEPT ![peer[t]] = NewRecord(newSlot[t])]
    BY DEF TypeOK, c_insert
  <1> QED
    BY <1>1 DEF Records, NewRecord, NoRecord

LEMMA DropEffect ==
  ASSUME TypeOK, NEW t \in Tids, peer[t] \in Tids, c_insert_fails(t)
  PROVE  /\ \A x \in Tids \ {peer[t]} : td'[x] = td[x]
         /\ td'[peer[t]].mem = "freed" /\ td'[peer[t]].cond = 0
         /\ td'[peer[t]].exitFlag = td[peer[t]].exitFlag /\ td'[peer[t]].joinedFlag = td[peer[t]].joinedFlag
         /\ td'[peer[t]].status = td[peer[t]].status /\ td'[peer[t]].baseAddress = td[peer[t]].baseAddress
  <1>1. td \in [Tids -> Records] /\ td' = [td EXCEPT ![peer[t]].mem = "freed", ![peer[t]].cond = 0]
    BY DEF TypeOK, c_insert_fails
  <1> QED
    BY <1>1 DEF Records

LEMMA CleanEffect ==
  ASSUME TypeOK, NEW t \in Tids, peer[t] \in Tids, j_clean(t)
  PROVE  /\ \A x \in Tids \ {peer[t]} : td'[x] = td[x]
         /\ td'[peer[t]].mem = td[peer[t]].mem /\ td'[peer[t]].cond = 0
         /\ td'[peer[t]].exitFlag = 1 /\ td'[peer[t]].joinedFlag = 0
         /\ td'[peer[t]].status = td[peer[t]].status /\ td'[peer[t]].baseAddress = td[peer[t]].baseAddress
  <1>1. td \in [Tids -> Records] /\ td' = [td EXCEPT ![peer[t]].joinedFlag = 0,
                      ![peer[t]].exitFlag = 1, ![peer[t]].cond = 0]
    BY DEF TypeOK, j_clean
  <1> QED
    BY <1>1 DEF Records

LEMMA RemoveEffect ==
  ASSUME TypeOK, NEW t \in Tids, peer[t] \in Tids, j_remove(t)
  PROVE  /\ \A x \in Tids \ {peer[t]} : td'[x] = td[x]
         /\ td'[peer[t]].mem = "freed" /\ td'[peer[t]].cond = td[peer[t]].cond
         /\ td'[peer[t]].exitFlag = td[peer[t]].exitFlag /\ td'[peer[t]].joinedFlag = td[peer[t]].joinedFlag
         /\ td'[peer[t]].status = td[peer[t]].status /\ td'[peer[t]].baseAddress = td[peer[t]].baseAddress
  <1>1. td \in [Tids -> Records] /\ td' = [td EXCEPT ![peer[t]].mem = "freed"]
    BY DEF TypeOK, j_remove
  <1> QED
    BY <1>1 DEF Records

LEMMA WaitEffect ==
  ASSUME TypeOK, NEW t \in Tids, peer[t] \in Tids, j_waits(t)
  PROVE  /\ \A x \in Tids \ {peer[t]} : td'[x] = td[x]
         /\ td'[peer[t]].mem = td[peer[t]].mem /\ td'[peer[t]].cond = td[peer[t]].cond
         /\ td'[peer[t]].exitFlag = td[peer[t]].exitFlag /\ td'[peer[t]].joinedFlag = 1
         /\ td'[peer[t]].status = td[peer[t]].status /\ td'[peer[t]].baseAddress = td[peer[t]].baseAddress
  <1>1. td \in [Tids -> Records] /\ td' = [td EXCEPT ![peer[t]] = Joined(@)]
    BY DEF TypeOK, j_waits
  <1> QED
    BY <1>1 DEF Records, Joined

LEMMA ExitEffect ==
  ASSUME TypeOK, NEW t \in Tids, x_signal(t)
  PROVE  /\ \A x \in Tids \ {t} : td'[x] = td[x]
         /\ td'[t].mem = td[t].mem /\ td'[t].cond = td[t].cond
         /\ td'[t].exitFlag = 1 /\ td'[t].joinedFlag = 0
         /\ td'[t].status = value[t] /\ td'[t].baseAddress = td[t].baseAddress
  <1>1. td \in [Tids -> Records] /\ td' = [td EXCEPT ![t] = Exited(@, value[t])]
    BY DEF TypeOK, x_signal
  <1> QED
    BY <1>1 DEF Records, Exited

(* thread_fork() starts a thread that did not exist. *)
LEMMA ForkEffect ==
  ASSUME TypeOK, NEW t \in Tids, c_fork(t)
  PROVE  \E c \in Tids :
            /\ pc[t] = "c_fork" /\ pc[c] = "unborn" /\ c # t
            /\ pc' = [pc EXCEPT ![t] = "c_insert", ![c] = "app"]
            /\ stackOf' = [stackOf EXCEPT ![c] = newSlot[t]]
            /\ peer' = [peer EXCEPT ![t] = c]
            /\ td' \in [Tids -> Records]
            /\ \A x \in Tids \ {c} : td'[x] = td[x]
            /\ td'[c].mem = "live" /\ td'[c].cond = 1
            /\ td'[c].joinedFlag = td[c].joinedFlag
            /\ UNCHANGED <<cvVars, listed, top, mapped, newSlot, value, callVars,
                           panicked>>
  <1>1. PICK c \in Tids :
          /\ pc[c] = "unborn"
          /\ pc' = [pc EXCEPT ![t] = "c_insert", ![c] = "app"]
          /\ stackOf' = [stackOf EXCEPT ![c] = newSlot[t]]
          /\ td' = [td EXCEPT ![c].mem = "live", ![c].cond = 1]
          /\ peer' = [peer EXCEPT ![t] = c]
    BY DEF c_fork
  <1>2. /\ td' \in [Tids -> Records]
        /\ \A x \in Tids \ {c} : td'[x] = td[x]
        /\ td'[c].mem = "live" /\ td'[c].cond = 1
        /\ td'[c].joinedFlag = td[c].joinedFlag
    <2>1. td \in [Tids -> Records] /\ td' = [td EXCEPT ![c].mem = "live", ![c].cond = 1]
      BY <1>1 DEF TypeOK
    <2> QED
      BY <2>1 DEF Records
  <1> QED
    BY <1>1, <1>2 DEF c_fork

(* Types are preserved. *)
LEMMA TypesStep ==
  ASSUME TypeOK, LocalsSet, [Next]_vars
  PROVE  TypeOK'
  <1> USE ThreadAssumption DEF TypeOK, cvVars, stackVars, callVars, Mutexes, ListMutex, Goto, AssertThat, Locations
  <1>1. ASSUME NEW t \in Tids, Runs(t), thr_init(t) PROVE TypeOK'
    <2>1. NewRecord(NoSlot) \in Records
      BY NewRecordFacts
    <2> QED
      BY <1>1, <2>1 DEF thr_init
  <1>2. ASSUME NEW t \in Tids, Runs(t), thr_init_fails(t) PROVE TypeOK'
    <2>1. td' \in [Tids -> Records]
      <3>1. td' = td \/ td' = [td EXCEPT ![t] = NewRecord(NoSlot)]
        BY <1>2 DEF thr_init_fails
      <3>2. NewRecord(NoSlot) \in Records
        BY NewRecordFacts
      <3>3. CASE td' = [td EXCEPT ![t] = NewRecord(NoSlot)]
        BY <3>2, <3>3
      <3> QED
        BY <3>1, <3>3
    <2> QED
      BY <1>2, <2>1 DEF thr_init_fails
  <1>3. ASSUME NEW t \in Tids, Runs(t), thr_init_malloc_null(t) PROVE TypeOK'
    BY <1>3 DEF thr_init_malloc_null
  <1>4. ASSUME NEW t \in Tids, Runs(t), thr_create(t) PROVE TypeOK'
    BY <1>4 DEF thr_create
  <1>5. ASSUME NEW t \in Tids, Runs(t), c_lock(t) PROVE TypeOK'
    BY <1>5 DEF c_lock, Lock, CV!Lock
  <1>6. ASSUME NEW t \in Tids, Runs(t), c_null_func(t) PROVE TypeOK'
    BY <1>6 DEF c_null_func, CreateFails, Unlock, CV!Unlock
  <1>7. ASSUME NEW t \in Tids, Runs(t), c_pages(t) PROVE TypeOK'
    BY <1>7 DEF c_pages, Candidates
  <1>8. ASSUME NEW t \in Tids, Runs(t), c_no_pages(t) PROVE TypeOK'
    BY <1>8 DEF c_no_pages, CreateFails, Unlock, CV!Unlock
  <1>9. ASSUME NEW t \in Tids, Runs(t), c_malloc_null(t) PROVE TypeOK'
    BY <1>9 DEF c_malloc_null, CreateFails, Unlock, CV!Unlock
  <1>10. ASSUME NEW t \in Tids, Runs(t), c_fork(t) PROVE TypeOK'
    <2>1. PICK c \in Tids :
            /\ pc[c] = "unborn"
            /\ pc' = [pc EXCEPT ![t] = "c_insert", ![c] = "app"]
            /\ stackOf' = [stackOf EXCEPT ![c] = newSlot[t]]
            /\ td' = [td EXCEPT ![c].mem = "live", ![c].cond = 1]
            /\ peer' = [peer EXCEPT ![t] = c]
      BY <1>10 DEF c_fork
    <2>2. td' \in [Tids -> Records]
      BY <2>1, ForkRecord
    <2> QED
      BY <1>10, <2>1, <2>2 DEF c_fork
  <1>11. ASSUME NEW t \in Tids, Runs(t), c_fork_fails(t) PROVE TypeOK'
    BY <1>11 DEF c_fork_fails, ReturnPages, CreateFails, Unlock, CV!Unlock
  <1>12. ASSUME NEW t \in Tids, Runs(t), c_insert(t) PROVE TypeOK'
    <2>1. peer[t] \in Tids /\ newSlot[t] \in 0..Slots
      BY <1>12 DEF c_insert, LocalsSet
    <2>2. NewRecord(newSlot[t]) \in Records
      BY <2>1, NewRecordFacts
    <2> QED
      BY <1>12, <2>1, <2>2 DEF c_insert, Inserted, Unlock, CV!Unlock
  <1>13. ASSUME NEW t \in Tids, Runs(t), c_insert_fails(t) PROVE TypeOK'
    <2>1. peer[t] \in Tids
      BY <1>13
         DEF c_insert_fails, ReturnPages, CreateFails, Unlock, CV!Unlock,
             LocalsSet, Joining
    <2>2. td' \in [Tids -> Records]
      BY <1>13, <2>1, DropRecord
         DEF c_insert_fails, ReturnPages, CreateFails, Unlock, CV!Unlock
    <2> QED
      BY <1>13, <2>1, <2>2
         DEF c_insert_fails, ReturnPages, CreateFails, Unlock, CV!Unlock
  <1>14. ASSUME NEW t \in Tids, NEW x \in Tids, Runs(t), thr_join(t, x)
         PROVE  TypeOK'
    BY <1>14 DEF thr_join
  <1>15. ASSUME NEW t \in Tids, Runs(t), j_lock(t) PROVE TypeOK'
    BY <1>15 DEF j_lock, Lock, CV!Lock
  <1>16. ASSUME NEW t \in Tids, Runs(t), j_not_found(t) PROVE TypeOK'
    BY <1>16 DEF j_not_found
  <1>17. ASSUME NEW t \in Tids, Runs(t), j_refused(t) PROVE TypeOK'
    BY <1>17 DEF j_refused, JoinReturns, Unlock, CV!Unlock
  <1>18. ASSUME NEW t \in Tids, Runs(t), j_waits(t) PROVE TypeOK'
    <2>1. peer[t] \in Tids
      BY <1>18 DEF j_waits, LocalsSet, Joining
    <2>2. td' \in [Tids -> Records]
      BY <1>18, <2>1, JoinRecord DEF j_waits
    <2>3. Append(queue[peer[t]], t) \in Seq(Tids)
      BY <2>1, AppendFacts
    <2>4. queue' \in [Tids -> Seq(Tids)]
      BY <1>18, <2>1, <2>3 DEF j_waits, CV!Wait
    <2> QED
      BY <1>18, <2>2, <2>4 DEF j_waits, CV!Wait
  <1>19. ASSUME NEW t \in Tids, Runs(t), j_exited(t) PROVE TypeOK'
    BY <1>19 DEF j_exited, MustWait
  <1>20. ASSUME NEW t \in Tids, Runs(t), j_woken(t) PROVE TypeOK'
    BY <1>20 DEF j_woken, CV!Return
  <1>21. ASSUME NEW t \in Tids, Runs(t), j_clean(t) PROVE TypeOK'
    <2>1. peer[t] \in Tids
      BY <1>21 DEF j_clean, LocalsSet, Joining
    <2>2. td' \in [Tids -> Records]
      BY <1>21, <2>1, CleanRecord DEF j_clean
    <2>3. got' \in [Tids -> Statuses \cup {NoStatus}]
      BY <1>21, <2>1 DEF j_clean, Records
    <2> QED
      BY <1>21, <2>2, <2>3 DEF j_clean
  <1>22. ASSUME NEW t \in Tids, Runs(t), j_pages(t) PROVE TypeOK'
    BY <1>22 DEF j_pages
  <1>23. ASSUME NEW t \in Tids, Runs(t), j_remove(t) PROVE TypeOK'
    <2>1. peer[t] \in Tids
      BY <1>23 DEF j_remove, JoinReturns, Unlock, CV!Unlock, LocalsSet, Joining
    <2>2. td' \in [Tids -> Records]
      BY <1>23, <2>1, FreeRecord DEF j_remove, JoinReturns, Unlock, CV!Unlock
    <2> QED
      BY <1>23, <2>1, <2>2 DEF j_remove, JoinReturns, Unlock, CV!Unlock
  <1>24. ASSUME NEW t \in Tids, NEW v \in Statuses, Runs(t), thr_exit(t, v)
         PROVE  TypeOK'
    BY <1>24 DEF thr_exit
  <1>25. ASSUME NEW t \in Tids, Runs(t), x_lock(t) PROVE TypeOK'
    BY <1>25 DEF x_lock, Lock, CV!Lock
  <1>26. ASSUME NEW t \in Tids, Runs(t), x_signal(t) PROVE TypeOK'
    <2>1. td' \in [Tids -> Records]
      BY <1>26, ExitRecord DEF x_signal
    <2>2. /\ queue' \in [Tids -> Seq(Tids)] /\ UNCHANGED <<owner, held>>
          /\ phase' \in [Tids -> {"running", "waiting", "woken"}]
      <3>1. CASE queue[t] = <<>>
        BY <1>26, <3>1 DEF x_signal, WakeJoiner
      <3>2. CASE queue[t] # <<>>
        BY <1>26, <3>2, WakeFacts DEF x_signal
      <3> QED
        BY <3>1, <3>2
    <2> QED
      BY <1>26, <2>1, <2>2 DEF x_signal
  <1>27. ASSUME NEW t \in Tids, Runs(t), x_unlock(t) PROVE TypeOK'
    BY <1>27 DEF x_unlock, Unlock, CV!Unlock
  <1>28. ASSUME NEW t \in Tids, Runs(t), vanish(t) PROVE TypeOK'
    BY <1>28 DEF vanish
  <1>29. ASSUME NEW t \in Tids, Faults(t) PROVE TypeOK'
    BY <1>29 DEF Faults, fault
  <1>30. CASE UNCHANGED vars
    BY <1>30
       DEF vars, GInv, StartInv, StartsAlone, UnclaimedKnown, RunningKnown,
                  RecordsLive, Known, Creating, Running, Alive, NotStarted
  <1> QED
    BY <1>1, <1>2, <1>3, <1>4, <1>5, <1>6, <1>7, <1>8, <1>9, <1>10,
       <1>11, <1>12, <1>13, <1>14, <1>15, <1>16, <1>17, <1>18, <1>19,
       <1>20, <1>21, <1>22, <1>23, <1>24, <1>25, <1>26, <1>27, <1>28,
       <1>29, <1>30
       DEF Next, AppStep, LibStep

(* thread_list_mutex excludes, also while threads fault. *)
LEMMA LocksStep ==
  ASSUME TypeOK, HoldersOwn, LocalsSet, [Next]_vars
  PROVE  HoldersOwn' /\ LocalsSet'
  <1> USE ThreadAssumption DEF HoldersOwn, LocalsSet, Critical, Joining, cvVars, stackVars, callVars, Mutexes, ListMutex, Goto, AssertThat, Locations, Runs
  <1>types. /\ pc \in [Tids -> Locations] /\ peer \in [Tids -> Tids \cup {NoTid}]
            /\ newSlot \in [Tids -> 0..Slots \cup {NoSlot}]
            /\ owner \in [{ListMutex} -> Tids \cup {NoTid}]
            /\ mapped \subseteq 0..Slots /\ top \in 0..Slots
    BY DEF TypeOK
  <1>1. ASSUME NEW t \in Tids, Runs(t), thr_init(t)
        PROVE  HoldersOwn' /\ LocalsSet'
    BY <1>1, <1>types DEF thr_init, NewRecord, NoRecord
  <1>2. ASSUME NEW t \in Tids, Runs(t), thr_init_fails(t)
        PROVE  HoldersOwn' /\ LocalsSet'
    BY <1>2, <1>types DEF thr_init_fails, NewRecord, NoRecord
  <1>3. ASSUME NEW t \in Tids, Runs(t), thr_init_malloc_null(t)
        PROVE  HoldersOwn' /\ LocalsSet'
    BY <1>3, <1>types DEF thr_init_malloc_null
  <1>4. ASSUME NEW t \in Tids, Runs(t), thr_create(t)
        PROVE  HoldersOwn' /\ LocalsSet'
    BY <1>4, <1>types DEF thr_create
  <1>5. ASSUME NEW t \in Tids, Runs(t), c_lock(t)
        PROVE  HoldersOwn' /\ LocalsSet'
    BY <1>5, <1>types DEF c_lock, Lock, CV!Lock
  <1>6. ASSUME NEW t \in Tids, Runs(t), c_null_func(t)
        PROVE  HoldersOwn' /\ LocalsSet'
    BY <1>6, <1>types DEF c_null_func, CreateFails, Unlock, CV!Unlock
  <1>7. ASSUME NEW t \in Tids, Runs(t), c_pages(t)
        PROVE  HoldersOwn' /\ LocalsSet'
    BY <1>7, <1>types DEF c_pages, Candidates
  <1>8. ASSUME NEW t \in Tids, Runs(t), c_no_pages(t)
        PROVE  HoldersOwn' /\ LocalsSet'
    BY <1>8, <1>types DEF c_no_pages, CreateFails, Unlock, CV!Unlock
  <1>9. ASSUME NEW t \in Tids, Runs(t), c_malloc_null(t)
        PROVE  HoldersOwn' /\ LocalsSet'
    BY <1>9, <1>types DEF c_malloc_null, CreateFails, Unlock, CV!Unlock
  <1>10. ASSUME NEW t \in Tids, Runs(t), c_fork(t)
         PROVE  HoldersOwn' /\ LocalsSet'
    BY <1>10, <1>types DEF c_fork
  <1>11. ASSUME NEW t \in Tids, Runs(t), c_fork_fails(t)
         PROVE  HoldersOwn' /\ LocalsSet'
    BY <1>11, <1>types
       DEF c_fork_fails, ReturnPages, CreateFails, Unlock, CV!Unlock
  <1>12. ASSUME NEW t \in Tids, Runs(t), c_insert(t)
         PROVE  HoldersOwn' /\ LocalsSet'
    BY <1>12, <1>types
       DEF c_insert, Inserted, NewRecord, NoRecord, Unlock, CV!Unlock
  <1>13. ASSUME NEW t \in Tids, Runs(t), c_insert_fails(t)
         PROVE  HoldersOwn' /\ LocalsSet'
    BY <1>13, <1>types
       DEF c_insert_fails, ReturnPages, CreateFails, Unlock, CV!Unlock
  <1>14. ASSUME NEW t \in Tids, NEW x \in Tids, Runs(t), thr_join(t, x)
         PROVE  HoldersOwn' /\ LocalsSet'
    BY <1>14, <1>types DEF thr_join
  <1>15. ASSUME NEW t \in Tids, Runs(t), j_lock(t)
         PROVE  HoldersOwn' /\ LocalsSet'
    BY <1>15, <1>types DEF j_lock, Lock, CV!Lock
  <1>16. ASSUME NEW t \in Tids, Runs(t), j_not_found(t)
         PROVE  HoldersOwn' /\ LocalsSet'
    BY <1>16, <1>types DEF j_not_found
  <1>17. ASSUME NEW t \in Tids, Runs(t), j_refused(t)
         PROVE  HoldersOwn' /\ LocalsSet'
    BY <1>17, <1>types DEF j_refused, JoinReturns, Unlock, CV!Unlock
  <1>18. ASSUME NEW t \in Tids, Runs(t), j_waits(t)
         PROVE  HoldersOwn' /\ LocalsSet'
    BY <1>18, <1>types DEF j_waits, Joined, MustWait, CV!Wait
  <1>19. ASSUME NEW t \in Tids, Runs(t), j_exited(t)
         PROVE  HoldersOwn' /\ LocalsSet'
    BY <1>19, <1>types DEF j_exited, MustWait
  <1>20. ASSUME NEW t \in Tids, Runs(t), j_woken(t)
         PROVE  HoldersOwn' /\ LocalsSet'
    BY <1>20, <1>types DEF j_woken, CV!Return
  <1>21. ASSUME NEW t \in Tids, Runs(t), j_clean(t)
         PROVE  HoldersOwn' /\ LocalsSet'
    BY <1>21, <1>types DEF j_clean
  <1>22. ASSUME NEW t \in Tids, Runs(t), j_pages(t)
         PROVE  HoldersOwn' /\ LocalsSet'
    BY <1>22, <1>types DEF j_pages
  <1>23. ASSUME NEW t \in Tids, Runs(t), j_remove(t)
         PROVE  HoldersOwn' /\ LocalsSet'
    BY <1>23, <1>types DEF j_remove, JoinReturns, Unlock, CV!Unlock
  <1>24. ASSUME NEW t \in Tids, NEW v \in Statuses, Runs(t), thr_exit(t, v)
         PROVE  HoldersOwn' /\ LocalsSet'
    BY <1>24, <1>types DEF thr_exit
  <1>25. ASSUME NEW t \in Tids, Runs(t), x_lock(t)
         PROVE  HoldersOwn' /\ LocalsSet'
    BY <1>25, <1>types DEF x_lock, Lock, CV!Lock
  <1>26. ASSUME NEW t \in Tids, Runs(t), x_signal(t)
         PROVE  HoldersOwn' /\ LocalsSet'
    <2>1. owner' = owner
      <3>1. CASE queue[t] = <<>>
        BY <1>26, <3>1 DEF x_signal, WakeJoiner
      <3>2. CASE queue[t] # <<>>
        BY <1>26, <3>2, WakeFacts DEF x_signal
      <3> QED
        BY <3>1, <3>2
    <2> QED
      BY <1>26, <2>1, <1>types DEF x_signal
  <1>27. ASSUME NEW t \in Tids, Runs(t), x_unlock(t)
         PROVE  HoldersOwn' /\ LocalsSet'
    BY <1>27, <1>types DEF x_unlock, Unlock, CV!Unlock
  <1>28. ASSUME NEW t \in Tids, Runs(t), vanish(t)
         PROVE  HoldersOwn' /\ LocalsSet'
    BY <1>28, <1>types DEF vanish
  <1>29. ASSUME NEW t \in Tids, Faults(t) PROVE HoldersOwn' /\ LocalsSet'
    BY <1>29, <1>types DEF Faults, fault
  <1>30. CASE UNCHANGED vars
    BY <1>30, <1>types DEF vars
  <1> QED
    BY <1>1, <1>2, <1>3, <1>4, <1>5, <1>6, <1>7, <1>8, <1>9, <1>10,
       <1>11, <1>12, <1>13, <1>14, <1>15, <1>16, <1>17, <1>18, <1>19,
       <1>20, <1>21, <1>22, <1>23, <1>24, <1>25, <1>26, <1>27, <1>28,
       <1>29, <1>30
       DEF Next, AppStep, LibStep

(* A thread is found only after it was inserted. *)
LEMMA FreshStep ==
  ASSUME TypeOK, TypeOK', HoldersOwn, LocalsSet, FreshHidden, ChildrenBorn, [Next]_vars
  PROVE  FreshHidden' /\ ChildrenBorn'
  <1> USE ThreadAssumption DEF FreshHidden, ChildrenBorn, Fresh, Creating, HoldersOwn, LocalsSet, Critical, Joining, cvVars, stackVars, callVars, Mutexes, ListMutex, Goto, AssertThat, Locations, Runs
  <1>types. /\ pc \in [Tids -> Locations] /\ peer \in [Tids -> Tids \cup {NoTid}]
            /\ queue \in [Tids -> Seq(Tids)] /\ listed \subseteq Tids
            /\ td \in [Tids -> Records] /\ td' \in [Tids -> Records]
    BY DEF TypeOK
  <1>1. ASSUME NEW t \in Tids, Runs(t), thr_init(t)
        PROVE  FreshHidden' /\ ChildrenBorn'
    BY <1>1, <1>types DEF thr_init, NewRecord, NoRecord
  <1>2. ASSUME NEW t \in Tids, Runs(t), thr_init_fails(t)
        PROVE  FreshHidden' /\ ChildrenBorn'
    BY <1>2, <1>types DEF thr_init_fails, NewRecord, NoRecord
  <1>3. ASSUME NEW t \in Tids, Runs(t), thr_init_malloc_null(t)
        PROVE  FreshHidden' /\ ChildrenBorn'
    BY <1>3, <1>types DEF thr_init_malloc_null
  <1>4. ASSUME NEW t \in Tids, Runs(t), thr_create(t)
        PROVE  FreshHidden' /\ ChildrenBorn'
    BY <1>4, <1>types DEF thr_create
  <1>5. ASSUME NEW t \in Tids, Runs(t), c_lock(t)
        PROVE  FreshHidden' /\ ChildrenBorn'
    BY <1>5, <1>types DEF c_lock, Lock, CV!Lock
  <1>6. ASSUME NEW t \in Tids, Runs(t), c_null_func(t)
        PROVE  FreshHidden' /\ ChildrenBorn'
    BY <1>6, <1>types DEF c_null_func, CreateFails, Unlock, CV!Unlock
  <1>7. ASSUME NEW t \in Tids, Runs(t), c_pages(t)
        PROVE  FreshHidden' /\ ChildrenBorn'
    BY <1>7, <1>types DEF c_pages, Candidates
  <1>8. ASSUME NEW t \in Tids, Runs(t), c_no_pages(t)
        PROVE  FreshHidden' /\ ChildrenBorn'
    BY <1>8, <1>types DEF c_no_pages, CreateFails, Unlock, CV!Unlock
  <1>9. ASSUME NEW t \in Tids, Runs(t), c_malloc_null(t)
        PROVE  FreshHidden' /\ ChildrenBorn'
    BY <1>9, <1>types DEF c_malloc_null, CreateFails, Unlock, CV!Unlock
  <1>10. ASSUME NEW t \in Tids, Runs(t), c_fork(t)
         PROVE  FreshHidden' /\ ChildrenBorn'
    BY <1>10, <1>types DEF c_fork
  <1>11. ASSUME NEW t \in Tids, Runs(t), c_fork_fails(t)
         PROVE  FreshHidden' /\ ChildrenBorn'
    BY <1>11, <1>types
       DEF c_fork_fails, ReturnPages, CreateFails, Unlock, CV!Unlock
  <1>12. ASSUME NEW t \in Tids, Runs(t), c_insert(t)
         PROVE  FreshHidden' /\ ChildrenBorn'
    BY <1>12, <1>types
       DEF c_insert, Inserted, NewRecord, NoRecord, Unlock, CV!Unlock
  <1>13. ASSUME NEW t \in Tids, Runs(t), c_insert_fails(t)
         PROVE  FreshHidden' /\ ChildrenBorn'
    BY <1>13, <1>types
       DEF c_insert_fails, ReturnPages, CreateFails, Unlock, CV!Unlock
  <1>14. ASSUME NEW t \in Tids, NEW x \in Tids, Runs(t), thr_join(t, x)
         PROVE  FreshHidden' /\ ChildrenBorn'
    BY <1>14, <1>types DEF thr_join
  <1>15. ASSUME NEW t \in Tids, Runs(t), j_lock(t)
         PROVE  FreshHidden' /\ ChildrenBorn'
    BY <1>15, <1>types DEF j_lock, Lock, CV!Lock
  <1>16. ASSUME NEW t \in Tids, Runs(t), j_not_found(t)
         PROVE  FreshHidden' /\ ChildrenBorn'
    BY <1>16, <1>types DEF j_not_found
  <1>17. ASSUME NEW t \in Tids, Runs(t), j_refused(t)
         PROVE  FreshHidden' /\ ChildrenBorn'
    BY <1>17, <1>types DEF j_refused, JoinReturns, Unlock, CV!Unlock
  <1>18. ASSUME NEW t \in Tids, Runs(t), j_waits(t)
         PROVE  FreshHidden' /\ ChildrenBorn'
    BY <1>18, <1>types DEF j_waits, Joined, MustWait, CV!Wait
  <1>19. ASSUME NEW t \in Tids, Runs(t), j_exited(t)
         PROVE  FreshHidden' /\ ChildrenBorn'
    BY <1>19, <1>types DEF j_exited, MustWait
  <1>20. ASSUME NEW t \in Tids, Runs(t), j_woken(t)
         PROVE  FreshHidden' /\ ChildrenBorn'
    BY <1>20, <1>types DEF j_woken, CV!Return
  <1>21. ASSUME NEW t \in Tids, Runs(t), j_clean(t)
         PROVE  FreshHidden' /\ ChildrenBorn'
    BY <1>21, <1>types DEF j_clean
  <1>22. ASSUME NEW t \in Tids, Runs(t), j_pages(t)
         PROVE  FreshHidden' /\ ChildrenBorn'
    BY <1>22, <1>types DEF j_pages
  <1>23. ASSUME NEW t \in Tids, Runs(t), j_remove(t)
         PROVE  FreshHidden' /\ ChildrenBorn'
    BY <1>23, <1>types DEF j_remove, JoinReturns, Unlock, CV!Unlock
  <1>24. ASSUME NEW t \in Tids, NEW v \in Statuses, Runs(t), thr_exit(t, v)
         PROVE  FreshHidden' /\ ChildrenBorn'
    BY <1>24, <1>types DEF thr_exit
  <1>25. ASSUME NEW t \in Tids, Runs(t), x_lock(t)
         PROVE  FreshHidden' /\ ChildrenBorn'
    BY <1>25, <1>types DEF x_lock, Lock, CV!Lock
  <1>26. ASSUME NEW t \in Tids, Runs(t), x_signal(t)
         PROVE  FreshHidden' /\ ChildrenBorn'
    <2>1. \A x \in Tids \ {t} : queue'[x] = queue[x]
      <3>1. CASE queue[t] = <<>>
        BY <1>26, <3>1 DEF x_signal, WakeJoiner
      <3>2. CASE queue[t] # <<>>
        BY <1>26, <3>2, WakeFacts DEF x_signal
      <3> QED
        BY <3>1, <3>2
    <2>2. queue[t] = <<>> => queue'[t] = <<>>
      BY <1>26 DEF x_signal, WakeJoiner
    <2> QED
      BY <1>26, <2>1, <2>2, <1>types DEF x_signal
  <1>27. ASSUME NEW t \in Tids, Runs(t), x_unlock(t)
         PROVE  FreshHidden' /\ ChildrenBorn'
    BY <1>27, <1>types DEF x_unlock, Unlock, CV!Unlock
  <1>28. ASSUME NEW t \in Tids, Runs(t), vanish(t)
         PROVE  FreshHidden' /\ ChildrenBorn'
    BY <1>28, <1>types DEF vanish
  <1>29. ASSUME NEW t \in Tids, Faults(t) PROVE FreshHidden' /\ ChildrenBorn'
    BY <1>29, <1>types DEF Faults, fault
  <1>30. CASE UNCHANGED vars
    BY <1>30, <1>types DEF vars
  <1> QED
    BY <1>1, <1>2, <1>3, <1>4, <1>5, <1>6, <1>7, <1>8, <1>9, <1>10,
       <1>11, <1>12, <1>13, <1>14, <1>15, <1>16, <1>17, <1>18, <1>19,
       <1>20, <1>21, <1>22, <1>23, <1>24, <1>25, <1>26, <1>27, <1>28,
       <1>29, <1>30
       DEF Next, AppStep, LibStep

(* A step that leaves the queues alone must not clear the mark of a thread *)
(* that somebody sleeps for.                                               *)
LEMMA QueuesSame ==
  ASSUME ~panicked, SleepersMark, OneWaiter, queue' = queue,
         \A x \in Tids : queue[x] # <<>> =>
            panicked' \/ td'[x].joinedFlag = td[x].joinedFlag
  PROVE  SleepersMark' /\ OneWaiter'
  BY DEF SleepersMark, OneWaiter

(* A joiner marks the thread, or finds the mark and does not sleep. *)
LEMMA SleepersStep ==
  ASSUME TypeOK, TypeOK', LocalsSet, FreshHidden, SleepersMark, OneWaiter, [Next]_vars
  PROVE  SleepersMark' /\ OneWaiter'
  <1> USE ThreadAssumption DEF cvVars, stackVars, callVars, Mutexes, ListMutex, Goto, AssertThat, Locations
  <1>types. /\ pc \in [Tids -> Locations] /\ peer \in [Tids -> Tids \cup {NoTid}]
            /\ queue \in [Tids -> Seq(Tids)] /\ listed \subseteq Tids
            /\ td \in [Tids -> Records] /\ td' \in [Tids -> Records]
    BY DEF TypeOK
  <1>1. ASSUME NEW t \in Tids, Runs(t), thr_init(t)
        PROVE  SleepersMark' /\ OneWaiter'
    <2>1. queue[t] = <<>>
      BY <1>1 DEF thr_init, NewRecord, NoRecord, FreshHidden, Fresh
    <2>2. \A x \in Tids \ {t} : td'[x] = td[x]
      BY <1>1, <1>types DEF thr_init, NewRecord, NoRecord
    <2> QED
      BY <1>1, <2>1, <2>2, QueuesSame
         DEF thr_init, NewRecord, NoRecord, Runs, Defined
  <1>2. ASSUME NEW t \in Tids, Runs(t), thr_init_fails(t)
        PROVE  SleepersMark' /\ OneWaiter'
    <2>1. queue[t] = <<>>
      BY <1>2 DEF thr_init_fails, NewRecord, NoRecord, FreshHidden, Fresh
    <2>2. \A x \in Tids \ {t} : td'[x] = td[x]
      BY <1>2, <1>types DEF thr_init_fails, NewRecord, NoRecord
    <2> QED
      BY <1>2, <2>1, <2>2, QueuesSame
         DEF thr_init_fails, NewRecord, NoRecord, Runs, Defined
  <1>3. ASSUME NEW t \in Tids, Runs(t), thr_init_malloc_null(t)
        PROVE  SleepersMark' /\ OneWaiter'
    BY <1>3, <1>types, QueuesSame DEF thr_init_malloc_null, Runs, Defined
  <1>4. ASSUME NEW t \in Tids, Runs(t), thr_create(t)
        PROVE  SleepersMark' /\ OneWaiter'
    BY <1>4, <1>types, QueuesSame DEF thr_create, Runs, Defined
  <1>5. ASSUME NEW t \in Tids, Runs(t), c_lock(t)
        PROVE  SleepersMark' /\ OneWaiter'
    BY <1>5, <1>types, QueuesSame DEF c_lock, Lock, CV!Lock, Runs, Defined
  <1>6. ASSUME NEW t \in Tids, Runs(t), c_null_func(t)
        PROVE  SleepersMark' /\ OneWaiter'
    BY <1>6, <1>types, QueuesSame
       DEF c_null_func, CreateFails, Unlock, CV!Unlock, Runs, Defined
  <1>7. ASSUME NEW t \in Tids, Runs(t), c_pages(t)
        PROVE  SleepersMark' /\ OneWaiter'
    BY <1>7, <1>types, QueuesSame DEF c_pages, Candidates, Runs, Defined
  <1>8. ASSUME NEW t \in Tids, Runs(t), c_no_pages(t)
        PROVE  SleepersMark' /\ OneWaiter'
    BY <1>8, <1>types, QueuesSame
       DEF c_no_pages, CreateFails, Unlock, CV!Unlock, Runs, Defined
  <1>9. ASSUME NEW t \in Tids, Runs(t), c_malloc_null(t)
        PROVE  SleepersMark' /\ OneWaiter'
    BY <1>9, <1>types, QueuesSame
       DEF c_malloc_null, CreateFails, Unlock, CV!Unlock, Runs, Defined
  <1>10. ASSUME NEW t \in Tids, Runs(t), c_fork(t)
         PROVE  SleepersMark' /\ OneWaiter'
    <2>1. \A x \in Tids : td'[x].joinedFlag = td[x].joinedFlag
      BY <1>10, ForkEffect
    <2> QED
      BY <1>10, <2>1, QueuesSame DEF c_fork, Runs, Defined
  <1>11. ASSUME NEW t \in Tids, Runs(t), c_fork_fails(t)
         PROVE  SleepersMark' /\ OneWaiter'
    BY <1>11, <1>types, QueuesSame
       DEF c_fork_fails, ReturnPages, CreateFails, Unlock, CV!Unlock, Runs,
           Defined
  <1>12. ASSUME NEW t \in Tids, Runs(t), c_insert(t)
         PROVE  SleepersMark' /\ OneWaiter'
    <2>1. peer[t] \in Tids /\ Creating(peer[t])
      BY <1>12 DEF c_insert, LocalsSet, Creating
    <2>2. queue[peer[t]] = <<>>
      BY <2>1 DEF FreshHidden, Fresh
    <2>3. \A x \in Tids \ {peer[t]} : td'[x] = td[x]
      BY <1>12, <2>1, <1>types DEF c_insert
    <2> QED
      BY <1>12, <2>2, <2>3, QueuesSame
         DEF c_insert, Inserted, NewRecord, NoRecord, Unlock, CV!Unlock,
             Runs, Defined
  <1>13. ASSUME NEW t \in Tids, Runs(t), c_insert_fails(t)
         PROVE  SleepersMark' /\ OneWaiter'
    <2>1. peer[t] \in Tids
      BY <1>13
         DEF c_insert_fails, ReturnPages, CreateFails, Unlock, CV!Unlock,
             LocalsSet, Joining
    <2>2. \A x \in Tids : td'[x].joinedFlag = td[x].joinedFlag
      BY <1>13, <2>1, DropEffect
    <2> QED
      BY <1>13, <2>2, QueuesSame
         DEF c_insert_fails, ReturnPages, CreateFails, Unlock, CV!Unlock,
             Runs, Defined
  <1>14. ASSUME NEW t \in Tids, NEW x \in Tids, Runs(t), thr_join(t, x)
         PROVE  SleepersMark' /\ OneWaiter'
    BY <1>14, <1>types, QueuesSame DEF thr_join, Runs, Defined
  <1>15. ASSUME NEW t \in Tids, Runs(t), j_lock(t)
         PROVE  SleepersMark' /\ OneWaiter'
    BY <1>15, <1>types, QueuesSame DEF j_lock, Lock, CV!Lock, Runs, Defined
  <1>16. ASSUME NEW t \in Tids, Runs(t), j_not_found(t)
         PROVE  SleepersMark' /\ OneWaiter'
    BY <1>16, <1>types, QueuesSame DEF j_not_found, Runs, Defined
  <1>17. ASSUME NEW t \in Tids, Runs(t), j_refused(t)
         PROVE  SleepersMark' /\ OneWaiter'
    BY <1>17, <1>types, QueuesSame
       DEF j_refused, JoinReturns, Unlock, CV!Unlock, Runs, Defined
  <1>18. ASSUME NEW t \in Tids, Runs(t), j_waits(t)
         PROVE  SleepersMark' /\ OneWaiter'
    <2>1. PICK p \in Tids : p = peer[t]
      BY <1>18 DEF j_waits, LocalsSet, Joining
    <2>2. /\ \A x \in Tids \ {p} : td'[x] = td[x]
          /\ td'[p].joinedFlag = 1 /\ td[p].joinedFlag # 1
      BY <1>18, <2>1, WaitEffect DEF j_waits
    <2>3. /\ \A x \in Tids \ {p} : queue'[x] = queue[x]
          /\ queue'[p] = Append(queue[p], t)
      BY <1>18, <2>1, <1>types DEF j_waits, CV!Wait
    <2>4. queue[p] = <<>>
      BY <1>18, <2>2 DEF SleepersMark, Runs, Defined
    <2>5. Len(queue'[p]) <= 1
      BY <2>3, <2>4
    <2> QED
      BY <1>18, <2>2, <2>3, <2>5 DEF SleepersMark, OneWaiter, j_waits
  <1>19. ASSUME NEW t \in Tids, Runs(t), j_exited(t)
         PROVE  SleepersMark' /\ OneWaiter'
    BY <1>19, <1>types, QueuesSame DEF j_exited, MustWait, Runs, Defined
  <1>20. ASSUME NEW t \in Tids, Runs(t), j_woken(t)
         PROVE  SleepersMark' /\ OneWaiter'
    BY <1>20, <1>types, QueuesSame DEF j_woken, CV!Return, Runs, Defined
  <1>21. ASSUME NEW t \in Tids, Runs(t), j_clean(t)
         PROVE  SleepersMark' /\ OneWaiter'
    <2>1. peer[t] \in Tids
      BY <1>21 DEF j_clean, LocalsSet, Joining
    <2>2. \A x \in Tids \ {peer[t]} : td'[x] = td[x]
      BY <1>21, <2>1, CleanEffect
    <2>3. queue[peer[t]] # <<>> => panicked'
      BY <1>21 DEF j_clean
    <2> QED
      BY <1>21, <2>2, <2>3, QueuesSame DEF j_clean, Runs, Defined
  <1>22. ASSUME NEW t \in Tids, Runs(t), j_pages(t)
         PROVE  SleepersMark' /\ OneWaiter'
    BY <1>22, <1>types, QueuesSame DEF j_pages, Runs, Defined
  <1>23. ASSUME NEW t \in Tids, Runs(t), j_remove(t)
         PROVE  SleepersMark' /\ OneWaiter'
    <2>1. peer[t] \in Tids
      BY <1>23 DEF j_remove, JoinReturns, Unlock, CV!Unlock, LocalsSet, Joining
    <2>2. \A x \in Tids : td'[x].joinedFlag = td[x].joinedFlag
      BY <1>23, <2>1, RemoveEffect
    <2> QED
      BY <1>23, <2>2, QueuesSame
         DEF j_remove, JoinReturns, Unlock, CV!Unlock, Runs, Defined
  <1>24. ASSUME NEW t \in Tids, NEW v \in Statuses, Runs(t), thr_exit(t, v)
         PROVE  SleepersMark' /\ OneWaiter'
    BY <1>24, <1>types, QueuesSame DEF thr_exit, Runs, Defined
  <1>25. ASSUME NEW t \in Tids, Runs(t), x_lock(t)
         PROVE  SleepersMark' /\ OneWaiter'
    BY <1>25, <1>types, QueuesSame DEF x_lock, Lock, CV!Lock, Runs, Defined
  <1>26. ASSUME NEW t \in Tids, Runs(t), x_signal(t)
         PROVE  SleepersMark' /\ OneWaiter'
    <2>1. \A x \in Tids \ {t} : td'[x] = td[x]
      BY <1>26, <1>types DEF x_signal
    <2>2. CASE queue[t] = <<>>
      <3>1. queue' = queue
        BY <1>26, <2>2 DEF x_signal, WakeJoiner
      <3> QED
        BY <1>26, <2>1, <2>2, <3>1, QueuesSame DEF Runs, Defined
    <2>3. CASE queue[t] # <<>>
      <3>1. queue'[t] = <<>> /\ \A x \in Tids \ {t} : queue'[x] = queue[x]
        BY <1>26, <2>3, WakeFacts DEF x_signal, OneWaiter
      <3>2. Len(queue'[t]) <= 1
        BY <3>1
      <3> QED
        BY <1>26, <2>1, <3>1, <3>2 DEF SleepersMark, OneWaiter, Runs, Defined
    <2> QED
      BY <2>2, <2>3
  <1>27. ASSUME NEW t \in Tids, Runs(t), x_unlock(t)
         PROVE  SleepersMark' /\ OneWaiter'
    BY <1>27, <1>types, QueuesSame
       DEF x_unlock, Unlock, CV!Unlock, Runs, Defined
  <1>28. ASSUME NEW t \in Tids, Runs(t), vanish(t)
         PROVE  SleepersMark' /\ OneWaiter'
    BY <1>28, <1>types, QueuesSame DEF vanish, Runs, Defined
  <1>29. ASSUME NEW t \in Tids, Faults(t) PROVE SleepersMark' /\ OneWaiter'
    BY <1>29, <1>types, QueuesSame DEF Faults, fault, Defined
  <1>30. CASE UNCHANGED vars
    BY <1>30 DEF vars, SleepersMark, OneWaiter
  <1> QED
    BY <1>1, <1>2, <1>3, <1>4, <1>5, <1>6, <1>7, <1>8, <1>9, <1>10,
       <1>11, <1>12, <1>13, <1>14, <1>15, <1>16, <1>17, <1>18, <1>19,
       <1>20, <1>21, <1>22, <1>23, <1>24, <1>25, <1>26, <1>27, <1>28,
       <1>29, <1>30
       DEF Next, AppStep, LibStep

LEMMA InitInv == Init => IInv
  <1> SUFFICES ASSUME Init PROVE IInv
    OBVIOUS
  <1> USE ThreadAssumption DEF Init, CV!Init, Mutexes, ListMutex
  <1>1. TypeOK
    <2>1. MaxCreates \in Nat /\ 0 \in 0..MaxCreates /\ 0 \in 0..Slots
      BY FS_CardinalityType
    <2>2. NoRecord \in Records
      BY DEF NoRecord, Records
    <2>3. /\ pc \in [Tids -> Locations] /\ td \in [Tids -> Records]
          /\ stackOf \in [Tids -> 0..Slots \cup {NoSlot}]
      BY <2>1, <2>2 DEF Locations
    <2>4. queue \in [Tids -> Seq(Tids)]
      OBVIOUS
    <2>5. mapped \subseteq 0..Slots /\ top \in 0..Slots
      BY <2>1
    <2> QED
      BY <2>1, <2>3, <2>4, <2>5 DEF TypeOK
  <1>2. HoldersOwn /\ LocalsSet
    BY DEF HoldersOwn, LocalsSet, Critical, Joining
  <1>3. FreshHidden /\ ChildrenBorn /\ SleepersMark
    BY DEF FreshHidden, ChildrenBorn, Creating, SleepersMark
  <1>4. OneWaiter
    BY DEF OneWaiter
  <1> QED
    BY <1>1, <1>2, <1>3, <1>4 DEF IInv

LEMMA StepInv == IInv /\ [Next]_vars => IInv'
  BY TypesStep, LocksStep, FreshStep, SleepersStep DEF IInv

(* Whatever callers do, and whatever fails, the invariant holds. *)
THEOREM Invariance == Spec => []IInv
  BY InitInv, StepInv, PTL DEF Spec

(* However often a thread is joined, at most one joiner sleeps on its      *)
(* threadCond: the single cond_signal() of thr_exit() wakes all there are. *)
(* Neither a double join nor a failure of malloc() or thread_fork() nor a  *)
(* thread that faults in its critical section can break this.              *)
THEOREM AtMostOneWaiter == Spec => []OneWaiter
  <1>1. IInv => OneWaiter
    BY DEF IInv
  <1> QED
    BY <1>1, Invariance, PTL

-----------------------------------------------------------------------------
(* The good case.  What a step does to who is known. *)
LEMMA KnownSame ==
  ASSUME NEW t \in Tids, listed' = listed,
         pc[t] # "c_insert", pc'[t] # "c_insert",
         \A u \in Tids \ {t} : pc'[u] = pc[u] /\ peer'[u] = peer[u]
  PROVE  /\ \A x \in Tids : Known(x)' <=> Known(x)
         /\ \A x \in Tids : Creating(x)' <=> Creating(x)
  BY DEF Known, Creating

(* A step of a thread that is on its way is not one before thr_init(). *)
LEMMA StepStarted ==
  ASSUME StartsAlone, NEW t \in Tids, pc[t] \notin {"start", "gone", "unborn"}
  PROVE  ~NotStarted /\ \A u \in Tids : pc[u] # "start"
  BY DEF StartsAlone, NotStarted

LEMMA StartSame ==
  ASSUME StartInv, NEW t \in Tids, pc \in [Tids -> Locations],
         pc[t] \notin {"start", "gone", "unborn", "c_insert"},
         pc'[t] \notin {"start", "unborn", "c_insert"},
         pc[t] = "x_vanish" => ~Running(t)',
         \A u \in Tids \ {t} : pc'[u] = pc[u] /\ peer'[u] = peer[u],
         listed' = listed, claimed \subseteq claimed',
         \A x \in Tids : td'[x].mem = td[x].mem
  PROVE  StartInv'
  <1>1. ~NotStarted /\ \A u \in Tids : pc[u] # "start"
    BY StepStarted DEF StartInv
  <1>2. \A x \in Tids : Known(x)' <=> Known(x)
    BY KnownSame
  <1>3. \A u \in Tids : pc'[u] # "start"
    BY <1>1
  <1>4. StartsAlone'
    BY <1>3 DEF StartsAlone
  <1>5. UnclaimedKnown'
    BY <1>1, <1>2 DEF StartInv, UnclaimedKnown
  <1>6. RunningKnown'
    BY <1>1, <1>2 DEF StartInv, RunningKnown, Running, Alive
  <1>7. RecordsLive'
    BY <1>2 DEF StartInv, RecordsLive
  <1> QED
    BY <1>4, <1>5, <1>6, <1>7 DEF StartInv

(* In the good case a thread that still has work to do has its stack. *)
LEMMA RunningMapped ==
  ASSUME GInv, NEW t \in Tids, Running(t)
  PROVE  stackOf[t] \in mapped
  <1>1. CASE pc[t] = "start"
    BY <1>1 DEF GInv, StartInv, StartsAlone, StackInv, RootStack
  <1>2. CASE pc[t] # "start" /\ t \in listed
    <2>1. ~Unmapped(t)
      BY DEF GInv, JoinInv, CleanersMay, Cleaning, Unmapped, Running, Alive
    <2> QED
      BY <1>2, <2>1 DEF GInv, StackInv, HeldMapped, Holds, RootStack
  <1>3. CASE pc[t] # "start" /\ Creating(t)
    BY <1>3 DEF Creating, GInv, StackInv, ChildrenOn, NewMapped, Maps
  <1> QED
    BY <1>1, <1>2, <1>3 DEF GInv, StartInv, RunningKnown, Known

LEMMA FaultAtEnd ==
  ASSUME GInv, NEW t \in Tids, Faults(t)
  PROVE  pc[t] = "x_vanish"
  BY RunningMapped DEF Faults, fault, Running

(* Every thread is known until it is joined. *)
LEMMA StartStep ==
  ASSUME GoodCase, GInv, [Next]_vars
  PROVE  StartInv'
  <1> USE DEF cvVars, stackVars, callVars, Mutexes, ListMutex, Goto, AssertThat, Locations
  <1>types. /\ pc \in [Tids -> Locations] /\ peer \in [Tids -> Tids \cup {NoTid}]
            /\ queue \in [Tids -> Seq(Tids)] /\ listed \subseteq Tids
            /\ td \in [Tids -> Records] /\ Root \in Tids
            /\ "malloc" \notin Failures
    BY ThreadAssumption DEF GInv, IInv, TypeOK, GoodCase
  <1>1. ASSUME NEW t \in Tids, Runs(t), thr_init(t) PROVE StartInv'
    <2>1. /\ t = Root /\ pc[t] = "start" /\ pc' = [pc EXCEPT ![t] = "app"]
          /\ listed' = {t} /\ claimed' = claimed /\ peer' = peer
          /\ td' = [td EXCEPT ![t] = NewRecord(NoSlot)]
      BY <1>1 DEF thr_init
    <2>2. \A u \in Tids \ {Root} : pc[u] = "unborn" /\ u \notin listed
      BY <2>1, <1>types
         DEF GInv, IInv, FreshHidden, Fresh, StartInv, StartsAlone,
             NotStarted
    <2>3. \A x \in Tids : ~Creating(x) /\ ~Creating(x)'
      BY <2>1, <2>2, <1>types DEF Creating
    <2>4. td'[t].mem = "live" /\ \A x \in Tids \ {t} : td'[x] = td[x]
      BY <2>1, <1>types DEF NewRecord, NoRecord
    <2>5. \A x \in Tids : Known(x)' <=> x = Root
      BY <2>1, <2>3 DEF Known
    <2>6. \A x \in Tids \ {Root} : ~Known(x)
      BY <2>2, <2>3 DEF Known
    <2>7. StartsAlone'
      BY <2>1, <2>2, <1>types DEF StartsAlone
    <2>8. UnclaimedKnown'
      BY <2>1, <2>2, <2>5, <1>types DEF UnclaimedKnown
    <2>9. RunningKnown'
      BY <2>1, <2>2, <2>5, <1>types DEF RunningKnown, Running, Alive
    <2>10. RecordsLive'
      BY <2>1, <2>4, <2>5, <2>6 DEF RecordsLive, GInv, StartInv
    <2> QED
      BY <2>7, <2>8, <2>9, <2>10 DEF StartInv
  <1>2. ASSUME NEW t \in Tids, Runs(t), thr_init_fails(t) PROVE StartInv'
    <2>1. /\ t = Root /\ pc[t] = "start" /\ pc' = [pc EXCEPT ![t] = "gone"]
          /\ listed' = listed /\ claimed' = claimed /\ peer' = peer /\ td' = td
      BY <1>2, <1>types DEF thr_init_fails
    <2>2. \A u \in Tids \ {Root} : pc[u] = "unborn"
      BY <2>1, <1>types DEF GInv, StartInv, StartsAlone, NotStarted
    <2>3. NotStarted'
      BY <2>1, <2>2, <1>types DEF NotStarted
    <2>4. \A x \in Tids : Known(x)' <=> Known(x)
      BY <2>1, <1>types, KnownSame
    <2>5. StartsAlone' /\ UnclaimedKnown'
      BY <2>1, <2>2, <2>3, <1>types DEF StartsAlone, UnclaimedKnown
    <2>6. RunningKnown'
      BY <2>1, <2>2, <1>types DEF RunningKnown, Running, Alive
    <2>7. RecordsLive'
      BY <2>1, <2>4 DEF GInv, StartInv, RecordsLive
    <2> QED
      BY <2>5, <2>6, <2>7 DEF StartInv
  <1>3. ASSUME NEW t \in Tids, Runs(t), thr_init_malloc_null(t) PROVE FALSE
    BY <1>3, <1>types DEF thr_init_malloc_null
  <1>4. ASSUME NEW t \in Tids, Runs(t), thr_create(t) PROVE StartInv'
    <2>1. /\ pc[t] \notin {"start", "gone", "unborn", "c_insert"}
          /\ pc'[t] \notin {"start", "unborn", "c_insert"}
          /\ pc[t] = "x_vanish" => ~Running(t)'
          /\ \A u \in Tids \ {t} : pc'[u] = pc[u] /\ peer'[u] = peer[u]
          /\ listed' = listed /\ claimed \subseteq claimed'
      BY <1>4, <1>types DEF thr_create, Running, Alive
    <2>2. \A y \in Tids : td'[y].mem = td[y].mem
      BY <1>4 DEF thr_create
    <2> QED
      BY <2>1, <2>2, <1>types, StartSame DEF GInv
  <1>5. ASSUME NEW t \in Tids, Runs(t), c_lock(t) PROVE StartInv'
    <2>1. /\ pc[t] \notin {"start", "gone", "unborn", "c_insert"}
          /\ pc'[t] \notin {"start", "unborn", "c_insert"}
          /\ pc[t] = "x_vanish" => ~Running(t)'
          /\ \A u \in Tids \ {t} : pc'[u] = pc[u] /\ peer'[u] = peer[u]
          /\ listed' = listed /\ claimed \subseteq claimed'
      BY <1>5, <1>types DEF c_lock, Lock, CV!Lock, Running, Alive
    <2>2. \A y \in Tids : td'[y].mem = td[y].mem
      BY <1>5 DEF c_lock, Lock, CV!Lock
    <2> QED
      BY <2>1, <2>2, <1>types, StartSame DEF GInv
  <1>6. ASSUME NEW t \in Tids, Runs(t), c_null_func(t) PROVE StartInv'
    <2>1. /\ pc[t] \notin {"start", "gone", "unborn", "c_insert"}
          /\ pc'[t] \notin {"start", "unborn", "c_insert"}
          /\ pc[t] = "x_vanish" => ~Running(t)'
          /\ \A u \in Tids \ {t} : pc'[u] = pc[u] /\ peer'[u] = peer[u]
          /\ listed' = listed /\ claimed \subseteq claimed'
      BY <1>6, <1>types
         DEF c_null_func, CreateFails, Unlock, CV!Unlock, Running, Alive
    <2>2. \A y \in Tids : td'[y].mem = td[y].mem
      BY <1>6 DEF c_null_func, CreateFails, Unlock, CV!Unlock
    <2> QED
      BY <2>1, <2>2, <1>types, StartSame DEF GInv
  <1>7. ASSUME NEW t \in Tids, Runs(t), c_pages(t) PROVE StartInv'
    <2>1. /\ pc[t] \notin {"start", "gone", "unborn", "c_insert"}
          /\ pc'[t] \notin {"start", "unborn", "c_insert"}
          /\ pc[t] = "x_vanish" => ~Running(t)'
          /\ \A u \in Tids \ {t} : pc'[u] = pc[u] /\ peer'[u] = peer[u]
          /\ listed' = listed /\ claimed \subseteq claimed'
      BY <1>7, <1>types DEF c_pages, Candidates, Running, Alive
    <2>2. \A y \in Tids : td'[y].mem = td[y].mem
      BY <1>7 DEF c_pages, Candidates
    <2> QED
      BY <2>1, <2>2, <1>types, StartSame DEF GInv
  <1>8. ASSUME NEW t \in Tids, Runs(t), c_no_pages(t) PROVE StartInv'
    <2>1. /\ pc[t] \notin {"start", "gone", "unborn", "c_insert"}
          /\ pc'[t] \notin {"start", "unborn", "c_insert"}
          /\ pc[t] = "x_vanish" => ~Running(t)'
          /\ \A u \in Tids \ {t} : pc'[u] = pc[u] /\ peer'[u] = peer[u]
          /\ listed' = listed /\ claimed \subseteq claimed'
      BY <1>8, <1>types
         DEF c_no_pages, CreateFails, Unlock, CV!Unlock, Running, Alive
    <2>2. \A y \in Tids : td'[y].mem = td[y].mem
      BY <1>8 DEF c_no_pages, CreateFails, Unlock, CV!Unlock
    <2> QED
      BY <2>1, <2>2, <1>types, StartSame DEF GInv
  <1>9. ASSUME NEW t \in Tids, Runs(t), c_malloc_null(t) PROVE FALSE
    BY <1>9, <1>types DEF c_malloc_null
  <1>10. ASSUME NEW t \in Tids, Runs(t), c_fork(t) PROVE StartInv'
    <2>1. PICK c \in Tids :
            /\ pc[t] = "c_fork" /\ pc[c] = "unborn" /\ c # t
            /\ pc' = [pc EXCEPT ![t] = "c_insert", ![c] = "app"]
            /\ peer' = [peer EXCEPT ![t] = c]
            /\ \A x \in Tids \ {c} : td'[x] = td[x]
            /\ td'[c].mem = "live"
            /\ listed' = listed /\ claimed' = claimed
      BY <1>10, ForkEffect DEF GInv, IInv
    <2>3. ~NotStarted /\ \A u \in Tids : pc[u] # "start"
      BY <2>1, StepStarted DEF GInv, StartInv
    <2>4. \A x \in Tids : Creating(x)' <=> Creating(x) \/ x = c
      BY <2>1, <1>types DEF Creating
    <2>known. \A x \in Tids : Known(x)' <=> Known(x) \/ x = c
      BY <2>1, <2>4 DEF Known
    <2>mem. \A x \in Tids : td'[x].mem = "live" <=> td[x].mem = "live" \/ x = c
      BY <2>1
    <2>pc. /\ \A x \in Tids : pc'[x] # "start" /\ (pc'[x] # "unborn" => pc[x] # "unborn" \/ x = c)
           /\ \A x \in Tids \ {c} : Running(x)' => Running(x)
           /\ claimed' = claimed
      BY <2>1, <2>3, <1>types DEF Running, Alive
    <2>7. StartsAlone'
      BY <2>3, <2>pc DEF StartsAlone
    <2>8. UnclaimedKnown'
      BY <2>3, <2>known, <2>pc DEF UnclaimedKnown, GInv, StartInv
    <2>9. RunningKnown'
      BY <2>3, <2>known, <2>pc DEF RunningKnown, Running, Alive, GInv, StartInv
    <2>10. RecordsLive'
      BY <2>known, <2>mem DEF RecordsLive, GInv, StartInv
    <2> QED
      BY <2>7, <2>8, <2>9, <2>10 DEF StartInv
  <1>11. ASSUME NEW t \in Tids, Runs(t), c_fork_fails(t) PROVE StartInv'
    <2>1. /\ pc[t] \notin {"start", "gone", "unborn", "c_insert"}
          /\ pc'[t] \notin {"start", "unborn", "c_insert"}
          /\ pc[t] = "x_vanish" => ~Running(t)'
          /\ \A u \in Tids \ {t} : pc'[u] = pc[u] /\ peer'[u] = peer[u]
          /\ listed' = listed /\ claimed \subseteq claimed'
      BY <1>11, <1>types
         DEF c_fork_fails, ReturnPages, CreateFails, Unlock, CV!Unlock,
             Running, Alive
    <2>2. \A y \in Tids : td'[y].mem = td[y].mem
      BY <1>11 DEF c_fork_fails, ReturnPages, CreateFails, Unlock, CV!Unlock
    <2> QED
      BY <2>1, <2>2, <1>types, StartSame DEF GInv
  <1>12. ASSUME NEW t \in Tids, Runs(t), c_insert(t) PROVE StartInv'
    <2>1. /\ pc[t] = "c_insert" /\ pc' = [pc EXCEPT ![t] = "app"]
          /\ listed' = listed \cup {peer[t]} /\ claimed' = claimed
          /\ peer' = [peer EXCEPT ![t] = NoTid]
          /\ peer[t] \in Tids /\ newSlot[t] \in 0..Slots
      BY <1>12 DEF c_insert, Inserted, GInv, IInv, LocalsSet
    <2>2. td'[peer[t]].mem = "live" /\ \A x \in Tids \ {peer[t]} : td'[x] = td[x]
      BY <1>12, <2>1, InsertEffect DEF GInv, IInv
    <2>3. ~NotStarted /\ \A u \in Tids : pc[u] # "start"
      BY <2>1, StepStarted DEF GInv, StartInv
    <2>4. \A u \in Tids \ {t} : pc[u] # "c_insert"
      BY <2>1 DEF GInv, IInv, HoldersOwn, Critical
    <2>known. \A x \in Tids : Known(x)' <=> Known(x)
      BY <2>1, <2>4, <1>types DEF Known, Creating
    <2>mem. \A x \in Tids : td'[x].mem = "live" <=> td[x].mem = "live"
      BY <2>1, <2>2 DEF Known, Creating, GInv, StartInv, RecordsLive
    <2>pc. /\ \A x \in Tids : pc'[x] # "start" /\ (pc'[x] # "unborn" => pc[x] # "unborn")
           /\ \A x \in Tids : Running(x)' => Running(x)
           /\ claimed' = claimed
      BY <2>1, <2>3, <1>types DEF Running, Alive
    <2>7. StartsAlone'
      BY <2>3, <2>pc DEF StartsAlone
    <2>8. UnclaimedKnown'
      BY <2>3, <2>known, <2>pc DEF UnclaimedKnown, GInv, StartInv
    <2>9. RunningKnown'
      BY <2>3, <2>known, <2>pc DEF RunningKnown, Running, Alive, GInv, StartInv
    <2>10. RecordsLive'
      BY <2>known, <2>mem DEF RecordsLive, GInv, StartInv
    <2> QED
      BY <2>7, <2>8, <2>9, <2>10 DEF StartInv
  <1>13. ASSUME NEW t \in Tids, Runs(t), c_insert_fails(t) PROVE FALSE
    BY <1>13, <1>types DEF c_insert_fails
  <1>14. ASSUME NEW t \in Tids, NEW x \in Tids, Runs(t), thr_join(t, x)
         PROVE  StartInv'
    <2>1. /\ pc[t] \notin {"start", "gone", "unborn", "c_insert"}
          /\ pc'[t] \notin {"start", "unborn", "c_insert"}
          /\ pc[t] = "x_vanish" => ~Running(t)'
          /\ \A u \in Tids \ {t} : pc'[u] = pc[u] /\ peer'[u] = peer[u]
          /\ listed' = listed /\ claimed \subseteq claimed'
      BY <1>14, <1>types DEF thr_join, Running, Alive
    <2>2. \A y \in Tids : td'[y].mem = td[y].mem
      BY <1>14 DEF thr_join
    <2> QED
      BY <2>1, <2>2, <1>types, StartSame DEF GInv
  <1>15. ASSUME NEW t \in Tids, Runs(t), j_lock(t) PROVE StartInv'
    <2>1. /\ pc[t] \notin {"start", "gone", "unborn", "c_insert"}
          /\ pc'[t] \notin {"start", "unborn", "c_insert"}
          /\ pc[t] = "x_vanish" => ~Running(t)'
          /\ \A u \in Tids \ {t} : pc'[u] = pc[u] /\ peer'[u] = peer[u]
          /\ listed' = listed /\ claimed \subseteq claimed'
      BY <1>15, <1>types DEF j_lock, Lock, CV!Lock, Running, Alive
    <2>2. \A y \in Tids : td'[y].mem = td[y].mem
      BY <1>15 DEF j_lock, Lock, CV!Lock
    <2> QED
      BY <2>1, <2>2, <1>types, StartSame DEF GInv
  <1>16. ASSUME NEW t \in Tids, Runs(t), j_not_found(t) PROVE StartInv'
    <2>1. /\ pc[t] \notin {"start", "gone", "unborn", "c_insert"}
          /\ pc'[t] \notin {"start", "unborn", "c_insert"}
          /\ pc[t] = "x_vanish" => ~Running(t)'
          /\ \A u \in Tids \ {t} : pc'[u] = pc[u] /\ peer'[u] = peer[u]
          /\ listed' = listed /\ claimed \subseteq claimed'
      BY <1>16, <1>types DEF j_not_found, Running, Alive
    <2>2. \A y \in Tids : td'[y].mem = td[y].mem
      BY <1>16 DEF j_not_found
    <2> QED
      BY <2>1, <2>2, <1>types, StartSame DEF GInv
  <1>17. ASSUME NEW t \in Tids, Runs(t), j_refused(t) PROVE StartInv'
    <2>1. /\ pc[t] \notin {"start", "gone", "unborn", "c_insert"}
          /\ pc'[t] \notin {"start", "unborn", "c_insert"}
          /\ pc[t] = "x_vanish" => ~Running(t)'
          /\ \A u \in Tids \ {t} : pc'[u] = pc[u] /\ peer'[u] = peer[u]
          /\ listed' = listed /\ claimed \subseteq claimed'
      BY <1>17, <1>types
         DEF j_refused, JoinReturns, Unlock, CV!Unlock, Running, Alive
    <2>2. \A y \in Tids : td'[y].mem = td[y].mem
      BY <1>17 DEF j_refused, JoinReturns, Unlock, CV!Unlock
    <2> QED
      BY <2>1, <2>2, <1>types, StartSame DEF GInv
  <1>18. ASSUME NEW t \in Tids, Runs(t), j_waits(t) PROVE StartInv'
    <2>1. /\ pc[t] \notin {"start", "gone", "unborn", "c_insert"}
          /\ pc'[t] \notin {"start", "unborn", "c_insert"}
          /\ pc[t] = "x_vanish" => ~Running(t)'
          /\ \A u \in Tids \ {t} : pc'[u] = pc[u] /\ peer'[u] = peer[u]
          /\ listed' = listed /\ claimed \subseteq claimed'
      BY <1>18, <1>types DEF j_waits, Joined, MustWait, CV!Wait, Running, Alive
    <2>2. \A y \in Tids : td'[y].mem = td[y].mem
      <3>1. peer[t] \in Tids
        BY <1>18
           DEF j_waits, Joined, MustWait, CV!Wait, GInv, IInv, LocalsSet,
               Joining
      <3> QED
        BY <1>18, <3>1, WaitEffect DEF GInv, IInv
    <2> QED
      BY <2>1, <2>2, <1>types, StartSame DEF GInv
  <1>19. ASSUME NEW t \in Tids, Runs(t), j_exited(t) PROVE StartInv'
    <2>1. /\ pc[t] \notin {"start", "gone", "unborn", "c_insert"}
          /\ pc'[t] \notin {"start", "unborn", "c_insert"}
          /\ pc[t] = "x_vanish" => ~Running(t)'
          /\ \A u \in Tids \ {t} : pc'[u] = pc[u] /\ peer'[u] = peer[u]
          /\ listed' = listed /\ claimed \subseteq claimed'
      BY <1>19, <1>types DEF j_exited, MustWait, Running, Alive
    <2>2. \A y \in Tids : td'[y].mem = td[y].mem
      BY <1>19 DEF j_exited, MustWait
    <2> QED
      BY <2>1, <2>2, <1>types, StartSame DEF GInv
  <1>20. ASSUME NEW t \in Tids, Runs(t), j_woken(t) PROVE StartInv'
    <2>1. /\ pc[t] \notin {"start", "gone", "unborn", "c_insert"}
          /\ pc'[t] \notin {"start", "unborn", "c_insert"}
          /\ pc[t] = "x_vanish" => ~Running(t)'
          /\ \A u \in Tids \ {t} : pc'[u] = pc[u] /\ peer'[u] = peer[u]
          /\ listed' = listed /\ claimed \subseteq claimed'
      BY <1>20, <1>types DEF j_woken, CV!Return, Running, Alive
    <2>2. \A y \in Tids : td'[y].mem = td[y].mem
      BY <1>20 DEF j_woken, CV!Return
    <2> QED
      BY <2>1, <2>2, <1>types, StartSame DEF GInv
  <1>21. ASSUME NEW t \in Tids, Runs(t), j_clean(t) PROVE StartInv'
    <2>1. /\ pc[t] \notin {"start", "gone", "unborn", "c_insert"}
          /\ pc'[t] \notin {"start", "unborn", "c_insert"}
          /\ pc[t] = "x_vanish" => ~Running(t)'
          /\ \A u \in Tids \ {t} : pc'[u] = pc[u] /\ peer'[u] = peer[u]
          /\ listed' = listed /\ claimed \subseteq claimed'
      BY <1>21, <1>types DEF j_clean, Running, Alive
    <2>2. \A y \in Tids : td'[y].mem = td[y].mem
      <3>1. peer[t] \in Tids
        BY <1>21 DEF j_clean, GInv, IInv, LocalsSet, Joining
      <3> QED
        BY <1>21, <3>1, CleanEffect DEF GInv, IInv
    <2> QED
      BY <2>1, <2>2, <1>types, StartSame DEF GInv
  <1>22. ASSUME NEW t \in Tids, Runs(t), j_pages(t) PROVE StartInv'
    <2>1. /\ pc[t] \notin {"start", "gone", "unborn", "c_insert"}
          /\ pc'[t] \notin {"start", "unborn", "c_insert"}
          /\ pc[t] = "x_vanish" => ~Running(t)'
          /\ \A u \in Tids \ {t} : pc'[u] = pc[u] /\ peer'[u] = peer[u]
          /\ listed' = listed /\ claimed \subseteq claimed'
      BY <1>22, <1>types DEF j_pages, Running, Alive
    <2>2. \A y \in Tids : td'[y].mem = td[y].mem
      BY <1>22 DEF j_pages
    <2> QED
      BY <2>1, <2>2, <1>types, StartSame DEF GInv
  <1>23. ASSUME NEW t \in Tids, Runs(t), j_remove(t) PROVE StartInv'
    <2>1. /\ pc[t] = "j_remove" /\ pc' = [pc EXCEPT ![t] = "app"]
          /\ listed' = listed \ {peer[t]} /\ claimed' = claimed
          /\ peer' = [peer EXCEPT ![t] = NoTid]
          /\ peer[t] \in Tids
      BY <1>23 DEF j_remove, JoinReturns, GInv, IInv, LocalsSet, Joining
    <2>2. td'[peer[t]].mem = "freed" /\ \A x \in Tids \ {peer[t]} : td'[x] = td[x]
      BY <1>23, <2>1, RemoveEffect DEF GInv, IInv
    <2>3. ~NotStarted /\ \A u \in Tids : pc[u] # "start"
      BY <2>1, StepStarted DEF GInv, StartInv
    <2>4. \A u \in Tids : pc[u] # "c_insert"
      BY <2>1 DEF GInv, IInv, HoldersOwn, Critical
    <2>5. \A x \in Tids : ~Creating(x) /\ ~Creating(x)'
      BY <2>1, <2>4, <1>types DEF Creating
    <2>known. \A x \in Tids : Known(x)' <=> Known(x) /\ x # peer[t]
      BY <2>1, <2>5 DEF Known
    <2>mem. \A x \in Tids : td'[x].mem = "live" <=> td[x].mem = "live" /\ x # peer[t]
      BY <2>2
    <2>pc. /\ \A x \in Tids : pc'[x] # "start" /\ (pc'[x] # "unborn" => pc[x] # "unborn")
           /\ \A x \in Tids : Running(x)' => Running(x) /\ x # peer[t]
           /\ claimed' = claimed /\ peer[t] \in claimed
      BY <2>1, <2>3, <1>types
         DEF Running, Alive, GInv, JoinInv, JoinersClaim, CleanersMay, Cleaning, Joining
    <2>7. StartsAlone'
      BY <2>3, <2>pc DEF StartsAlone
    <2>8. UnclaimedKnown'
      BY <2>3, <2>known, <2>pc DEF UnclaimedKnown, GInv, StartInv
    <2>9. RunningKnown'
      BY <2>3, <2>known, <2>pc DEF RunningKnown, Running, Alive, GInv, StartInv
    <2>10. RecordsLive'
      BY <2>known, <2>mem DEF RecordsLive, GInv, StartInv
    <2> QED
      BY <2>7, <2>8, <2>9, <2>10 DEF StartInv
  <1>24. ASSUME NEW t \in Tids, NEW v \in Statuses, Runs(t), thr_exit(t, v)
         PROVE  StartInv'
    <2>1. /\ pc[t] \notin {"start", "gone", "unborn", "c_insert"}
          /\ pc'[t] \notin {"start", "unborn", "c_insert"}
          /\ pc[t] = "x_vanish" => ~Running(t)'
          /\ \A u \in Tids \ {t} : pc'[u] = pc[u] /\ peer'[u] = peer[u]
          /\ listed' = listed /\ claimed \subseteq claimed'
      BY <1>24, <1>types DEF thr_exit, Running, Alive
    <2>2. \A y \in Tids : td'[y].mem = td[y].mem
      BY <1>24 DEF thr_exit
    <2> QED
      BY <2>1, <2>2, <1>types, StartSame DEF GInv
  <1>25. ASSUME NEW t \in Tids, Runs(t), x_lock(t) PROVE StartInv'
    <2>1. /\ pc[t] \notin {"start", "gone", "unborn", "c_insert"}
          /\ pc'[t] \notin {"start", "unborn", "c_insert"}
          /\ pc[t] = "x_vanish" => ~Running(t)'
          /\ \A u \in Tids \ {t} : pc'[u] = pc[u] /\ peer'[u] = peer[u]
          /\ listed' = listed /\ claimed \subseteq claimed'
      BY <1>25, <1>types DEF x_lock, Lock, CV!Lock, Running, Alive
    <2>2. \A y \in Tids : td'[y].mem = td[y].mem
      BY <1>25 DEF x_lock, Lock, CV!Lock
    <2> QED
      BY <2>1, <2>2, <1>types, StartSame DEF GInv
  <1>26. ASSUME NEW t \in Tids, Runs(t), x_signal(t) PROVE StartInv'
    <2>1. /\ pc[t] \notin {"start", "gone", "unborn", "c_insert"}
          /\ pc'[t] \notin {"start", "unborn", "c_insert"}
          /\ pc[t] = "x_vanish" => ~Running(t)'
          /\ \A u \in Tids \ {t} : pc'[u] = pc[u] /\ peer'[u] = peer[u]
          /\ listed' = listed /\ claimed \subseteq claimed'
      BY <1>26, <1>types DEF x_signal, Exited, Running, Alive
    <2>2. \A y \in Tids : td'[y].mem = td[y].mem
      BY <1>26, ExitEffect DEF GInv, IInv
    <2> QED
      BY <2>1, <2>2, <1>types, StartSame DEF GInv
  <1>27. ASSUME NEW t \in Tids, Runs(t), x_unlock(t) PROVE StartInv'
    <2>1. /\ pc[t] \notin {"start", "gone", "unborn", "c_insert"}
          /\ pc'[t] \notin {"start", "unborn", "c_insert"}
          /\ pc[t] = "x_vanish" => ~Running(t)'
          /\ \A u \in Tids \ {t} : pc'[u] = pc[u] /\ peer'[u] = peer[u]
          /\ listed' = listed /\ claimed \subseteq claimed'
      BY <1>27, <1>types DEF x_unlock, Unlock, CV!Unlock, Running, Alive
    <2>2. \A y \in Tids : td'[y].mem = td[y].mem
      BY <1>27 DEF x_unlock, Unlock, CV!Unlock
    <2> QED
      BY <2>1, <2>2, <1>types, StartSame DEF GInv
  <1>28. ASSUME NEW t \in Tids, Runs(t), vanish(t) PROVE StartInv'
    <2>1. /\ pc[t] \notin {"start", "gone", "unborn", "c_insert"}
          /\ pc'[t] \notin {"start", "unborn", "c_insert"}
          /\ pc[t] = "x_vanish" => ~Running(t)'
          /\ \A u \in Tids \ {t} : pc'[u] = pc[u] /\ peer'[u] = peer[u]
          /\ listed' = listed /\ claimed \subseteq claimed'
      BY <1>28, <1>types DEF vanish, Running, Alive
    <2>2. \A y \in Tids : td'[y].mem = td[y].mem
      BY <1>28 DEF vanish
    <2> QED
      BY <2>1, <2>2, <1>types, StartSame DEF GInv
  <1>29. ASSUME NEW t \in Tids, Faults(t) PROVE StartInv'
    <2>1. /\ pc[t] \notin {"start", "gone", "unborn", "c_insert"}
          /\ pc'[t] \notin {"start", "unborn", "c_insert"}
          /\ pc[t] = "x_vanish" => ~Running(t)'
          /\ \A u \in Tids \ {t} : pc'[u] = pc[u] /\ peer'[u] = peer[u]
          /\ listed' = listed /\ claimed \subseteq claimed'
      BY <1>29, <1>types, FaultAtEnd DEF Faults, fault, Running, Alive
    <2>2. \A y \in Tids : td'[y].mem = td[y].mem
      BY <1>29 DEF Faults, fault
    <2> QED
      BY <2>1, <2>2, <1>types, StartSame DEF GInv
  <1>30. CASE UNCHANGED vars
    BY <1>30
       DEF vars, GInv, StartInv, StartsAlone, UnclaimedKnown, RunningKnown,
                  RecordsLive, Known, Creating, Running, Alive, NotStarted
  <1> QED
    BY <1>1, <1>2, <1>3, <1>4, <1>5, <1>6, <1>7, <1>8, <1>9, <1>10,
       <1>11, <1>12, <1>13, <1>14, <1>15, <1>16, <1>17, <1>18, <1>19,
       <1>20, <1>21, <1>22, <1>23, <1>24, <1>25, <1>26, <1>27, <1>28,
       <1>29, <1>30
       DEF Next, AppStep, LibStep

-----------------------------------------------------------------------------
(* A step of a thread that is not in thr_join() does not hinder joiners. *)
LEMMA SleeperIsThread ==
  ASSUME TypeOK, NEW x \in Tids, queue[x] # <<>>
  PROVE  queue[x][1] \in Tids
  BY RestFacts DEF TypeOK

LEMMA JoinSame ==
  ASSUME TypeOK, JoinInv, NEW t \in Tids,
         pc[t] \notin Joining, pc'[t] \notin Joining,
         \A u \in Tids \ {t} : pc[u] \in Joining =>
            pc'[u] = pc[u] /\ peer'[u] = peer[u],
         \A u \in Tids \ {t} : pc'[u] \in Joining => pc'[u] = pc[u],
         \A u \in Tids : pc[u] \in ExitLocations => pc'[u] \in ExitLocations,
         \A u \in Tids : pc[u] \in {"x_vanish", "gone"} =>
                            pc'[u] \in {"x_vanish", "gone"},
         \A x \in Tids : Known(x) => Known(x)',
         claimed \subseteq claimed', queue' = queue, phase' = phase, LocalsSet
  PROVE  JoinInv'
  <1> USE DEF JoinInv
  <1>1. \A u \in Tids : pc[u] \in Joining => peer[u] \in Tids
    BY DEF LocalsSet
  <1>2. JoinersClaim'
    BY <1>1 DEF JoinersClaim
  <1>3. OneJoiner'
    BY DEF OneJoiner
  <1>4. SleepersJoin'
    BY SleeperIsThread DEF SleepersJoin, Joining
  <1>5. WokenMay'
    BY <1>1 DEF WokenMay, Joining
  <1>6. CleanersMay'
    BY <1>1 DEF CleanersMay, Cleaning, Joining
  <1> QED
    BY <1>2, <1>3, <1>4, <1>5, <1>6

(* A step of a joiner from one place in thr_join() to another. *)
LEMMA JoinMoves ==
  ASSUME TypeOK, JoinInv, NEW t \in Tids, pc \in [Tids -> Locations],
         pc[t] \in Joining, pc'[t] \in Joining,
         \A u \in Tids \ {t} : pc'[u] = pc[u], peer' = peer, listed' = listed,
         claimed' = claimed, queue' = queue, LocalsSet,
         pc[t] # "j_wait" \/ \A x \in Tids : queue[x] # <<>> => queue[x][1] # t,
         \A u \in Tids \ {t} : phase'[u] = phase[u], phase'[t] # "woken",
         pc'[t] \in Cleaning => pc[peer[t]] \in {"x_vanish", "gone"}
  PROVE  JoinInv'
  <1> USE DEF JoinInv
  <1>1. \A u \in Tids : pc[u] \in Joining => peer[u] \in Tids
    BY DEF LocalsSet
  <1>2. \A x \in Tids : Known(x) <=> Known(x)'
    <2>1. pc[t] # "c_insert" /\ pc'[t] # "c_insert"
      BY DEF Joining
    <2> QED
      BY <2>1, KnownSame
  <1>3. JoinersClaim'
    BY <1>1, <1>2 DEF JoinersClaim
  <1>4. OneJoiner'
    BY DEF OneJoiner
  <1>5. SleepersJoin'
    BY SleeperIsThread DEF SleepersJoin, Joining
  <1>6. WokenMay'
    BY <1>1 DEF WokenMay, Joining, ExitLocations
  <1>7. CleanersMay'
    BY <1>1 DEF CleanersMay, Cleaning, Joining
  <1> QED
    BY <1>3, <1>4, <1>5, <1>6, <1>7

(* A step of a joiner out of thr_join(). *)
LEMMA JoinLeaves ==
  ASSUME TypeOK, JoinInv, NEW t \in Tids,
         pc[t] \in Joining \ {"j_wait"}, pc'[t] \notin Joining,
         \A u \in Tids \ {t} : pc'[u] = pc[u] /\ peer'[u] = peer[u],
         \A u \in Tids \ {t} : pc[u] \in Joining => Known(peer[u])',
         claimed' = claimed, queue' = queue, phase' = phase, LocalsSet
  PROVE  JoinInv'
  <1> USE DEF JoinInv
  <1>1. \A u \in Tids : pc[u] \in Joining => peer[u] \in Tids
    BY DEF LocalsSet
  <1>2. JoinersClaim'
    BY <1>1 DEF JoinersClaim
  <1>3. OneJoiner'
    BY DEF OneJoiner
  <1>4. SleepersJoin'
    BY SleeperIsThread DEF SleepersJoin, Joining
  <1>5. WokenMay'
    BY <1>1 DEF WokenMay, Joining, ExitLocations
  <1>6. CleanersMay'
    BY <1>1 DEF CleanersMay, Cleaning, Joining
  <1> QED
    BY <1>2, <1>3, <1>4, <1>5, <1>6

(* list_find() in thr_join() finds the thread: it is known, and with the   *)
(* mutex held nobody is half way through creating it.                      *)
LEMMA NotFoundNever ==
  ASSUME GInv, NEW t \in Tids, j_not_found(t)
  PROVE  FALSE
  <1>1. pc[t] = "j_check" /\ peer[t] \notin listed
    BY DEF j_not_found, Goto
  <1>2. Creating(peer[t])
    BY <1>1 DEF GInv, JoinInv, JoinersClaim, Joining, Known
  <1>3. PICK u \in Tids : pc[u] = "c_insert"
    BY <1>2 DEF Creating
  <1> QED
    BY <1>1, <1>3 DEF GInv, IInv, HoldersOwn, Critical

(* Joiners find their threads, and clean up when they are done. *)
LEMMA JoinStep ==
  ASSUME GoodCase, GInv, [Next]_vars
  PROVE  JoinInv'
  <1> USE DEF cvVars, stackVars, callVars, Mutexes, ListMutex, Goto, AssertThat, Locations
  <1>types. /\ pc \in [Tids -> Locations] /\ peer \in [Tids -> Tids \cup {NoTid}]
            /\ queue \in [Tids -> Seq(Tids)] /\ listed \subseteq Tids
            /\ td \in [Tids -> Records] /\ Root \in Tids
            /\ "malloc" \notin Failures
    BY ThreadAssumption DEF GInv, IInv, TypeOK, GoodCase
  <1>inv. /\ TypeOK /\ HoldersOwn /\ LocalsSet /\ JoinInv
          /\ phase \in [Tids -> {"running", "waiting", "woken"}]
    BY DEF GInv, IInv, TypeOK
  <1>1. ASSUME NEW t \in Tids, Runs(t), thr_init(t) PROVE JoinInv'
    <2>1. /\ pc[t] \notin Joining /\ pc'[t] \notin Joining
          /\ \A u \in Tids \ {t} : pc'[u] = pc[u] /\ peer'[u] = peer[u]
          /\ pc[t] \in ExitLocations => pc'[t] \in ExitLocations
          /\ pc[t] \in {"x_vanish", "gone"} => pc'[t] \in {"x_vanish", "gone"}
          /\ claimed \subseteq claimed' /\ queue' = queue /\ phase' = phase
      BY <1>1, <1>types
         DEF thr_init, NewRecord, NoRecord, Joining, ExitLocations
    <2>2. \A x \in Tids : Known(x) => Known(x)'
      <3>1. t = Root /\ pc[t] = "start" /\ listed' = {Root}
        BY <1>1 DEF thr_init
      <3>2. \A u \in Tids \ {Root} : pc[u] = "unborn" /\ u \notin listed
        BY <3>1, <1>types
           DEF GInv, IInv, FreshHidden, Fresh, StartInv, StartsAlone, NotStarted
      <3> QED
        BY <3>1, <3>2 DEF Known, Creating
    <2> QED
      BY <2>1, <2>2, <1>inv, JoinSame
  <1>2. ASSUME NEW t \in Tids, Runs(t), thr_init_fails(t) PROVE JoinInv'
    <2>1. /\ pc[t] \notin Joining /\ pc'[t] \notin Joining
          /\ \A u \in Tids \ {t} : pc'[u] = pc[u] /\ peer'[u] = peer[u]
          /\ pc[t] \in ExitLocations => pc'[t] \in ExitLocations
          /\ pc[t] \in {"x_vanish", "gone"} => pc'[t] \in {"x_vanish", "gone"}
          /\ claimed \subseteq claimed' /\ queue' = queue /\ phase' = phase
      BY <1>2, <1>types
         DEF thr_init_fails, NewRecord, NoRecord, Joining, ExitLocations
    <2>2. \A x \in Tids : Known(x) => Known(x)'
      <3>1. listed' = listed /\ pc[t] # "c_insert" /\ pc'[t] # "c_insert"
        BY <1>2, <1>types DEF thr_init_fails, NewRecord, NoRecord
      <3> QED
        BY <2>1, <3>1, KnownSame
    <2> QED
      BY <2>1, <2>2, <1>inv, JoinSame
  <1>3. ASSUME NEW t \in Tids, Runs(t), thr_init_malloc_null(t) PROVE FALSE
    BY <1>3, <1>types DEF thr_init_malloc_null
  <1>4. ASSUME NEW t \in Tids, Runs(t), thr_create(t) PROVE JoinInv'
    <2>1. /\ pc[t] \notin Joining /\ pc'[t] \notin Joining
          /\ \A u \in Tids \ {t} : pc'[u] = pc[u] /\ peer'[u] = peer[u]
          /\ pc[t] \in ExitLocations => pc'[t] \in ExitLocations
          /\ pc[t] \in {"x_vanish", "gone"} => pc'[t] \in {"x_vanish", "gone"}
          /\ claimed \subseteq claimed' /\ queue' = queue /\ phase' = phase
      BY <1>4, <1>types DEF thr_create, Joining, ExitLocations
    <2>2. \A x \in Tids : Known(x) => Known(x)'
      <3>1. listed' = listed /\ pc[t] # "c_insert" /\ pc'[t] # "c_insert"
        BY <1>4, <1>types DEF thr_create
      <3> QED
        BY <2>1, <3>1, KnownSame
    <2> QED
      BY <2>1, <2>2, <1>inv, JoinSame
  <1>5. ASSUME NEW t \in Tids, Runs(t), c_lock(t) PROVE JoinInv'
    <2>1. /\ pc[t] \notin Joining /\ pc'[t] \notin Joining
          /\ \A u \in Tids \ {t} : pc'[u] = pc[u] /\ peer'[u] = peer[u]
          /\ pc[t] \in ExitLocations => pc'[t] \in ExitLocations
          /\ pc[t] \in {"x_vanish", "gone"} => pc'[t] \in {"x_vanish", "gone"}
          /\ claimed \subseteq claimed' /\ queue' = queue /\ phase' = phase
      BY <1>5, <1>types DEF c_lock, Lock, CV!Lock, Joining, ExitLocations
    <2>2. \A x \in Tids : Known(x) => Known(x)'
      <3>1. listed' = listed /\ pc[t] # "c_insert" /\ pc'[t] # "c_insert"
        BY <1>5, <1>types DEF c_lock, Lock, CV!Lock
      <3> QED
        BY <2>1, <3>1, KnownSame
    <2> QED
      BY <2>1, <2>2, <1>inv, JoinSame
  <1>6. ASSUME NEW t \in Tids, Runs(t), c_null_func(t) PROVE JoinInv'
    <2>1. /\ pc[t] \notin Joining /\ pc'[t] \notin Joining
          /\ \A u \in Tids \ {t} : pc'[u] = pc[u] /\ peer'[u] = peer[u]
          /\ pc[t] \in ExitLocations => pc'[t] \in ExitLocations
          /\ pc[t] \in {"x_vanish", "gone"} => pc'[t] \in {"x_vanish", "gone"}
          /\ claimed \subseteq claimed' /\ queue' = queue /\ phase' = phase
      BY <1>6, <1>types
         DEF c_null_func, CreateFails, Unlock, CV!Unlock, Joining,
             ExitLocations
    <2>2. \A x \in Tids : Known(x) => Known(x)'
      <3>1. listed' = listed /\ pc[t] # "c_insert" /\ pc'[t] # "c_insert"
        BY <1>6, <1>types DEF c_null_func, CreateFails, Unlock, CV!Unlock
      <3> QED
        BY <2>1, <3>1, KnownSame
    <2> QED
      BY <2>1, <2>2, <1>inv, JoinSame
  <1>7. ASSUME NEW t \in Tids, Runs(t), c_pages(t) PROVE JoinInv'
    <2>1. /\ pc[t] \notin Joining /\ pc'[t] \notin Joining
          /\ \A u \in Tids \ {t} : pc'[u] = pc[u] /\ peer'[u] = peer[u]
          /\ pc[t] \in ExitLocations => pc'[t] \in ExitLocations
          /\ pc[t] \in {"x_vanish", "gone"} => pc'[t] \in {"x_vanish", "gone"}
          /\ claimed \subseteq claimed' /\ queue' = queue /\ phase' = phase
      BY <1>7, <1>types DEF c_pages, Candidates, Joining, ExitLocations
    <2>2. \A x \in Tids : Known(x) => Known(x)'
      <3>1. listed' = listed /\ pc[t] # "c_insert" /\ pc'[t] # "c_insert"
        BY <1>7, <1>types DEF c_pages, Candidates
      <3> QED
        BY <2>1, <3>1, KnownSame
    <2> QED
      BY <2>1, <2>2, <1>inv, JoinSame
  <1>8. ASSUME NEW t \in Tids, Runs(t), c_no_pages(t) PROVE JoinInv'
    <2>1. /\ pc[t] \notin Joining /\ pc'[t] \notin Joining
          /\ \A u \in Tids \ {t} : pc'[u] = pc[u] /\ peer'[u] = peer[u]
          /\ pc[t] \in ExitLocations => pc'[t] \in ExitLocations
          /\ pc[t] \in {"x_vanish", "gone"} => pc'[t] \in {"x_vanish", "gone"}
          /\ claimed \subseteq claimed' /\ queue' = queue /\ phase' = phase
      BY <1>8, <1>types
         DEF c_no_pages, CreateFails, Unlock, CV!Unlock, Joining,
             ExitLocations
    <2>2. \A x \in Tids : Known(x) => Known(x)'
      <3>1. listed' = listed /\ pc[t] # "c_insert" /\ pc'[t] # "c_insert"
        BY <1>8, <1>types DEF c_no_pages, CreateFails, Unlock, CV!Unlock
      <3> QED
        BY <2>1, <3>1, KnownSame
    <2> QED
      BY <2>1, <2>2, <1>inv, JoinSame
  <1>9. ASSUME NEW t \in Tids, Runs(t), c_malloc_null(t) PROVE FALSE
    BY <1>9, <1>types DEF c_malloc_null
  <1>10. ASSUME NEW t \in Tids, Runs(t), c_fork(t) PROVE JoinInv'
    <2>1. PICK c \in Tids :
            /\ pc[t] = "c_fork" /\ pc[c] = "unborn" /\ c # t
            /\ pc' = [pc EXCEPT ![t] = "c_insert", ![c] = "app"]
            /\ peer' = [peer EXCEPT ![t] = c]
            /\ listed' = listed /\ claimed' = claimed
            /\ queue' = queue /\ phase' = phase
      BY <1>10, <1>inv, ForkEffect
    <2>2. /\ pc[t] \notin Joining /\ pc'[t] \notin Joining
          /\ \A u \in Tids \ {t} : pc[u] \in Joining =>
                pc'[u] = pc[u] /\ peer'[u] = peer[u]
          /\ \A u \in Tids \ {t} : pc'[u] \in Joining => pc'[u] = pc[u]
          /\ \A u \in Tids : pc[u] \in ExitLocations => pc'[u] \in ExitLocations
          /\ \A u \in Tids : pc[u] \in {"x_vanish", "gone"} =>
                                pc'[u] \in {"x_vanish", "gone"}
      BY <2>1, <1>types DEF Joining, ExitLocations
    <2>3. \A x \in Tids : Known(x) => Known(x)'
      BY <2>1, <1>types DEF Known, Creating
    <2> QED
      BY <2>1, <2>2, <2>3, <1>inv, JoinSame
  <1>11. ASSUME NEW t \in Tids, Runs(t), c_fork_fails(t) PROVE JoinInv'
    <2>1. /\ pc[t] \notin Joining /\ pc'[t] \notin Joining
          /\ \A u \in Tids \ {t} : pc'[u] = pc[u] /\ peer'[u] = peer[u]
          /\ pc[t] \in ExitLocations => pc'[t] \in ExitLocations
          /\ pc[t] \in {"x_vanish", "gone"} => pc'[t] \in {"x_vanish", "gone"}
          /\ claimed \subseteq claimed' /\ queue' = queue /\ phase' = phase
      BY <1>11, <1>types
         DEF c_fork_fails, ReturnPages, CreateFails, Unlock, CV!Unlock,
             Joining, ExitLocations
    <2>2. \A x \in Tids : Known(x) => Known(x)'
      <3>1. listed' = listed /\ pc[t] # "c_insert" /\ pc'[t] # "c_insert"
        BY <1>11, <1>types
           DEF c_fork_fails, ReturnPages, CreateFails, Unlock, CV!Unlock
      <3> QED
        BY <2>1, <3>1, KnownSame
    <2> QED
      BY <2>1, <2>2, <1>inv, JoinSame
  <1>12. ASSUME NEW t \in Tids, Runs(t), c_insert(t) PROVE JoinInv'
    <2>1. /\ pc[t] \notin Joining /\ pc'[t] \notin Joining
          /\ \A u \in Tids \ {t} : pc'[u] = pc[u] /\ peer'[u] = peer[u]
          /\ pc[t] \in ExitLocations => pc'[t] \in ExitLocations
          /\ pc[t] \in {"x_vanish", "gone"} => pc'[t] \in {"x_vanish", "gone"}
          /\ claimed \subseteq claimed' /\ queue' = queue /\ phase' = phase
      BY <1>12, <1>types
         DEF c_insert, Inserted, NewRecord, NoRecord, Unlock, CV!Unlock,
             Joining, ExitLocations
    <2>2. \A x \in Tids : Known(x) => Known(x)'
      <3>1. listed' = listed \cup {peer[t]}
        BY <1>12 DEF c_insert, Inserted
      <3>2. \A u \in Tids \ {t} : pc[u] # "c_insert"
        BY <1>12, <1>inv DEF c_insert, HoldersOwn, Critical
      <3> QED
        BY <3>1, <3>2, <2>1 DEF Known, Creating
    <2> QED
      BY <2>1, <2>2, <1>inv, JoinSame
  <1>13. ASSUME NEW t \in Tids, Runs(t), c_insert_fails(t) PROVE FALSE
    BY <1>13, <1>types DEF c_insert_fails
  <1>14. ASSUME NEW t \in Tids, NEW x \in Tids, Runs(t), thr_join(t, x)
         PROVE  JoinInv'
    <2>1. /\ pc[t] = "app" /\ pc' = [pc EXCEPT ![t] = "j_lock"]
          /\ peer' = [peer EXCEPT ![t] = x] /\ claimed' = claimed \cup {x}
          /\ listed' = listed /\ queue' = queue /\ phase' = phase
          /\ pc[x] # "unborn" /\ x \notin claimed
      BY <1>14 DEF thr_join, GoodCase
    <2>2. Known(x)
      <3>1. ~NotStarted
        BY <2>1, StepStarted DEF GInv, StartInv
      <3> QED
        BY <2>1, <3>1 DEF GInv, StartInv, UnclaimedKnown
    <2>3. \A y \in Tids : Known(y) <=> Known(y)'
      BY <2>1, <1>types, KnownSame
    <2>4. /\ pc'[t] = "j_lock" /\ peer'[t] = x
          /\ \A u \in Tids \ {t} : pc'[u] = pc[u] /\ peer'[u] = peer[u]
      BY <2>1, <1>types
    <2>5. \A u \in Tids : pc[u] \in Joining =>
             peer[u] \in Tids /\ peer[u] \in claimed /\ Known(peer[u])
      BY <1>inv DEF LocalsSet, JoinInv, JoinersClaim
    <2>6. JoinersClaim'
      BY <2>1, <2>2, <2>3, <2>4, <2>5 DEF JoinersClaim
    <2>7. OneJoiner'
      BY <2>1, <2>4, <2>5, <1>inv DEF JoinInv, OneJoiner
    <2>8. SleepersJoin'
      BY <2>1, <2>4, <1>inv, SleeperIsThread DEF JoinInv, SleepersJoin
    <2>9. WokenMay'
      BY <2>1, <2>4, <2>5, <1>inv DEF JoinInv, WokenMay, ExitLocations, Joining
    <2>10. CleanersMay'
      BY <2>1, <2>4, <2>5, <1>inv DEF JoinInv, CleanersMay, Cleaning, Joining
    <2> QED
      BY <2>6, <2>7, <2>8, <2>9, <2>10 DEF JoinInv
  <1>15. ASSUME NEW t \in Tids, Runs(t), j_lock(t) PROVE JoinInv'
    <2>1. /\ pc[t] \in Joining /\ pc'[t] \in Joining
          /\ \A u \in Tids \ {t} : pc'[u] = pc[u]
          /\ peer' = peer /\ listed' = listed /\ claimed' = claimed
          /\ queue' = queue /\ phase' = phase
      BY <1>15, <1>types DEF j_lock, Lock, CV!Lock, Joining
    <2>2. pc[t] # "j_wait" /\ pc'[t] # "j_wait"
      BY <1>15, <1>types DEF j_lock, Lock, CV!Lock
    <2>3. phase[t] # "woken"
      BY <2>2, <1>inv DEF JoinInv, WokenMay
    <2>4. pc'[t] \in Cleaning => pc[peer[t]] \in {"x_vanish", "gone"}
      BY <1>15, <1>types DEF j_lock, Lock, CV!Lock, Cleaning
    <2> QED
      BY <2>1, <2>2, <2>3, <2>4, <1>types, <1>inv, JoinMoves
  <1>16. ASSUME NEW t \in Tids, Runs(t), j_not_found(t) PROVE JoinInv'
    BY <1>16, NotFoundNever DEF GoodCase
  <1>17. ASSUME NEW t \in Tids, Runs(t), j_refused(t) PROVE JoinInv'
    <2>1. /\ pc[t] = "j_check" /\ pc' = [pc EXCEPT ![t] = "app"]
          /\ peer' = [peer EXCEPT ![t] = NoTid] /\ claimed' = claimed
          /\ listed' = listed /\ queue' = queue /\ phase' = phase
      BY <1>17 DEF j_refused, JoinReturns, Unlock, CV!Unlock
    <2>2. /\ pc[t] \in Joining \ {"j_wait"} /\ pc'[t] \notin Joining
          /\ \A u \in Tids \ {t} : pc'[u] = pc[u] /\ peer'[u] = peer[u]
      BY <2>1, <1>types DEF Joining
    <2>3. \A x \in Tids : Known(x) <=> Known(x)'
      BY <2>1, <1>types, KnownSame
    <2>4. \A u \in Tids \ {t} : pc[u] \in Joining => Known(peer[u])'
      BY <2>2, <2>3, <1>inv DEF LocalsSet, JoinInv, JoinersClaim
    <2> QED
      BY <2>1, <2>2, <2>4, <1>types, <1>inv, JoinLeaves
  <1>18. ASSUME NEW t \in Tids, Runs(t), j_waits(t) PROVE JoinInv'
    <2> DEFINE p == peer[t]
    <2>1. /\ pc[t] = "j_check" /\ pc' = [pc EXCEPT ![t] = "j_wait"]
          /\ peer' = peer /\ claimed' = claimed /\ listed' = listed
          /\ queue' = [queue EXCEPT ![p] = Append(@, t)]
          /\ phase' = [phase EXCEPT ![t] = "waiting"]
          /\ td[p].joinedFlag # 1
      BY <1>18 DEF j_waits, Joined, MustWait, CV!Wait
    <2>2. p \in Tids /\ queue[p] = <<>>
      BY <2>1, <1>inv
         DEF LocalsSet, Joining, GInv, IInv, SleepersMark, RecordInv, NoPanic
    <2>3. queue'[p][1] = t /\ \A x \in Tids \ {p} : queue'[x] = queue[x]
      <3>1. Append(<<>>, t)[1] = t
        OBVIOUS
      <3> QED
        BY <2>1, <2>2, <3>1, <1>types
    <2> HIDE DEF p
    <2>4. /\ pc'[t] = "j_wait" /\ phase'[t] = "waiting"
          /\ \A u \in Tids \ {t} : pc'[u] = pc[u] /\ phase'[u] = phase[u]
          /\ peer'[t] = p
      BY <2>1, <1>types, <1>inv DEF p
    <2>5. \A x \in Tids : Known(x) <=> Known(x)'
      BY <2>1, <2>4, KnownSame
    <2>6. \A u \in Tids : pc[u] \in Joining => peer[u] \in Tids
      BY <1>inv DEF LocalsSet
    <2>7. JoinersClaim'
      BY <2>1, <2>4, <2>5, <2>6, <1>inv DEF JoinInv, JoinersClaim, Joining
    <2>8. OneJoiner'
      BY <2>1, <2>4, <1>inv DEF JoinInv, OneJoiner, Joining
    <2>9. SleepersJoin'
      BY <2>1, <2>2, <2>3, <2>4, <1>inv, SleeperIsThread
         DEF JoinInv, SleepersJoin
    <2>10. WokenMay'
      BY <2>1, <2>4, <2>6, <1>inv DEF JoinInv, WokenMay, ExitLocations, Joining
    <2>11. CleanersMay'
      BY <2>1, <2>4, <2>6, <1>inv DEF JoinInv, CleanersMay, Cleaning, Joining
    <2> QED
      BY <2>7, <2>8, <2>9, <2>10, <2>11 DEF JoinInv
  <1>19. ASSUME NEW t \in Tids, Runs(t), j_exited(t) PROVE JoinInv'
    <2>1. /\ pc[t] \in Joining /\ pc'[t] \in Joining
          /\ \A u \in Tids \ {t} : pc'[u] = pc[u]
          /\ peer' = peer /\ listed' = listed /\ claimed' = claimed
          /\ queue' = queue /\ phase' = phase
      BY <1>19, <1>types DEF j_exited, MustWait, Joining
    <2>2. pc[t] # "j_wait" /\ pc'[t] # "j_wait"
      BY <1>19, <1>types DEF j_exited, MustWait
    <2>3. phase[t] # "woken"
      BY <2>2, <1>inv DEF JoinInv, WokenMay
    <2>4. pc'[t] \in Cleaning => pc[peer[t]] \in {"x_vanish", "gone"}
      <3>1. /\ pc[t] = "j_check" /\ peer[t] \in listed
            /\ td[peer[t]].exitFlag = 1
        BY <1>19 DEF j_exited, MustWait
      <3>2. pc[peer[t]] \in ExitLocations
        BY <3>1 DEF GInv, RecordInv, ExitFlagTrue
      <3>3. pc[peer[t]] # "x_unlock"
        BY <3>1, <1>types, <1>inv DEF HoldersOwn, Critical
      <3> QED
        BY <3>2, <3>3 DEF ExitLocations
    <2> QED
      BY <2>1, <2>2, <2>3, <2>4, <1>types, <1>inv, JoinMoves
  <1>20. ASSUME NEW t \in Tids, Runs(t), j_woken(t) PROVE JoinInv'
    <2>1. /\ pc[t] = "j_wait" /\ pc' = [pc EXCEPT ![t] = "j_clean"]
          /\ peer' = peer /\ listed' = listed /\ claimed' = claimed
          /\ queue' = queue /\ phase' = [phase EXCEPT ![t] = "running"]
          /\ phase[t] = "woken" /\ owner[ListMutex] = NoTid
      BY <1>20 DEF j_woken, CV!Return
    <2>2. /\ pc[t] \in Joining /\ pc'[t] \in Joining
          /\ \A u \in Tids \ {t} : pc'[u] = pc[u] /\ phase'[u] = phase[u]
          /\ phase'[t] # "woken"
      BY <2>1, <1>types, <1>inv DEF Joining
    <2>3. peer[t] \in Tids /\ pc[peer[t]] \in ExitLocations
      BY <2>1, <2>2, <1>inv DEF LocalsSet, JoinInv, WokenMay
    <2>4. pc[peer[t]] # "x_unlock"
      BY <2>1, <2>3, <1>inv, ThreadAssumption DEF HoldersOwn, Critical
    <2>5. \A x \in Tids : queue[x] # <<>> => queue[x][1] # t
      BY <2>1, <1>inv DEF JoinInv, SleepersJoin
    <2> QED
      BY <2>1, <2>2, <2>3, <2>4, <2>5, <1>types, <1>inv, JoinMoves
         DEF ExitLocations
  <1>21. ASSUME NEW t \in Tids, Runs(t), j_clean(t) PROVE JoinInv'
    <2>1. /\ pc[t] \in Joining /\ pc'[t] \in Joining
          /\ \A u \in Tids \ {t} : pc'[u] = pc[u]
          /\ peer' = peer /\ listed' = listed /\ claimed' = claimed
          /\ queue' = queue /\ phase' = phase
      BY <1>21, <1>types DEF j_clean, Joining
    <2>2. pc[t] # "j_wait" /\ pc'[t] # "j_wait"
      BY <1>21, <1>types DEF j_clean
    <2>3. phase[t] # "woken"
      BY <2>2, <1>inv DEF JoinInv, WokenMay
    <2>4. pc'[t] \in Cleaning => pc[peer[t]] \in {"x_vanish", "gone"}
      BY <1>21, <1>inv DEF j_clean, Cleaning, JoinInv, CleanersMay
    <2> QED
      BY <2>1, <2>2, <2>3, <2>4, <1>types, <1>inv, JoinMoves
  <1>22. ASSUME NEW t \in Tids, Runs(t), j_pages(t) PROVE JoinInv'
    <2>1. /\ pc[t] \in Joining /\ pc'[t] \in Joining
          /\ \A u \in Tids \ {t} : pc'[u] = pc[u]
          /\ peer' = peer /\ listed' = listed /\ claimed' = claimed
          /\ queue' = queue /\ phase' = phase
      BY <1>22, <1>types DEF j_pages, Joining
    <2>2. pc[t] # "j_wait" /\ pc'[t] # "j_wait"
      BY <1>22, <1>types DEF j_pages
    <2>3. phase[t] # "woken"
      BY <2>2, <1>inv DEF JoinInv, WokenMay
    <2>4. pc'[t] \in Cleaning => pc[peer[t]] \in {"x_vanish", "gone"}
      BY <1>22, <1>inv DEF j_pages, Cleaning, JoinInv, CleanersMay
    <2> QED
      BY <2>1, <2>2, <2>3, <2>4, <1>types, <1>inv, JoinMoves
  <1>23. ASSUME NEW t \in Tids, Runs(t), j_remove(t) PROVE JoinInv'
    <2>1. /\ pc[t] = "j_remove" /\ pc' = [pc EXCEPT ![t] = "app"]
          /\ peer' = [peer EXCEPT ![t] = NoTid] /\ claimed' = claimed
          /\ listed' = listed \ {peer[t]} /\ queue' = queue /\ phase' = phase
      BY <1>23 DEF j_remove, JoinReturns, Unlock, CV!Unlock
    <2>2. /\ pc[t] \in Joining \ {"j_wait"} /\ pc'[t] \notin Joining
          /\ \A u \in Tids \ {t} : pc'[u] = pc[u] /\ peer'[u] = peer[u]
      BY <2>1, <1>types DEF Joining
    <2>3. \A x \in Tids : Known(x) /\ x # peer[t] => Known(x)'
      BY <2>1, <2>2, <1>types DEF Known, Creating
    <2>4. \A u \in Tids \ {t} : pc[u] \in Joining => peer[u] # peer[t]
      BY <2>2, <1>inv DEF JoinInv, OneJoiner
    <2>5. \A u \in Tids \ {t} : pc[u] \in Joining => Known(peer[u])'
      BY <2>2, <2>3, <2>4, <1>inv DEF LocalsSet, JoinInv, JoinersClaim
    <2> QED
      BY <2>1, <2>2, <2>5, <1>types, <1>inv, JoinLeaves
  <1>24. ASSUME NEW t \in Tids, NEW v \in Statuses, Runs(t), thr_exit(t, v)
         PROVE  JoinInv'
    <2>1. /\ pc[t] \notin Joining /\ pc'[t] \notin Joining
          /\ \A u \in Tids \ {t} : pc'[u] = pc[u] /\ peer'[u] = peer[u]
          /\ pc[t] \in ExitLocations => pc'[t] \in ExitLocations
          /\ pc[t] \in {"x_vanish", "gone"} => pc'[t] \in {"x_vanish", "gone"}
          /\ claimed \subseteq claimed' /\ queue' = queue /\ phase' = phase
      BY <1>24, <1>types DEF thr_exit, Joining, ExitLocations
    <2>2. \A x \in Tids : Known(x) => Known(x)'
      <3>1. listed' = listed /\ pc[t] # "c_insert" /\ pc'[t] # "c_insert"
        BY <1>24, <1>types DEF thr_exit
      <3> QED
        BY <2>1, <3>1, KnownSame
    <2> QED
      BY <2>1, <2>2, <1>inv, JoinSame
  <1>25. ASSUME NEW t \in Tids, Runs(t), x_lock(t) PROVE JoinInv'
    <2>1. /\ pc[t] \notin Joining /\ pc'[t] \notin Joining
          /\ \A u \in Tids \ {t} : pc'[u] = pc[u] /\ peer'[u] = peer[u]
          /\ pc[t] \in ExitLocations => pc'[t] \in ExitLocations
          /\ pc[t] \in {"x_vanish", "gone"} => pc'[t] \in {"x_vanish", "gone"}
          /\ claimed \subseteq claimed' /\ queue' = queue /\ phase' = phase
      BY <1>25, <1>types DEF x_lock, Lock, CV!Lock, Joining, ExitLocations
    <2>2. \A x \in Tids : Known(x) => Known(x)'
      <3>1. listed' = listed /\ pc[t] # "c_insert" /\ pc'[t] # "c_insert"
        BY <1>25, <1>types DEF x_lock, Lock, CV!Lock
      <3> QED
        BY <2>1, <3>1, KnownSame
    <2> QED
      BY <2>1, <2>2, <1>inv, JoinSame
  <1>26. ASSUME NEW t \in Tids, Runs(t), x_signal(t) PROVE JoinInv'
    <2>1. /\ pc[t] = "x_signal" /\ pc' = [pc EXCEPT ![t] = "x_unlock"]
          /\ peer' = peer /\ claimed' = claimed /\ listed' = listed
          /\ WakeJoiner(t)
      BY <1>26 DEF x_signal
    <2>2. /\ pc[t] \notin Joining /\ pc'[t] \notin Joining
          /\ \A u \in Tids \ {t} : pc'[u] = pc[u] /\ peer'[u] = peer[u]
          /\ pc'[t] = "x_unlock" /\ "x_unlock" \in ExitLocations
      BY <2>1, <1>types DEF Joining, ExitLocations
    <2>3. \A x \in Tids : Known(x) <=> Known(x)'
      BY <2>1, <2>2, KnownSame
    <2>4. CASE queue[t] = <<>>
      <3>1. queue' = queue /\ phase' = phase
        BY <2>1, <2>4 DEF WakeJoiner
      <3> QED
        BY <2>1, <2>2, <2>3, <3>1, <1>inv, JoinSame
    <2>5. CASE queue[t] # <<>>
      <3>1. PICK q : q = queue[t] /\ q # <<>>
        BY <2>5
      <3>2. Len(q) <= 1
        BY <3>1 DEF GInv, IInv, OneWaiter
      <3>3. /\ q[1] \in Tids
            /\ \A x \in Tids \ {t} : queue'[x] = queue[x]
            /\ queue'[t] = <<>>
            /\ phase' = [phase EXCEPT ![q[1]] = "woken"]
        BY <2>1, <3>1, <3>2, <1>inv, WakeFacts
      <3>4. PICK w \in Tids : w = q[1] /\ pc[w] = "j_wait" /\ peer[w] = t
        BY <3>1, <3>3, <1>inv DEF JoinInv, SleepersJoin
      <3>5. phase'[w] = "woken" /\ \A u \in Tids \ {w} : phase'[u] = phase[u]
        BY <3>3, <3>4, <1>inv
      <3>6. \A u \in Tids : pc[u] \in Joining => peer[u] \in Tids
        BY <1>inv DEF LocalsSet
      <3>7. JoinersClaim'
        BY <2>1, <2>2, <2>3, <3>6, <1>inv DEF JoinInv, JoinersClaim
      <3>8. OneJoiner'
        BY <2>1, <2>2, <1>inv DEF JoinInv, OneJoiner
      <3>9. SleepersJoin'
        BY <2>1, <2>2, <3>3, <3>4, <3>5, <1>inv, SleeperIsThread
           DEF JoinInv, SleepersJoin, Joining
      <3>10. WokenMay'
        BY <2>1, <2>2, <3>4, <3>5, <3>6, <1>inv
           DEF JoinInv, WokenMay, ExitLocations, Joining
      <3>11. CleanersMay'
        BY <2>1, <2>2, <3>6, <1>inv DEF JoinInv, CleanersMay, Cleaning, Joining
      <3> QED
        BY <3>7, <3>8, <3>9, <3>10, <3>11 DEF JoinInv
    <2> QED
      BY <2>4, <2>5
  <1>27. ASSUME NEW t \in Tids, Runs(t), x_unlock(t) PROVE JoinInv'
    <2>1. /\ pc[t] \notin Joining /\ pc'[t] \notin Joining
          /\ \A u \in Tids \ {t} : pc'[u] = pc[u] /\ peer'[u] = peer[u]
          /\ pc[t] \in ExitLocations => pc'[t] \in ExitLocations
          /\ pc[t] \in {"x_vanish", "gone"} => pc'[t] \in {"x_vanish", "gone"}
          /\ claimed \subseteq claimed' /\ queue' = queue /\ phase' = phase
      BY <1>27, <1>types DEF x_unlock, Unlock, CV!Unlock, Joining, ExitLocations
    <2>2. \A x \in Tids : Known(x) => Known(x)'
      <3>1. listed' = listed /\ pc[t] # "c_insert" /\ pc'[t] # "c_insert"
        BY <1>27, <1>types DEF x_unlock, Unlock, CV!Unlock
      <3> QED
        BY <2>1, <3>1, KnownSame
    <2> QED
      BY <2>1, <2>2, <1>inv, JoinSame
  <1>28. ASSUME NEW t \in Tids, Runs(t), vanish(t) PROVE JoinInv'
    <2>1. /\ pc[t] \notin Joining /\ pc'[t] \notin Joining
          /\ \A u \in Tids \ {t} : pc'[u] = pc[u] /\ peer'[u] = peer[u]
          /\ pc[t] \in ExitLocations => pc'[t] \in ExitLocations
          /\ pc[t] \in {"x_vanish", "gone"} => pc'[t] \in {"x_vanish", "gone"}
          /\ claimed \subseteq claimed' /\ queue' = queue /\ phase' = phase
      BY <1>28, <1>types DEF vanish, Joining, ExitLocations
    <2>2. \A x \in Tids : Known(x) => Known(x)'
      <3>1. listed' = listed /\ pc[t] # "c_insert" /\ pc'[t] # "c_insert"
        BY <1>28, <1>types DEF vanish
      <3> QED
        BY <2>1, <3>1, KnownSame
    <2> QED
      BY <2>1, <2>2, <1>inv, JoinSame
  <1>29. ASSUME NEW t \in Tids, Faults(t) PROVE JoinInv'
    <2>1. /\ pc[t] \notin Joining /\ pc'[t] \notin Joining
          /\ \A u \in Tids \ {t} : pc'[u] = pc[u] /\ peer'[u] = peer[u]
          /\ pc[t] \in ExitLocations => pc'[t] \in ExitLocations
          /\ pc[t] \in {"x_vanish", "gone"} => pc'[t] \in {"x_vanish", "gone"}
          /\ claimed \subseteq claimed' /\ queue' = queue /\ phase' = phase
      BY <1>29, <1>types, FaultAtEnd DEF Faults, fault, Joining, ExitLocations
    <2>2. \A x \in Tids : Known(x) => Known(x)'
      <3>1. listed' = listed /\ pc[t] # "c_insert" /\ pc'[t] # "c_insert"
        BY <1>29, <1>types, FaultAtEnd DEF Faults, fault
      <3> QED
        BY <2>1, <3>1, KnownSame
    <2> QED
      BY <2>1, <2>2, <1>inv, JoinSame
  <1>30. CASE UNCHANGED vars
    BY <1>30, <1>inv
       DEF vars, JoinInv, JoinersClaim, OneJoiner, SleepersJoin, WokenMay, CleanersMay,
           Known, Creating
  <1> QED
    BY <1>1, <1>2, <1>3, <1>4, <1>5, <1>6, <1>7, <1>8, <1>9, <1>10,
       <1>11, <1>12, <1>13, <1>14, <1>15, <1>16, <1>17, <1>18, <1>19,
       <1>20, <1>21, <1>22, <1>23, <1>24, <1>25, <1>26, <1>27, <1>28,
       <1>29, <1>30
       DEF Next, AppStep, LibStep

-----------------------------------------------------------------------------
(* The thread_t records.  Who holds the mutex in thr_join() has found the  *)
(* thread, and nobody else is in thr_join() for it.                        *)
LEMMA JoinerFinds ==
  ASSUME GInv, NEW t \in Tids, pc[t] \in Joining \cap Critical
  PROVE  /\ peer[t] \in Tids /\ peer[t] \in listed
         /\ \A u \in Tids \ {t} : pc[u] \in Joining => peer[u] # peer[t]
  <1>1. peer[t] \in Tids /\ Known(peer[t])
    BY DEF GInv, IInv, LocalsSet, JoinInv, JoinersClaim
  <1>2. ~Creating(peer[t])
    BY DEF GInv, IInv, HoldersOwn, Critical, Creating, Joining
  <1> QED
    BY <1>1, <1>2 DEF Known, GInv, JoinInv, OneJoiner

(* A step that does nothing to what the records say. *)
LEMMA RecordSame ==
  ASSUME LocalsSet, CleanersMay, RecordInv, NEW t \in Tids, listed \subseteq Tids,
         listed' = listed, got' = got, panicked' = panicked,
         \A x \in Tids : /\ td'[x].exitFlag = td[x].exitFlag
                         /\ td'[x].status = td[x].status
                         /\ td'[x].cond = td[x].cond,
         \A u \in Tids \ {t} : /\ pc'[u] = pc[u] /\ peer'[u] = peer[u]
                               /\ value'[u] = value[u],
         pc[t] \in ExitLocations <=> pc'[t] \in ExitLocations,
         pc[t] \in ExitLocations => value'[t] = value[t],
         pc'[t] \in {"x_lock", "x_signal"} => value'[t] \in Statuses,
         pc[t] # "c_insert", pc'[t] # "c_insert",
         pc[t] \in {"j_pages", "j_remove"} <=> pc'[t] \in {"j_pages", "j_remove"},
         pc[t] \in {"j_pages", "j_remove"} => peer'[t] = peer[t]
  PROVE  RecordInv'
  <1> USE DEF RecordInv
  <1>1. \A x \in Tids : Creating(x)' <=> Creating(x)
    BY KnownSame
  <1>2. ExitFlagTrue'
    BY DEF ExitFlagTrue
  <1>3. StatusKept'
    BY DEF StatusKept
  <1>4. CondReady'
    <2>1. SUFFICES ASSUME NEW x \in listed, td[x].cond # 1
                   PROVE  \E u \in Tids : /\ pc'[u] \in {"j_pages", "j_remove"}
                                          /\ peer'[u] = x
      BY DEF CondReady
    <2>2. PICK u \in Tids : pc[u] \in {"j_pages", "j_remove"} /\ peer[u] = x
      BY <2>1 DEF CondReady
    <2> QED
      BY <2>2
  <1>5. JoinGetsStatus'
    <2>1. SUFFICES ASSUME NEW u \in Tids, pc'[u] \in {"j_pages", "j_remove"}
                   PROVE  got'[u] = value'[peer'[u]] /\ got'[u] # NoStatus
      BY DEF JoinGetsStatus
    <2>2. pc[u] \in {"j_pages", "j_remove"} /\ peer'[u] = peer[u]
      BY <2>1
    <2>3. peer[u] \in Tids /\ pc[peer[u]] \in {"x_vanish", "gone"}
      BY <2>2 DEF LocalsSet, CleanersMay, Cleaning, Joining
    <2>4. value'[peer[u]] = value[peer[u]]
      BY <2>3 DEF ExitLocations
    <2> QED
      BY <2>2, <2>4 DEF JoinGetsStatus
  <1>6. ChildrenWait'
    BY <1>1 DEF ChildrenWait
  <1>7. NoPanic'
    BY DEF NoPanic
  <1> QED
    BY <1>2, <1>3, <1>4, <1>5, <1>6, <1>7

(* The thread_t says what its thread did, and no assertion fails. *)
LEMMA RecordStep ==
  ASSUME GoodCase, GInv, [Next]_vars
  PROVE  RecordInv'
  <1> USE DEF cvVars, stackVars, callVars, Mutexes, ListMutex, Goto, AssertThat, Locations
  <1>types. /\ pc \in [Tids -> Locations] /\ peer \in [Tids -> Tids \cup {NoTid}]
            /\ queue \in [Tids -> Seq(Tids)] /\ listed \subseteq Tids
            /\ td \in [Tids -> Records] /\ Root \in Tids
            /\ "malloc" \notin Failures
    BY ThreadAssumption DEF GInv, IInv, TypeOK, GoodCase
  <1>inv. /\ TypeOK /\ HoldersOwn /\ LocalsSet /\ JoinInv /\ RecordInv /\ FreshHidden
          /\ CleanersMay
          /\ value \in [Tids -> Statuses \cup {NoStatus}]
          /\ got \in [Tids -> Statuses \cup {NoStatus}]
    BY DEF GInv, IInv, TypeOK, JoinInv
  <1>1. ASSUME NEW t \in Tids, Runs(t), thr_init(t) PROVE RecordInv'
    <2>1. /\ t = Root /\ pc[t] = "start" /\ pc' = [pc EXCEPT ![t] = "app"]
          /\ listed' = {t} /\ panicked' = panicked
          /\ td' = [td EXCEPT ![t] = NewRecord(NoSlot)]
      BY <1>1 DEF thr_init
    <2>2. \A u \in Tids : pc'[u] \in {"unborn", "app"}
      BY <2>1, <1>types DEF GInv, StartInv, StartsAlone, NotStarted
    <2>3. td'[t].exitFlag = 0 /\ td'[t].cond = 1
      BY <2>1, <1>types DEF NewRecord, NoRecord
    <2>ef. ExitFlagTrue'
      BY <2>1, <2>3 DEF ExitFlagTrue
    <2>sk. StatusKept'
      BY <2>2 DEF StatusKept, ExitLocations
    <2>cr. CondReady'
      BY <2>1, <2>3 DEF CondReady
    <2>js. JoinGetsStatus'
      BY <2>2 DEF JoinGetsStatus
    <2>cw. ChildrenWait'
      BY <2>2 DEF ChildrenWait, Creating
    <2>np. NoPanic'
      BY <2>1, <1>inv DEF RecordInv, NoPanic
    <2> QED
      BY <2>ef, <2>sk, <2>cr, <2>js, <2>cw, <2>np DEF RecordInv
  <1>2. ASSUME NEW t \in Tids, Runs(t), thr_init_fails(t) PROVE RecordInv'
    <2>1. /\ t = Root /\ pc[t] = "start" /\ pc' = [pc EXCEPT ![t] = "gone"]
          /\ listed' = listed /\ panicked' = panicked
      BY <1>2 DEF thr_init_fails
    <2>2. \A u \in Tids : pc'[u] \in {"unborn", "gone"} /\ u \notin listed
      BY <2>1, <1>types, <1>inv
         DEF GInv, StartInv, StartsAlone, NotStarted, FreshHidden, Fresh
    <2>ef. ExitFlagTrue'
      BY <2>1, <2>2, <1>types DEF ExitFlagTrue
    <2>sk. StatusKept'
      BY <2>1, <2>2 DEF StatusKept, ExitLocations
    <2>cr. CondReady'
      BY <2>1, <2>2, <1>types DEF CondReady
    <2>js. JoinGetsStatus'
      BY <2>2 DEF JoinGetsStatus
    <2>cw. ChildrenWait'
      BY <2>2 DEF ChildrenWait, Creating
    <2>np. NoPanic'
      BY <2>1, <1>inv DEF RecordInv, NoPanic
    <2> QED
      BY <2>ef, <2>sk, <2>cr, <2>js, <2>cw, <2>np DEF RecordInv
  <1>3. ASSUME NEW t \in Tids, Runs(t), thr_init_malloc_null(t) PROVE FALSE
    BY <1>3, <1>types DEF thr_init_malloc_null
  <1>4. ASSUME NEW t \in Tids, Runs(t), thr_create(t) PROVE RecordInv'
    <2>1. /\ listed' = listed /\ got' = got /\ panicked' = panicked
          /\ \A u \in Tids \ {t} : /\ pc'[u] = pc[u] /\ peer'[u] = peer[u]
                                   /\ value'[u] = value[u]
          /\ pc[t] \in ExitLocations <=> pc'[t] \in ExitLocations
          /\ pc[t] # "c_insert" /\ pc'[t] # "c_insert"
          /\ pc[t] \in {"j_pages", "j_remove"} <=> pc'[t] \in {"j_pages", "j_remove"}
          /\ pc[t] \in {"j_pages", "j_remove"} => peer'[t] = peer[t]
      BY <1>4, <1>types, <1>inv DEF thr_create, ExitLocations
    <2>2. /\ pc[t] \in ExitLocations => value'[t] = value[t]
          /\ pc'[t] \in {"x_lock", "x_signal"} => value'[t] \in Statuses
      BY <1>4, <1>types, <1>inv
         DEF thr_create, ExitLocations, RecordInv, StatusKept
    <2>3. \A y \in Tids : /\ td'[y].exitFlag = td[y].exitFlag
                          /\ td'[y].status = td[y].status
                          /\ td'[y].cond = td[y].cond
      BY <1>4 DEF thr_create
    <2> QED
      BY <2>1, <2>2, <2>3, <1>types, <1>inv, RecordSame
  <1>5. ASSUME NEW t \in Tids, Runs(t), c_lock(t) PROVE RecordInv'
    <2>1. /\ listed' = listed /\ got' = got /\ panicked' = panicked
          /\ \A u \in Tids \ {t} : /\ pc'[u] = pc[u] /\ peer'[u] = peer[u]
                                   /\ value'[u] = value[u]
          /\ pc[t] \in ExitLocations <=> pc'[t] \in ExitLocations
          /\ pc[t] # "c_insert" /\ pc'[t] # "c_insert"
          /\ pc[t] \in {"j_pages", "j_remove"} <=> pc'[t] \in {"j_pages", "j_remove"}
          /\ pc[t] \in {"j_pages", "j_remove"} => peer'[t] = peer[t]
      BY <1>5, <1>types, <1>inv DEF c_lock, Lock, CV!Lock, ExitLocations
    <2>2. /\ pc[t] \in ExitLocations => value'[t] = value[t]
          /\ pc'[t] \in {"x_lock", "x_signal"} => value'[t] \in Statuses
      BY <1>5, <1>types, <1>inv
         DEF c_lock, Lock, CV!Lock, ExitLocations, RecordInv, StatusKept
    <2>3. \A y \in Tids : /\ td'[y].exitFlag = td[y].exitFlag
                          /\ td'[y].status = td[y].status
                          /\ td'[y].cond = td[y].cond
      BY <1>5 DEF c_lock, Lock, CV!Lock
    <2> QED
      BY <2>1, <2>2, <2>3, <1>types, <1>inv, RecordSame
  <1>6. ASSUME NEW t \in Tids, Runs(t), c_null_func(t) PROVE RecordInv'
    <2>1. /\ listed' = listed /\ got' = got /\ panicked' = panicked
          /\ \A u \in Tids \ {t} : /\ pc'[u] = pc[u] /\ peer'[u] = peer[u]
                                   /\ value'[u] = value[u]
          /\ pc[t] \in ExitLocations <=> pc'[t] \in ExitLocations
          /\ pc[t] # "c_insert" /\ pc'[t] # "c_insert"
          /\ pc[t] \in {"j_pages", "j_remove"} <=> pc'[t] \in {"j_pages", "j_remove"}
          /\ pc[t] \in {"j_pages", "j_remove"} => peer'[t] = peer[t]
      BY <1>6, <1>types, <1>inv
         DEF c_null_func, CreateFails, Unlock, CV!Unlock, ExitLocations
    <2>2. /\ pc[t] \in ExitLocations => value'[t] = value[t]
          /\ pc'[t] \in {"x_lock", "x_signal"} => value'[t] \in Statuses
      BY <1>6, <1>types, <1>inv
         DEF c_null_func, CreateFails, Unlock, CV!Unlock, ExitLocations,
             RecordInv, StatusKept
    <2>3. \A y \in Tids : /\ td'[y].exitFlag = td[y].exitFlag
                          /\ td'[y].status = td[y].status
                          /\ td'[y].cond = td[y].cond
      BY <1>6 DEF c_null_func, CreateFails, Unlock, CV!Unlock
    <2> QED
      BY <2>1, <2>2, <2>3, <1>types, <1>inv, RecordSame
  <1>7. ASSUME NEW t \in Tids, Runs(t), c_pages(t) PROVE RecordInv'
    <2>1. /\ listed' = listed /\ got' = got /\ panicked' = panicked
          /\ \A u \in Tids \ {t} : /\ pc'[u] = pc[u] /\ peer'[u] = peer[u]
                                   /\ value'[u] = value[u]
          /\ pc[t] \in ExitLocations <=> pc'[t] \in ExitLocations
          /\ pc[t] # "c_insert" /\ pc'[t] # "c_insert"
          /\ pc[t] \in {"j_pages", "j_remove"} <=> pc'[t] \in {"j_pages", "j_remove"}
          /\ pc[t] \in {"j_pages", "j_remove"} => peer'[t] = peer[t]
      BY <1>7, <1>types, <1>inv DEF c_pages, Candidates, ExitLocations
    <2>2. /\ pc[t] \in ExitLocations => value'[t] = value[t]
          /\ pc'[t] \in {"x_lock", "x_signal"} => value'[t] \in Statuses
      BY <1>7, <1>types, <1>inv
         DEF c_pages, Candidates, ExitLocations, RecordInv, StatusKept
    <2>3. \A y \in Tids : /\ td'[y].exitFlag = td[y].exitFlag
                          /\ td'[y].status = td[y].status
                          /\ td'[y].cond = td[y].cond
      BY <1>7 DEF c_pages, Candidates
    <2> QED
      BY <2>1, <2>2, <2>3, <1>types, <1>inv, RecordSame
  <1>8. ASSUME NEW t \in Tids, Runs(t), c_no_pages(t) PROVE RecordInv'
    <2>1. /\ listed' = listed /\ got' = got /\ panicked' = panicked
          /\ \A u \in Tids \ {t} : /\ pc'[u] = pc[u] /\ peer'[u] = peer[u]
                                   /\ value'[u] = value[u]
          /\ pc[t] \in ExitLocations <=> pc'[t] \in ExitLocations
          /\ pc[t] # "c_insert" /\ pc'[t] # "c_insert"
          /\ pc[t] \in {"j_pages", "j_remove"} <=> pc'[t] \in {"j_pages", "j_remove"}
          /\ pc[t] \in {"j_pages", "j_remove"} => peer'[t] = peer[t]
      BY <1>8, <1>types, <1>inv
         DEF c_no_pages, CreateFails, Unlock, CV!Unlock, ExitLocations
    <2>2. /\ pc[t] \in ExitLocations => value'[t] = value[t]
          /\ pc'[t] \in {"x_lock", "x_signal"} => value'[t] \in Statuses
      BY <1>8, <1>types, <1>inv
         DEF c_no_pages, CreateFails, Unlock, CV!Unlock, ExitLocations,
             RecordInv, StatusKept
    <2>3. \A y \in Tids : /\ td'[y].exitFlag = td[y].exitFlag
                          /\ td'[y].status = td[y].status
                          /\ td'[y].cond = td[y].cond
      BY <1>8 DEF c_no_pages, CreateFails, Unlock, CV!Unlock
    <2> QED
      BY <2>1, <2>2, <2>3, <1>types, <1>inv, RecordSame
  <1>9. ASSUME NEW t \in Tids, Runs(t), c_malloc_null(t) PROVE FALSE
    BY <1>9, <1>types DEF c_malloc_null
  <1>10. ASSUME NEW t \in Tids, Runs(t), c_fork(t) PROVE RecordInv'
    <2>1. PICK c \in Tids :
            /\ pc[t] = "c_fork" /\ pc[c] = "unborn" /\ c # t
            /\ pc' = [pc EXCEPT ![t] = "c_insert", ![c] = "app"]
            /\ peer' = [peer EXCEPT ![t] = c]
            /\ \A x \in Tids \ {c} : td'[x] = td[x]
            /\ listed' = listed /\ value' = value /\ got' = got
            /\ panicked' = panicked
      BY <1>10, <1>inv, ForkEffect
    <2>2. c \notin listed
      BY <2>1, <1>inv DEF FreshHidden, Fresh
    <2>3. /\ pc'[t] = "c_insert" /\ pc'[c] = "app" /\ peer'[t] = c
          /\ \A u \in Tids \ {t, c} : pc'[u] = pc[u]
          /\ \A u \in Tids \ {t} : peer'[u] = peer[u]
      BY <2>1, <1>types
    <2>ef. ExitFlagTrue'
      <3>1. \A x \in listed : x \in Tids /\ td'[x] = td[x]
        BY <2>1, <2>2, <1>types
      <3>2. \A x \in listed : pc[x] \in ExitLocations => pc'[x] \in ExitLocations
        BY <2>1, <2>2, <2>3, <1>types DEF ExitLocations
      <3> QED
        BY <2>1, <3>1, <3>2, <1>inv DEF RecordInv, ExitFlagTrue
    <2>sk. StatusKept'
      BY <2>1, <2>2, <2>3, <1>inv DEF RecordInv, StatusKept, ExitLocations
    <2>cr. CondReady'
      <3>1. SUFFICES ASSUME NEW x \in listed, td[x].cond # 1
                     PROVE  \E u \in Tids : /\ pc'[u] \in {"j_pages", "j_remove"}
                                            /\ peer'[u] = x
        BY <2>1, <2>2, <1>types DEF CondReady
      <3>2. PICK u \in Tids : pc[u] \in {"j_pages", "j_remove"} /\ peer[u] = x
        BY <3>1, <1>inv DEF RecordInv, CondReady
      <3> QED
        BY <2>1, <2>3, <3>2
    <2>js. JoinGetsStatus'
      BY <2>1, <2>3, <1>inv DEF RecordInv, JoinGetsStatus
    <2>cw. ChildrenWait'
      <3>1. \A x \in Tids : Creating(x)' => x = c
        BY <2>1, <2>3, <1>inv DEF Creating, HoldersOwn, Critical
      <3> QED
        BY <2>3, <3>1 DEF ChildrenWait, ExitLocations
    <2>np. NoPanic'
      BY <2>1, <1>inv DEF RecordInv, NoPanic
    <2> QED
      BY <2>ef, <2>sk, <2>cr, <2>js, <2>cw, <2>np DEF RecordInv
  <1>11. ASSUME NEW t \in Tids, Runs(t), c_fork_fails(t) PROVE RecordInv'
    <2>1. /\ listed' = listed /\ got' = got /\ panicked' = panicked
          /\ \A u \in Tids \ {t} : /\ pc'[u] = pc[u] /\ peer'[u] = peer[u]
                                   /\ value'[u] = value[u]
          /\ pc[t] \in ExitLocations <=> pc'[t] \in ExitLocations
          /\ pc[t] # "c_insert" /\ pc'[t] # "c_insert"
          /\ pc[t] \in {"j_pages", "j_remove"} <=> pc'[t] \in {"j_pages", "j_remove"}
          /\ pc[t] \in {"j_pages", "j_remove"} => peer'[t] = peer[t]
      BY <1>11, <1>types, <1>inv
         DEF c_fork_fails, ReturnPages, CreateFails, Unlock, CV!Unlock,
             ExitLocations
    <2>2. /\ pc[t] \in ExitLocations => value'[t] = value[t]
          /\ pc'[t] \in {"x_lock", "x_signal"} => value'[t] \in Statuses
      BY <1>11, <1>types, <1>inv
         DEF c_fork_fails, ReturnPages, CreateFails, Unlock, CV!Unlock,
             ExitLocations, RecordInv, StatusKept
    <2>3. \A y \in Tids : /\ td'[y].exitFlag = td[y].exitFlag
                          /\ td'[y].status = td[y].status
                          /\ td'[y].cond = td[y].cond
      BY <1>11 DEF c_fork_fails, ReturnPages, CreateFails, Unlock, CV!Unlock
    <2> QED
      BY <2>1, <2>2, <2>3, <1>types, <1>inv, RecordSame
  <1>12. ASSUME NEW t \in Tids, Runs(t), c_insert(t) PROVE RecordInv'
    <2>1. /\ pc[t] = "c_insert" /\ pc' = [pc EXCEPT ![t] = "app"]
          /\ listed' = listed \cup {peer[t]} /\ value' = value /\ got' = got
          /\ peer' = [peer EXCEPT ![t] = NoTid] /\ panicked' = panicked
          /\ peer[t] \in Tids /\ newSlot[t] \in 0..Slots
      BY <1>12, <1>inv DEF c_insert, Inserted, LocalsSet
    <2>2. /\ td'[peer[t]].exitFlag = 0 /\ td'[peer[t]].cond = 1
          /\ \A x \in Tids \ {peer[t]} : td'[x] = td[x]
      BY <1>12, <2>1, <1>inv, InsertEffect
    <2>3. /\ pc'[t] = "app"
          /\ \A u \in Tids \ {t} : pc'[u] = pc[u] /\ peer'[u] = peer[u]
      BY <2>1, <1>types
    <2>4. pc[peer[t]] \notin ExitLocations
      BY <2>1, <1>inv DEF RecordInv, ChildrenWait, Creating
    <2>5. pc'[peer[t]] \notin ExitLocations
      BY <2>1, <2>3, <2>4 DEF ExitLocations
    <2>ef. ExitFlagTrue'
      BY <2>1, <2>2, <2>3, <1>types, <1>inv
         DEF RecordInv, ExitFlagTrue, ExitLocations
    <2>sk. StatusKept'
      BY <2>1, <2>2, <2>3, <2>5, <1>inv DEF RecordInv, StatusKept, ExitLocations
    <2>cr. CondReady'
      <3>1. SUFFICES ASSUME NEW x \in listed, td[x].cond # 1, x # peer[t]
                     PROVE  \E u \in Tids : /\ pc'[u] \in {"j_pages", "j_remove"}
                                            /\ peer'[u] = x
        BY <2>1, <2>2, <1>types DEF CondReady
      <3>2. PICK u \in Tids : pc[u] \in {"j_pages", "j_remove"} /\ peer[u] = x
        BY <3>1, <1>inv DEF RecordInv, CondReady
      <3> QED
        BY <2>1, <2>3, <3>2
    <2>js. JoinGetsStatus'
      BY <2>1, <2>3, <1>inv DEF RecordInv, JoinGetsStatus
    <2>cw. ChildrenWait'
      <3>1. \A x \in Tids : ~Creating(x)'
        BY <2>1, <2>3, <1>inv DEF Creating, HoldersOwn, Critical
      <3> QED
        BY <3>1 DEF ChildrenWait
    <2>np. NoPanic'
      BY <2>1, <1>inv DEF RecordInv, NoPanic
    <2> QED
      BY <2>ef, <2>sk, <2>cr, <2>js, <2>cw, <2>np DEF RecordInv
  <1>13. ASSUME NEW t \in Tids, Runs(t), c_insert_fails(t) PROVE FALSE
    BY <1>13, <1>types DEF c_insert_fails
  <1>14. ASSUME NEW t \in Tids, NEW x \in Tids, Runs(t), thr_join(t, x)
         PROVE  RecordInv'
    <2>1. /\ listed' = listed /\ got' = got /\ panicked' = panicked
          /\ \A u \in Tids \ {t} : /\ pc'[u] = pc[u] /\ peer'[u] = peer[u]
                                   /\ value'[u] = value[u]
          /\ pc[t] \in ExitLocations <=> pc'[t] \in ExitLocations
          /\ pc[t] # "c_insert" /\ pc'[t] # "c_insert"
          /\ pc[t] \in {"j_pages", "j_remove"} <=> pc'[t] \in {"j_pages", "j_remove"}
          /\ pc[t] \in {"j_pages", "j_remove"} => peer'[t] = peer[t]
      BY <1>14, <1>types, <1>inv DEF thr_join, ExitLocations
    <2>2. /\ pc[t] \in ExitLocations => value'[t] = value[t]
          /\ pc'[t] \in {"x_lock", "x_signal"} => value'[t] \in Statuses
      BY <1>14, <1>types, <1>inv
         DEF thr_join, ExitLocations, RecordInv, StatusKept
    <2>3. \A y \in Tids : /\ td'[y].exitFlag = td[y].exitFlag
                          /\ td'[y].status = td[y].status
                          /\ td'[y].cond = td[y].cond
      BY <1>14 DEF thr_join
    <2> QED
      BY <2>1, <2>2, <2>3, <1>types, <1>inv, RecordSame
  <1>15. ASSUME NEW t \in Tids, Runs(t), j_lock(t) PROVE RecordInv'
    <2>1. /\ listed' = listed /\ got' = got /\ panicked' = panicked
          /\ \A u \in Tids \ {t} : /\ pc'[u] = pc[u] /\ peer'[u] = peer[u]
                                   /\ value'[u] = value[u]
          /\ pc[t] \in ExitLocations <=> pc'[t] \in ExitLocations
          /\ pc[t] # "c_insert" /\ pc'[t] # "c_insert"
          /\ pc[t] \in {"j_pages", "j_remove"} <=> pc'[t] \in {"j_pages", "j_remove"}
          /\ pc[t] \in {"j_pages", "j_remove"} => peer'[t] = peer[t]
      BY <1>15, <1>types, <1>inv DEF j_lock, Lock, CV!Lock, ExitLocations
    <2>2. /\ pc[t] \in ExitLocations => value'[t] = value[t]
          /\ pc'[t] \in {"x_lock", "x_signal"} => value'[t] \in Statuses
      BY <1>15, <1>types, <1>inv
         DEF j_lock, Lock, CV!Lock, ExitLocations, RecordInv, StatusKept
    <2>3. \A y \in Tids : /\ td'[y].exitFlag = td[y].exitFlag
                          /\ td'[y].status = td[y].status
                          /\ td'[y].cond = td[y].cond
      BY <1>15 DEF j_lock, Lock, CV!Lock
    <2> QED
      BY <2>1, <2>2, <2>3, <1>types, <1>inv, RecordSame
  <1>16. ASSUME NEW t \in Tids, Runs(t), j_not_found(t) PROVE RecordInv'
    BY <1>16, NotFoundNever
  <1>17. ASSUME NEW t \in Tids, Runs(t), j_refused(t) PROVE RecordInv'
    <2>1. /\ listed' = listed /\ got' = got /\ panicked' = panicked
          /\ \A u \in Tids \ {t} : /\ pc'[u] = pc[u] /\ peer'[u] = peer[u]
                                   /\ value'[u] = value[u]
          /\ pc[t] \in ExitLocations <=> pc'[t] \in ExitLocations
          /\ pc[t] # "c_insert" /\ pc'[t] # "c_insert"
          /\ pc[t] \in {"j_pages", "j_remove"} <=> pc'[t] \in {"j_pages", "j_remove"}
          /\ pc[t] \in {"j_pages", "j_remove"} => peer'[t] = peer[t]
      BY <1>17, <1>types, <1>inv
         DEF j_refused, JoinReturns, Unlock, CV!Unlock, ExitLocations
    <2>2. /\ pc[t] \in ExitLocations => value'[t] = value[t]
          /\ pc'[t] \in {"x_lock", "x_signal"} => value'[t] \in Statuses
      BY <1>17, <1>types, <1>inv
         DEF j_refused, JoinReturns, Unlock, CV!Unlock, ExitLocations,
             RecordInv, StatusKept
    <2>3. \A y \in Tids : /\ td'[y].exitFlag = td[y].exitFlag
                          /\ td'[y].status = td[y].status
                          /\ td'[y].cond = td[y].cond
      BY <1>17 DEF j_refused, JoinReturns, Unlock, CV!Unlock
    <2> QED
      BY <2>1, <2>2, <2>3, <1>types, <1>inv, RecordSame
  <1>18. ASSUME NEW t \in Tids, Runs(t), j_waits(t) PROVE RecordInv'
    <2>1. /\ listed' = listed /\ got' = got /\ panicked' = panicked
          /\ \A u \in Tids \ {t} : /\ pc'[u] = pc[u] /\ peer'[u] = peer[u]
                                   /\ value'[u] = value[u]
          /\ pc[t] \in ExitLocations <=> pc'[t] \in ExitLocations
          /\ pc[t] # "c_insert" /\ pc'[t] # "c_insert"
          /\ pc[t] \in {"j_pages", "j_remove"} <=> pc'[t] \in {"j_pages", "j_remove"}
          /\ pc[t] \in {"j_pages", "j_remove"} => peer'[t] = peer[t]
      BY <1>18, <1>types, <1>inv
         DEF j_waits, Joined, MustWait, CV!Wait, ExitLocations
    <2>2. /\ pc[t] \in ExitLocations => value'[t] = value[t]
          /\ pc'[t] \in {"x_lock", "x_signal"} => value'[t] \in Statuses
      BY <1>18, <1>types, <1>inv
         DEF j_waits, Joined, MustWait, CV!Wait, ExitLocations, RecordInv,
             StatusKept
    <2>3. \A y \in Tids : /\ td'[y].exitFlag = td[y].exitFlag
                          /\ td'[y].status = td[y].status
                          /\ td'[y].cond = td[y].cond
      <3>1. peer[t] \in Tids
        BY <1>18, <1>inv
           DEF j_waits, Joined, MustWait, CV!Wait, LocalsSet, Joining
      <3> QED
        BY <1>18, <3>1, <1>inv, WaitEffect
    <2> QED
      BY <2>1, <2>2, <2>3, <1>types, <1>inv, RecordSame
  <1>19. ASSUME NEW t \in Tids, Runs(t), j_exited(t) PROVE RecordInv'
    <2>1. /\ listed' = listed /\ got' = got /\ panicked' = panicked
          /\ \A u \in Tids \ {t} : /\ pc'[u] = pc[u] /\ peer'[u] = peer[u]
                                   /\ value'[u] = value[u]
          /\ pc[t] \in ExitLocations <=> pc'[t] \in ExitLocations
          /\ pc[t] # "c_insert" /\ pc'[t] # "c_insert"
          /\ pc[t] \in {"j_pages", "j_remove"} <=> pc'[t] \in {"j_pages", "j_remove"}
          /\ pc[t] \in {"j_pages", "j_remove"} => peer'[t] = peer[t]
      BY <1>19, <1>types, <1>inv DEF j_exited, MustWait, ExitLocations
    <2>2. /\ pc[t] \in ExitLocations => value'[t] = value[t]
          /\ pc'[t] \in {"x_lock", "x_signal"} => value'[t] \in Statuses
      BY <1>19, <1>types, <1>inv
         DEF j_exited, MustWait, ExitLocations, RecordInv, StatusKept
    <2>3. \A y \in Tids : /\ td'[y].exitFlag = td[y].exitFlag
                          /\ td'[y].status = td[y].status
                          /\ td'[y].cond = td[y].cond
      BY <1>19 DEF j_exited, MustWait
    <2> QED
      BY <2>1, <2>2, <2>3, <1>types, <1>inv, RecordSame
  <1>20. ASSUME NEW t \in Tids, Runs(t), j_woken(t) PROVE RecordInv'
    <2>1. /\ listed' = listed /\ got' = got /\ panicked' = panicked
          /\ \A u \in Tids \ {t} : /\ pc'[u] = pc[u] /\ peer'[u] = peer[u]
                                   /\ value'[u] = value[u]
          /\ pc[t] \in ExitLocations <=> pc'[t] \in ExitLocations
          /\ pc[t] # "c_insert" /\ pc'[t] # "c_insert"
          /\ pc[t] \in {"j_pages", "j_remove"} <=> pc'[t] \in {"j_pages", "j_remove"}
          /\ pc[t] \in {"j_pages", "j_remove"} => peer'[t] = peer[t]
      BY <1>20, <1>types, <1>inv DEF j_woken, CV!Return, ExitLocations
    <2>2. /\ pc[t] \in ExitLocations => value'[t] = value[t]
          /\ pc'[t] \in {"x_lock", "x_signal"} => value'[t] \in Statuses
      BY <1>20, <1>types, <1>inv
         DEF j_woken, CV!Return, ExitLocations, RecordInv, StatusKept
    <2>3. \A y \in Tids : /\ td'[y].exitFlag = td[y].exitFlag
                          /\ td'[y].status = td[y].status
                          /\ td'[y].cond = td[y].cond
      BY <1>20 DEF j_woken, CV!Return
    <2> QED
      BY <2>1, <2>2, <2>3, <1>types, <1>inv, RecordSame
  <1>21. ASSUME NEW t \in Tids, Runs(t), j_clean(t) PROVE RecordInv'
    <2>1. /\ pc[t] = "j_clean" /\ pc' = [pc EXCEPT ![t] = "j_pages"]
          /\ listed' = listed /\ value' = value /\ peer' = peer
          /\ got' = [got EXCEPT ![t] = td[peer[t]].status]
          /\ panicked' = ~(td[peer[t]].cond = 1 /\ queue[peer[t]] = <<>>)
      BY <1>21 DEF j_clean
    <2>2. /\ peer[t] \in Tids /\ peer[t] \in listed
          /\ \A u \in Tids \ {t} : pc[u] \in Joining => peer[u] # peer[t]
          /\ pc[peer[t]] \in {"x_vanish", "gone"}
      BY <2>1, <1>inv, JoinerFinds DEF Joining, Critical, CleanersMay, Cleaning
    <2>3. /\ td'[peer[t]].exitFlag = 1 /\ td'[peer[t]].status = td[peer[t]].status
          /\ \A x \in Tids \ {peer[t]} : td'[x] = td[x]
      BY <1>21, <2>2, <1>inv, CleanEffect
    <2>4. pc'[t] = "j_pages" /\ \A u \in Tids \ {t} : pc'[u] = pc[u]
      BY <2>1, <1>types
    <2>5. peer[t] # t
      BY <2>1, <2>2
    <2>ef. ExitFlagTrue'
      BY <2>1, <2>2, <2>3, <2>4, <2>5, <1>types, <1>inv
         DEF RecordInv, ExitFlagTrue, ExitLocations
    <2>sk. StatusKept'
      BY <2>1, <2>2, <2>3, <2>4, <1>inv DEF RecordInv, StatusKept, ExitLocations
    <2>cr. CondReady'
      <3>1. SUFFICES ASSUME NEW x \in listed, td[x].cond # 1, x # peer[t]
                     PROVE  \E u \in Tids : /\ pc'[u] \in {"j_pages", "j_remove"}
                                            /\ peer'[u] = x
        BY <2>1, <2>2, <2>3, <2>4, <1>types DEF CondReady
      <3>2. PICK u \in Tids : pc[u] \in {"j_pages", "j_remove"} /\ peer[u] = x
        BY <3>1, <1>inv DEF RecordInv, CondReady
      <3> QED
        BY <2>1, <2>4, <3>2
    <2>js. JoinGetsStatus'
      <3>1. td[peer[t]].status = value[peer[t]] /\ value[peer[t]] # NoStatus
        BY <2>2, <1>inv, ThreadAssumption
           DEF RecordInv, StatusKept, ExitLocations
      <3>2. got'[t] = td[peer[t]].status /\ \A u \in Tids \ {t} : got'[u] = got[u]
        BY <2>1, <1>inv
      <3> QED
        BY <2>1, <2>4, <3>1, <3>2, <1>inv DEF RecordInv, JoinGetsStatus
    <2>cw. ChildrenWait'
      <3>1. \A x \in Tids : ~Creating(x)'
        BY <2>1, <2>4, <1>inv DEF Creating, HoldersOwn, Critical
      <3> QED
        BY <3>1 DEF ChildrenWait
    <2>np. NoPanic'
      <3>1. td[peer[t]].cond = 1
        BY <2>1, <2>2, <1>inv DEF RecordInv, CondReady, Joining
      <3>2. queue[peer[t]] = <<>>
        BY <2>1, <2>2, <1>inv, SleeperIsThread
           DEF JoinInv, SleepersJoin, Joining
      <3> QED
        BY <2>1, <3>1, <3>2 DEF NoPanic
    <2> QED
      BY <2>ef, <2>sk, <2>cr, <2>js, <2>cw, <2>np DEF RecordInv
  <1>22. ASSUME NEW t \in Tids, Runs(t), j_pages(t) PROVE RecordInv'
    <2>1. /\ listed' = listed /\ got' = got /\ panicked' = panicked
          /\ \A u \in Tids \ {t} : /\ pc'[u] = pc[u] /\ peer'[u] = peer[u]
                                   /\ value'[u] = value[u]
          /\ pc[t] \in ExitLocations <=> pc'[t] \in ExitLocations
          /\ pc[t] # "c_insert" /\ pc'[t] # "c_insert"
          /\ pc[t] \in {"j_pages", "j_remove"} <=> pc'[t] \in {"j_pages", "j_remove"}
          /\ pc[t] \in {"j_pages", "j_remove"} => peer'[t] = peer[t]
      BY <1>22, <1>types, <1>inv DEF j_pages, ExitLocations
    <2>2. /\ pc[t] \in ExitLocations => value'[t] = value[t]
          /\ pc'[t] \in {"x_lock", "x_signal"} => value'[t] \in Statuses
      BY <1>22, <1>types, <1>inv
         DEF j_pages, ExitLocations, RecordInv, StatusKept
    <2>3. \A y \in Tids : /\ td'[y].exitFlag = td[y].exitFlag
                          /\ td'[y].status = td[y].status
                          /\ td'[y].cond = td[y].cond
      BY <1>22 DEF j_pages
    <2> QED
      BY <2>1, <2>2, <2>3, <1>types, <1>inv, RecordSame
  <1>23. ASSUME NEW t \in Tids, Runs(t), j_remove(t) PROVE RecordInv'
    <2>1. /\ pc[t] = "j_remove" /\ pc' = [pc EXCEPT ![t] = "app"]
          /\ listed' = listed \ {peer[t]} /\ value' = value /\ got' = got
          /\ peer' = [peer EXCEPT ![t] = NoTid] /\ panicked' = panicked
          /\ peer[t] \in Tids
      BY <1>23, <1>inv
         DEF j_remove, JoinReturns, Unlock, CV!Unlock, LocalsSet, Joining
    <2>2. \A x \in Tids \ {peer[t]} : td'[x] = td[x]
      BY <1>23, <2>1, <1>inv, RemoveEffect
    <2>3. /\ pc'[t] = "app"
          /\ \A u \in Tids \ {t} : pc'[u] = pc[u] /\ peer'[u] = peer[u]
      BY <2>1, <1>types
    <2>ef. ExitFlagTrue'
      BY <2>1, <2>2, <2>3, <1>types, <1>inv
         DEF RecordInv, ExitFlagTrue, ExitLocations
    <2>sk. StatusKept'
      BY <2>1, <2>2, <2>3, <1>inv DEF RecordInv, StatusKept, ExitLocations
    <2>cr. CondReady'
      <3>1. SUFFICES ASSUME NEW x \in listed, td[x].cond # 1, x # peer[t]
                     PROVE  \E u \in Tids : /\ pc'[u] \in {"j_pages", "j_remove"}
                                            /\ peer'[u] = x
        BY <2>1, <2>2, <1>types DEF CondReady
      <3>2. PICK u \in Tids : pc[u] \in {"j_pages", "j_remove"} /\ peer[u] = x
        BY <3>1, <1>inv DEF RecordInv, CondReady
      <3> QED
        BY <2>1, <2>3, <3>1, <3>2
    <2>js. JoinGetsStatus'
      BY <2>1, <2>3, <1>inv DEF RecordInv, JoinGetsStatus
    <2>cw. ChildrenWait'
      <3>1. \A x \in Tids : ~Creating(x)'
        BY <2>1, <2>3, <1>inv DEF Creating, HoldersOwn, Critical
      <3> QED
        BY <3>1 DEF ChildrenWait
    <2>np. NoPanic'
      BY <2>1, <1>inv DEF RecordInv, NoPanic
    <2> QED
      BY <2>ef, <2>sk, <2>cr, <2>js, <2>cw, <2>np DEF RecordInv
  <1>24. ASSUME NEW t \in Tids, NEW v \in Statuses, Runs(t), thr_exit(t, v)
         PROVE  RecordInv'
    <2>1. /\ listed' = listed /\ got' = got /\ panicked' = panicked
          /\ \A u \in Tids \ {t} : /\ pc'[u] = pc[u] /\ peer'[u] = peer[u]
                                   /\ value'[u] = value[u]
          /\ pc[t] \in ExitLocations <=> pc'[t] \in ExitLocations
          /\ pc[t] # "c_insert" /\ pc'[t] # "c_insert"
          /\ pc[t] \in {"j_pages", "j_remove"} <=> pc'[t] \in {"j_pages", "j_remove"}
          /\ pc[t] \in {"j_pages", "j_remove"} => peer'[t] = peer[t]
      BY <1>24, <1>types, <1>inv DEF thr_exit, ExitLocations
    <2>2. /\ pc[t] \in ExitLocations => value'[t] = value[t]
          /\ pc'[t] \in {"x_lock", "x_signal"} => value'[t] \in Statuses
      BY <1>24, <1>types, <1>inv
         DEF thr_exit, ExitLocations, RecordInv, StatusKept
    <2>3. \A y \in Tids : /\ td'[y].exitFlag = td[y].exitFlag
                          /\ td'[y].status = td[y].status
                          /\ td'[y].cond = td[y].cond
      BY <1>24 DEF thr_exit
    <2> QED
      BY <2>1, <2>2, <2>3, <1>types, <1>inv, RecordSame
  <1>25. ASSUME NEW t \in Tids, Runs(t), x_lock(t) PROVE RecordInv'
    <2>1. /\ listed' = listed /\ got' = got /\ panicked' = panicked
          /\ \A u \in Tids \ {t} : /\ pc'[u] = pc[u] /\ peer'[u] = peer[u]
                                   /\ value'[u] = value[u]
          /\ pc[t] \in ExitLocations <=> pc'[t] \in ExitLocations
          /\ pc[t] # "c_insert" /\ pc'[t] # "c_insert"
          /\ pc[t] \in {"j_pages", "j_remove"} <=> pc'[t] \in {"j_pages", "j_remove"}
          /\ pc[t] \in {"j_pages", "j_remove"} => peer'[t] = peer[t]
      BY <1>25, <1>types, <1>inv DEF x_lock, Lock, CV!Lock, ExitLocations
    <2>2. /\ pc[t] \in ExitLocations => value'[t] = value[t]
          /\ pc'[t] \in {"x_lock", "x_signal"} => value'[t] \in Statuses
      BY <1>25, <1>types, <1>inv
         DEF x_lock, Lock, CV!Lock, ExitLocations, RecordInv, StatusKept
    <2>3. \A y \in Tids : /\ td'[y].exitFlag = td[y].exitFlag
                          /\ td'[y].status = td[y].status
                          /\ td'[y].cond = td[y].cond
      BY <1>25 DEF x_lock, Lock, CV!Lock
    <2> QED
      BY <2>1, <2>2, <2>3, <1>types, <1>inv, RecordSame
  <1>26. ASSUME NEW t \in Tids, Runs(t), x_signal(t) PROVE RecordInv'
    <2>1. /\ pc[t] = "x_signal" /\ pc' = [pc EXCEPT ![t] = "x_unlock"]
          /\ listed' = listed /\ value' = value /\ got' = got /\ peer' = peer
          /\ panicked' = ~(t \in listed /\ td[t].cond = 1)
      BY <1>26 DEF x_signal
    <2>2. /\ td'[t].exitFlag = 1 /\ td'[t].status = value[t]
          /\ td'[t].cond = td[t].cond
          /\ \A x \in Tids \ {t} : td'[x] = td[x]
      BY <1>26, <1>inv, ExitEffect
    <2>3. pc'[t] = "x_unlock" /\ \A u \in Tids \ {t} : pc'[u] = pc[u]
      BY <2>1, <1>types
    <2>4. \A x \in Tids : ~Creating(x) /\ ~Creating(x)'
      BY <2>1, <2>3, <1>inv DEF Creating, HoldersOwn, Critical
    <2>ef. ExitFlagTrue'
      BY <2>1, <2>2, <2>3, <1>types, <1>inv
         DEF RecordInv, ExitFlagTrue, ExitLocations
    <2>sk. StatusKept'
      BY <2>1, <2>2, <2>3, <1>inv DEF RecordInv, StatusKept, ExitLocations
    <2>cr. CondReady'
      <3>1. SUFFICES ASSUME NEW x \in listed, td[x].cond # 1
                     PROVE  \E u \in Tids : /\ pc'[u] \in {"j_pages", "j_remove"}
                                            /\ peer'[u] = x
        <4>1. \A x \in Tids : td'[x].cond = td[x].cond
          BY <2>2
        <4> QED
          BY <2>1, <4>1, <1>types DEF CondReady
      <3>2. PICK u \in Tids : pc[u] \in {"j_pages", "j_remove"} /\ peer[u] = x
        BY <3>1, <1>inv DEF RecordInv, CondReady
      <3> QED
        BY <2>1, <2>3, <3>2
    <2>js. JoinGetsStatus'
      BY <2>1, <2>3, <1>inv DEF RecordInv, JoinGetsStatus
    <2>cw. ChildrenWait'
      BY <2>4 DEF ChildrenWait
    <2>np. NoPanic'
      <3>1. t \in listed
        BY <2>1, <2>4 DEF GInv, StartInv, RunningKnown, Running, Alive, Known
      <3>2. td[t].cond = 1
        BY <2>1, <3>1, <1>inv DEF RecordInv, CondReady, CleanersMay, Cleaning
      <3> QED
        BY <2>1, <3>1, <3>2 DEF NoPanic
    <2> QED
      BY <2>ef, <2>sk, <2>cr, <2>js, <2>cw, <2>np DEF RecordInv
  <1>27. ASSUME NEW t \in Tids, Runs(t), x_unlock(t) PROVE RecordInv'
    <2>1. /\ listed' = listed /\ got' = got /\ panicked' = panicked
          /\ \A u \in Tids \ {t} : /\ pc'[u] = pc[u] /\ peer'[u] = peer[u]
                                   /\ value'[u] = value[u]
          /\ pc[t] \in ExitLocations <=> pc'[t] \in ExitLocations
          /\ pc[t] # "c_insert" /\ pc'[t] # "c_insert"
          /\ pc[t] \in {"j_pages", "j_remove"} <=> pc'[t] \in {"j_pages", "j_remove"}
          /\ pc[t] \in {"j_pages", "j_remove"} => peer'[t] = peer[t]
      BY <1>27, <1>types, <1>inv DEF x_unlock, Unlock, CV!Unlock, ExitLocations
    <2>2. /\ pc[t] \in ExitLocations => value'[t] = value[t]
          /\ pc'[t] \in {"x_lock", "x_signal"} => value'[t] \in Statuses
      BY <1>27, <1>types, <1>inv
         DEF x_unlock, Unlock, CV!Unlock, ExitLocations, RecordInv,
             StatusKept
    <2>3. \A y \in Tids : /\ td'[y].exitFlag = td[y].exitFlag
                          /\ td'[y].status = td[y].status
                          /\ td'[y].cond = td[y].cond
      BY <1>27 DEF x_unlock, Unlock, CV!Unlock
    <2> QED
      BY <2>1, <2>2, <2>3, <1>types, <1>inv, RecordSame
  <1>28. ASSUME NEW t \in Tids, Runs(t), vanish(t) PROVE RecordInv'
    <2>1. /\ listed' = listed /\ got' = got /\ panicked' = panicked
          /\ \A u \in Tids \ {t} : /\ pc'[u] = pc[u] /\ peer'[u] = peer[u]
                                   /\ value'[u] = value[u]
          /\ pc[t] \in ExitLocations <=> pc'[t] \in ExitLocations
          /\ pc[t] # "c_insert" /\ pc'[t] # "c_insert"
          /\ pc[t] \in {"j_pages", "j_remove"} <=> pc'[t] \in {"j_pages", "j_remove"}
          /\ pc[t] \in {"j_pages", "j_remove"} => peer'[t] = peer[t]
      BY <1>28, <1>types, <1>inv DEF vanish, ExitLocations
    <2>2. /\ pc[t] \in ExitLocations => value'[t] = value[t]
          /\ pc'[t] \in {"x_lock", "x_signal"} => value'[t] \in Statuses
      BY <1>28, <1>types, <1>inv
         DEF vanish, ExitLocations, RecordInv, StatusKept
    <2>3. \A y \in Tids : /\ td'[y].exitFlag = td[y].exitFlag
                          /\ td'[y].status = td[y].status
                          /\ td'[y].cond = td[y].cond
      BY <1>28 DEF vanish
    <2> QED
      BY <2>1, <2>2, <2>3, <1>types, <1>inv, RecordSame
  <1>29. ASSUME NEW t \in Tids, Faults(t) PROVE RecordInv'
    <2>1. /\ listed' = listed /\ got' = got /\ panicked' = panicked
          /\ \A u \in Tids \ {t} : /\ pc'[u] = pc[u] /\ peer'[u] = peer[u]
                                   /\ value'[u] = value[u]
          /\ pc[t] \in ExitLocations <=> pc'[t] \in ExitLocations
          /\ pc[t] # "c_insert" /\ pc'[t] # "c_insert"
          /\ pc[t] \in {"j_pages", "j_remove"} <=> pc'[t] \in {"j_pages", "j_remove"}
          /\ pc[t] \in {"j_pages", "j_remove"} => peer'[t] = peer[t]
      BY <1>29, <1>types, <1>inv, FaultAtEnd DEF Faults, fault, ExitLocations
    <2>2. /\ pc[t] \in ExitLocations => value'[t] = value[t]
          /\ pc'[t] \in {"x_lock", "x_signal"} => value'[t] \in Statuses
      BY <1>29, <1>types, <1>inv, FaultAtEnd
         DEF Faults, fault, ExitLocations, RecordInv, StatusKept
    <2>3. \A y \in Tids : /\ td'[y].exitFlag = td[y].exitFlag
                          /\ td'[y].status = td[y].status
                          /\ td'[y].cond = td[y].cond
      BY <1>29 DEF Faults, fault
    <2> QED
      BY <2>1, <2>2, <2>3, <1>types, <1>inv, RecordSame
  <1>30. CASE UNCHANGED vars
    BY <1>30, <1>inv
       DEF vars, RecordInv, ExitFlagTrue, StatusKept, CondReady, JoinGetsStatus, ChildrenWait,
           Creating, NoPanic
  <1> QED
    BY <1>1, <1>2, <1>3, <1>4, <1>5, <1>6, <1>7, <1>8, <1>9, <1>10,
       <1>11, <1>12, <1>13, <1>14, <1>15, <1>16, <1>17, <1>18, <1>19,
       <1>20, <1>21, <1>22, <1>23, <1>24, <1>25, <1>26, <1>27, <1>28,
       <1>29, <1>30
       DEF Next, AppStep, LibStep

-----------------------------------------------------------------------------
(* The stacks.  A step that does nothing to who has which stack. *)
LEMMA StackSame ==
  ASSUME StackInv, listed \subseteq Tids, listed' \subseteq listed,
         stackOf' = stackOf, mapped' = mapped, pc'[Root] # "unborn",
         \A x \in Tids : td'[x].baseAddress = td[x].baseAddress,
         \A x \in Tids : Holds(x)' <=> Holds(x),
         \A u \in Tids : Maps(u)' <=> Maps(u),
         \A u \in Tids : Maps(u) => newSlot'[u] = newSlot[u],
         \A u \in Tids : pc'[u] = "c_insert" => pc[u] = "c_insert" /\ peer'[u] = peer[u]
  PROVE  StackInv'
  <1> USE DEF StackInv
  <1>1. RootStack'
    BY DEF RootStack
  <1>2. BasesTrue'
    BY DEF BasesTrue
  <1>3. HeldMapped' /\ HeldOnce'
    BY DEF HeldMapped, HeldOnce
  <1>4. NewMapped'
    BY DEF NewMapped
  <1>5. ChildrenOn'
    BY DEF ChildrenOn, Maps
  <1>6. MappedOwned'
    BY DEF MappedOwned
  <1> QED
    BY <1>1, <1>2, <1>3, <1>4, <1>5, <1>6

(* With thread_list_mutex held, no other thread is creating or cleaning. *)
LEMMA AloneInside ==
  ASSUME HoldersOwn, NEW t \in Tids, pc[t] \in Critical, NEW u \in Tids \ {t}
  PROVE  pc[u] \notin {"c_fork", "c_insert", "j_pages", "j_remove"}
  BY DEF HoldersOwn, Critical

(* Every stack has one owner. *)
LEMMA StackStep ==
  ASSUME GoodCase, GInv, [Next]_vars
  PROVE  StackInv'
  <1> USE DEF cvVars, stackVars, callVars, Mutexes, ListMutex, Goto, AssertThat, Locations
  <1>types. /\ pc \in [Tids -> Locations] /\ peer \in [Tids -> Tids \cup {NoTid}]
            /\ queue \in [Tids -> Seq(Tids)] /\ listed \subseteq Tids
            /\ td \in [Tids -> Records] /\ Root \in Tids
            /\ "malloc" \notin Failures
    BY ThreadAssumption DEF GInv, IInv, TypeOK, GoodCase
  <1>inv. /\ TypeOK /\ HoldersOwn /\ LocalsSet /\ FreshHidden /\ StackInv
          /\ stackOf \in [Tids -> 0..Slots \cup {NoSlot}] /\ NoSlot \notin 0..Slots
          /\ newSlot \in [Tids -> 0..Slots \cup {NoSlot}]
          /\ mapped \subseteq 0..Slots
    <2>1. NoSlot \notin 0..Slots
      BY ThreadAssumption
    <2> QED
      BY <2>1 DEF GInv, IInv, TypeOK
  <1>root. pc[Root] # "unborn" /\ stackOf[Root] = 0 /\ 0 \in mapped
    BY <1>inv DEF StackInv, RootStack
  <1>1. ASSUME NEW t \in Tids, Runs(t), thr_init(t) PROVE StackInv'
    <2>1. /\ t = Root /\ pc[t] = "start" /\ pc' = [pc EXCEPT ![t] = "app"]
          /\ listed' = {t} /\ stackOf' = stackOf /\ mapped' = mapped
          /\ td' = [td EXCEPT ![t] = NewRecord(NoSlot)]
      BY <1>1 DEF thr_init
    <2>2. \A u \in Tids : /\ pc[u] \in {"unborn", "start"} /\ u \notin listed
                          /\ pc'[u] \in {"unborn", "app"}
      BY <2>1, <1>types, <1>inv
         DEF GInv, StartInv, StartsAlone, NotStarted, FreshHidden, Fresh
    <2>3. td'[t].baseAddress = NoSlot
      BY <2>1, <1>types DEF NewRecord, NoRecord
    <2>4. \A y \in Tids : ~Holds(y) /\ ~Holds(y)' /\ ~Maps(y) /\ ~Maps(y)'
      BY <2>1, <2>2 DEF Holds, Maps
    <2>rs. RootStack'
      BY <2>1, <1>root, <1>types DEF RootStack
    <2>bt. BasesTrue'
      BY <2>1, <2>3 DEF BasesTrue
    <2>hm. HeldMapped'
      BY <2>4 DEF HeldMapped
    <2>ho. HeldOnce'
      BY <2>4 DEF HeldOnce
    <2>nm. NewMapped'
      BY <2>4 DEF NewMapped
    <2>co. ChildrenOn'
      BY <2>2 DEF ChildrenOn
    <2>mo. MappedOwned'
      BY <2>1, <2>4, <1>inv DEF StackInv, MappedOwned
    <2> QED
      BY <2>rs, <2>bt, <2>hm, <2>ho, <2>nm, <2>co, <2>mo DEF StackInv
  <1>2. ASSUME NEW t \in Tids, Runs(t), thr_init_fails(t) PROVE StackInv'
    <2>1. /\ listed' = listed /\ stackOf' = stackOf /\ mapped' = mapped
          /\ \A u \in Tids \ {t} : /\ pc'[u] = pc[u] /\ peer'[u] = peer[u]
                                   /\ newSlot'[u] = newSlot[u]
          /\ pc[t] \notin {"c_fork", "c_insert", "j_remove"}
          /\ pc'[t] \notin {"c_fork", "c_insert", "j_remove", "unborn"}
      BY <1>2, <1>types, <1>inv DEF thr_init_fails, NewRecord, NoRecord
    <2>2. \A y \in Tids : td'[y].baseAddress = td[y].baseAddress
      BY <1>2, <1>types DEF thr_init_fails, NewRecord, NoRecord
    <2>3. \A y \in Tids : Holds(y)' <=> Holds(y)
      BY <2>1 DEF Holds, Unmapped
    <2>4. \A u \in Tids : /\ Maps(u)' <=> Maps(u)
                          /\ Maps(u) => newSlot'[u] = newSlot[u]
      BY <2>1 DEF Maps
    <2>5. pc'[Root] # "unborn"
      BY <2>1, <1>root, <1>types
    <2>6. \A u \in Tids : pc'[u] = "c_insert" => pc[u] = "c_insert" /\ peer'[u] = peer[u]
      BY <2>1
    <2> QED
      BY <2>1, <2>2, <2>3, <2>4, <2>5, <2>6, <1>types, <1>inv, StackSame
  <1>3. ASSUME NEW t \in Tids, Runs(t), thr_init_malloc_null(t) PROVE FALSE
    BY <1>3, <1>types DEF thr_init_malloc_null
  <1>4. ASSUME NEW t \in Tids, Runs(t), thr_create(t) PROVE StackInv'
    <2>1. /\ listed' = listed /\ stackOf' = stackOf /\ mapped' = mapped
          /\ \A u \in Tids \ {t} : /\ pc'[u] = pc[u] /\ peer'[u] = peer[u]
                                   /\ newSlot'[u] = newSlot[u]
          /\ pc[t] \notin {"c_fork", "c_insert", "j_remove"}
          /\ pc'[t] \notin {"c_fork", "c_insert", "j_remove", "unborn"}
      BY <1>4, <1>types, <1>inv DEF thr_create
    <2>2. \A y \in Tids : td'[y].baseAddress = td[y].baseAddress
      BY <1>4, <1>types DEF thr_create
    <2>3. \A y \in Tids : Holds(y)' <=> Holds(y)
      BY <2>1 DEF Holds, Unmapped
    <2>4. \A u \in Tids : /\ Maps(u)' <=> Maps(u)
                          /\ Maps(u) => newSlot'[u] = newSlot[u]
      BY <2>1 DEF Maps
    <2>5. pc'[Root] # "unborn"
      BY <2>1, <1>root, <1>types
    <2>6. \A u \in Tids : pc'[u] = "c_insert" => pc[u] = "c_insert" /\ peer'[u] = peer[u]
      BY <2>1
    <2> QED
      BY <2>1, <2>2, <2>3, <2>4, <2>5, <2>6, <1>types, <1>inv, StackSame
  <1>5. ASSUME NEW t \in Tids, Runs(t), c_lock(t) PROVE StackInv'
    <2>1. /\ listed' = listed /\ stackOf' = stackOf /\ mapped' = mapped
          /\ \A u \in Tids \ {t} : /\ pc'[u] = pc[u] /\ peer'[u] = peer[u]
                                   /\ newSlot'[u] = newSlot[u]
          /\ pc[t] \notin {"c_fork", "c_insert", "j_remove"}
          /\ pc'[t] \notin {"c_fork", "c_insert", "j_remove", "unborn"}
      BY <1>5, <1>types, <1>inv DEF c_lock, Lock, CV!Lock
    <2>2. \A y \in Tids : td'[y].baseAddress = td[y].baseAddress
      BY <1>5, <1>types DEF c_lock, Lock, CV!Lock
    <2>3. \A y \in Tids : Holds(y)' <=> Holds(y)
      BY <2>1 DEF Holds, Unmapped
    <2>4. \A u \in Tids : /\ Maps(u)' <=> Maps(u)
                          /\ Maps(u) => newSlot'[u] = newSlot[u]
      BY <2>1 DEF Maps
    <2>5. pc'[Root] # "unborn"
      BY <2>1, <1>root, <1>types
    <2>6. \A u \in Tids : pc'[u] = "c_insert" => pc[u] = "c_insert" /\ peer'[u] = peer[u]
      BY <2>1
    <2> QED
      BY <2>1, <2>2, <2>3, <2>4, <2>5, <2>6, <1>types, <1>inv, StackSame
  <1>6. ASSUME NEW t \in Tids, Runs(t), c_null_func(t) PROVE StackInv'
    <2>1. /\ listed' = listed /\ stackOf' = stackOf /\ mapped' = mapped
          /\ \A u \in Tids \ {t} : /\ pc'[u] = pc[u] /\ peer'[u] = peer[u]
                                   /\ newSlot'[u] = newSlot[u]
          /\ pc[t] \notin {"c_fork", "c_insert", "j_remove"}
          /\ pc'[t] \notin {"c_fork", "c_insert", "j_remove", "unborn"}
      BY <1>6, <1>types, <1>inv DEF c_null_func, CreateFails, Unlock, CV!Unlock
    <2>2. \A y \in Tids : td'[y].baseAddress = td[y].baseAddress
      BY <1>6, <1>types DEF c_null_func, CreateFails, Unlock, CV!Unlock
    <2>3. \A y \in Tids : Holds(y)' <=> Holds(y)
      BY <2>1 DEF Holds, Unmapped
    <2>4. \A u \in Tids : /\ Maps(u)' <=> Maps(u)
                          /\ Maps(u) => newSlot'[u] = newSlot[u]
      BY <2>1 DEF Maps
    <2>5. pc'[Root] # "unborn"
      BY <2>1, <1>root, <1>types
    <2>6. \A u \in Tids : pc'[u] = "c_insert" => pc[u] = "c_insert" /\ peer'[u] = peer[u]
      BY <2>1
    <2> QED
      BY <2>1, <2>2, <2>3, <2>4, <2>5, <2>6, <1>types, <1>inv, StackSame
  <1>7. ASSUME NEW t \in Tids, Runs(t), c_pages(t) PROVE StackInv'
    <2>1. PICK slot \in Candidates :
            /\ pc[t] = "c_pages" /\ pc' = [pc EXCEPT ![t] = "c_fork"]
            /\ listed' = listed /\ stackOf' = stackOf /\ td' = td /\ peer' = peer
            /\ mapped' = mapped \cup {slot}
            /\ newSlot' = [newSlot EXCEPT ![t] = slot]
      BY <1>7 DEF c_pages
    <2>2. slot \notin mapped /\ slot # 0
      BY <1>root DEF Candidates
    <2>3. /\ pc'[t] = "c_fork" /\ newSlot'[t] = slot
          /\ \A u \in Tids \ {t} : pc'[u] = pc[u] /\ newSlot'[u] = newSlot[u]
      BY <2>1, <1>types, <1>inv
    <2>4. /\ \A y \in Tids : Holds(y)' <=> Holds(y)
          /\ \A u \in Tids : ~Maps(u) /\ (Maps(u)' <=> u = t)
          /\ \A u \in Tids : pc'[u] # "c_insert"
      <3>1. \A u \in Tids \ {t} : pc[u] \notin {"c_fork", "c_insert"}
        BY <2>1, <1>inv, AloneInside DEF Critical
      <3>2. \A u \in Tids : pc[u] = "j_remove" <=> pc'[u] = "j_remove"
        BY <2>1, <2>3
      <3> QED
        BY <2>1, <2>3, <3>1, <3>2 DEF Holds, Maps, Unmapped
    <2>rs. RootStack'
      BY <2>1, <2>3, <1>root DEF RootStack
    <2>bt. BasesTrue'
      BY <2>1, <1>inv DEF StackInv, BasesTrue
    <2>hm. HeldMapped'
      BY <2>1, <2>4, <1>inv DEF StackInv, HeldMapped
    <2>ho. HeldOnce'
      BY <2>1, <2>4, <1>inv DEF StackInv, HeldOnce
    <2>nm. NewMapped'
      BY <2>1, <2>2, <2>3, <2>4, <1>inv DEF StackInv, NewMapped, HeldMapped
    <2>co. ChildrenOn'
      BY <2>4 DEF ChildrenOn
    <2>mo. MappedOwned'
      BY <2>1, <2>3, <2>4, <1>inv DEF StackInv, MappedOwned
    <2> QED
      BY <2>rs, <2>bt, <2>hm, <2>ho, <2>nm, <2>co, <2>mo DEF StackInv
  <1>8. ASSUME NEW t \in Tids, Runs(t), c_no_pages(t) PROVE StackInv'
    <2>1. /\ listed' = listed /\ stackOf' = stackOf /\ mapped' = mapped
          /\ \A u \in Tids \ {t} : /\ pc'[u] = pc[u] /\ peer'[u] = peer[u]
                                   /\ newSlot'[u] = newSlot[u]
          /\ pc[t] \notin {"c_fork", "c_insert", "j_remove"}
          /\ pc'[t] \notin {"c_fork", "c_insert", "j_remove", "unborn"}
      BY <1>8, <1>types, <1>inv DEF c_no_pages, CreateFails, Unlock, CV!Unlock
    <2>2. \A y \in Tids : td'[y].baseAddress = td[y].baseAddress
      BY <1>8, <1>types DEF c_no_pages, CreateFails, Unlock, CV!Unlock
    <2>3. \A y \in Tids : Holds(y)' <=> Holds(y)
      BY <2>1 DEF Holds, Unmapped
    <2>4. \A u \in Tids : /\ Maps(u)' <=> Maps(u)
                          /\ Maps(u) => newSlot'[u] = newSlot[u]
      BY <2>1 DEF Maps
    <2>5. pc'[Root] # "unborn"
      BY <2>1, <1>root, <1>types
    <2>6. \A u \in Tids : pc'[u] = "c_insert" => pc[u] = "c_insert" /\ peer'[u] = peer[u]
      BY <2>1
    <2> QED
      BY <2>1, <2>2, <2>3, <2>4, <2>5, <2>6, <1>types, <1>inv, StackSame
  <1>9. ASSUME NEW t \in Tids, Runs(t), c_malloc_null(t) PROVE FALSE
    BY <1>9, <1>types DEF c_malloc_null
  <1>10. ASSUME NEW t \in Tids, Runs(t), c_fork(t) PROVE StackInv'
    <2>1. PICK c \in Tids :
            /\ pc[t] = "c_fork" /\ pc[c] = "unborn" /\ c # t
            /\ pc' = [pc EXCEPT ![t] = "c_insert", ![c] = "app"]
            /\ peer' = [peer EXCEPT ![t] = c]
            /\ stackOf' = [stackOf EXCEPT ![c] = newSlot[t]]
            /\ \A x \in Tids \ {c} : td'[x] = td[x]
            /\ listed' = listed /\ mapped' = mapped /\ newSlot' = newSlot
      BY <1>10, <1>inv, ForkEffect
    <2>2. c \notin listed /\ c # Root
      BY <2>1, <1>inv, <1>root DEF FreshHidden, Fresh
    <2>3. /\ pc'[t] = "c_insert" /\ pc'[c] = "app" /\ peer'[t] = c
          /\ stackOf'[c] = newSlot[t]
          /\ \A u \in Tids \ {c} : stackOf'[u] = stackOf[u]
          /\ \A u \in Tids \ {t, c} : pc'[u] = pc[u]
          /\ \A u \in Tids \ {t} : peer'[u] = peer[u]
      BY <2>1, <1>types, <1>inv
    <2>4. /\ \A y \in Tids : Holds(y)' <=> Holds(y)
          /\ \A y \in Tids : Holds(y) => y # c
          /\ \A u \in Tids : Maps(u)' <=> Maps(u)
          /\ \A u \in Tids : pc'[u] = "c_insert" => u = t
      <3>1. \A u \in Tids \ {t} : pc[u] \notin {"c_fork", "c_insert"}
        BY <2>1, <1>inv, AloneInside DEF Critical
      <3>2. \A u \in Tids : /\ pc[u] = "j_remove" <=> pc'[u] = "j_remove"
                            /\ pc[u] = "j_remove" => peer'[u] = peer[u]
        BY <2>1, <2>3
      <3>3. \A y \in Tids : Unmapped(y)' <=> Unmapped(y)
        BY <3>2 DEF Unmapped
      <3>4. /\ \A y \in Tids : Holds(y)' <=> Holds(y)
            /\ \A y \in Tids : Holds(y) => y # c
        BY <2>1, <2>2, <3>3 DEF Holds
      <3>5. \A u \in Tids : Maps(u)' <=> Maps(u)
        BY <2>1, <2>3 DEF Maps
      <3>6. \A u \in Tids : pc'[u] = "c_insert" => u = t
        BY <2>1, <2>3, <3>1
      <3> QED
        BY <3>4, <3>5, <3>6
    <2>rs. RootStack'
      BY <2>1, <2>2, <2>3, <1>root, <1>types DEF RootStack
    <2>bt. BasesTrue'
      <3>1. \A x \in listed : /\ x \in Tids /\ td'[x] = td[x]
                              /\ stackOf'[x] = stackOf[x]
        BY <2>1, <2>2, <2>3, <1>types
      <3> QED
        BY <2>1, <3>1, <1>inv DEF StackInv, BasesTrue
    <2>hm. HeldMapped'
      BY <2>1, <2>3, <2>4, <1>inv DEF StackInv, HeldMapped
    <2>ho. HeldOnce'
      BY <2>1, <2>3, <2>4, <1>inv DEF StackInv, HeldOnce
    <2>nm. NewMapped'
      BY <2>1, <2>3, <2>4, <1>inv DEF StackInv, NewMapped
    <2>co. ChildrenOn'
      BY <2>1, <2>2, <2>3, <2>4 DEF ChildrenOn
    <2>mo. MappedOwned'
      BY <2>1, <2>3, <2>4, <1>inv DEF StackInv, MappedOwned
    <2> QED
      BY <2>rs, <2>bt, <2>hm, <2>ho, <2>nm, <2>co, <2>mo DEF StackInv
  <1>11. ASSUME NEW t \in Tids, Runs(t), c_fork_fails(t) PROVE StackInv'
    <2>1. /\ pc[t] = "c_fork" /\ pc' = [pc EXCEPT ![t] = "app"]
          /\ listed' = listed /\ stackOf' = stackOf /\ td' = td
          /\ mapped' = mapped \ {newSlot[t]}
          /\ newSlot' = [newSlot EXCEPT ![t] = NoSlot]
          /\ peer' = [peer EXCEPT ![t] = NoTid]
      BY <1>11 DEF c_fork_fails, ReturnPages, CreateFails, Unlock, CV!Unlock
    <2>2. /\ newSlot[t] # 0
          /\ \A x \in Tids : Holds(x) => stackOf[x] # newSlot[t]
      BY <2>1, <1>inv DEF StackInv, NewMapped, Maps
    <2>3. /\ pc'[t] = "app"
          /\ \A u \in Tids \ {t} : pc'[u] = pc[u] /\ peer'[u] = peer[u]
      BY <2>1, <1>types
    <2>4. /\ \A y \in Tids : Holds(y)' <=> Holds(y)
          /\ \A u \in Tids : Maps(u) => u = t
          /\ \A u \in Tids : ~Maps(u)' /\ pc'[u] # "c_insert"
      <3>1. \A u \in Tids \ {t} : pc[u] \notin {"c_fork", "c_insert"}
        BY <2>1, <1>inv, AloneInside DEF Critical
      <3>2. \A u \in Tids : /\ pc[u] = "j_remove" <=> pc'[u] = "j_remove"
                            /\ pc[u] = "j_remove" => peer'[u] = peer[u]
        BY <2>1, <2>3
      <3> QED
        BY <2>1, <2>3, <3>1, <3>2 DEF Holds, Maps, Unmapped
    <2>rs. RootStack'
      BY <2>1, <2>2, <2>3, <1>root, <1>types DEF RootStack
    <2>bt. BasesTrue'
      BY <2>1, <1>inv DEF StackInv, BasesTrue
    <2>hm. HeldMapped'
      BY <2>1, <2>2, <2>4, <1>inv DEF StackInv, HeldMapped
    <2>ho. HeldOnce'
      BY <2>1, <2>4, <1>inv DEF StackInv, HeldOnce
    <2>nm. NewMapped'
      BY <2>4 DEF NewMapped
    <2>co. ChildrenOn'
      BY <2>4 DEF ChildrenOn
    <2>mo. MappedOwned'
      BY <2>1, <2>4, <1>inv DEF StackInv, MappedOwned
    <2> QED
      BY <2>rs, <2>bt, <2>hm, <2>ho, <2>nm, <2>co, <2>mo DEF StackInv
  <1>12. ASSUME NEW t \in Tids, Runs(t), c_insert(t) PROVE StackInv'
    <2> DEFINE p == peer[t]
    <2>1. /\ pc[t] = "c_insert" /\ pc' = [pc EXCEPT ![t] = "app"]
          /\ listed' = listed \cup {p} /\ stackOf' = stackOf /\ mapped' = mapped
          /\ newSlot' = [newSlot EXCEPT ![t] = NoSlot]
          /\ peer' = [peer EXCEPT ![t] = NoTid]
          /\ p \in Tids /\ newSlot[t] \in 0..Slots
      BY <1>12, <1>inv DEF c_insert, Inserted, LocalsSet
    <2>2. /\ td'[p].baseAddress = newSlot[t]
          /\ \A x \in Tids \ {p} : td'[x] = td[x]
      BY <1>12, <2>1, <1>inv, InsertEffect
    <2> HIDE DEF p
    <2>3. /\ stackOf[p] = newSlot[t] /\ p # Root
          /\ newSlot[t] \in mapped \ {0}
          /\ \A x \in Tids : Holds(x) => stackOf[x] # newSlot[t]
      BY <2>1, <1>inv DEF StackInv, ChildrenOn, NewMapped, Maps, p
    <2>4. newSlot[t] \in 1..Slots
      BY <2>1, <2>3
    <2>5. /\ pc'[t] = "app"
          /\ \A u \in Tids \ {t} : pc'[u] = pc[u] /\ peer'[u] = peer[u]
      BY <2>1, <1>types
    <2>6. /\ \A y \in Tids : Holds(y)' <=> Holds(y) \/ y = p
          /\ \A u \in Tids : Maps(u) => u = t
          /\ \A u \in Tids : ~Maps(u)' /\ pc'[u] # "c_insert"
      <3>1. \A u \in Tids \ {t} : pc[u] \notin {"c_fork", "c_insert", "j_remove"}
        BY <2>1, <1>inv, AloneInside DEF Critical
      <3>2. \A y \in Tids : ~Unmapped(y) /\ ~Unmapped(y)'
        BY <2>1, <2>5, <3>1 DEF Unmapped
      <3> QED
        BY <2>1, <2>3, <2>5, <3>1, <3>2 DEF Holds, Maps
    <2>rs. RootStack'
      BY <2>1, <2>5, <1>root, <1>types DEF RootStack
    <2>bt. BasesTrue'
      BY <2>1, <2>2, <2>3, <2>4, <1>types, <1>inv DEF StackInv, BasesTrue
    <2>hm. HeldMapped'
      BY <2>1, <2>3, <2>6, <1>inv DEF StackInv, HeldMapped
    <2>ho. HeldOnce'
      BY <2>1, <2>3, <2>6, <1>inv DEF StackInv, HeldOnce
    <2>nm. NewMapped'
      BY <2>6 DEF NewMapped
    <2>co. ChildrenOn'
      BY <2>6 DEF ChildrenOn
    <2>mo. MappedOwned'
      BY <2>1, <2>3, <2>6, <1>inv DEF StackInv, MappedOwned
    <2> QED
      BY <2>rs, <2>bt, <2>hm, <2>ho, <2>nm, <2>co, <2>mo DEF StackInv
  <1>13. ASSUME NEW t \in Tids, Runs(t), c_insert_fails(t) PROVE FALSE
    BY <1>13, <1>types DEF c_insert_fails
  <1>14. ASSUME NEW t \in Tids, NEW x \in Tids, Runs(t), thr_join(t, x)
         PROVE  StackInv'
    <2>1. /\ listed' = listed /\ stackOf' = stackOf /\ mapped' = mapped
          /\ \A u \in Tids \ {t} : /\ pc'[u] = pc[u] /\ peer'[u] = peer[u]
                                   /\ newSlot'[u] = newSlot[u]
          /\ pc[t] \notin {"c_fork", "c_insert", "j_remove"}
          /\ pc'[t] \notin {"c_fork", "c_insert", "j_remove", "unborn"}
      BY <1>14, <1>types, <1>inv DEF thr_join
    <2>2. \A y \in Tids : td'[y].baseAddress = td[y].baseAddress
      BY <1>14, <1>types DEF thr_join
    <2>3. \A y \in Tids : Holds(y)' <=> Holds(y)
      BY <2>1 DEF Holds, Unmapped
    <2>4. \A u \in Tids : /\ Maps(u)' <=> Maps(u)
                          /\ Maps(u) => newSlot'[u] = newSlot[u]
      BY <2>1 DEF Maps
    <2>5. pc'[Root] # "unborn"
      BY <2>1, <1>root, <1>types
    <2>6. \A u \in Tids : pc'[u] = "c_insert" => pc[u] = "c_insert" /\ peer'[u] = peer[u]
      BY <2>1
    <2> QED
      BY <2>1, <2>2, <2>3, <2>4, <2>5, <2>6, <1>types, <1>inv, StackSame
  <1>15. ASSUME NEW t \in Tids, Runs(t), j_lock(t) PROVE StackInv'
    <2>1. /\ listed' = listed /\ stackOf' = stackOf /\ mapped' = mapped
          /\ \A u \in Tids \ {t} : /\ pc'[u] = pc[u] /\ peer'[u] = peer[u]
                                   /\ newSlot'[u] = newSlot[u]
          /\ pc[t] \notin {"c_fork", "c_insert", "j_remove"}
          /\ pc'[t] \notin {"c_fork", "c_insert", "j_remove", "unborn"}
      BY <1>15, <1>types, <1>inv DEF j_lock, Lock, CV!Lock
    <2>2. \A y \in Tids : td'[y].baseAddress = td[y].baseAddress
      BY <1>15, <1>types DEF j_lock, Lock, CV!Lock
    <2>3. \A y \in Tids : Holds(y)' <=> Holds(y)
      BY <2>1 DEF Holds, Unmapped
    <2>4. \A u \in Tids : /\ Maps(u)' <=> Maps(u)
                          /\ Maps(u) => newSlot'[u] = newSlot[u]
      BY <2>1 DEF Maps
    <2>5. pc'[Root] # "unborn"
      BY <2>1, <1>root, <1>types
    <2>6. \A u \in Tids : pc'[u] = "c_insert" => pc[u] = "c_insert" /\ peer'[u] = peer[u]
      BY <2>1
    <2> QED
      BY <2>1, <2>2, <2>3, <2>4, <2>5, <2>6, <1>types, <1>inv, StackSame
  <1>16. ASSUME NEW t \in Tids, Runs(t), j_not_found(t) PROVE StackInv'
    BY <1>16, NotFoundNever
  <1>17. ASSUME NEW t \in Tids, Runs(t), j_refused(t) PROVE StackInv'
    <2>1. /\ listed' = listed /\ stackOf' = stackOf /\ mapped' = mapped
          /\ \A u \in Tids \ {t} : /\ pc'[u] = pc[u] /\ peer'[u] = peer[u]
                                   /\ newSlot'[u] = newSlot[u]
          /\ pc[t] \notin {"c_fork", "c_insert", "j_remove"}
          /\ pc'[t] \notin {"c_fork", "c_insert", "j_remove", "unborn"}
      BY <1>17, <1>types, <1>inv DEF j_refused, JoinReturns, Unlock, CV!Unlock
    <2>2. \A y \in Tids : td'[y].baseAddress = td[y].baseAddress
      BY <1>17, <1>types DEF j_refused, JoinReturns, Unlock, CV!Unlock
    <2>3. \A y \in Tids : Holds(y)' <=> Holds(y)
      BY <2>1 DEF Holds, Unmapped
    <2>4. \A u \in Tids : /\ Maps(u)' <=> Maps(u)
                          /\ Maps(u) => newSlot'[u] = newSlot[u]
      BY <2>1 DEF Maps
    <2>5. pc'[Root] # "unborn"
      BY <2>1, <1>root, <1>types
    <2>6. \A u \in Tids : pc'[u] = "c_insert" => pc[u] = "c_insert" /\ peer'[u] = peer[u]
      BY <2>1
    <2> QED
      BY <2>1, <2>2, <2>3, <2>4, <2>5, <2>6, <1>types, <1>inv, StackSame
  <1>18. ASSUME NEW t \in Tids, Runs(t), j_waits(t) PROVE StackInv'
    <2>1. /\ listed' = listed /\ stackOf' = stackOf /\ mapped' = mapped
          /\ \A u \in Tids \ {t} : /\ pc'[u] = pc[u] /\ peer'[u] = peer[u]
                                   /\ newSlot'[u] = newSlot[u]
          /\ pc[t] \notin {"c_fork", "c_insert", "j_remove"}
          /\ pc'[t] \notin {"c_fork", "c_insert", "j_remove", "unborn"}
      BY <1>18, <1>types, <1>inv DEF j_waits, Joined, MustWait, CV!Wait
    <2>2. \A y \in Tids : td'[y].baseAddress = td[y].baseAddress
      <3>1. peer[t] \in Tids
        BY <1>18, <1>inv
           DEF j_waits, Joined, MustWait, CV!Wait, LocalsSet, Joining
      <3> QED
        BY <1>18, <3>1, <1>inv, WaitEffect
    <2>3. \A y \in Tids : Holds(y)' <=> Holds(y)
      BY <2>1 DEF Holds, Unmapped
    <2>4. \A u \in Tids : /\ Maps(u)' <=> Maps(u)
                          /\ Maps(u) => newSlot'[u] = newSlot[u]
      BY <2>1 DEF Maps
    <2>5. pc'[Root] # "unborn"
      BY <2>1, <1>root, <1>types
    <2>6. \A u \in Tids : pc'[u] = "c_insert" => pc[u] = "c_insert" /\ peer'[u] = peer[u]
      BY <2>1
    <2> QED
      BY <2>1, <2>2, <2>3, <2>4, <2>5, <2>6, <1>types, <1>inv, StackSame
  <1>19. ASSUME NEW t \in Tids, Runs(t), j_exited(t) PROVE StackInv'
    <2>1. /\ listed' = listed /\ stackOf' = stackOf /\ mapped' = mapped
          /\ \A u \in Tids \ {t} : /\ pc'[u] = pc[u] /\ peer'[u] = peer[u]
                                   /\ newSlot'[u] = newSlot[u]
          /\ pc[t] \notin {"c_fork", "c_insert", "j_remove"}
          /\ pc'[t] \notin {"c_fork", "c_insert", "j_remove", "unborn"}
      BY <1>19, <1>types, <1>inv DEF j_exited, MustWait
    <2>2. \A y \in Tids : td'[y].baseAddress = td[y].baseAddress
      BY <1>19, <1>types DEF j_exited, MustWait
    <2>3. \A y \in Tids : Holds(y)' <=> Holds(y)
      BY <2>1 DEF Holds, Unmapped
    <2>4. \A u \in Tids : /\ Maps(u)' <=> Maps(u)
                          /\ Maps(u) => newSlot'[u] = newSlot[u]
      BY <2>1 DEF Maps
    <2>5. pc'[Root] # "unborn"
      BY <2>1, <1>root, <1>types
    <2>6. \A u \in Tids : pc'[u] = "c_insert" => pc[u] = "c_insert" /\ peer'[u] = peer[u]
      BY <2>1
    <2> QED
      BY <2>1, <2>2, <2>3, <2>4, <2>5, <2>6, <1>types, <1>inv, StackSame
  <1>20. ASSUME NEW t \in Tids, Runs(t), j_woken(t) PROVE StackInv'
    <2>1. /\ listed' = listed /\ stackOf' = stackOf /\ mapped' = mapped
          /\ \A u \in Tids \ {t} : /\ pc'[u] = pc[u] /\ peer'[u] = peer[u]
                                   /\ newSlot'[u] = newSlot[u]
          /\ pc[t] \notin {"c_fork", "c_insert", "j_remove"}
          /\ pc'[t] \notin {"c_fork", "c_insert", "j_remove", "unborn"}
      BY <1>20, <1>types, <1>inv DEF j_woken, CV!Return
    <2>2. \A y \in Tids : td'[y].baseAddress = td[y].baseAddress
      BY <1>20, <1>types DEF j_woken, CV!Return
    <2>3. \A y \in Tids : Holds(y)' <=> Holds(y)
      BY <2>1 DEF Holds, Unmapped
    <2>4. \A u \in Tids : /\ Maps(u)' <=> Maps(u)
                          /\ Maps(u) => newSlot'[u] = newSlot[u]
      BY <2>1 DEF Maps
    <2>5. pc'[Root] # "unborn"
      BY <2>1, <1>root, <1>types
    <2>6. \A u \in Tids : pc'[u] = "c_insert" => pc[u] = "c_insert" /\ peer'[u] = peer[u]
      BY <2>1
    <2> QED
      BY <2>1, <2>2, <2>3, <2>4, <2>5, <2>6, <1>types, <1>inv, StackSame
  <1>21. ASSUME NEW t \in Tids, Runs(t), j_clean(t) PROVE StackInv'
    <2>1. /\ listed' = listed /\ stackOf' = stackOf /\ mapped' = mapped
          /\ \A u \in Tids \ {t} : /\ pc'[u] = pc[u] /\ peer'[u] = peer[u]
                                   /\ newSlot'[u] = newSlot[u]
          /\ pc[t] \notin {"c_fork", "c_insert", "j_remove"}
          /\ pc'[t] \notin {"c_fork", "c_insert", "j_remove", "unborn"}
      BY <1>21, <1>types, <1>inv DEF j_clean
    <2>2. \A y \in Tids : td'[y].baseAddress = td[y].baseAddress
      <3>1. peer[t] \in Tids
        BY <1>21, <1>inv DEF j_clean, LocalsSet, Joining
      <3> QED
        BY <1>21, <3>1, <1>inv, CleanEffect
    <2>3. \A y \in Tids : Holds(y)' <=> Holds(y)
      BY <2>1 DEF Holds, Unmapped
    <2>4. \A u \in Tids : /\ Maps(u)' <=> Maps(u)
                          /\ Maps(u) => newSlot'[u] = newSlot[u]
      BY <2>1 DEF Maps
    <2>5. pc'[Root] # "unborn"
      BY <2>1, <1>root, <1>types
    <2>6. \A u \in Tids : pc'[u] = "c_insert" => pc[u] = "c_insert" /\ peer'[u] = peer[u]
      BY <2>1
    <2> QED
      BY <2>1, <2>2, <2>3, <2>4, <2>5, <2>6, <1>types, <1>inv, StackSame
  <1>22. ASSUME NEW t \in Tids, Runs(t), j_pages(t) PROVE StackInv'
    <2> DEFINE p == peer[t]
               slot == td[p].baseAddress
    <2>1. /\ pc[t] = "j_pages" /\ pc' = [pc EXCEPT ![t] = "j_remove"]
          /\ listed' = listed /\ stackOf' = stackOf /\ td' = td /\ peer' = peer
          /\ newSlot' = newSlot /\ mapped' = mapped \ {slot}
      BY <1>22 DEF j_pages
    <2>2. p \in Tids /\ p \in listed
      BY <2>1, JoinerFinds DEF Joining, Critical
    <2>3. /\ p = Root => slot = NoSlot
          /\ p # Root => slot = stackOf[p] /\ slot \in 1..Slots
      BY <2>2, <1>inv DEF StackInv, BasesTrue
    <2> HIDE DEF p, slot
    <2>4. slot # 0
      BY <2>3, <1>inv, ThreadAssumption
    <2>5. pc'[t] = "j_remove" /\ peer'[t] = p /\ \A u \in Tids \ {t} : pc'[u] = pc[u]
      BY <2>1, <1>types DEF p
    <2>6. /\ \A y \in Tids : Holds(y)' <=> Holds(y) /\ y # p
          /\ p # Root => Holds(p)
          /\ \A u \in Tids : ~Maps(u) /\ ~Maps(u)' /\ pc'[u] # "c_insert"
      <3>1. \A u \in Tids \ {t} : pc[u] \notin {"c_fork", "c_insert", "j_remove"}
        BY <2>1, <1>inv, AloneInside DEF Critical
      <3>2. \A y \in Tids : ~Unmapped(y) /\ (Unmapped(y)' <=> y = p)
        BY <2>1, <2>5, <3>1 DEF Unmapped
      <3> QED
        BY <2>1, <2>2, <2>5, <3>1, <3>2 DEF Holds, Maps
    <2>7. \A y \in Tids : Holds(y) => y # Root
      BY DEF Holds
    <2>rs. RootStack'
      BY <2>1, <2>4, <2>5, <1>root, <1>types DEF RootStack
    <2>bt. BasesTrue'
      BY <2>1, <1>inv DEF StackInv, BasesTrue
    <2>hm. HeldMapped'
      <3>1. SUFFICES ASSUME NEW y \in Tids, Holds(y), y # p
                     PROVE  stackOf[y] \in mapped /\ stackOf[y] # slot
        BY <2>1, <2>6 DEF HeldMapped
      <3>2. stackOf[y] \in mapped
        BY <3>1, <1>inv DEF StackInv, HeldMapped
      <3>3. CASE p = Root
        BY <2>3, <3>2, <3>3, <1>inv
      <3>4. CASE p # Root
        BY <2>2, <2>3, <2>6, <3>1, <3>2, <3>4, <1>inv DEF StackInv, HeldOnce
      <3> QED
        BY <3>2, <3>3, <3>4
    <2>ho. HeldOnce'
      BY <2>1, <2>6, <1>inv DEF StackInv, HeldOnce
    <2>nm. NewMapped'
      BY <2>6 DEF NewMapped
    <2>co. ChildrenOn'
      BY <2>6 DEF ChildrenOn
    <2>mo. MappedOwned'
      BY <2>1, <2>3, <2>6, <2>7, <1>inv DEF StackInv, MappedOwned
    <2> QED
      BY <2>rs, <2>bt, <2>hm, <2>ho, <2>nm, <2>co, <2>mo DEF StackInv
  <1>23. ASSUME NEW t \in Tids, Runs(t), j_remove(t) PROVE StackInv'
    <2> DEFINE p == peer[t]
    <2>1. /\ pc[t] = "j_remove" /\ pc' = [pc EXCEPT ![t] = "app"]
          /\ listed' = listed \ {p} /\ stackOf' = stackOf /\ mapped' = mapped
          /\ newSlot' = newSlot /\ peer' = [peer EXCEPT ![t] = NoTid]
          /\ p \in Tids
      BY <1>23, <1>inv
         DEF j_remove, JoinReturns, Unlock, CV!Unlock, LocalsSet, Joining
    <2>2. \A y \in Tids : td'[y].baseAddress = td[y].baseAddress
      BY <1>23, <2>1, <1>inv, RemoveEffect
    <2>3. /\ pc'[t] = "app" /\ peer[t] = p
          /\ \A u \in Tids \ {t} : pc'[u] = pc[u] /\ peer'[u] = peer[u]
      BY <2>1, <1>types
    <2> HIDE DEF p
    <2>4. /\ \A y \in Tids : Holds(y)' <=> Holds(y)
          /\ \A u \in Tids : Maps(u)' <=> Maps(u)
          /\ \A u \in Tids : pc'[u] # "c_insert"
      <3>1. \A u \in Tids \ {t} : pc[u] \notin {"c_fork", "c_insert", "j_remove"}
        BY <2>1, <1>inv, AloneInside DEF Critical
      <3>2. \A y \in Tids : (Unmapped(y) <=> y = p) /\ ~Unmapped(y)'
        BY <2>1, <2>3, <3>1 DEF Unmapped
      <3> QED
        BY <2>1, <2>3, <3>1, <3>2 DEF Holds, Maps
    <2>5. pc'[Root] # "unborn"
      BY <2>3, <1>root, <1>types
    <2> QED
      BY <2>1, <2>2, <2>4, <2>5, <1>types, <1>inv, StackSame
  <1>24. ASSUME NEW t \in Tids, NEW v \in Statuses, Runs(t), thr_exit(t, v)
         PROVE  StackInv'
    <2>1. /\ listed' = listed /\ stackOf' = stackOf /\ mapped' = mapped
          /\ \A u \in Tids \ {t} : /\ pc'[u] = pc[u] /\ peer'[u] = peer[u]
                                   /\ newSlot'[u] = newSlot[u]
          /\ pc[t] \notin {"c_fork", "c_insert", "j_remove"}
          /\ pc'[t] \notin {"c_fork", "c_insert", "j_remove", "unborn"}
      BY <1>24, <1>types, <1>inv DEF thr_exit
    <2>2. \A y \in Tids : td'[y].baseAddress = td[y].baseAddress
      BY <1>24, <1>types DEF thr_exit
    <2>3. \A y \in Tids : Holds(y)' <=> Holds(y)
      BY <2>1 DEF Holds, Unmapped
    <2>4. \A u \in Tids : /\ Maps(u)' <=> Maps(u)
                          /\ Maps(u) => newSlot'[u] = newSlot[u]
      BY <2>1 DEF Maps
    <2>5. pc'[Root] # "unborn"
      BY <2>1, <1>root, <1>types
    <2>6. \A u \in Tids : pc'[u] = "c_insert" => pc[u] = "c_insert" /\ peer'[u] = peer[u]
      BY <2>1
    <2> QED
      BY <2>1, <2>2, <2>3, <2>4, <2>5, <2>6, <1>types, <1>inv, StackSame
  <1>25. ASSUME NEW t \in Tids, Runs(t), x_lock(t) PROVE StackInv'
    <2>1. /\ listed' = listed /\ stackOf' = stackOf /\ mapped' = mapped
          /\ \A u \in Tids \ {t} : /\ pc'[u] = pc[u] /\ peer'[u] = peer[u]
                                   /\ newSlot'[u] = newSlot[u]
          /\ pc[t] \notin {"c_fork", "c_insert", "j_remove"}
          /\ pc'[t] \notin {"c_fork", "c_insert", "j_remove", "unborn"}
      BY <1>25, <1>types, <1>inv DEF x_lock, Lock, CV!Lock
    <2>2. \A y \in Tids : td'[y].baseAddress = td[y].baseAddress
      BY <1>25, <1>types DEF x_lock, Lock, CV!Lock
    <2>3. \A y \in Tids : Holds(y)' <=> Holds(y)
      BY <2>1 DEF Holds, Unmapped
    <2>4. \A u \in Tids : /\ Maps(u)' <=> Maps(u)
                          /\ Maps(u) => newSlot'[u] = newSlot[u]
      BY <2>1 DEF Maps
    <2>5. pc'[Root] # "unborn"
      BY <2>1, <1>root, <1>types
    <2>6. \A u \in Tids : pc'[u] = "c_insert" => pc[u] = "c_insert" /\ peer'[u] = peer[u]
      BY <2>1
    <2> QED
      BY <2>1, <2>2, <2>3, <2>4, <2>5, <2>6, <1>types, <1>inv, StackSame
  <1>26. ASSUME NEW t \in Tids, Runs(t), x_signal(t) PROVE StackInv'
    <2>1. /\ listed' = listed /\ stackOf' = stackOf /\ mapped' = mapped
          /\ \A u \in Tids \ {t} : /\ pc'[u] = pc[u] /\ peer'[u] = peer[u]
                                   /\ newSlot'[u] = newSlot[u]
          /\ pc[t] \notin {"c_fork", "c_insert", "j_remove"}
          /\ pc'[t] \notin {"c_fork", "c_insert", "j_remove", "unborn"}
      BY <1>26, <1>types, <1>inv DEF x_signal, Exited
    <2>2. \A y \in Tids : td'[y].baseAddress = td[y].baseAddress
      BY <1>26, <1>inv, ExitEffect
    <2>3. \A y \in Tids : Holds(y)' <=> Holds(y)
      BY <2>1 DEF Holds, Unmapped
    <2>4. \A u \in Tids : /\ Maps(u)' <=> Maps(u)
                          /\ Maps(u) => newSlot'[u] = newSlot[u]
      BY <2>1 DEF Maps
    <2>5. pc'[Root] # "unborn"
      BY <2>1, <1>root, <1>types
    <2>6. \A u \in Tids : pc'[u] = "c_insert" => pc[u] = "c_insert" /\ peer'[u] = peer[u]
      BY <2>1
    <2> QED
      BY <2>1, <2>2, <2>3, <2>4, <2>5, <2>6, <1>types, <1>inv, StackSame
  <1>27. ASSUME NEW t \in Tids, Runs(t), x_unlock(t) PROVE StackInv'
    <2>1. /\ listed' = listed /\ stackOf' = stackOf /\ mapped' = mapped
          /\ \A u \in Tids \ {t} : /\ pc'[u] = pc[u] /\ peer'[u] = peer[u]
                                   /\ newSlot'[u] = newSlot[u]
          /\ pc[t] \notin {"c_fork", "c_insert", "j_remove"}
          /\ pc'[t] \notin {"c_fork", "c_insert", "j_remove", "unborn"}
      BY <1>27, <1>types, <1>inv DEF x_unlock, Unlock, CV!Unlock
    <2>2. \A y \in Tids : td'[y].baseAddress = td[y].baseAddress
      BY <1>27, <1>types DEF x_unlock, Unlock, CV!Unlock
    <2>3. \A y \in Tids : Holds(y)' <=> Holds(y)
      BY <2>1 DEF Holds, Unmapped
    <2>4. \A u \in Tids : /\ Maps(u)' <=> Maps(u)
                          /\ Maps(u) => newSlot'[u] = newSlot[u]
      BY <2>1 DEF Maps
    <2>5. pc'[Root] # "unborn"
      BY <2>1, <1>root, <1>types
    <2>6. \A u \in Tids : pc'[u] = "c_insert" => pc[u] = "c_insert" /\ peer'[u] = peer[u]
      BY <2>1
    <2> QED
      BY <2>1, <2>2, <2>3, <2>4, <2>5, <2>6, <1>types, <1>inv, StackSame
  <1>28. ASSUME NEW t \in Tids, Runs(t), vanish(t) PROVE StackInv'
    <2>1. /\ listed' = listed /\ stackOf' = stackOf /\ mapped' = mapped
          /\ \A u \in Tids \ {t} : /\ pc'[u] = pc[u] /\ peer'[u] = peer[u]
                                   /\ newSlot'[u] = newSlot[u]
          /\ pc[t] \notin {"c_fork", "c_insert", "j_remove"}
          /\ pc'[t] \notin {"c_fork", "c_insert", "j_remove", "unborn"}
      BY <1>28, <1>types, <1>inv DEF vanish
    <2>2. \A y \in Tids : td'[y].baseAddress = td[y].baseAddress
      BY <1>28, <1>types DEF vanish
    <2>3. \A y \in Tids : Holds(y)' <=> Holds(y)
      BY <2>1 DEF Holds, Unmapped
    <2>4. \A u \in Tids : /\ Maps(u)' <=> Maps(u)
                          /\ Maps(u) => newSlot'[u] = newSlot[u]
      BY <2>1 DEF Maps
    <2>5. pc'[Root] # "unborn"
      BY <2>1, <1>root, <1>types
    <2>6. \A u \in Tids : pc'[u] = "c_insert" => pc[u] = "c_insert" /\ peer'[u] = peer[u]
      BY <2>1
    <2> QED
      BY <2>1, <2>2, <2>3, <2>4, <2>5, <2>6, <1>types, <1>inv, StackSame
  <1>29. ASSUME NEW t \in Tids, Faults(t) PROVE StackInv'
    <2>1. /\ listed' = listed /\ stackOf' = stackOf /\ mapped' = mapped
          /\ \A u \in Tids \ {t} : /\ pc'[u] = pc[u] /\ peer'[u] = peer[u]
                                   /\ newSlot'[u] = newSlot[u]
          /\ pc[t] \notin {"c_fork", "c_insert", "j_remove"}
          /\ pc'[t] \notin {"c_fork", "c_insert", "j_remove", "unborn"}
      BY <1>29, <1>types, <1>inv, FaultAtEnd DEF Faults, fault
    <2>2. \A y \in Tids : td'[y].baseAddress = td[y].baseAddress
      BY <1>29 DEF Faults, fault
    <2>3. \A y \in Tids : Holds(y)' <=> Holds(y)
      BY <2>1 DEF Holds, Unmapped
    <2>4. \A u \in Tids : /\ Maps(u)' <=> Maps(u)
                          /\ Maps(u) => newSlot'[u] = newSlot[u]
      BY <2>1 DEF Maps
    <2>5. pc'[Root] # "unborn"
      BY <2>1, <1>root, <1>types
    <2>6. \A u \in Tids : pc'[u] = "c_insert" => pc[u] = "c_insert" /\ peer'[u] = peer[u]
      BY <2>1
    <2> QED
      BY <2>1, <2>2, <2>3, <2>4, <2>5, <2>6, <1>types, <1>inv, StackSame
  <1>30. CASE UNCHANGED vars
    BY <1>30, <1>inv
       DEF vars, StackInv, RootStack, BasesTrue, HeldMapped, HeldOnce, NewMapped, ChildrenOn,
           MappedOwned, Holds, Maps, Unmapped
  <1> QED
    BY <1>1, <1>2, <1>3, <1>4, <1>5, <1>6, <1>7, <1>8, <1>9, <1>10,
       <1>11, <1>12, <1>13, <1>14, <1>15, <1>16, <1>17, <1>18, <1>19,
       <1>20, <1>21, <1>22, <1>23, <1>24, <1>25, <1>26, <1>27, <1>28,
       <1>29, <1>30
       DEF Next, AppStep, LibStep

-----------------------------------------------------------------------------
LEMMA InitGInv ==
  ASSUME Init
  PROVE  GInv
  <1>1. IInv
    BY InitInv
  <1>2. /\ pc = [t \in Tids |-> IF t = Root THEN "start" ELSE "unborn"]
        /\ listed = {} /\ td = [t \in Tids |-> NoRecord] /\ mapped = {0}
        /\ stackOf = [t \in Tids |-> IF t = Root THEN 0 ELSE NoSlot]
        /\ queue = [c \in Tids |-> <<>>] /\ phase = [t \in Tids |-> "running"]
        /\ panicked = FALSE /\ Root \in Tids
    BY ThreadAssumption DEF Init, CV!Init
  <1>3. \A t \in Tids : pc[t] \in {"start", "unborn"}
    BY <1>2
  <1>4. \A x \in Tids : ~Known(x) /\ td[x].mem = "none"
    BY <1>2, <1>3 DEF Known, Creating, NoRecord
  <1>5. StartInv
    <2>1. StartsAlone /\ NotStarted
      BY <1>2 DEF StartsAlone, NotStarted
    <2>2. RunningKnown /\ RecordsLive
      BY <1>3, <1>4 DEF RunningKnown, RecordsLive, Running, Alive
    <2> QED
      BY <2>1, <2>2 DEF StartInv, UnclaimedKnown
  <1>6. JoinInv
    BY <1>2, <1>3 DEF JoinInv, JoinersClaim, OneJoiner, SleepersJoin, WokenMay,
       CleanersMay, Joining, Cleaning
  <1>7. RecordInv
    BY <1>2, <1>3
       DEF RecordInv, ExitFlagTrue, StatusKept, CondReady, JoinGetsStatus,
       ChildrenWait, Creating, ExitLocations, NoPanic
  <1>8. StackInv
    <2>1. \A x \in Tids : ~Holds(x) /\ ~Maps(x)
      BY <1>2, <1>3 DEF Holds, Maps
    <2> QED
      BY <1>2, <1>3, <2>1
         DEF StackInv, RootStack, BasesTrue, HeldMapped, HeldOnce,
         NewMapped, ChildrenOn, MappedOwned
  <1> QED
    BY <1>1, <1>5, <1>6, <1>7, <1>8 DEF GInv

(* What the library keeps to when callers join each thread at most once    *)
(* and memory lasts (thr_init, thr_create, thr_join, thr_exit).            *)
THEOREM GoodInvariance == GoodCase => (Spec => []GInv)
  <1>1. Init => GInv
    BY InitGInv
  <1>2. GoodCase /\ GInv /\ [Next]_vars => GInv'
    <2>1. SUFFICES ASSUME GoodCase, GInv, [Next]_vars PROVE GInv'
      OBVIOUS
    <2>2. IInv'
      BY <2>1, StepInv DEF GInv
    <2>3. StartInv'
      BY <2>1, StartStep
    <2>4. JoinInv'
      BY <2>1, JoinStep
    <2>5. RecordInv'
      BY <2>1, RecordStep
    <2>6. StackInv'
      BY <2>1, StackStep
    <2> QED
      BY <2>2, <2>3, <2>4, <2>5, <2>6 DEF GInv
  <1>3. GoodCase => []GoodCase
    <2>1. GoodCase => GoodCase'
      BY DEF GoodCase
    <2> QED
      BY <2>1, PTL
  <1> QED
    BY <1>1, <1>2, <1>3, PTL DEF Spec

(* No assert() of list_find(), cond_signal() or cond_destroy() fails: a    *)
(* child that exits before thr_create() has returned finds its node.       *)
THEOREM ThreadAssertionsHold == GoodCase => (Spec => []NoPanic)
  <1>1. GInv => NoPanic
    BY DEF GInv, RecordInv
  <1> QED
    BY <1>1, GoodInvariance, PTL

(* thr_join() stores what the thread gave to thr_exit(). *)
THEOREM JoinStatus == GoodCase => (Spec => []JoinGetsStatus)
  <1>1. GInv => JoinGetsStatus
    BY DEF GInv, RecordInv
  <1> QED
    BY <1>1, GoodInvariance, PTL

(* thr_join() cleans up after a thread that is done with the library,      *)
(* whose thread_t is allocated and whose stack is mapped.                  *)
THEOREM CleanupSafe == GoodCase => (Spec => []CleanupIsSafe)
  <1>1. GInv => CleanupIsSafe
    <2>1. SUFFICES ASSUME GInv, NEW t \in Tids, pc[t] \in Cleaning
                   PROVE  /\ pc[peer[t]] \in {"x_vanish", "gone"}
                          /\ peer[t] \in listed /\ td[peer[t]].mem = "live"
                          /\ pc[t] # "j_remove" =>
                               td[peer[t]].baseAddress \in mapped \cup {NoSlot}
      BY DEF CleanupIsSafe, Cleaning
    <2>2. pc[peer[t]] \in {"x_vanish", "gone"}
      BY <2>1 DEF GInv, JoinInv, CleanersMay
    <2>3. peer[t] \in Tids /\ peer[t] \in listed
      BY <2>1, JoinerFinds DEF Cleaning, Joining, Critical
    <2>4. td[peer[t]].mem = "live"
      BY <2>1, <2>3 DEF GInv, StartInv, RecordsLive, Known
    <2>5. ASSUME pc[t] # "j_remove"
          PROVE  td[peer[t]].baseAddress \in mapped \cup {NoSlot}
      <3>1. CASE peer[t] = Root
        BY <2>1, <2>3, <3>1 DEF GInv, StackInv, BasesTrue
      <3>2. CASE peer[t] # Root
        <4>1. \A u \in Tids : pc[u] # "j_remove"
          BY <2>1, <2>5 DEF GInv, IInv, HoldersOwn, Critical, Cleaning
        <4>2. Holds(peer[t])
          BY <2>3, <3>2, <4>1 DEF Holds, Unmapped
        <4> QED
          BY <2>1, <2>3, <3>2, <4>2 DEF GInv, StackInv, BasesTrue, HeldMapped
      <3> QED
        BY <3>1, <3>2
    <2> QED
      BY <2>2, <2>3, <2>4, <2>5
  <1> QED
    BY <1>1, GoodInvariance, PTL

(* Who has a stack: the root thread the first, a listed thread or a child  *)
(* one that nobody else has.                                               *)
LEMMA StackOfRunning ==
  ASSUME GInv, NEW t \in Tids, Running(t)
  PROVE  \/ t = Root /\ stackOf[t] = 0
         \/ Holds(t) /\ stackOf[t] \in 1..Slots
         \/ t # Root /\ \E c \in Tids : /\ pc[c] = "c_insert" /\ peer[c] = t
                                        /\ stackOf[t] = newSlot[c] /\ newSlot[c] # 0
  <1>1. CASE t = Root
    BY <1>1 DEF GInv, StackInv, RootStack
  <1>2. CASE t # Root /\ t \in listed
    <2>1. ~Unmapped(t)
      BY DEF GInv, JoinInv, CleanersMay, Cleaning, Unmapped, Running, Alive
    <2> QED
      BY <1>2, <2>1 DEF Holds, GInv, StackInv, BasesTrue
  <1>3. CASE t # Root /\ Creating(t)
    BY <1>3 DEF Creating, GInv, StackInv, ChildrenOn, NewMapped, Maps
  <1>4. t = Root \/ t \in listed \/ Creating(t)
    BY DEF GInv, StartInv, RunningKnown, StartsAlone, Known
  <1> QED
    BY <1>1, <1>2, <1>3, <1>4

(* A thread that still has work to do has a mapped stack of its own,       *)
(* whatever thr_create() and thr_join() map and unmap meanwhile.           *)
THEOREM PrivateStacks == GoodCase => (Spec => []StacksPrivate)
  <1>1. GInv => StacksPrivate
    <2>1. SUFFICES ASSUME GInv, NEW t \in Tids, Running(t)
                   PROVE  /\ stackOf[t] \in mapped
                          /\ \A u \in Tids : Running(u) /\ stackOf[u] = stackOf[t]
                                             => u = t
      BY DEF StacksPrivate
    <2>2. stackOf[t] \in mapped
      BY <2>1, RunningMapped
    <2>3. SUFFICES ASSUME NEW u \in Tids, Running(u), stackOf[u] = stackOf[t]
                   PROVE  u = t
      BY <2>2
    <2>4. \A c, d \in Tids : pc[c] = "c_insert" /\ pc[d] = "c_insert" => c = d
      BY <2>1 DEF GInv, IInv, HoldersOwn, Critical
    <2>5. \A c, x \in Tids : pc[c] = "c_insert" /\ Holds(x) => stackOf[x] # newSlot[c]
      BY <2>1 DEF GInv, StackInv, NewMapped, Maps
    <2>6. \A x, y \in Tids : Holds(x) /\ Holds(y) /\ stackOf[x] = stackOf[y] => x = y
      BY <2>1 DEF GInv, StackInv, HeldOnce
    <2>7. 0 \notin 1..Slots
      OBVIOUS
    <2>8. \/ t = Root /\ stackOf[t] = 0
          \/ Holds(t) /\ stackOf[t] \in 1..Slots
          \/ t # Root /\ \E c \in Tids : /\ pc[c] = "c_insert" /\ peer[c] = t
                                         /\ stackOf[t] = newSlot[c] /\ newSlot[c] # 0
      BY <2>1, StackOfRunning
    <2>9. \/ u = Root /\ stackOf[u] = 0
          \/ Holds(u) /\ stackOf[u] \in 1..Slots
          \/ u # Root /\ \E c \in Tids : /\ pc[c] = "c_insert" /\ peer[c] = u
                                         /\ stackOf[u] = newSlot[c] /\ newSlot[c] # 0
      BY <2>1, <2>3, StackOfRunning
    <2> QED
      BY <2>3, <2>4, <2>5, <2>6, <2>7, <2>8, <2>9
  <1> QED
    BY <1>1, GoodInvariance, PTL

(* While malloc() succeeds and each thread is joined at most once, every   *)
(* mapped stack has one owner and every thread_t belongs to a thread that  *)
(* is listed or being created: thr_join(), and thr_create() that gets no   *)
(* function, finds no stack or fails in thread_fork(), leak nothing and    *)
(* free nothing twice.  Nothing is claimed of the two returns of           *)
(* thr_create() for want of memory: they do leak the new stack, and unmap  *)
(* the stack of a running child.                                           *)
THEOREM NoLeaks ==
  WellBehaved /\ "malloc" \notin Failures => (Spec => []NothingLeaks)
  <1>1. GInv => NothingLeaks
    <2>1. SUFFICES ASSUME GInv PROVE NothingLeaks
      OBVIOUS
    <2>2. \A x \in Tids : (td[x].mem = "live") <=> (x \in listed \/ Creating(x))
      BY <2>1 DEF GInv, StartInv, RecordsLive, Known
    <2>3. ASSUME NEW slot \in 1..Slots
          PROVE  Cardinality(Owners(slot)) = IF slot \in mapped THEN 1 ELSE 0
      <3>1. slot # 0 /\ slot # NoSlot
        BY ThreadAssumption
      <3>2. \A x \in listed : td[x].baseAddress = slot =>
               x \in Tids /\ x # Root /\ stackOf[x] = slot
        BY <2>1, <3>1 DEF GInv, IInv, TypeOK, StackInv, BasesTrue
      <3>3. ASSUME NEW o
            PROVE  o \in Owners(slot) <=>
                     o \in Tids /\ \/ Maps(o) /\ newSlot[o] = slot
                                   \/ Holds(o) /\ stackOf[o] = slot
        <4>1. Holds(o) /\ o \in Tids /\ stackOf[o] = slot =>
                 o \in listed /\ td[o].baseAddress = slot
          BY <2>1 DEF Holds, GInv, StackInv, BasesTrue
        <4>2. o \in listed => o \in Tids
          BY <2>1 DEF GInv, IInv, TypeOK
        <4> QED
          BY <3>2, <4>1, <4>2 DEF Owners, Maps, Holds, Unmapped
      <3>4. CASE slot \notin mapped
        <4>1. \A o : o \notin Owners(slot)
          BY <2>1, <3>3, <3>4 DEF GInv, StackInv, NewMapped, HeldMapped
        <4>2. Owners(slot) = {}
          BY <4>1
        <4> QED
          BY <3>4, <4>2, FS_EmptySet
      <3>5. CASE slot \in mapped
        <4>1. PICK o \in Tids : \/ Maps(o) /\ newSlot[o] = slot
                                \/ Holds(o) /\ stackOf[o] = slot
          BY <2>1, <3>1, <3>5 DEF GInv, StackInv, MappedOwned
        <4>2. \A c, d \in Tids : Maps(c) /\ Maps(d) => c = d
          BY <2>1 DEF Maps, GInv, IInv, HoldersOwn, Critical
        <4>3. \A c, x \in Tids : Maps(c) /\ Holds(x) => stackOf[x] # newSlot[c]
          BY <2>1 DEF GInv, StackInv, NewMapped
        <4>4. \A x, y \in Tids : Holds(x) /\ Holds(y) /\ stackOf[x] = stackOf[y] => x = y
          BY <2>1 DEF GInv, StackInv, HeldOnce
        <4>5. \A z : z \in Owners(slot) <=> z = o
          BY <3>3, <4>1, <4>2, <4>3, <4>4
        <4>6. Owners(slot) = {o}
          BY <4>5
        <4> QED
          BY <3>5, <4>6, FS_Singleton
      <3> QED
        BY <3>4, <3>5
    <2> QED
      BY <2>2, <2>3 DEF NothingLeaks
  <1>2. WellBehaved /\ "malloc" \notin Failures => GoodCase
    BY DEF GoodCase
  <1> QED
    BY <1>1, <1>2, GoodInvariance, PTL

==============================================================================
