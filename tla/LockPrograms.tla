---------------------------- MODULE LockPrograms ----------------------------
(***************************************************************************)
(* The test programs of 410user/progs that work mutexes and semaphores:    *)
(* agility_drill.c, agility_drill_sem.c, racer.c, mutex_test.c,            *)
(* paradise_lost.c and semaphore_test.c.  A line number is the line of the *)
(* program's source at which the step starts.                              *)
(***************************************************************************)
EXTENDS Client

CONSTANTS
  n_mutexes, n_chasethreads,             \* of the agility drills
  STUPID_MAGIC_CONSTANT,                 \* their least useful thread count
  threads, sems, run, Columns,           \* of racer
  NUM_THREADS                            \* of semaphore_test

-----------------------------------------------------------------------------
(* agility_drill.c and agility_drill_sem.c: each chase thread goes through *)
(* an array of locks in order, holding at most footprint of them.  i is    *)
(* next_mutex_to_acquire, j is highest_mutex_released + 1.                 *)
Nth(array, i) == array \o "[" \o <<"0", "1", "2">>[i + 1] \o "]"

Take(t, array, i, line) ==
  \/ array = "mtxs" /\ mutex_lock(t, Nth(array, i), line)
  \/ array = "sems" /\ sem_wait(t, Nth(array, i), line)

Give(t, array, i, line) ==
  \/ array = "mtxs" /\ mutex_unlock(t, Nth(array, i), line)
  \/ array = "sems" /\ sem_signal(t, Nth(array, i), line)

Chase(t, top, array) ==
  \/ /\ At(t, top) /\ mine[t].j < n_mutexes /\ mine[t].i < n_mutexes
     /\ Take(t, array, mine[t].i, top + 16)
     /\ Local(t, [i |-> mine[t].i + 1])
  \/ /\ At(t, top) /\ mine[t].j < n_mutexes /\ mine[t].i = n_mutexes
     /\ Step(t, top + 16) /\ Keep
  \/ /\ At(t, top + 16) /\ mine[t].i >= data.footprint
     /\ Give(t, array, mine[t].j, top)
     /\ Local(t, [j |-> mine[t].j + 1])
  \/ At(t, top + 16) /\ mine[t].i < data.footprint /\ Step(t, top) /\ Keep
  \/ At(t, top) /\ mine[t].j = n_mutexes /\ Leave(t, 1)

agility_drill_chase(t) == Chase(t, 107, "mtxs")
agility_drill_sem_chase(t) == Chase(t, 108, "sems")

(* The arguments are checked, the threads created and joined in a group.   *)
Drill(t, check, top) ==
  \/ /\ At(t, check)
     /\ \/ data.footprint < 1 \/ n_mutexes < 3 \/ n_mutexes <= data.footprint
        \/ n_chasethreads < 2 * STUPID_MAGIC_CONSTANT - 1
     /\ thr_exit(t, 1) /\ Keep
  \/ /\ At(t, check)
     /\ data.footprint >= 1 /\ n_mutexes >= 3 /\ n_mutexes > data.footprint
     /\ n_chasethreads >= 2 * STUPID_MAGIC_CONSTANT - 1
     /\ Step(t, check + 23) /\ Keep
  \/ /\ At(t, check + 23) /\ Newest <= n_chasethreads
     /\ thrgrp_create(t, top, Newest - 1, check + 23)
  \/ /\ At(t, check + 23) /\ Newest > n_chasethreads
     /\ Step(t, check + 26) /\ Keep
  \/ /\ At(t, check + 26) /\ mine[t].i < n_chasethreads
     /\ Call(t, TG(170), check + 27) /\ Local(t, [i |-> mine[t].i + 1])
  \/ /\ At(t, check + 27) /\ Step(t, check + 26)
     /\ Store([bad |-> Complaint(mine[t].r = 0)])
  \/ /\ At(t, check + 26) /\ mine[t].i = n_chasethreads
     /\ thr_exit(t, 0) /\ Keep

agility_drill_main(t) == Drill(t, 163, 107)
agility_drill_sem_main(t) == Drill(t, 164, 108)

SemsOfOne == [s \in {"sems[0]", "sems[1]", "sems[2]"} |-> 1]

-----------------------------------------------------------------------------
(* racer.c: each thread prints on a terminal line of its own while it      *)
(* holds one of sems permits.  data.cursor is the row of the terminal's    *)
(* cursor; a print that lands on another thread's row is a complaint.      *)
(* i counts the characters of this run, j the column, s the thread's r.    *)

(* Moves the cursor, then prints, under lock_print. *)
PrintAt(t, top, row, next) ==
  \/ At(t, top) /\ mutex_lock(t, "lock_print", top + 1) /\ Keep
  \/ At(t, top + 1) /\ Step(t, top + 2) /\ Store([cursor |-> row])
  \/ /\ At(t, top + 2) /\ mutex_unlock(t, "lock_print", next)
     /\ Store([bad |-> Complaint(data.cursor = row)])

race(t) ==
  \/ PrintAt(t, 76, mine[t].arg, 85)
  \/ At(t, 85) /\ sem_wait(t, "sem", 87) /\ Keep
  \/ At(t, 87) /\ mutex_lock(t, "lock_running", 88) /\ Keep
  \/ /\ At(t, 88) /\ mutex_unlock(t, "lock_running", 90)
     /\ Both(t, [running |-> data.running + 1], [s |-> data.running + 1])
  \/ At(t, 90) /\ Step(t, 93) /\ Store([bad |-> Complaint(mine[t].s <= sems)])
  \/ PrintAt(t, 93, 24, 98)
  \/ /\ At(t, 98) /\ mine[t].i < run
     /\ IF mine[t].j + 1 = Columns
        THEN Step(t, 103) /\ Local(t, [j |-> 0])
        ELSE Step(t, 112) /\ Local(t, [j |-> mine[t].j + 1])
  \/ PrintAt(t, 103, mine[t].arg, 112)
  \/ PrintAt(t, 112, mine[t].arg, 119)
  \/ At(t, 119) /\ Step(t, 98) /\ Local(t, [i |-> mine[t].i + 1])
  \/ /\ At(t, 98) /\ mine[t].i = run
     /\ mutex_lock(t, "lock_running", 125) /\ Local(t, [i |-> 0])
  \/ /\ At(t, 125) /\ mutex_unlock(t, "lock_running", 128)
     /\ Store([running |-> data.running - 1])
  \/ At(t, 128) /\ sem_signal(t, "sem", 85) /\ Keep

(* The thread that goes through the kernel's misbehave() modes for ever. *)
bad(t) == PrintAt(t, 143, 24, 148) \/ (At(t, 148) /\ Step(t, 143) /\ Keep)

racer_main(t) ==
  \/ At(t, 193) /\ thr_create(t, "r", 143, 80, 195)
  \/ /\ At(t, 195) /\ mine[t].i < threads
     /\ thr_create(t, "r", 76, Newest - 2, 196)
  \/ At(t, 196) /\ Step(t, 195) /\ Local(t, [i |-> mine[t].i + 1])
  \/ At(t, 195) /\ mine[t].i = threads /\ Step(t, 199) /\ Keep
  \/ /\ At(t, 199)  \* a key was pressed
     /\ task_vanish(t) /\ Keep

-----------------------------------------------------------------------------
(* mutex_test.c and paradise_lost.c: num_in_section is 1 inside.           *)
mutex_test(t) ==
  \/ At(t, 57) /\ thr_create(t, "r", 43, 0, 60)
  \/ At(t, 60) /\ Call(t, 32, 62) /\ Keep
  \/ At(t, 43) /\ Call(t, 32, 45) /\ Keep
  \/ At(t, 45) /\ Call(t, 32, 46) /\ Keep
  \/ \E end \in {46, 62} : At(t, end) /\ vanish(t) /\ Keep
  \/ /\ At(t, 32) /\ mutex_lock(t, "lock", 34)
     /\ Store([num_in_section |-> data.num_in_section + 1])
  \/ /\ At(t, 34) /\ mutex_unlock(t, "lock", 38)
     /\ Store([bad |-> Complaint(data.num_in_section = 1),
               num_in_section |-> data.num_in_section - 1])
  \/ At(t, 38) /\ Return(t) /\ Keep

(* A consumer that enters without waiting for the semaphore. *)
EagerConsumer(t) == At(t, 53) /\ Step(t, 35) /\ Keep

consumer_wait(t) == At(t, 53) /\ sem_wait(t, "lock", 35) /\ Keep

(* critical_section() is inlined into consumer(). *)
paradise_lost_consumer(t) ==
  \/ consumer_wait(t)
  \/ At(t, 35) /\ mutex_lock(t, "little_lock", 36) /\ Keep
  \/ /\ At(t, 36) /\ mutex_unlock(t, "little_lock", 39)
     /\ Store([num_in_section |-> data.num_in_section + 1])
  \/ At(t, 39) /\ mutex_lock(t, "little_lock", 40) /\ Keep
  \/ /\ At(t, 40) /\ mutex_unlock(t, "little_lock", 55)
     /\ Store([bad |-> Complaint(data.num_in_section = 1),
               num_in_section |-> data.num_in_section - 1,
               num_finished |-> data.num_finished + 1])
  \/ At(t, 55) /\ sem_signal(t, "lock", 60) /\ Keep
  \/ At(t, 60) /\ vanish(t) /\ Keep

paradise_lost_main(t) ==
  \/ At(t, 68) /\ thr_create(t, "r", 53, 0, 69)
  \/ At(t, 69) /\ thr_create(t, "r", 53, 0, 70)
  \/ At(t, 70) /\ sem_signal(t, "lock", 86) /\ Keep
  \/ At(t, 86) /\ vanish(t) /\ Keep

-----------------------------------------------------------------------------
(* semaphore_test.c: two barriers made of a semaphore and an atomic count  *)
(* separate the phases of a computation on a shared ring of numbers.       *)
Slots == 0..(NUM_THREADS - 1)

Around(ring, i) == ring[(i - 1) % NUM_THREADS] + ring[i]
                   + ring[(i + 1) % NUM_THREADS]

expected == LET sums == [i \in Slots |-> Around([k \in Slots |-> k], i)]
            IN [i \in Slots |-> Around(sums, i)]

(* A barrier that lets the last thread through without opening it. *)
StuckBarrier(t, top, bar, left, next) ==
  \/ /\ At(t, top) /\ Step(t, IF data[left] = 1 THEN next ELSE top + 1)
     /\ data' = [data EXCEPT ![left] = @ - 1] /\ UNCHANGED mine
  \/ At(t, top + 1) /\ sem_wait(t, bar, top + 2) /\ Keep
  \/ At(t, top + 2) /\ sem_signal(t, bar, next) /\ Keep

(* barrier_sync(): the last thread to arrive opens the barrier, the others *)
(* pass it on.                                                             *)
barrier_sync(t, top, bar, left, next) ==
  \/ /\ At(t, top) /\ Step(t, IF data[left] = 1 THEN top + 2 ELSE top + 1)
     /\ data' = [data EXCEPT ![left] = @ - 1] /\ UNCHANGED mine
  \/ At(t, top + 1) /\ sem_wait(t, bar, top + 2) /\ Keep
  \/ At(t, top + 2) /\ sem_signal(t, bar, next) /\ Keep

semaphore_test_thread(t) ==
  \/ /\ At(t, 39) /\ Step(t, 46)
     /\ Local(t, [i |-> Around(data.ring, mine[t].arg)])
  \/ barrier_sync(t, 46, "bar1", "left1", 49)
  \/ /\ At(t, 49) /\ Step(t, 51)
     /\ Store([ring |-> [data.ring EXCEPT ![mine[t].arg] = mine[t].i]])
  \/ barrier_sync(t, 51, "bar2", "left2", 54)
  \/ At(t, 54) /\ Leave(t, Around(data.ring, mine[t].arg))

(* run(): thread 3 and up are the test threads. *)
semaphore_test_run(t) ==
  \/ /\ At(t, 84) /\ mine[t].i < NUM_THREADS
     /\ thr_create(t, "r", 39, mine[t].i, 85)
  \/ At(t, 85) /\ Step(t, 84) /\ Local(t, [i |-> mine[t].i + 1])
  \/ /\ At(t, 84) /\ mine[t].i = NUM_THREADS
     /\ Step(t, 88) /\ Local(t, [i |-> 0])
  \/ /\ At(t, 88) /\ mine[t].i < NUM_THREADS
     /\ thr_join(t, mine[t].i + 3, 91) /\ UNCHANGED data
  \/ /\ At(t, 91) /\ Step(t, 88)
     /\ Both(t, [bad |-> Complaint(mine[t].s = expected[mine[t].i])],
                [i |-> mine[t].i + 1])
  \/ /\ At(t, 88) /\ mine[t].i = NUM_THREADS
     /\ sem_signal(t, "test_sem", 94) /\ Keep
  \/ At(t, 94) /\ Leave(t, 7)

semaphore_test_main(t) ==
  \/ At(t, 103) /\ thr_create(t, "z", 84, 0, 105)
  \/ /\ At(t, 105) /\ sem_wait(t, "test_sem", IF mine[t].i = 3 THEN 110 ELSE 105)
     /\ Local(t, [i |-> mine[t].i + 1])
  \/ At(t, 110) /\ thr_join(t, mine[t].z, 111) /\ UNCHANGED data
  \/ At(t, 111) /\ vanish(t) /\ Store([bad |-> Complaint(mine[t].s = 7)])

=============================================================================
