------------------------------ MODULE Programs ------------------------------
(***************************************************************************)
(* The test programs of 410user/progs, one of which runs.                  *)
(***************************************************************************)
EXTENDS LockPrograms, ThreadPrograms, CondPrograms, Nibbles

CONSTANTS Run,          \* the programs to look at
          Footprints,   \* the footprint arguments of the agility drills
          MaxFailures   \* bound: the thr_create() calls that fail

NoCounts == [s \in {} |-> 0]

(* The programs at their start: those of LockPrograms, of ThreadPrograms,  *)
(* of CondPrograms and of Nibbles.                                         *)
LockBegins ==
  \/ \E f \in Footprints :
       \/ Begin("agility_drill", 163, [footprint |-> f], NoCounts)
       \/ Begin("agility_drill_sem", 164, [footprint |-> f], SemsOfOne)
  \/ Begin("racer", 193, [running |-> 0, cursor |-> 0], [sem |-> sems])
  \/ Begin("mutex_test", 57, [num_in_section |-> 0], NoCounts)
  \/ Begin("paradise_lost", 68,
           [num_in_section |-> 0, num_finished |-> 0], [lock |-> 0])
  \/ Begin("semaphore_test", 103,
           [ring |-> [i \in Slots |-> i], left1 |-> NUM_THREADS,
            left2 |-> NUM_THREADS], [test_sem |-> 3])

ThreadBegins ==
  \/ Begin("juggle", 199, [th_count |-> 0, rounds |-> 0], NoCounts)
  \/ Begin("cyclone", 56, [thread_exited |-> 0], NoCounts)
  \/ Begin("startle", 44, [ktids |-> {}], NoCounts)
  \/ Begin("join_specific_test", 64, [freed |-> {}], NoCounts)
  \/ Begin("thr_exit_join", 23, [none |-> 0], NoCounts)
  \/ Begin("thr_join_exit", 29, [none |-> 0], NoCounts)
  \/ \E n \in 0..MaxFailures :
       \/ Begin("largetest", 196, LargeData(n), NoCounts)
       \/ Begin("largetest2", 218, LargeData(n), NoCounts)

CondBegins ==
  \/ Begin("paraguay", 86, [slept1 |-> 0, slept2 |-> 0, signaled1 |-> 0,
                            signaled2 |-> 0], NoCounts)
  \/ Begin("broadcast_test", 55, [ready |-> 0], NoCounts)
  \/ Begin("cvar_test", 140, [done |-> 0, cleanup |-> 0], NoCounts)
  \/ Begin("beady_test", 346, [updatePending |-> 0, goFlag |-> 0, moves |-> 0,
           world |-> NewWorld, shown |-> BareScreen], NoCounts)
  \/ Begin("mandelbrot", 491, [cur_generation |-> 0, exit |-> 0,
           exiting |-> [i \in Cells |-> 0], trapped |-> [i \in Cells |-> 0],
           generation |-> [i \in Cells |-> -1], trap |-> 0], NoCounts)

NibblesBegins ==
  Begin("nibbles", 412, NewGame([i \in 0..(SNAKE_MAX_LENGTH - 1) |-> <<0, 0>>]),
        NoCounts)

Init == /\ prog \in Run
        /\ LockBegins \/ ThreadBegins \/ CondBegins \/ NibblesBegins

ThreadStep(t) ==
  \/ Library(t)
  \/ prog = "juggle" /\ (inc_count(t) \/ print_count(t) \/ juggle(t) \/ juggle_main(t))
  \/ prog = "agility_drill" /\ (agility_drill_chase(t) \/ agility_drill_main(t))
  \/ prog = "agility_drill_sem"
     /\ (agility_drill_sem_chase(t) \/ agility_drill_sem_main(t))
  \/ prog = "racer" /\ (race(t) \/ bad(t) \/ racer_main(t))
  \/ prog = "mutex_test" /\ mutex_test(t)
  \/ prog = "paradise_lost" /\ (paradise_lost_consumer(t) \/ paradise_lost_main(t))
  \/ prog = "semaphore_test" /\ (semaphore_test_thread(t) \/ semaphore_test_run(t)
                                 \/ semaphore_test_main(t))
  \/ prog = "cyclone" /\ cyclone(t)
  \/ prog = "startle" /\ startle(t)
  \/ prog = "join_specific_test" /\ join_specific_test(t)
  \/ prog = "thr_exit_join" /\ thr_exit_join(t)
  \/ prog = "thr_join_exit" /\ thr_join_exit(t)
  \/ prog = "largetest" /\ (largetest_thr(t) \/ largetest_main(t))
  \/ prog = "largetest2" /\ (largetest2_thr(t) \/ largetest2_main(t))
  \/ prog = "paraguay" /\ (paraguay_thread1(t) \/ paraguay_main(t))
  \/ prog = "broadcast_test" /\ broadcast_test(t)
  \/ prog = "cvar_test" /\ (cvar_sleeper(t) \/ maniac(t) \/ instigator(t)
                            \/ cvar_main(t))
  \/ prog = "beady_test" /\ (update(t) \/ controlThread(t)
                             \/ targetThread(t) \/ scoreThread(t) \/ beady_main(t))
  \/ prog = "mandelbrot" /\ (process_pixel(t) \/ wanderer_main(t)
                             \/ input_loop(t) \/ mandelbrot_main(t))
  \/ prog = "nibbles" /\ (nibbles(t) \/ nibbles_main(t) \/ key_grab(t))

Over == \A t \in Tids : life[t] # "live"

Next == \E t \in Tids : ThreadStep(t)

(* The kernel keeps scheduling every runnable thread.  Nothing is assumed  *)
(* about who gets a contended mutex, nor about the keys that are pressed.  *)
Fairness == \A t \in Tids : WF_vars(ThreadStep(t))

Spec == Init /\ [][Next]_vars /\ Fairness

-----------------------------------------------------------------------------
(* No program ever meets one of its own complaints: an assertion or a      *)
(* reported failure of 410user/progs, a join with the wrong status, more   *)
(* racers than permits, a print on another racer's line, a sleeper that    *)
(* woke before its signal.                                                 *)
NoComplaint == data.bad = 0

(* Programs whose main() waits for every thread it made. *)
Joiners == {"juggle", "agility_drill", "agility_drill_sem", "cyclone",
            "join_specific_test", "thr_join_exit", "largetest", "largetest2",
            "cvar_test", "beady_test", "mandelbrot"}

(* The two that make a tree of threads and clear up when a creation fails. *)
Largetests == {"largetest", "largetest2"}

(* When main() ends with thr_exit(), no thread it created is left, running *)
(* or unjoined: also when a thr_create() of a largetest failed in the      *)
(* middle of a round.  And main() does end so, not with an assertion of    *)
(* the library; but a largetest does in its first two rounds only.  From   *)
(* the third on a parent may store a child in spawn_order[] after main()   *)
(* has joined that child and cleared its entry, and main(), clearing up,   *)
(* may then join it again.                                                 *)
EverythingReaped ==
  prog \in Joiners /\ life[Main] # "live" =>
    /\ life[Main] = "exited" =>
         \A t \in Tids \ {Main} : life[t] \in {"free", "reaped"}
    /\ life[Main] = "exited" \/ (prog \in Largetests /\ LFSR_MAXTERM > 2)

(* The thread n elements behind zombie_out on the zombie queue, or the one *)
(* at zombie_in when there are fewer.                                      *)
Hop[n \in 0..MaxThreads] ==
  IF n = 0 THEN grp.out
  ELSE LET t == Hop[n - 1] IN IF t \in {NULL, grp.in} THEN t ELSE grp.next[t]

(* The zombie queue of thrgrp.c: zombie_out leads through the next fields  *)
(* to zombie_in, over elements that are allocated and whose threads nobody *)
(* has joined.  thrgrp_join() would otherwise join or free through a stale *)
(* pointer.                                                                *)
ZombieQueueSound ==
  /\ grp.in = NULL <=> grp.out = NULL
  /\ grp.in # NULL =>
       /\ Hop[MaxThreads] = grp.in
       /\ \A n \in 0..MaxThreads :
            /\ Hop[n] # NULL /\ grp.mem[Hop[n]] = "element"
            /\ life[Hop[n]] \notin {"free", "reaped"}

(* When the update thread of beady_test.c sleeps and nobody is changing    *)
(* the world, the screen shows the world: no request to redraw is lost.    *)
(* Until the first move the screen shows neither bead nor cursor, for      *)
(* main()'s own request is commented out.                                  *)
ScreenIsCurrent ==
  prog = "beady_test" /\ data.moves > 0 /\ owner["worldLock"] = NULL
    /\ (\E t \in Tids, i \in DOMAIN queue["updates"] :
          life[t] = "live" /\ queue["updates"][i] = t)
    /\ data.updatePending = 0
    => data.shown = data.world

(* While nibbles.c is played, its screen shows nothing but the snake's     *)
(* positions and the apples, however the keys interleave with the game,    *)
(* the snake grows and the ring of positions wraps around.  It shows all   *)
(* of them as well, but for the place where the snake starts, which is     *)
(* never drawn, the tail of a snake that has just grown, which is already  *)
(* erased, and an apple put on the snake itself, which the tail erases.    *)
(* That ends with the first two apples eaten in one move: the snake grows  *)
(* by places erased before, and erases places again that it is on.         *)
ScreenShowsSnake ==
  prog = "nibbles" /\ At(Main, 307) =>
    /\ data.drawn \subseteq Snake(data) \cup Apples(data)
    /\ ~data.twice =>
         /\ {data.spot[Ring(data.start - k)] : k \in 0..(data.length - 2)}
              \ {StartSpot} \subseteq data.drawn
         /\ Apples(data) \ data.buried \subseteq data.drawn

(* Programs that end by themselves, whatever the scheduler does. *)
Ending == {"juggle", "agility_drill", "agility_drill_sem", "mutex_test",
           "paradise_lost", "semaphore_test", "cyclone", "startle",
           "join_specific_test", "thr_exit_join", "thr_join_exit",
           "largetest", "largetest2", "broadcast_test"}

(* "If the threads implementation is working, this should simply finish":  *)
(* under fair scheduling of the runnable threads these programs run to     *)
(* their end, with no thread left waiting for a lock, a wakeup, a permit   *)
(* or another thread.  So does mandelbrot once 'q' has ended its input     *)
(* loop: every wanderer leaves, also the ones caught in a trap.            *)
RunsToTheEnd ==
  (prog \in Ending \/ (prog = "mandelbrot" /\ data.exit = 1)) ~> Over

=============================================================================
