---------------------------- MODULE CondPrograms ----------------------------
(***************************************************************************)
(* The test programs of 410user/progs that wait on condition variables:    *)
(* paraguay.c, broadcast_test.c, cvar_test.c, beady_test.c and             *)
(* mandelbrot.c.  A line number is the line of the program's source at     *)
(* which the step starts.                                                  *)
(***************************************************************************)
EXTENDS Client

CONSTANTS
  NR_MANIACS,                     \* of cvar_test
  CURSOR_MIN, CURSOR_MAX,         \* of beady_test
  MaxMoves,                       \* bound: the target's moves and the keys
  num_threads, wakeup_threshold,  \* of mandelbrot
  MaxKeys                         \* bound: the keys before 'q'

-----------------------------------------------------------------------------
(* paraguay.c: each of two sleeps is ended by a signal that is sent        *)
(* without the mutex, once the sleeper is known to be asleep.              *)
Nap(t, top, m, c, slept, signaled, next) ==
  \/ At(t, top) /\ mutex_lock(t, m, top + 1) /\ Keep
  \/ At(t, top + 1) /\ Step(t, top + 3)
     /\ data' = [data EXCEPT ![slept] = 1] /\ UNCHANGED mine
  \/ At(t, top + 3) /\ cond_wait(t, c, m, top + 4) /\ Keep
  \/ At(t, top + 4) /\ mutex_unlock(t, m, next)
     /\ Store([bad |-> Complaint(data[signaled] = 1)])

paraguay_thread1(t) ==
  \/ Nap(t, 43, "lock1", "cvar1", "slept1", "signaled1", 55)
  \/ Nap(t, 55, "lock2", "cvar2", "slept2", "signaled2", 70)
  \/ At(t, 70) /\ Leave(t, 0)

(* Waits for the sleeper, then wakes it. *)
Poke(t, top, m, c, slept, signaled, next) ==
  \/ At(t, top) /\ mutex_lock(t, m, top + 1) /\ Keep
  \/ At(t, top + 1) /\ data[slept] = 0 /\ mutex_unlock(t, m, top) /\ Keep
  \/ /\ At(t, top + 1) /\ data[slept] = 1 /\ mutex_unlock(t, m, top + 12)
     /\ data' = [data EXCEPT ![signaled] = 1] /\ UNCHANGED mine
  \/ At(t, top + 12) /\ cond_signal(t, c, next) /\ Keep

paraguay_main(t) ==
  \/ At(t, 86) /\ thr_create(t, "r", 43, 0, 90)
  \/ Poke(t, 90, "lock1", "cvar1", "slept1", "signaled1", 109)
  \/ Poke(t, 109, "lock2", "cvar2", "slept2", "signaled2", 126)
  \/ At(t, 126) /\ thr_exit(t, data.bad) /\ Keep

(* broadcast_test.c *)
broadcast_test(t) ==
  \/ At(t, 55) /\ thr_create(t, "r", 34, 0, 58)
  \/ At(t, 58) /\ mutex_lock(t, "lock", 59) /\ Keep
  \/ At(t, 59) /\ cond_broadcast(t, "cvar", 61) /\ Store([ready |-> 1])
  \/ At(t, 61) /\ mutex_unlock(t, "lock", 63) /\ Keep
  \/ At(t, 63) /\ vanish(t) /\ Keep
  \/ At(t, 34) /\ mutex_lock(t, "lock", 35) /\ Keep
  \/ At(t, 35) /\ data.ready = 0 /\ cond_wait(t, "cvar", "lock", 35) /\ Keep
  \/ At(t, 35) /\ data.ready = 1 /\ mutex_unlock(t, "lock", 43) /\ Keep
  \/ At(t, 43) /\ Leave(t, 0)

-----------------------------------------------------------------------------
(* cvar_test.c: the maniacs wake each other on a and b, with the           *)
(* instigator's help, while the sleeper sleeps on c until main() says it   *)
(* is done.                                                                *)
cvar_sleeper(t) ==
  \/ At(t, 64) /\ mutex_lock(t, "big_global_mutex", 66) /\ Keep
  \/ At(t, 66) /\ cond_wait(t, "c", "big_global_mutex", 68) /\ Keep
  \/ At(t, 68) /\ Step(t, 74) /\ Store([bad |-> Complaint(data.done = 1)])
  \/ At(t, 74) /\ thr_exit(t, 0) /\ Keep  \* big_global_mutex stays locked

maniac(t) ==
  \/ At(t, 82) /\ mutex_lock(t, "big_global_mutex", 85) /\ Keep
  \/ At(t, 85) /\ cond_wait(t, "a", "big_global_mutex", 89) /\ Keep
  \/ At(t, 89) /\ cond_signal(t, "b", 92) /\ Keep
  \/ At(t, 92) /\ cond_wait(t, "b", "big_global_mutex", 96) /\ Keep
  \/ At(t, 96) /\ cond_broadcast(t, "a", 99) /\ Keep
  \/ At(t, 99) /\ cond_wait(t, "a", "big_global_mutex", 103) /\ Keep
  \/ At(t, 103) /\ mutex_unlock(t, "big_global_mutex", 106) /\ Keep
  \/ At(t, 106) /\ Leave(t, 0)

instigator(t) ==
  \/ At(t, 111) /\ data.cleanup = 0 /\ cond_signal(t, "a", 116) /\ Keep
  \/ At(t, 116) /\ cond_signal(t, "b", 111) /\ Keep
  \/ At(t, 111) /\ data.cleanup = 1 /\ thr_exit(t, 0) /\ Keep

(* The sleeper is thread 2, the instigator the last one. *)
cvar_main(t) ==
  \/ At(t, 140) /\ thr_create(t, "r", 64, 0, 147)
  \/ /\ At(t, 147) /\ Newest < NR_MANIACS + 2
     /\ thrgrp_create(t, 82, 0, 147)
  \/ /\ At(t, 147) /\ Newest = NR_MANIACS + 2
     /\ thr_create(t, "j", 111, 0, 163)
  \/ /\ At(t, 163) /\ mine[t].i < NR_MANIACS
     /\ Call(t, TG(170), 163) /\ Local(t, [i |-> mine[t].i + 1])
  \/ /\ At(t, 163) /\ mine[t].i = NR_MANIACS
     /\ Step(t, 167) /\ Store([done |-> 1])
  \/ At(t, 167) /\ cond_signal(t, "c", 169) /\ Keep
  \/ At(t, 169) /\ thr_join(t, 2, 170) /\ UNCHANGED data
  \/ At(t, 170) /\ Step(t, 171) /\ Store([cleanup |-> 1])
  \/ At(t, 171) /\ thr_join(t, mine[t].j, 173) /\ UNCHANGED data
  \/ At(t, 173) /\ thr_exit(t, 0) /\ Keep

-----------------------------------------------------------------------------
(* beady_test.c: the player's cursor chases a target; both move under      *)
(* worldLock and ask the update thread to redraw the world.  shown is what *)
(* the screen shows.  The score is only printed, and is left out.          *)

(* Records a request to redraw and wakes the update thread, under          *)
(* updateLock; the caller then unlocks worldLock.  The mistake before it   *)
(* does not record the request.                                            *)
ForgetfulUpdate(t, line, next) ==
  /\ At(t, line) /\ owner["updateLock"] = NULL /\ owner["worldLock"] = t
  /\ queue' = OneWoken("updates") /\ owner' = Released("worldLock") /\ Keep
  /\ Goto(t, next) /\ Quiet /\ UNCHANGED <<wants, count>>
scheduleUpdate(t, line, next) ==
  /\ At(t, line) /\ owner["updateLock"] = NULL /\ owner["worldLock"] = t
  /\ queue' = OneWoken("updates") /\ owner' = Released("worldLock")
  /\ Store([updatePending |-> 1])
  /\ Goto(t, next) /\ Quiet /\ UNCHANGED <<wants, count>>

waitUpdate(t) ==
  \/ /\ At(t, 120) /\ data.updatePending = 0
     /\ lock_and_wait(t, "updates", "updateLock", 128) /\ Keep
  \/ /\ At(t, 120) /\ data.updatePending # 0 /\ owner["updateLock"] = NULL
     /\ Step(t, 147) /\ Store([updatePending |-> 0])
  \/ /\ At(t, 128) /\ mutex_unlock(t, "updateLock", 147)
     /\ Store([updatePending |-> 0])

(* waitUpdate(), then goFlag is read without a lock. *)
update(t) ==
  \/ waitUpdate(t)
  \/ At(t, 147) /\ data.goFlag = 1 /\ Leave(t, 1)
  \/ At(t, 147) /\ data.goFlag = 0 /\ Step(t, 150) /\ Keep
  \/ /\ At(t, 150) /\ owner["worldLock"] = NULL
     /\ Step(t, 120) /\ Store([shown |-> data.world])

NewWorld == [p1Cursor |-> CURSOR_MIN, targetPos |-> CURSOR_MIN]

(* After initScreen(): the bar, with neither the bead nor the cursor. *)
BareScreen == [p1Cursor |-> CURSOR_MIN - 1, targetPos |-> CURSOR_MIN - 1]

Clamp(x) == IF x > CURSOR_MAX THEN CURSOR_MAX
            ELSE IF x < CURSOR_MIN THEN CURSOR_MIN ELSE x

(* One thing of the world moves a step left or right. *)
Move(what, d) == Store([world |-> [data.world EXCEPT ![what] = Clamp(@ + d)],
                        moves |-> data.moves + 1])

controlThread(t) ==
  \/ /\ At(t, 197) /\ data.moves < MaxMoves  \* '.' or ','
     /\ mutex_lock(t, "worldLock", 206) /\ \E d \in {-1, 1} : Move("p1Cursor", d)
  \/ scheduleUpdate(t, 206, 197)
  \/ At(t, 197) /\ Step(t, 222) /\ Store([goFlag |-> 1])  \* 'q'
  \/ At(t, 222) /\ cond_signal(t, "gameOver", 224) /\ Keep
  \/ At(t, 224) /\ Leave(t, 2)

targetThread(t) ==
  \/ /\ At(t, 245) /\ (data.moves < MaxMoves \/ data.goFlag = 1)
     /\ mutex_lock(t, "worldLock", 272) /\ \E d \in {-1, 1} : Move("targetPos", d)
  \/ scheduleUpdate(t, 272, 275)
  \/ At(t, 275) /\ data.goFlag = 0 /\ Step(t, 245) /\ Keep
  \/ At(t, 275) /\ data.goFlag = 1 /\ Leave(t, 3)

(* Counts the score under worldLock, then looks at goFlag; the score is    *)
(* not modelled, so this is one step.                                      *)
scoreThread(t) == /\ At(t, 299) /\ owner["worldLock"] = NULL
                  /\ data.goFlag = 1 /\ Leave(t, 4)

beady_main(t) ==
  \/ \E n \in 1..4 : /\ At(t, 345 + n)
                     /\ thrgrp_create(t, <<120, 197, 245, 299>>[n], 0,
                                      IF n = 4 THEN 355 ELSE 346 + n)
  \/ At(t, 355) /\ lock_and_wait(t, "gameOver", "worldLock", 357) /\ Keep
  \/ At(t, 357) /\ mutex_unlock(t, "worldLock", 360) /\ Keep
  \/ At(t, 360) /\ cond_signal(t, "updates", 363) /\ Keep
  \/ /\ At(t, 363) /\ mine[t].i < 4
     /\ Call(t, TG(170), 363) /\ Local(t, [i |-> mine[t].i + 1])
  \/ At(t, 363) /\ mine[t].i = 4 /\ thr_exit(t, 0) /\ Keep

-----------------------------------------------------------------------------
(* mandelbrot.c: wanderer threads draw cells of the screen at random; a    *)
(* cell with a trap holds visitors until enough of them are trapped.  Two  *)
(* cells, one of which may have the trap.  What is drawn is left out: a    *)
(* cell's colour depends only on the generation it was computed in.        *)
Cells == {0, 1}

Cell(i) == <<"cell[0]", "cell[1]">>[i + 1]

Count(name, i, d) == [data[name] EXCEPT ![i] = @ + d]

EnterTrap(i) == Count("trapped", i, 1)

(* i is the cell, j is wokeup.  Each drawing holds console_lock and calls  *)
(* nothing else, so it is part of the step before it.                      *)
process_pixel(t) ==
  LET i == mine[t].i
      stale == data.generation[i] < data.cur_generation
      caught == mine[t].j = 0 /\ data.trap = i
  IN
  \/ At(t, 204) /\ mutex_lock(t, Cell(i), 206) /\ Local(t, [j |-> 0])
  \/ /\ At(t, 206) /\ data.exiting[i] = 1
     /\ mutex_unlock(t, Cell(i), 253) /\ Keep
  \/ /\ At(t, 206) /\ data.exiting[i] = 0
     /\ data.trapped[i] < wakeup_threshold /\ Step(t, 219) /\ Keep
  \/ /\ At(t, 206) /\ data.exiting[i] = 0
     /\ data.trapped[i] >= wakeup_threshold
     /\ cond_broadcast(t, "traps[0]", 219) /\ Local(t, [j |-> 1])
  \/ At(t, 219) /\ ~stale /\ mutex_unlock(t, Cell(i), 253) /\ Keep  \* skipped
  \/ /\ At(t, 219) /\ Step(t, IF caught THEN 237 ELSE 251)
     /\ Store([generation |-> IF stale THEN [data.generation EXCEPT
                                               ![i] = data.cur_generation]
                              ELSE data.generation,
               trapped |-> IF caught THEN EnterTrap(i) ELSE data.trapped])
  \/ At(t, 237) /\ cond_wait(t, "traps[0]", Cell(i), 240) /\ Keep
  \/ /\ At(t, 240) /\ Step(t, 251)
     /\ Store([trapped |-> Count("trapped", i, -1)])
  \/ At(t, 251) /\ mutex_unlock(t, Cell(i), 253) /\ Keep
  \/ At(t, 253) /\ Return(t) /\ Local(t, [i |-> 0, j |-> 0])

wanderer_main(t) ==
  \/ \E i \in Cells : /\ At(t, 265) /\ data.exit = 0
                       /\ Call(t, 204, 265) /\ Local(t, [i |-> i])
  \/ At(t, 265) /\ data.exit = 1 /\ Leave(t, 0)

(* 'q' ends the loop; every other key starts a new generation. *)
input_loop(t) ==
  \/ At(t, 341) /\ Step(t, 498) /\ Keep
  \/ /\ At(t, 341) /\ data.cur_generation < MaxKeys
     /\ Step(t, 341) /\ Store([cur_generation |-> data.cur_generation + 1])

(* exiting is set, then each cell's, then the trapped threads are woken. *)
mandelbrot_exit(t) ==
  \/ At(t, 498) /\ Step(t, 500) /\ Both(t, [exit |-> 1], [i |-> 0])
  \/ /\ At(t, 500) /\ mine[t].i \in Cells
     /\ mutex_lock(t, Cell(mine[t].i), 502) /\ Keep
  \/ /\ At(t, 502) /\ mutex_unlock(t, Cell(mine[t].i), 500)
     /\ Both(t, [exiting |-> Count("exiting", mine[t].i, 1)],
                [i |-> mine[t].i + 1])
  \/ At(t, 500) /\ mine[t].i \notin Cells /\ Step(t, 506) /\ Local(t, [i |-> 0])
  \/ At(t, 506) /\ cond_broadcast(t, "traps[0]", 511) /\ Keep

mandelbrot_main(t) ==
  \/ At(t, 491) /\ Newest <= num_threads /\ thrgrp_create(t, 265, 0, 491)
  \/ At(t, 491) /\ Newest > num_threads /\ Step(t, 341) /\ Keep
  \/ mandelbrot_exit(t)
  \/ /\ At(t, 511) /\ mine[t].i < num_threads
     /\ Call(t, TG(170), 511) /\ Local(t, [i |-> mine[t].i + 1])
  \/ At(t, 511) /\ mine[t].i = num_threads /\ Call(t, TG(61), 518) /\ Keep
  \/ /\ At(t, 518) /\ thr_exit(t, 0)
     /\ Store([bad |-> Complaint(mine[t].r = 0)])
=============================================================================
