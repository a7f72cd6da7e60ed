--------------------------- MODULE ThreadPrograms ---------------------------
(***************************************************************************)
(* The test programs of 410user/progs that create, join and end threads:   *)
(* juggle.c, cyclone.c, startle.c, join_specific_test.c, thr_exit_join.c,  *)
(* thr_join_exit.c, largetest.c and largetest2.c.  A line number is the    *)
(* line of the program's source at which the step starts.                  *)
(***************************************************************************)
EXTENDS Client

CONSTANTS
  n_levels, n_throws, rep,  \* of juggle
  MAX_MISBEHAVE,            \* of cyclone: how often it creates and joins
  nthreads,                 \* of startle and join_specific_test
  LFSR_MAXTERM              \* of the largetests: their rounds

-----------------------------------------------------------------------------
(* juggle.c: thread arg creates and joins two threads of level arg - 1,    *)
(* n_throws times.  i is throws, j is sub1, z is sub2.                     *)

inc_count(t) ==
  \/ At(t, 46) /\ mutex_lock(t, "count_mutex", 47) /\ Keep
  \/ /\ At(t, 47) /\ mutex_unlock(t, "count_mutex", 49)
     /\ Store([th_count |-> data.th_count + 1])
  \/ At(t, 49) /\ Return(t) /\ Keep

(* print_count() reads the count under the mutex, for a log line. *)
print_count(t) == At(t, 64) /\ owner["count_mutex"] = NULL /\ Return(t) /\ Keep

(* One ball is caught again: joined, and asked for its level.  The mistake *)
(* before it lets the ball drop.                                           *)
DropBall(t, line, ball, next, throws) ==
  /\ At(t, line) /\ Step(t, next) /\ Local(t, [i |-> throws])
CatchBall(t, line, ball, next, throws) ==
  \/ At(t, line) /\ thr_join(t, mine[t][ball], line + 1) /\ UNCHANGED data
  \/ /\ At(t, line + 1) /\ Step(t, next)
     /\ Both(t, [bad |-> Complaint(mine[t].r = 0 /\ mine[t].s = mine[t].arg - 1)],
                [i |-> throws])

juggle(t) ==
  \/ At(t, 95) /\ Call(t, 46, 96) /\ Keep
  \/ At(t, 96) /\ Call(t, 64, 98) /\ Keep
  \/ /\ At(t, 98) /\ Keep
     /\ Step(t, IF mine[t].arg > 0 /\ mine[t].i < n_throws THEN 102 ELSE 137)
  \/ At(t, 102) /\ thr_create(t, "j", 95, mine[t].arg - 1, 109)
  \/ At(t, 109) /\ thr_create(t, "z", 95, mine[t].arg - 1, 117)
  \/ CatchBall(t, 117, "j", 124, mine[t].i)
  \/ CatchBall(t, 124, "z", 98, mine[t].i + 1)
  \/ At(t, 137) /\ Call(t, 64, 142) /\ Keep
  \/ At(t, 142) /\ Leave(t, mine[t].arg)

juggle_main(t) ==
  \/ /\ At(t, 199) /\ data.rounds < rep /\ Call(t, 95, 202)
     /\ Local(t, [arg |-> n_levels, i |-> 0])
  \/ /\ At(t, 202) /\ Step(t, 199)
     /\ Store([bad |-> Complaint(mine[t].s = n_levels), rounds |-> data.rounds + 1])
  \/ At(t, 199) /\ data.rounds = rep /\ thr_exit(t, 0) /\ Keep

-----------------------------------------------------------------------------
(* cyclone.c: create a thread, join it, look at what it left behind.       *)
(* (misbehave() changes how the kernel schedules: every order is allowed.) *)
cyclone(t) ==
  \/ /\ At(t, 56) /\ mine[t].i < MAX_MISBEHAVE
     /\ Step(t, 63) /\ Store([thread_exited |-> 0])
  \/ At(t, 63) /\ thr_create(t, "z", 104, mine[t].i, 65)
  \/ At(t, 65) /\ thr_join(t, mine[t].z, 67) /\ UNCHANGED data
  \/ /\ At(t, 67) /\ Step(t, 56)
     /\ Both(t, [bad |-> Complaint(/\ mine[t].r = 0 /\ mine[t].s = mine[t].i
                                   /\ data.thread_exited = 1)],
                [i |-> mine[t].i + 1])
  \/ At(t, 56) /\ mine[t].i = MAX_MISBEHAVE /\ thr_exit(t, 0) /\ Keep
  \/ At(t, 104) /\ Step(t, 105) /\ Store([thread_exited |-> 1])
  \/ At(t, 105) /\ thr_exit(t, mine[t].arg) /\ Keep

(* startle.c: main() polls until every thread it created has registered.   *)
startle(t) ==
  \/ /\ At(t, 44) /\ Newest <= nthreads
     /\ thr_create(t, "r", 79, Newest, 44)
  \/ At(t, 44) /\ Newest > nthreads /\ Step(t, 51) /\ Keep
  \/ /\ At(t, 51) /\ Cardinality(data.ktids) = nthreads
     /\ task_vanish(t) /\ Keep
  \/ At(t, 79) /\ Step(t, 82) /\ Store([ktids |-> data.ktids \cup {mine[t].arg}])
  \/ At(t, 82) /\ Step(t, 82) /\ Keep

(* join_specific_test.c: the threads are joined in the reverse order of    *)
(* their creation, and each returns the block of memory it was given.      *)
join_specific_test(t) ==
  \/ /\ At(t, 64) /\ Newest <= nthreads
     /\ thr_create(t, "r", 48, Newest + 1, 64)
  \/ /\ At(t, 64) /\ Newest > nthreads /\ Step(t, 73)
     /\ Local(t, [i |-> nthreads + 1])
  \/ /\ At(t, 73) /\ mine[t].i > 1
     /\ thr_join(t, mine[t].i, 75) /\ UNCHANGED data
  \/ /\ At(t, 75) /\ Step(t, 73)
     /\ Both(t, [bad |-> Complaint(mine[t].r = 0 /\ mine[t].s \notin data.freed),
                 freed |-> data.freed \cup {mine[t].s}],
                [i |-> mine[t].i - 1])
  \/ At(t, 73) /\ mine[t].i = 1 /\ thr_exit(t, 0) /\ Keep
  \/ At(t, 48) /\ Leave(t, mine[t].arg)

(* thr_exit_join.c: a thread joins the main thread. *)
thr_exit_join(t) ==
  \/ At(t, 23) /\ thr_create(t, "r", 10, Main, 27)
  \/ At(t, 27) /\ thr_exit(t, 33) /\ Keep
  \/ At(t, 10) /\ thr_join(t, mine[t].arg, 11) /\ UNCHANGED data
  \/ /\ At(t, 11) /\ thr_exit(t, 0)
     /\ Store([bad |-> Complaint(mine[t].s = 33)])

(* thr_join_exit.c: the main thread joins a thread. *)
thr_join_exit(t) ==
  \/ At(t, 29) /\ thr_create(t, "z", 16, 0, 30)
  \/ At(t, 30) /\ thr_join(t, mine[t].z, 31) /\ UNCHANGED data
  \/ /\ At(t, 31) /\ thr_exit(t, 0)
     /\ Store([bad |-> Complaint(mine[t].r = 0 /\ mine[t].s = 33)])
  \/ At(t, 16) /\ thr_exit(t, 33) /\ Keep

-----------------------------------------------------------------------------
(* largetest.c and largetest2.c: in round n, 2^n - 1 threads are created   *)
(* as a binary tree, each entering its tid at a place of free_order that a *)
(* shift register chooses; main() joins them in that order.  Creation may  *)
(* fail: the error flag then stops the round, and main() joins what        *)
(* spawn_order holds.                                                      *)
terms == <<1, 3, 6, 12, 23, 51, 105, 142>>

pow2(n) == 2^n

next_pow2(n) == CHOOSE p \in {2^k : k \in 0..8} : p > n /\ p <= 2 * n

(* The exclusive or of two numbers below 2^8: their bits one by one. *)
Xor(x, y) ==
  LET low[k \in 0..8] ==  \* the k lowest bits of the result
        IF k = 0 THEN 0
        ELSE LET bit == 2^(k - 1)
             IN low[k - 1] + bit * ((x \div bit + y \div bit) % 2)
  IN low[8]

(* n iterations of the shift register. *)
lfsr(round, seed, n) ==
  LET cur[i \in 0..n] ==
        IF i = 0 THEN seed
        ELSE IF cur[i - 1] % 2 = 1 THEN Xor(cur[i - 1] \div 2, terms[round])
             ELSE cur[i - 1] \div 2
  IN cur[n]

(* Setting error: largetest2 does it under bar_mutex and wakes everybody   *)
(* at the barrier; largetest only sets the flag.                           *)
SetError(t, line, barriers, next) ==
  \/ ~barriers /\ At(t, line) /\ Step(t, next) /\ Store([error |-> 1])
  \/ /\ barriers /\ At(t, line) /\ mutex_lock(t, "bar_mutex", line + 1)
     /\ Store([error |-> 1])
  \/ /\ barriers /\ At(t, line + 1)
     /\ cond_broadcast(t, "bar_cond", line + 2) /\ Keep
  \/ /\ barriers /\ At(t, line + 2)
     /\ mutex_unlock(t, "bar_mutex", next) /\ Keep

barrier(t) ==
  \/ At(t, 88) /\ mutex_lock(t, "bar_mutex", 89) /\ Keep
  \/ At(t, 89) /\ data.error = 1 /\ Step(t, 102) /\ Keep
  \/ /\ At(t, 89) /\ data.error = 0
     /\ Step(t, 94) /\ Store([bar_count |-> data.bar_count + 1])
  \/ /\ At(t, 94) /\ data.bar_count = data.bar_limit
     /\ cond_broadcast(t, "bar_cond", 102) /\ Keep
  \/ /\ At(t, 94) /\ data.bar_count < data.bar_limit
     /\ cond_wait(t, "bar_cond", "bar_mutex", 102) /\ Keep
  \/ At(t, 102) /\ mutex_unlock(t, "bar_mutex", 103) /\ Keep
  \/ At(t, 103) /\ Return(t) /\ Keep

(* thr(): thread arg creates its two children in the tree, enters itself   *)
(* in free_order and waits for the others.  k counts the lines from thr(). *)
Kids(idx) == LET bidx == next_pow2(idx)
             IN <<bidx + 2 * (idx - bidx \div 2),
                  bidx + 2 * (idx - bidx \div 2) + 1>>

LargeChild(t, k, barriers, child, line, next) ==
  \/ /\ At(t, line)
     /\ thr_create(t, "r", k, Kids(mine[t].arg)[child], line + 1)
  \/ /\ At(t, line) /\ data.failures > 0
     /\ Step(t, line + 2) /\ Store([failures |-> data.failures - 1])
  \/ /\ At(t, line + 1) /\ Step(t, next)
     /\ Store([spawn_order |-> [data.spawn_order EXCEPT
                 ![Kids(mine[t].arg)[child]] = mine[t].r]])
  \/ SetError(t, line + 2, barriers, k + 49)

LargeThr(t, k, barriers) ==
  \/ /\ At(t, k) /\ Keep
     /\ Step(t, IF data.error = 0
                   /\ next_pow2(mine[t].arg) < pow2(data.round)
                THEN k + 17 ELSE k + 42)
  \/ LargeChild(t, k, barriers, 1, k + 17, k + 29)
  \/ LargeChild(t, k, barriers, 2, k + 29, k + 42)
  \/ /\ At(t, k + 42) /\ Step(t, k + 46)
     /\ Store([free_order |-> [data.free_order EXCEPT
                 ![lfsr(data.round, data.lfsr_seed, mine[t].arg)] = t]])
  \/ At(t, k + 46) /\ barriers /\ Call(t, 88, k + 49) /\ Keep
  \/ At(t, k + 46) /\ ~barriers /\ Step(t, k + 49) /\ Keep
  \/ At(t, k + 49) /\ Leave(t, mine[t].arg)

largetest_thr(t) == LargeThr(t, 131, FALSE)
largetest2_thr(t) == LargeThr(t, 154, TRUE) \/ barrier(t)

(* main(): i is the next place of free_order or spawn_order to join, j is  *)
(* successes.  Waiting for free_order[i] in a loop of yields is waiting    *)
(* until it is filled or error is set.  k + n is line n after the head of  *)
(* largetest2's main(); largetest's differs in the barrier alone.          *)
Zeros(n) == [i \in 1..n |-> 0]

NewRound(round) == [free_order |-> Zeros(pow2(round) - 1),
                    spawn_order |-> Zeros(pow2(round) - 1),
                    bar_count |-> 0, bar_limit |-> pow2(round) - 1]

OneTooFew == pow2(data.round) - 2
Planned == pow2(data.round) - 1  \* nthreads; before it, off by one

\* A round starts: its first thread is created.
LargeSpawn(t, k, thr) ==
  \/ /\ At(t, k + 11) /\ data.error = 0 /\ data.round <= LFSR_MAXTERM
     /\ Step(t, k + 24)
     /\ Both(t, NewRound(data.round), [i |-> 1, j |-> 0])
  \/ /\ At(t, k + 11) /\ (data.error = 1 \/ data.round > LFSR_MAXTERM)
     /\ Step(t, k + 100) /\ Keep
  \/ At(t, k + 24) /\ thr_create(t, "r", thr, 1, k + 29)
  \/ /\ At(t, k + 24) /\ data.failures > 0
     /\ Step(t, k + 100) /\ Store([failures |-> data.failures - 1])
  \/ /\ At(t, k + 29) /\ Step(t, k + 35)
     /\ Store([spawn_order |-> [data.spawn_order EXCEPT ![1] = mine[t].r]])

\* The threads are joined in the order of free_order, unless error comes up.
LargeReap(t, k, barriers) ==
  \/ At(t, k + 35) /\ mine[t].i > Planned /\ Step(t, k + 74) /\ Keep
  \/ /\ At(t, k + 35) /\ mine[t].i <= Planned /\ data.error = 1
     /\ Step(t, k + 74) /\ Keep
  \/ /\ At(t, k + 35) /\ mine[t].i <= Planned /\ data.error = 0
     /\ data.free_order[mine[t].i] # 0 /\ Step(t, k + 56) /\ Keep
  \/ /\ At(t, k + 56) /\ thr_join(t, data.free_order[mine[t].i], k + 57)
     /\ UNCHANGED data
  \/ /\ At(t, k + 57) /\ mine[t].r = 0 /\ Step(t, k + 35)
     /\ Both(t, [spawn_order |-> [data.spawn_order EXCEPT ![mine[t].s] = 0]],
                [i |-> mine[t].i + 1, j |-> mine[t].j + 1])
  \/ /\ At(t, k + 57) /\ mine[t].r < 0 /\ Step(t, k + 62)
     /\ Both(t, [bad |-> 1], [i |-> mine[t].i + 1])
  \/ SetError(t, k + 62, barriers, k + 35)

\* The round ends; after an error the threads left are joined as created.
LargeEnd(t, k) ==
  \/ At(t, k + 74) /\ data.error = 1 /\ Step(t, k + 78) /\ Local(t, [i |-> 1])
  \/ /\ At(t, k + 78) /\ mine[t].i <= Planned /\ data.spawn_order[mine[t].i] # 0
     /\ thr_join(t, data.spawn_order[mine[t].i], k + 79) /\ UNCHANGED data
  \/ /\ At(t, k + 78) /\ mine[t].i <= Planned /\ data.spawn_order[mine[t].i] = 0
     /\ Step(t, k + 78) /\ Local(t, [i |-> mine[t].i + 1])
  \/ /\ At(t, k + 79) /\ Step(t, k + 78)
     /\ Local(t, [i |-> mine[t].i + 1, j |-> mine[t].j + 1])
  \/ At(t, k + 78) /\ mine[t].i > Planned /\ Step(t, k + 100) /\ Keep
  \/ /\ At(t, k + 74) /\ data.error = 0 /\ Step(t, k + 11)
     /\ Store([bad |-> Complaint(mine[t].j = Planned),
               lfsr_seed |-> lfsr(data.round, data.lfsr_seed, data.round),
               round |-> data.round + 1])
  \/ At(t, k + 100) /\ thr_exit(t, 0) /\ Keep

LargeMain(t, k, thr, barriers) ==
  LargeSpawn(t, k, thr) \/ LargeReap(t, k, barriers) \/ LargeEnd(t, k)

largetest_main(t) == LargeMain(t, 185, 131, FALSE)
largetest2_main(t) == LargeMain(t, 207, 154, TRUE)

LargeData(n) == [failures |-> n, error |-> 0, round |-> 1, lfsr_seed |-> 1,
                 free_order |-> <<>>, spawn_order |-> <<>>,
                 bar_count |-> 0, bar_limit |-> 0]
=============================================================================
