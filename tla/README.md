# A TLA+ development of the thread library

The repository is a user-level thread library for the Pebbles kernel:
`user/libthread` (mutexes, condition variables, semaphores, thread management,
allocation wrappers), `user/libatomic` and `user/libsyscall` below it, and,
supplied with the skeleton under `410user`, a heap allocator, a thread-group
library, a C library and the test programs that exercise all of it. This
directory holds TLA+ modules for the library's own code, for the allocator,
for twenty of the programs and for the routines of the C library that keep
state; TLC configurations that check them on small instances; and proofs that
TLAPS checks for every instance. `PROJECT.json` lists the components, the
runs, the source lines that each definition stands for, the disagreement
between code and documentation that a run shows, and the hazards that the
properties are for.

## The system and its parts

| part | state | operations | interacts with |
|---|---|---|---|
| mutex (`mutex.c`) | `lockFlag`, `initializeFlag` | init, lock, unlock, destroy | `atomic_exchange`, `yield` |
| condition variable (`cond.c`) | flag, `condMutex`, list of `thread_cond_t` (`waitFlag`, `threadID`) | init, wait, signal, broadcast, destroy | mutexes, linked list, `malloc`, `deschedule`, `make_runnable` |
| semaphore (`sem.c`) | count, flag, `semMutex`, `semCond` | init, wait, signal, destroy | mutex, condition variable |
| thread management (`thread.c`) | `list_of_threads`, `thread_list_mutex`, `top_stack_address`, one `thread_t` per thread | thr_init, thr_create, thr_join, thr_exit | mutex, condition variable, `malloc`, `thread_fork`, `new_pages`, `remove_pages`, `vanish` |
| linked list (`linked_list.c`) | head, tail, count, nodes | create, destroy, find, insert, dequeue, remove | `malloc` |
| allocation wrappers (`malloc.c`) | `malloc_mutex` | malloc, calloc, realloc, free | mutex, heap allocator |
| heap allocator (`libmalloc`) | boundary-tagged blocks | _malloc, _free, _realloc, _calloc | `new_pages` |
| reader/writer locks (`rwlock.c`) | none | empty stubs | none |
| thread groups (`libthrgrp`) | queue of zombies, lock, condition variable | init, create, join, destroy | mutex, condition variable, thread management, `malloc` |
| test programs (`progs`) | counters, flags, screens, work lists of their own | the functions of each program | the whole library |
| C library (`libx86`, `libstdlib`, `libstring`, `libstdio`) | none that outlives a call, except the pointer of `strtok` | division, sorting, copying, strings, formatting | none |

What is hard here:

* Every operation runs concurrently in any number of threads of one task, and
  a thread can be interrupted between any two instructions. The flags of a
  mutex are tested in one step and written in another; the `waitFlag` of a
  waiter is protected by no mutex at all.
* `make_runnable(tid)` wakes a thread whatever it sleeps for, so a late call
  for one wait may hit the next one.
* A record on the heap (`thread_cond_t`, `thread_t`) is freed by one thread
  while another has just used it; a stack is unmapped and mapped again while
  the thread that ran on it may not be gone.
* Calls fail half way: `malloc` in `cond_wait`, `thr_init` and `thr_create`,
  `thread_fork` after the stack was mapped, `new_pages` in the middle of an
  allocation, `thr_create` in the middle of a tree of threads.
* Block tags, list pointers and the ring of a game are consistent only as a
  whole, and go wrong long before a test notices.
* The programs combine the primitives in patterns of their own: barriers,
  windows of locks, traps, requests that are flagged and signalled. A missed
  wakeup there hangs the program in one schedule of thousands.
* `assert` ends the whole task: every model has a variable `panicked` that an
  assertion whose condition fails sets, and after which nothing happens.

## Modules

| module | models | checked or proved in |
|---|---|---|
| `LockSpec` | what a mutex promises | |
| `Mutex` | `mutex.c` | `MCMutex`, `MutexProofs` |
| `CondSpec` | what condition variables promise | |
| `CondVar` | `cond.c` and the kernel's deschedule / make_runnable | `MCCondVar`, `CondVarProofs` |
| `SemSpec` | what a semaphore promises | |
| `Semaphore` | `sem.c`, composed with `CondSpec` | `MCSemaphore`, `SemaphoreProofs` |
| `ListSpec` | what a list promises: a sequence | |
| `LinkedList` | `linked_list.c`: the pointers | `MCLinkedList`, `LinkedListProofs` |
| `ThreadLib` | `thread.c`, composed with `CondSpec` and the kernel's calls | `MCThreadLib`, `ThreadLibProofs` |
| `AllocSpec` | what malloc, calloc, realloc and free promise | |
| `Heap` | `user/libthread/malloc.c`, `libmalloc/malloc.c`, `memlib.c` | `MCHeap`, `HeapProofs` |
| `Client` | a task on the abstract library, and `thrgrp.c` in full | |
| `LockPrograms` | agility_drill, agility_drill_sem, racer, mutex_test, paradise_lost, semaphore_test | |
| `ThreadPrograms` | juggle, cyclone, startle, join_specific_test, thr_exit_join, thr_join_exit, largetest, largetest2 | |
| `CondPrograms` | paraguay, broadcast_test, cvar_test, beady_test, mandelbrot | |
| `Nibbles` | nibbles | |
| `Programs` | the choice of one of them, and the properties | `MCPrograms`, `ProgramProofs` |
| `Division`, `Sorting` | `gccisms.c`, `qsort.c`: rounds of their loops as operators on a frame | |
| `Libc` | uses of these two, of `strtok` and of `bcopy` | `MCLibc`, `LibcProofs` |

The modules form three layers. `Mutex` and `CondVar` open up the synchronisation
primitives and are shown to implement `LockSpec` and `CondSpec`. `CondVar`
uses mutexes as `LockSpec` has them, and `Semaphore` and `ThreadLib` take the
actions `Lock`, `Unlock`, `Wait`, `Signal` and `Return` of `CondSpec` as
conjuncts of their own actions, on the same variables. The programs, on top,
see each primitive as its abstract specification: what `LockSpec`, `CondSpec`
and `SemSpec` promise is what the layers below were shown to implement.

### Mutex

One mutex, any set of threads. `lockFlag` and `initializeFlag` are the fields
of `mutex_t`; `pc` says where each thread is. The test at the head of an
operation and the `atomic_exchange` after it are separate actions
(`mutex_lock` / `lock_exchange` / `lock_yield`, `mutex_unlock` /
`unlock_exchange`, `mutex_destroy` / `destroy_clear`). Before `mutex_init` the
flags are arbitrary. Callers keep the documented contract: no use before
initialisation, unlock only as the holder, destroy only when the mutex is idle.

### CondVar

Steps are cut at every release or acquisition of a mutex, every access to a
`waitFlag` and every system call. `list[c]` is the list of waiters from the
tail (longest waiting) to the head. `w_test`, `deschedule` and `w_resume` are
the loop of `cond_wait`; the kernel's test of the flag and the suspension are
one step, as the kernel promises. `s_dequeue`, `s_flag` and `make_runnable`
are the body of the loop of `cond_broadcast`, and, with a count of at most
one, of `cond_signal`. `make_runnable` wakes its target whatever it sleeps
for. `allocated` tells whether a waiter's record has been freed. When
`MallocMayFail`, the store through the NULL that `malloc` returned kills the
thread with both mutexes held (`w_malloc_null`), and a failing `list_insert`
ends the task (`w_insert_fails`).

The refinement of `CondSpec` lets a wait take effect when the caller's mutex
is released and a signal or broadcast when `condMutex` has been acquired and
the waiters counted.

### Semaphore

The count, the three initialisation flags, and the queue of `CondSpec`. Calls
are bounded by `MaxCalls`, which also bounds the count. `Avail` is the number
of permits that no completed `sem_wait` has used: the count, plus the sleeping
threads, plus those that were handed a permit and have not returned yet.

### LinkedList

`next`, `prev` and `threadID` are the fields of the node at each address,
`allocated` the addresses in use; freed memory reads as `Junk`, and a step
that follows NULL or the address of a freed node sets `faulted`. Every
operation runs under a mutex and is one step; `list_find` and `list_remove` of
`thr_join` are two, with the node in `found` in between. `role` says whether
the list is one of waiters (insert, dequeue) or of threads (insert, find,
remove). The sequence that callers see is read off the pointers, from the tail
to the head, and is the `list` of `CondVar`. `list_destroy` is called with
`count` 0 only; that its loop, which reads freed memory, then does not run is
what `NoFault` checks.

### ThreadLib

`td[x]` is the `thread_t` of thread `x`, with `mem` for its allocation and
`cond` for the initialisation of `threadCond`; `listed` is `list_of_threads`.
Stacks are slots numbered downwards from the root thread's, in the order in
which `thr_create` tries them; `mapped` are the slots that `new_pages` has
mapped, and the search stops `Window` slots below `top_stack_address`, the
limit of `thread.c:195`. The child runs from `c_fork` on, before it is on the
list. A thread whose stack is unmapped faults and vanishes. When two threads
share a stack, or a joiner uses a freed `thread_t`, the behaviour of the
program is undefined: the model stops there (`Defined`), so the properties of
the passing runs speak of behaviours up to such a point, and the run
`stack_shared` shows how it is reached. `Failures` selects what may fail, `WellBehaved`
whether callers join each thread at most once and only existing ones.

### Heap

`mem` is the heap word by word, tags and payloads alike; `write_tags`,
`coalesce`, `place`, `find_fit` and the pointer arithmetic of `malloc.c` are
operators on it with the names of the code, and a tag that is overwritten is
read back as such. A call is cut where it calls out: taking `malloc_mutex`,
the search, `extend_heap` (which fails at `Limit`), placing the block, clearing,
copying, freeing, unlocking. `size_t` has `SizeModulus` values, so products
and sizes wrap. Threads fill the regions they own with a value of their own at
any time, which is how `PayloadIntact` notices a block that overlaps another.
A `calloc` of no members divides by zero and the kernel kills its caller with
the mutex held, as in the code; everybody else then waits. `AllocSpec` knows
regions only; a `realloc` takes its region back first and either gives a new
one with what fits of the old contents, or the old one.

### Programs

A thread is a stack of line numbers of its program, and each action names the
lines it runs from and to, so that a program reads next to its source. `mine`
are its local variables, `data` the global ones. A step ends at the next call
of the library or the next access to shared data that no mutex protects. A
critical section that touches only what its mutex protects, and calls nothing
that blocks, is one step, taken when the mutex is free: no other thread can
tell the difference, because each access to that data by others also needs
the mutex. Where a program reads or writes shared data without the mutex (the
key of `nibbles`, the error flag of `largetest`, the flags of `cyclone` and
`startle`), each access is a step.

Thread groups are modelled instruction group by instruction group, because the
programs run on them: `Enqueue` and `Dequeue` change `zombie_in`, `zombie_out`
and the `next` fields, and the element of a zombie is freed by its joiner.

`thr_join` follows `thread.c` in `ThreadLib`'s terms: a thread that is no longer
listed is not found, `list_find` asserts, and the task is over. `Over` is then
true with threads in the state in which they were. `thrgrp_destroy_group` is
modelled with the assertions of `mutex_destroy` and `cond_destroy`.

What a program prints, the delays it sleeps, its arguments and the arithmetic
of the picture it draws are left out; random choices are `\E`. `data.bad` is
set where the program itself complains: a failed `assert`, a message of
failure, a wrong exit status.

### Division, Sorting, Libc

These are sequential, and the state between their steps is where they go
wrong: the frame of `__qdivrem` in each of its loops, the ranges that `qsort`
has still to sort and the pointers of its scans, the static pointer of
`strtok`, the registers of `bcopy` after each `movs`. A step is one round of
one loop, so that loops need no recursion; the recursive call of `qsort` is
the list of ranges `todo`. `Libc` is one use of one routine from any of the
inputs.

## Runs

| run | instance | shows |
|---|---|---|
| `mutex` | 4 threads, with destruction and re-initialisation | exclusion, no assertion, the flag always has a holder, somebody always gets in, `LockSpec` |
| `cond` | 3 threads, 2 condition variables, 1 mutex, malloc may fail; symmetry | no lost or spurious wakeup, no use after free, every waiter can be found by exactly one signaller, `CondSpec` |
| `cond_live` | 3 threads, 1 condition variable | a woken thread leaves its sleep |
| `sem` | 4 threads, counts 0 and 2, 9 calls | count and sleepers agree, `SemSpec`, permits get used, `sem_destroy` right behind the last `sem_signal` |
| `threads` | root and 2 children, 2 slots, 2 statuses; thread_fork fails, NULL function, zero stack size | no assertion, private stacks, nothing leaks while malloc succeeds, safe cleanup, the right status, joins end |
| `threads_faults` | root and 3 children, 2 slots, malloc fails anywhere, repeated and bogus joins; symmetry | one sleeper per target |
| `list` | 4 nodes, 4 threads, malloc may fail | both directions and the count agree, nothing leaks, no dangling pointer is followed, `ListSpec` |
| `stack_shared` | root and 2 children, single joins | violation: a new thread runs on the stack of one that has not vanished |
| `heap` | 2 threads, 3 pages of 6 words, requests of 0, 1 and 3 words, four products for calloc; symmetry | blocks tile the heap, data stays intact, the heap checker is content, `AllocSpec` |
| `programs` | 18 programs, up to 6 threads, small arguments | no complaint (counts, statuses and the programs' own assertions among them), no thread left behind (the largetests with two rounds), sound zombie queue, programs end |
| `games_largetest` | beady_test with 2 moves; nibbles on a screen of 4 columns and 5 rows, snakes of 2 to 4 positions, 2 apples a game, both at a time; largetest with 12 threads and 3 rounds; the constraint `FewBusy` | screens show the state of the game; a `largetest` that ends leaves no thread behind unless `main` panicked |
| `libc` | all 8-bit operands in base 4; arrays of 7, 8 (three values) and 48; strings of up to 5; 10 bytes of memory | exact division, sorting, tokens and copies |

Why the bounds are enough. Two condition variables are needed for a
`make_runnable` that belongs to an earlier wait to reach a later one, and three
threads for that signaller, the thread it disturbs and the signaller of the
later wait. Two waiters and a signaller order the queue. The semaphore has
fewer permits than threads and more calls than threads. Two children suffice
for a joiner, its target and a third thread that creates or joins in the
window between the target's signal and the joiner's return; the third slot
(the root's) and the reuse of a slot both occur. With four nodes a node that is
removed can have neighbours on both sides that are, or are not, the ends.
Three pages hold a free block between two used ones, so all four cases of
`coalesce` occur, as do splitting, exact fits, growing and running out. In
base 4 every length of divisor and every kind of correction of a trial digit
occurs, the rare one that adds the divisor back among them (without that step
`DivisionExact` fails). Seven elements is where `qsort` starts to partition,
eight where it takes a median, and 48 are split more than once. Three chasers'
worth of mutexes let one window wait for another; three threads make a barrier
with a first, a middle and a last one; two rounds of `largetest` have a parent
with two children of which either fails. With three rounds a parent can store
a child in `spawn_order` after `main` has joined that child, which takes twelve
threads. The ring of four positions of `nibbles` wraps, the snake grows to its
full length, both apples can lie on one spot or on the snake, and new games
start on what is left of the old one. With two moves a second request to
redraw can come while `beady_test` draws for the first.

`FewBusy`, in `MCPrograms`, leaves out schedules of the run `games_largetest`
and of no other. Of `largetest` it keeps those in which at most two threads
are between their start and their barrier, and if there are two, one is
between the creation of a child and its store of it: the window that matters
from the third round on. Of `beady_test` it thins out the end, when nothing is
drawn any more: one thread at a time leaves through `thrgrp_bottom`, and
`main` joins when all of them have. What holds in the run is therefore shown
for these schedules; the proofs of `ScreenIsCurrent` and `ScreenShowsSnake`
cover all of them.

Deadlock is not checked where the system may stop: every thread may wait on a
condition variable or have exited, a program ends, and a routine returns. The
mutex and list runs check it. Of the programs, `RunsToTheEnd` says which must
end, `mandelbrot` after a `q` among them; `racer`, `paraguay`, the games and the
ones that can hang (below) are not.

### Fairness

The kernel schedules every runnable thread, so a thread inside a library
operation keeps taking steps: weak fairness of each thread's library steps,
and nothing else. No thread has to start an operation, leave a critical
section, signal or exit. The mutex is a test-and-set lock and may starve a
given caller, so no property promises that one particular thread gets a mutex
that others keep taking; `SomeoneEnters` is about some thread, and in the
semaphore and thread runs, where a property needs a thread to get the mutex in
the end, the bounds on the calls make contention finite. In `Programs` the
assumption is the same, per thread; each program takes a given mutex finitely
often, so weak fairness is enough for it to end, and no key has to be pressed.

## Proofs

`MutexProofs` proves, for any set of threads, `Spec => []MutualExclusion`,
`Spec => []NoPanic`, `Spec => []FlagMatchesHolder` and `Spec =>
ImplementsLock`. None of these invariants is inductive by itself. The
inductive invariant `IInv` adds that while the mutex is usable it is
initialised and its flag is set exactly when some thread holds it, and that
threads are inside an operation only while it is usable (the destroyer
excepted): mutual exclusion needs that the flag is set as long as there is a
holder, the assertion in `mutex_unlock` the same, the one in `mutex_destroy`
that it is clear when nobody holds the mutex. The refinement follows from the
invariant because the owner is unique. The only assumption is that `NoThread`
is not a thread.

`CondVarProofs` proves, for any threads, mutexes and condition variables and
whether or not `malloc` may fail, that `TypeOK`, `NoPanic`, `NoLostWakeup`,
`NoUseAfterFree` and `NoSpuriousReturn` hold in every state of `CondVar`. The
inductive invariant has these parts, each preserved with the help of the ones
before it, and one lemma for each:

* `LockInv`: a thread at a location inside an operation on `c` owns `c`'s
  `condMutex`. Hence lists change in one thread's hands at a time.
* `CountsFit`: a signaller's count never exceeds the length of the list, so
  `list_dequeue` never finds it empty. Types rest on this: otherwise `Head` of
  an empty list, and a count below 0.
* `QueueInv`: who is on a list waits, with a clear flag, and is on one list
  once; the waiter a signaller has taken off also waits with a clear flag, is
  on no list and has no second taker. This is what bars the way out of
  `cond_wait` between `list_dequeue` and the write of `waitFlag`.
* `RecordInv`: a waiter's record is allocated until it leaves its loop, which
  it does with the flag set; only a thread inside its loop sleeps. With
  `QueueInv` this gives `NoUseAfterFree` and `NoSpuriousReturn`.
* `NoLostWakeup` itself, which is inductive given where a thread can sleep.
* `ReadyInv`: a usable `cond_t`, and one that is in use, is initialised; a
  destroyer is alone with an empty list, except for threads that hold
  `condMutex` and are on their way out. `NoPanic` is part of it.

The assumptions are those of `CondAssumption`: the three "none" values are not
threads, mutexes or condition variables.

The second half of `CondVarProofs` proves `Spec => []EveryWaiterCanBeWoken`
and `Spec => ImplementsCond` from the same assumptions. The invariant above is not
enough: `OwnerInv` adds the converse of `LockInv` (who owns `condMutex` is at a
location that holds it, so a free mutex means that nobody is in the middle of
an operation), that only a usable condition variable is entered and that one
that is not usable has no waiters; `ListInv` adds that a waiter is on the list
of the condition variable it waits for, that it is the last one there until it
has released the caller's mutex, and that a waiter whose flag is clear is on a
list or with a signaller. The abstract queue is the concrete list but for what
the owner of `condMutex` is about to do to it: a waiter that has not released
its mutex is not on it yet, and the ones that a signaller has counted are off
it already. One lemma for each action shows which abstract step it is;
inserting, dequeuing, setting flags and waking are stutters.

`SemaphoreProofs` proves, for any threads, initial counts and number of calls,
`Spec => []NoPanic`, `Spec => []CountMatchesWaiters` and
`Spec => ImplementsSem`. The inductive invariant adds to the types: `LockInv`,
which equates owning `semMutex` with being at a location that holds it;
`QueueInv`, that who is on the queue waits there once and that finitely many
threads have been woken (the abstract count uses their number); and
`ReadyInv`, that the parts are initialised while anybody is inside, and that
besides a thread in `sem_destroy` only those are inside that hold `semMutex` or
wait for nothing but to release it. The last is why a `sem_destroy` behind the
last `sem_signal` is safe.

`ThreadLibProofs` has two inductive invariants. `IInv` holds for any callers
and any failures, and gives `Spec => []OneWaiter`: `thread_list_mutex` is owned
by who is in a critical section; a thread that is not on the list yet has an
empty queue; and a queue that is not empty implies `joinedFlag`, which bars
the way to `cond_wait` for the next joiner. `GInv` is for callers that join
each thread at most once while `malloc` succeeds (`GoodCase`; `thread_fork`
may fail, arguments may be bad and stacks may run out), since with a second
join or a failing `malloc` the code does reach its assertions, as said below. From it
follow `NoPanic`, `JoinGetsStatus`, `CleanupIsSafe`, `StacksPrivate` and
(where `malloc` succeeds) `NothingLeaks`. The theorem `NoLeaks` says so in its
hypothesis: the returns at `thread.c:206-209` and `254-261` do leak, see below.
The parts of `GInv`:

* `StartInv`: before `thr_init` there is one thread; afterwards each thread that
  nobody joins is listed or being created, and a `thread_t` is allocated
  exactly then.
* `JoinInv`: a thread has at most one joiner, which finds it on the list; it
  sleeps on that thread's `threadCond`, is woken only when the thread is past
  its signal, and cleans up only when the thread has released the mutex for
  the last time.
* `RecordInv`: `exitFlag`, `status` and `threadCond` say what the thread did; a
  child cannot get through `thr_exit` before `thr_create` has inserted it,
  because the creator has the mutex.
* `StackInv`: each slot that is mapped belongs to exactly one thread on the list
  whose joiner has not unmapped it, or to one `thr_create` between `new_pages`
  and the insertion; `baseAddress` is the stack that the thread runs on.

`StacksPrivate` then needs all four: a running thread is known, one that is
known holds its slot unless its joiner has unmapped it, and the joiner does so
only when the thread runs no more.

`LinkedListProofs` proves, for any finite set of nodes, `Spec => []NoFault`,
`Spec => []MirrorImage` and `Spec => ImplementsList`. The inductive invariant
says that some sequence of distinct nodes is linked both ways by `next` and
`prev` from `tail` to `head`, has length `count` and is exactly what is
allocated; that the nodes have the `threadID`s of the records that the list
keeps, one each; that the node a joiner keeps in `found` is still the node of
that thread; and that a list that is destroyed is empty. `ChainPush` and
`ChainDrop` say what the pointer updates do to the sequence, whichever of the
neighbours exist. `WalkIs` connects it with the recursive walks of `MirrorImage`,
`Find` and `Entries`: a least position at which a walk differs from the
sequence is a contradiction.

`HeapProofs` proves `Spec => []HeapTiles`, `Spec => []PayloadIntact` and
`Spec => ImplementsAlloc`, for any threads, heap limit, page size and chunk
size. The hypothesis of the theorems is `GoodSizes`: no request comes within
`min_block_size` of the largest `size_t`. Without it they are false, because
the size computation of `malloc` wraps (see below); `MCHeap` evaluates
`GoodSizes` on its instance, whose products include some that overflow and are
refused. `HeapAssumption` asks for a page of at least two words and a chunk of
at least four, where the code has 4096 bytes for both. The inductive
invariant has three parts:

* `LockInv`: only the holder of `malloc_mutex` is inside a call.
* `CallsInv`: what `op`, `block` and `old` of a call are at each of its
  locations, and that the regions a call has in its hands are not live.
* `HeapInv`: some set of blocks tiles the heap from the prologue to the epilogue
  and has the right tags at both ends; no two free blocks follow one another;
  the allocated blocks are exactly those of the regions that are live or in the
  hands of a call, each large enough for its region and with the contents last
  written; and a block that is about to be placed is free and large enough.

`HeapTiles` looks at the heap only when the mutex is free, and `PayloadIntact`
only at contents; neither survives a step without the tiling in between.
`Merge`, `Cut` and `Grow` say what joining, splitting and appending blocks does
to a tiling, and `CoalesceEffect`, `FreeEffect`, `ExtendEffect` and
`PlaceEffect` that the code's writes to memory do just that and leave every
other block as it was. `BlocksAre` connects the tiling with the recursive walk
of `HeapTiles` and of the search, again by a least counterexample. Of the
refinement, only a fill, the step that takes a region back and the unlock
change what `AllocSpec` sees; at the unlock the tiling gives that the new region
is apart from all others.

`LibcProofs` proves `Spec => []CopyExact`, `Spec => []TokensExact`,
`Spec => []SortedOutsideRanges` and `Spec => []DivisionExact`: for memory,
strings and arrays of any size and digits of any width. The assumptions are
`LibcAssumption` (operands of four digits, arrays indexed from 0, no NUL inside
a string or among the delimiters) and `HalfBitsAssumption` (a digit has at
least two bits; it has 16 in the code). The properties speak of results, or of
what lies outside the ranges still to be sorted, so the inductive invariant
`LibcInv` has to say what each loop has done so far:

* `CopyOK`: the bytes of the target that are copied lie below the pointers when
  they go up and above them when they go down. With the direction chosen by
  the overlap, the bytes of the source that are still to be read have not been
  overwritten.
* `TokensOK`: from the static pointer on the string is as it was; the pointers
  returned are the starts of the tokens before it, in order; and the NULs put
  in are at their ends.
* `SortOK`: the ranges in `todo` are disjoint, two elements are out of order
  only within one of them, and every value occurs as often as at the start;
  in the insertion sort all but the sinking element is in order (`Sunk`), and
  in the scans (`Scanned`) the five stretches equal, smaller, unknown, larger,
  equal lie between `pa`, `pb`, `pc` and `pd`. `meet` needs all five to make
  two ranges that are separated by the pivot's equals.
* `DivisionOK`: `Balanced`, before each digit of the
  quotient the digits found times the divisor plus what is left is the shifted
  dividend, and what is left is less than the divisor at the last digit's
  place. In D3 (`Trying`, `Tried`) the trial quotient is never too small and,
  once the two leading digits of the divisor have been tried, too large by at
  most one; this is where the normalisation of D1 is needed. In D4
  (`Subtracting`) the digits written, less the borrow, are what was left less
  the trial quotient times the part of the divisor used so far, so that a
  borrow remains exactly when the trial quotient was too large. In D6
  (`Adding`) the carry that is dropped makes up for that borrow. Both lead to
  `Found`. D1 and D8 multiply by a power of two and divide by it again, without
  losing a bit (`ShlMultiplies`, `RemainderIs`). No intermediate value exceeds
  a `u_int` except where the code means it to wrap, and there the wrapped
  value is the one the argument uses (`BorrowIs`).

The powers of two are a recursive function; `BitIs` reaches it by a least
counterexample, like the walks of `LinkedList` and `Heap`. Whether `qsort`, the
division and the others return at all is not claimed.

`ProgramProofs` proves `Spec => []ZombieQueueSound`, `Spec =>
[]ScreenShowsSnake` and `Spec => []ScreenIsCurrent`: for any number of
threads, any arguments of the programs, any screen and snake. The assumptions
are `MaxThreadsAssumption` (there is a thread) and `NibblesAssumption` (a
snake is at least one position long and fits in its ring; the number of apples
on the screen is a natural number). The first is a statement about `thrgrp.c`
under all twenty programs at once, so the proof has two halves. One
(`ProgramSteps`) reduces every step of every program to what thread groups can
see of it, `ProgramStep`: the thread goes on, calls or returns within lines of
its program, makes a thread, ends, ends the task, or joins a thread *that is
in no group*. The other shows that these and the steps of `thrgrp.c` preserve
`GroupsInv`:

* `ThreadsInv`: threads are numbered in the order of their creation, and the
  stack of a thread that runs holds lines of its program, with `thrgrp_bottom`
  at most at the end.
* `MemInv`: programs without groups use no memory of groups.
* `QueueInv`: some sequence of distinct threads is linked by `next` from
  `zombie_out` to `zombie_in`, and each of them has exited unjoined, or is about
  to exit, with its element allocated, or was caught there when a `thr_join` that
  found no thread ended the task. `ZombieQueueSound` walks along it;
  `QueueWalk` and `WalkIsUnique` connect the two by a least counterexample, and
  a pigeonhole bounds the walk.
* `PlaceInv`: what a thread's location says about its memory: arguments when
  `thrgrp_bottom` starts, an element while the thread's function runs, and a
  joiner that has taken a zombie off the queue is the only one to know it.

Only `cvar_test` joins threads with `thr_join` while it also has a group.
That those two threads are outside the group is `CvarInv`, a second invariant,
proved together with the first (`GroupsSound`): a `thr_join` of a group's
thread would leave its element on the queue.

`SnakeInv` says of a game that it is `Well` until the snake is dead, and `Shown`
afterwards. `NothingElse` is the part that always holds: what is drawn is a
place of the snake or an apple. Until two apples have been eaten in one move
(`twice`), there is also `AllDrawn`: the snake is drawn but for its last
position and its first place, and so are the apples that were not put on the
snake (`buried`), which lie apart from it; and as long as the snake is alive
its positions are apart (`SnakeApart`), except where it starts. Without that
last part, erasing the tail could erase another part of the snake, which is
what happens after `twice`. `SnakeCrawls` is the step of the ring, with the
wrap-around; `MoveDraws` and `MoveErases` say what the step does to the
screen. They hold for any number of apples. The key grabber's writes touch
none of it.

`BeadyInv` says that at most one thread draws (`Drawer`: `main` before it
creates the update thread, then that thread), that as long as it has not taken
a request the screen is `Fresh` (current, or nothing has moved yet, or a request
is recorded, or the holder of `worldLock` is about to record one), and that
while the program runs, who sleeps on `updates` is the drawer at its wait.
`ScreenIsCurrent` holds only at the drawer's sleep and is not inductive;
`Fresh` is what carries it through the steps of the others.

Only model-checked: liveness under fairness, which is outside what the prover
handles, and of the programs `NoComplaint` and `EverythingReaped`. These two are
a separate argument for each of the twenty programs, each about a small fixed
number of threads with locations of its own, which the runs explore to the
end. `Mutex`, `CondVar`, `Semaphore`, `ThreadLib` and `LinkedList`
also define a `TypeOK`, which states the types of their variables for the
proofs and is an invariant of no run.

## Disagreements between code and documentation

Listed with its quotation under `findings` in `PROJECT.json`: a joiner frees,
and `thr_create` reuses, the stack of a thread that has not vanished (run
`stack_shared`).

The models contain, and stop at, further points where the code does not do
what a document or a comment says, which no run is about:

* `cond_wait` stores through the NULL of a failed `malloc` and asserts when
  `list_insert` fails (`w_malloc_null`, `w_insert_fails` of `CondVar`), where
  `src/README.md:658` calls it unreasonable to refuse to block.
* `thr_exit` clears `joinedFlag`, so until the joiner runs again a second
  `thr_join` gets past the test (`j_exited` of `ThreadLib`), against
  `src/README.md:434`. `OneWaiter` is what remains true.
* `list_find` asserts where its comment and its caller expect NULL
  (`j_not_found`).
* `thr_init` unlocks a mutex that it never locked when memory runs out
  (`thr_init_fails`).
* `thr_create` returns without unmapping the new stack when `malloc` of the
  `thread_t` fails (`thread.c:206-209`), and it unmaps the stack under a child
  that already runs on it when `list_insert` fails (`thread.c:254-261`).
  `NothingLeaks` is checked and proved for a `malloc` that succeeds.
* `malloc` of a size close to 2^32 wraps (`asize` of `Heap`) and hands out a
  block of the minimum size.

Programs that can hang on a correct library: `beady_test` sends the signal that
ends the game without `worldLock`, before `main` may be waiting
(`beady_test.c:222`, `354`); in `cvar_test` the last signal may come before
its sleeper waits (`cvar_test.c:167`).

What the models of the programs contain besides:

* `largetest` and `largetest2` can panic from the third round on. A thread
  stores its new child in `spawn_order` (`largetest.c:162`) without a lock. By
  then `main` may have found the child in `free_order`, joined it and cleared
  its entry (`largetest.c:249`). If a creation fails afterwards, `main` joins
  all that `spawn_order` names (`largetest.c:260`), that child for a second
  time, and `list_find` asserts (`linked_list.c:113`), although the comments
  at `largetest.c:235-236` and `247-248` say that this cannot happen. In the
  first two rounds the order of `free_order` rules it out; in the third it
  happens to thread 7, a child of thread 3. In `largetest2` (the store is at
  line 191) the child waits at the barrier, so that it also takes an error
  between `main`'s test of `error` and its join. The run `games_largetest`
  takes these steps for `largetest`: with `life[Main] # "gone"` as an
  invariant TLC shows a trace of 92 states. `EverythingReaped` says what is
  left: threads stay behind in no other way.
* `nibbles` does not look where it puts an apple. Two apples on one spot grow
  the snake by two in one move (`nibbles.c:256-265`); the additional tail
  positions have been erased before, and later the game erases places that the
  snake is on. An apple put on the snake disappears from the screen when the
  tail passes over it, and can still be eaten. The snake's first position is
  never drawn. `ScreenShowsSnake` says what remains true, with two history
  fields, `twice` and `buried`.
* `beady_test` starts with a screen without bead and cursor: the first
  `scheduleUpdate()` is commented out (`beady_test.c:352`), so nothing is
  shown until the first move. `ScreenIsCurrent` speaks of the time after that.

## Not modelled

* `rwlock.c`: empty functions.
* The address arithmetic of `thr_init` and `thr_create`: slots stand for
  aligned addresses, and the width of `int` plays no part. The count of a
  semaphore does not overflow within a run.
* The register handling of `atomic.S` and `syscall.S`, and the Pebbles kernel,
  whose calls are modelled from how the library uses them.
* The failure of `malloc` or `thr_create` inside `thrgrp_create`.
* `printf`, `sscanf` and their kin, and the string routines that are one loop
  over their arguments: no state, no order of events.
* The shell and the programs that test single system calls: one thread each,
  and their subject is the kernel.

## Plan

1. Done: the synchronisation primitives, thread management, the list, the heap,
   thread groups, twenty programs and the C library's stateful routines; the
   proofs of every safety property and every refinement of `Mutex`, `CondVar`,
   `Semaphore`, `ThreadLib`, `LinkedList`, `Heap` and `Libc`; of `Programs`, the
   proofs of the zombie queue and of the screens of `beady_test` and `nibbles`.
2. Left: `NoComplaint` and `EverythingReaped`, which need an inductive
   invariant for each of the twenty programs.
