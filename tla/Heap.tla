-------------------------------- MODULE Heap --------------------------------
(***************************************************************************)
(* The heap of a task: the wrappers of user/libthread/malloc.c, which hold *)
(* malloc_mutex, the boundary-tag allocator of 410user/libmalloc/malloc.c  *)
(* and the memory system of memlib.c below it.                             *)
(*                                                                         *)
(* Sizes and addresses count words (wsize is 1 here and 8 bytes there), so *)
(* the lowest bit of a size that is a multiple of dsize is free for the    *)
(* allocation flag, as in the code.  size_t has SizeModulus values.        *)
(* Threads fill the regions they were given at any later time and give     *)
(* each one back once.                                                     *)
(***************************************************************************)
EXTENDS Integers, FiniteSets

CONSTANTS Threads, NoThread,
          Requests,         \* the sizes asked for
          Products,         \* pairs <<nmemb, size>> for calloc()
          Limit,            \* new_pages() fails beyond this address
          PAGE_SIZE, chunksize,
          SizeModulus       \* the number of values of size_t

ASSUME HeapAssumption ==
  /\ NoThread \notin Threads
  /\ Requests \subseteq 0..(SizeModulus - 1)
  /\ Products \subseteq (0..(SizeModulus - 1)) \X (0..(SizeModulus - 1))
  /\ Limit \in Nat /\ PAGE_SIZE \in Nat /\ chunksize \in Nat /\ SizeModulus \in Nat
  /\ 2 <= PAGE_SIZE /\ PAGE_SIZE <= Limit /\ 4 <= chunksize /\ chunksize % 2 = 0

VARIABLES
  mem,           \* the words of the heap
  mem_brkp, mem_alloctop,
  heap_listp,
  malloc_mutex,  \* the owner of the mutex
  pc,            \* where each thread is
  op,            \* its call: kind, size, and nmemb of calloc()
  block,         \* the block it has found, or the payload to return
  old,           \* the region it has given to free() or realloc()
  live,          \* the regions handed out: ptr, size, and the first keep
                 \* words, which hold fill
  panicked       \* an assertion of mm_checkheap() failed

memory == <<mem, mem_brkp, mem_alloctop, heap_listp>>
vars == <<memory, malloc_mutex, pc, op, block, old, live, panicked>>

NULL == 0
Junk == -Limit - 1   \* what no region is filled with
dsize == 2
min_block_size == 4
NoRegion == [ptr |-> NULL, size |-> 0, keep |-> 0, fill |-> 0]
NoOp == [kind |-> "none", size |-> 0, nmemb |-> 0]

Locations == {"app", "begin", "find", "extend", "place", "zero", "copy",
              "free", "unlock", "killed"}

Init == /\ mem = [a \in 0..(Limit - 1) |-> 0]
        /\ mem_brkp = 0 /\ mem_alloctop = 0
        /\ heap_listp = NULL
        /\ malloc_mutex = NoThread
        /\ pc = [t \in Threads |-> "app"]
        /\ op = [t \in Threads |-> NoOp]
        /\ block = [t \in Threads |-> NULL]
        /\ old = [t \in Threads |-> NoRegion]
        /\ live = {}
        /\ panicked = FALSE

-----------------------------------------------------------------------------
(* The tags of the blocks in a memory m. *)

Wrap(n) == n % SizeModulus
LargerOf(x, y) == IF x > y THEN x ELSE y
round_up(size, n) == Wrap(n * (Wrap(size + n - 1) \div n))

pack(size, alloc) == IF alloc THEN size + 1 ELSE size
extract_size(word) == dsize * (word \div dsize)
extract_alloc(word) == word % 2 = 1
get_size(m, b) == extract_size(m[b])
get_alloc(m, b) == extract_alloc(m[b])
get_payload_size(m, b) == get_size(m, b) - dsize
find_next(m, b) == b + get_size(m, b)
find_prev_footer(b) == b - 1
find_prev(m, b) == b - extract_size(m[find_prev_footer(b)])

(* write_header(), then write_footer() at the place the header implies. *)
write_tags(m, b, size, alloc) ==
  [m EXCEPT ![b] = pack(size, alloc), ![b + size - 1] = pack(size, alloc)]

(* A free block.  The words between its tags are left as they are by the   *)
(* code; Junk stands for whatever they are.                                *)
FreeBlock(m, b, size) ==
  [a \in DOMAIN m |-> IF a \in (b + 1)..(b + size - 2) THEN Junk
                      ELSE write_tags(m, b, size, FALSE)[a]]

(* What coalesce() does to m and the block it returns.  A version that     *)
(* looks at the following block only.                                      *)
CoalesceForward(m, b) ==
  LET next == find_next(m, b)
      size == get_size(m, b) + (IF get_alloc(m, next) THEN 0 ELSE get_size(m, next))
  IN <<FreeBlock(m, b, size), b>>

coalesce(m, b) ==
  LET next == find_next(m, b)
      prev == find_prev(m, b)
      prev_alloc == extract_alloc(m[find_prev_footer(b)])
      first == IF prev_alloc THEN b ELSE prev
      size == get_size(m, b) + (IF get_alloc(m, next) THEN 0 ELSE get_size(m, next))
                             + (IF prev_alloc THEN 0 ELSE get_size(m, prev))
  IN <<FreeBlock(m, first, size), first>>

place(m, b, asize) ==
  LET csize == get_size(m, b)
  IN IF csize - asize >= min_block_size
     THEN write_tags(write_tags(m, b, asize, TRUE), b + asize, csize - asize, FALSE)
     ELSE write_tags(m, b, csize, TRUE)

(* The blocks from heap_listp to the epilogue, which has size 0; a walk    *)
(* that runs off the heap stops there.                                     *)
Blocks(m) ==
  LET at[k \in 0..(Limit \div dsize)] ==
        IF k = 0 THEN heap_listp
        ELSE IF at[k - 1] \in 1..(mem_brkp - 1) THEN find_next(m, at[k - 1])
        ELSE at[k - 1]
  IN {at[k] : k \in 0..(Limit \div dsize)}

(* find_fit(): the first free block that is large enough, or NULL. *)
FirstFree(m, asize) ==
  LET fits == {b \in Blocks(m) : get_size(m, b) > 0 /\ ~get_alloc(m, b)}
  IN IF fits = {} THEN NULL ELSE CHOOSE b \in fits : \A c \in fits : b <= c

find_fit(m, asize) ==
  LET fits == {b \in Blocks(m) : /\ get_size(m, b) > 0 /\ ~get_alloc(m, b)
                                 /\ asize <= get_size(m, b)}
  IN IF fits = {} THEN NULL ELSE CHOOSE b \in fits : \A c \in fits : b <= c

(* mm_checkheap(): the prologue, and the tags of the first block. *)
mm_checkheap(m) ==
  heap_listp # NULL =>
    /\ m[find_prev_footer(heap_listp)] = pack(0, TRUE)
    /\ get_size(m, heap_listp) # 0 =>
         m[heap_listp] = m[find_prev_footer(find_next(m, heap_listp))]

-----------------------------------------------------------------------------
(* memlib.c *)

(* mem_sbrk(incr) at the break b with pages mapped up to top: whether it   *)
(* succeeds, when new_pages() does or does not (ok), and the new top.      *)
SbrkTop(b, top, incr) ==
  IF b + incr > top
  THEN top + PAGE_SIZE * ((b + incr - top + PAGE_SIZE - 1) \div PAGE_SIZE)
  ELSE top
SbrkFails(b, top, incr, ok) ==
  \/ incr >= SizeModulus \div 2       \* negative as an int
  \/ b + incr > top /\ (~ok \/ SbrkTop(b, top, incr) > Limit)

(* extend_heap() in memory m: the new block takes the place of the         *)
(* epilogue, and a new epilogue is written behind it.                      *)
NewBlock(m, b, size) ==
  coalesce([write_tags(m, b - 1, size, FALSE) EXCEPT ![b - 1 + size] = pack(0, TRUE)],
           b - 1)

(* mm_init(), called once: the prologue footer and the epilogue header at  *)
(* the first page that new_pages() gives, then a first chunk, which it may *)
(* fail to get.                                                            *)
mm_init(ok) ==
  LET m == [mem EXCEPT ![0] = pack(0, TRUE), ![1] = pack(0, TRUE)]
      fails == SbrkFails(2, PAGE_SIZE, chunksize, ok)
  IN /\ heap_listp' = 1
     /\ mem' = IF fails THEN m ELSE NewBlock(m, 2, chunksize)[1]
     /\ mem_brkp' = IF fails THEN 2 ELSE 2 + chunksize
     /\ mem_alloctop' = IF fails THEN PAGE_SIZE ELSE SbrkTop(2, PAGE_SIZE, chunksize)

-----------------------------------------------------------------------------
(* A wrapper that enters whether or not the mutex is free. *)
DoNotLock(t) == malloc_mutex' = t
TakeMutex(t) == malloc_mutex = NoThread /\ malloc_mutex' = t

(* The calls, with mutex_lock(&malloc_mutex); a thread that has to wait    *)
(* for the mutex has not called yet.                                       *)
Call(t, kind, size, nmemb) ==
  /\ pc[t] = "app"
  /\ TakeMutex(t)
  /\ pc' = [pc EXCEPT ![t] = "begin"]
  /\ op' = [op EXCEPT ![t] = [kind |-> kind, size |-> size, nmemb |-> nmemb]]
  /\ UNCHANGED <<memory, block, panicked>>

malloc(t, size) == Call(t, "malloc", size, 0) /\ UNCHANGED <<old, live>>

calloc(t, nmemb, size) == Call(t, "calloc", size, nmemb) /\ UNCHANGED <<old, live>>

GiveIn(t, r) == /\ old' = [old EXCEPT ![t] = r]
                /\ live' = live \ {r}

realloc(t, r, size) == Call(t, "realloc", size, 0) /\ GiveIn(t, r)
free(t, r) == Call(t, "free", 0, 0) /\ GiveIn(t, r)

(* The owner of a region writes to all of it. *)
fill(r) ==
  /\ r.keep < r.size
  /\ mem' = [a \in 0..(Limit - 1) |->
               IF a \in r.ptr..(r.ptr + r.size - 1) THEN -r.ptr ELSE mem[a]]
  /\ live' = (live \ {r}) \cup {[r EXCEPT !.keep = r.size, !.fill = -r.ptr]}
  /\ UNCHANGED <<mem_brkp, mem_alloctop, heap_listp, malloc_mutex, pc, op, block,
                 old, panicked>>

Goto(t, from, to) == pc[t] = from /\ pc' = [pc EXCEPT ![t] = to]

(* The first tests of _calloc(), _realloc() and _free(): a product that    *)
(* overflows is refused, a division by nmemb = 0 is a fault, and the       *)
(* kernel kills the thread with malloc_mutex held.                         *)
Overflows(nmemb, size) == Wrap(nmemb * size) \div nmemb # size

begin(t) ==
  LET o == op[t]
  IN /\ Goto(t, "begin",
             CASE o.kind = "calloc" /\ o.nmemb = 0 -> "killed"
               [] o.kind = "calloc" /\ o.nmemb # 0 /\ Overflows(o.nmemb, o.size) -> "unlock"
               [] o.kind = "free" \/ (o.kind = "realloc" /\ o.size = 0) ->
                    IF old[t] = NoRegion THEN "unlock" ELSE "free"
               [] OTHER -> "find")
     /\ op' = IF o.kind = "calloc" /\ o.nmemb # 0
              THEN [op EXCEPT ![t].size = Wrap(o.nmemb * o.size)] ELSE op
     /\ UNCHANGED <<memory, malloc_mutex, block, old, live, panicked>>

(* _malloc() *)
asize(t) == Wrap(round_up(op[t].size, dsize) + dsize)

init_heap(t, ok) ==
  /\ pc[t] = "find" /\ heap_listp = NULL
  /\ mm_init(ok)
  /\ UNCHANGED <<malloc_mutex, pc, op, block, old, live, panicked>>

find(t) ==
  LET b == find_fit(mem, asize(t))
  IN /\ heap_listp # NULL
     /\ Goto(t, "find", IF op[t].size = 0 THEN "unlock"
                        ELSE IF b = NULL THEN "extend" ELSE "place")
     /\ block' = [block EXCEPT ![t] = IF op[t].size = 0 THEN NULL ELSE b]
     /\ panicked' = ~mm_checkheap(mem)
     /\ UNCHANGED <<memory, malloc_mutex, op, old, live>>

(* extend_heap() fails: _malloc() returns NULL. *)
extend_fails(t) ==
  LET size == LargerOf(asize(t), chunksize)
  IN /\ \E ok \in BOOLEAN : SbrkFails(mem_brkp, mem_alloctop, size, ok)
     /\ Goto(t, "extend", "unlock")
     /\ UNCHANGED <<memory, malloc_mutex, op, block, old, live, panicked>>

extend_heap(t) ==
  LET size == LargerOf(asize(t), chunksize)
      new == NewBlock(mem, mem_brkp, size)
  IN /\ ~SbrkFails(mem_brkp, mem_alloctop, size, TRUE)
     /\ Goto(t, "extend", "place")
     /\ mem' = new[1]
     /\ mem_brkp' = mem_brkp + size
     /\ mem_alloctop' = SbrkTop(mem_brkp, mem_alloctop, size)
     /\ block' = [block EXCEPT ![t] = new[2]]
     /\ UNCHANGED <<heap_listp, malloc_mutex, op, old, live, panicked>>

(* place() and header_to_payload() *)
place_block(t) ==
  /\ Goto(t, "place", CASE op[t].kind = "calloc" -> "zero"
                        [] op[t].kind = "realloc" /\ old[t] # NoRegion -> "copy"
                        [] OTHER -> "unlock")
  /\ mem' = place(mem, block[t], asize(t))
  /\ block' = [block EXCEPT ![t] = @ + 1]
  /\ panicked' = ~mm_checkheap(mem')
  /\ UNCHANGED <<mem_brkp, mem_alloctop, heap_listp, malloc_mutex, op, old, live>>

(* memset() of _calloc(). *)
zero(t) ==
  /\ Goto(t, "zero", "unlock")
  /\ mem' = [a \in 0..(Limit - 1) |->
               IF a \in block[t]..(block[t] + op[t].size - 1) THEN 0 ELSE mem[a]]
  /\ UNCHANGED <<mem_brkp, mem_alloctop, heap_listp, malloc_mutex, op, block, old,
                 live, panicked>>

(* memcpy() of _realloc(): as much of the old payload as was asked for. *)
OldPayload(t) == get_payload_size(mem, old[t].ptr - 1)
copysize(t) == IF op[t].size < OldPayload(t) THEN op[t].size ELSE OldPayload(t)

copy(t) ==
  /\ Goto(t, "copy", "free")
  /\ mem' = [a \in 0..(Limit - 1) |->
               IF a \in block[t]..(block[t] + copysize(t) - 1)
               THEN mem[old[t].ptr + a - block[t]] ELSE mem[a]]
  /\ UNCHANGED <<mem_brkp, mem_alloctop, heap_listp, malloc_mutex, op, block, old,
                 live, panicked>>

(* _free() *)
free_block(t) ==
  LET b == old[t].ptr - 1
      m == write_tags(mem, b, get_size(mem, b), FALSE)
  IN /\ Goto(t, "free", "unlock")
     /\ mem' = coalesce(m, b)[1]
     /\ UNCHANGED <<mem_brkp, mem_alloctop, heap_listp, malloc_mutex, op, block, old,
                    live, panicked>>

(* What the caller gets: a region, nothing, or (when realloc() fails) the  *)
(* old region as it was.                                                   *)
SmallerOf(x, y) == IF x < y THEN x ELSE y
Given(t) == [ptr |-> block[t], size |-> op[t].size,
             keep |-> CASE op[t].kind = "calloc" -> op[t].size
                        [] op[t].kind = "realloc" -> SmallerOf(op[t].size, old[t].keep)
                        [] OTHER -> 0,
             fill |-> IF op[t].kind = "realloc" THEN old[t].fill ELSE 0]
StillHeld(t) == op[t].kind = "realloc" /\ op[t].size # 0 /\ old[t] # NoRegion

unlock(t) ==
  /\ Goto(t, "unlock", "app")
  /\ malloc_mutex' = NoThread
  /\ live' = live \cup (IF block[t] # NULL THEN {Given(t)}
                        ELSE IF StillHeld(t) THEN {old[t]} ELSE {})
  /\ op' = [op EXCEPT ![t] = NoOp]
  /\ block' = [block EXCEPT ![t] = NULL]
  /\ old' = [old EXCEPT ![t] = NoRegion]
  /\ UNCHANGED <<memory, panicked>>

Next ==
  /\ ~panicked
  /\ \/ \E r \in live : fill(r)
     \/ \E t \in Threads :
          \/ \E n \in Requests : malloc(t, n)
          \/ \E p \in Products : calloc(t, p[1], p[2])
          \/ \E r \in live \cup {NoRegion} : free(t, r) \/ \E n \in Requests : realloc(t, r, n)
          \/ begin(t)
          \/ \E ok \in BOOLEAN : init_heap(t, ok)
          \/ find(t) \/ extend_fails(t) \/ extend_heap(t) \/ place_block(t)
          \/ zero(t) \/ copy(t) \/ free_block(t) \/ unlock(t)

Spec == Init /\ [][Next]_vars

-----------------------------------------------------------------------------
(* No request comes so close to the largest size_t that asize wraps.  The  *)
(* theorems are about such requests; see the README for the others.        *)
SizeFits(n) == n + min_block_size <= SizeModulus
GoodSizes ==
  /\ SizeModulus >= min_block_size
  /\ \A n \in Requests : SizeFits(n)
  /\ \A p \in Products : p[1] # 0 /\ ~Overflows(p[1], p[2]) =>
                            SizeFits(Wrap(p[1] * p[2]))

(* The regions that no call has been asked to give up, or that a failing   *)
(* realloc() would give back.                                              *)
Kept == live \cup {old[t] : t \in {u \in Threads : pc[u] \in {"begin", "find",
                                                    "extend", "place", "copy"}}}

(* No call of one thread ever changes what another thread, or the same     *)
(* one, has written to a region it still holds: regions do not overlap     *)
(* with each other or with tags, calloc() clears and realloc() copies.     *)
PayloadIntact ==
  \A r \in Kept : \A i \in 0..(r.keep - 1) : mem[r.ptr + i] = r.fill

(* Between calls the blocks tile the heap: from heap_listp to the epilogue *)
(* at the break, with equal tags at both ends, at least the minimum size,  *)
(* never two free ones in a row ("After coalescing, the immediate          *)
(* contiguous previous and next blocks must be allocated"), and the        *)
(* allocated ones are exactly the regions handed out, so none leaks.  The  *)
(* assertions of mm_checkheap() hold at every entry and exit of _malloc(). *)
HeapTiles ==
  /\ ~panicked
  /\ (malloc_mutex = NoThread /\ heap_listp # NULL) =>
       LET epilogue == mem_brkp - 1
           tiles == Blocks(mem) \ {epilogue}
       IN /\ epilogue \in Blocks(mem) /\ mem[epilogue] = pack(0, TRUE)
          /\ \A b \in tiles :
               /\ b \in 1..(epilogue - 1)
               /\ find_next(mem, b) \in tiles \cup {epilogue}
               /\ get_size(mem, b) >= min_block_size
               /\ mem[b] = mem[find_next(mem, b) - 1]
               /\ get_alloc(mem, b) \/ get_alloc(mem, find_next(mem, b))
          /\ {b + 1 : b \in {c \in tiles : get_alloc(mem, c)}}
               = {r.ptr : r \in Kept \ {NoRegion}}

Abstract == INSTANCE AllocSpec

(* The wrappers and the allocator implement AllocSpec: every call hands    *)
(* out a region apart from all others, a realloc() that fails leaves the   *)
(* old one alone, one that succeeds carries over what fits.                *)
ImplementsAlloc == Abstract!Spec
=============================================================================
