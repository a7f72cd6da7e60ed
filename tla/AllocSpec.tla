------------------------------ MODULE AllocSpec ------------------------------
(***************************************************************************)
(* What malloc(), calloc(), realloc() and free() promise to the threads of *)
(* a task: regions that do not overlap, and that keep what was written to  *)
(* them.  Heap.tla shows that user/libthread/malloc.c and libmalloc        *)
(* implement this.                                                         *)
(***************************************************************************)
EXTENDS Integers

CONSTANTS Threads, NoRegion

VARIABLES live,  \* the regions in use
          old    \* the region a thread has given to free() or realloc()

vars == <<live, old>>

(* A region begins at ptr; its first keep words are known to hold fill. *)
Words(r) == r.ptr .. (r.ptr + r.size - 1)
Without(r) == [r EXCEPT !.keep = 0]

Init == live = {} /\ old = [t \in Threads |-> NoRegion]

Fill(r, value) ==
  /\ r \in live
  /\ live' = (live \ {r}) \cup {[r EXCEPT !.keep = r.size, !.fill = value]}
  /\ UNCHANGED old

TakeBack(t, r) == /\ r \in live /\ old[t] = NoRegion
                  /\ live' = live \ {r}
                  /\ old' = [old EXCEPT ![t] = r]

(* A new region is apart from every other.  Of what realloc() was given it *)
(* keeps as much as fits.                                                  *)
Give(t, r) ==
  /\ \A q \in live \cup {old[u] : u \in Threads \ {t}} : Words(q) \cap Words(r) = {}
  /\ old[t] # NoRegion =>
        /\ r.fill = old[t].fill
        /\ r.keep = IF old[t].keep < r.size THEN old[t].keep ELSE r.size
  /\ live' = live \cup {r}
  /\ old' = [old EXCEPT ![t] = NoRegion]

(* realloc() failed: the old region is as it was. *)
GiveBack(t) == /\ old[t] # NoRegion
               /\ live' = live \cup {old[t]}
               /\ old' = [old EXCEPT ![t] = NoRegion]

Freed(t) == /\ old[t] # NoRegion
            /\ old' = [old EXCEPT ![t] = NoRegion]
            /\ UNCHANGED live

Next == \/ \E r \in live : Fill(r, -r.ptr)
        \/ \E t \in Threads :
              \/ \E r \in live : TakeBack(t, r)
              \/ \E r \in live' : Give(t, r)
              \/ GiveBack(t) \/ Freed(t)

Spec == Init /\ [][Next]_vars
=============================================================================
