----------------------------- MODULE HeapProofs -----------------------------
(***************************************************************************)
(* Proofs about Heap.tla, for any heap limit, page size, threads and       *)
(* requests that do not wrap: blocks tile the heap, what a thread has      *)
(* written stays, and the allocator implements AllocSpec.                  *)
(***************************************************************************)
EXTENDS Heap, WellFoundedInduction, TLAPS

Even(s) == s % 2 = 0

(* Blocks at the addresses T, of sizes sz, fill the heap from address 1 to *)
(* the epilogue e.                                                         *)
Tiling(T, sz, e) ==
  /\ e \in Nat \ {0} /\ T \subseteq 1..(e - 1) /\ 1 \in T \cup {e}
  /\ sz \in [T -> Nat]
  /\ \A b \in T : sz[b] >= 4 /\ Even(sz[b]) /\ b + sz[b] \in T \cup {e}
  /\ \A b, c \in T : b < c => b + sz[b] <= c
  /\ \A c \in (T \cup {e}) \ {1} : \E b \in T : b + sz[b] = c

(* The tag of a block of size s at b, when the blocks A are allocated. *)
Tag(s, b, A) == IF b \in A THEN s + 1 ELSE s

TagsAt(m, b, s, A) == m[b] = Tag(s, b, A) /\ m[b + s - 1] = Tag(s, b, A)

(* Prologue, epilogue and both tags of every block are right. *)
Tagged(T, sz, A, e, m) ==
  /\ m[0] = 1 /\ m[e] = 1
  /\ \A b \in T : TagsAt(m, b, sz[b], A)

(* No two free blocks in a row, except for those next to x. *)
SpacedBut(T, sz, A, e, x) ==
  \A b \in T \ A : b = x \/ b + sz[b] = x \/ b + sz[b] \in A \cup {e}
Spaced(T, sz, A, e) == \A b \in T \ A : b + sz[b] \in A \cup {e}

Memory == [0..(Limit - 1) -> Int]

Shape(T, sz, A, e, m) ==
  /\ Tiling(T, sz, e) /\ A \subseteq T /\ e < Limit /\ m \in Memory
  /\ Tagged(T, sz, A, e, m)

(* The blocks S and their contents are as they were. *)
Untouched(S, T2, sz, sz2, m, m2) ==
  \A b \in S : /\ b \in T2 /\ sz2[b] = sz[b]
               /\ \A a \in b..(b + sz[b] - 1) : m2[a] = m[a]

-----------------------------------------------------------------------------
(* Arithmetic of tags. *)
LEMMA EvenFacts ==
  ASSUME NEW s \in Nat, NEW r \in Nat, Even(s), Even(r)
  PROVE  Even(s + r) /\ (r <= s => Even(s - r))
  BY DEF Even

(* The size and the flag are read back from a tag. *)
LEMMA TagFacts ==
  ASSUME NEW s \in Nat, Even(s), NEW b, NEW A
  PROVE  /\ Tag(s, b, A) \in Nat
         /\ extract_size(Tag(s, b, A)) = s
         /\ extract_alloc(Tag(s, b, A)) <=> b \in A
  BY DEF Even, Tag, extract_size, extract_alloc, dsize

(* The tag of prologue and epilogue. *)
LEMMA EdgeFacts ==
  extract_size(1) = 0 /\ extract_alloc(1)
  BY DEF extract_size, extract_alloc, dsize

(* What the accessors read from a heap that is tiled. *)
LEMMA Reads ==
  ASSUME NEW T, NEW sz, NEW A, NEW e, NEW m, Tiling(T, sz, e),
         Tagged(T, sz, A, e, m), NEW b \in T
  PROVE  /\ get_size(m, b) = sz[b]
         /\ get_alloc(m, b) <=> b \in A
         /\ find_next(m, b) = b + sz[b]
         /\ m[b] = Tag(sz[b], b, A)
         /\ m[b + sz[b] - 1] = Tag(sz[b], b, A)
         /\ extract_size(m[b + sz[b] - 1]) = sz[b]
         /\ extract_alloc(m[b + sz[b] - 1]) <=> b \in A
  <1>1. sz[b] \in Nat /\ Even(sz[b]) /\ TagsAt(m, b, sz[b], A)
    BY DEF Tiling, Tagged
  <1>2. m[b] = Tag(sz[b], b, A) /\ m[b + sz[b] - 1] = Tag(sz[b], b, A)
    BY <1>1 DEF TagsAt
  <1>3. /\ extract_size(Tag(sz[b], b, A)) = sz[b]
        /\ extract_alloc(Tag(sz[b], b, A)) <=> b \in A
    BY <1>1, TagFacts
  <1> QED
    BY <1>2, <1>3 DEF get_size, get_alloc, find_next

(* Rounding up to whole pages. *)
LEMMA Ceiling ==
  ASSUME NEW p \in Nat \ {0}, NEW x \in Nat
  PROVE  p * ((x + p - 1) \div p) >= x /\ p * ((x + p - 1) \div p) \in Nat
  OBVIOUS
-----------------------------------------------------------------------------
(* Tilings: merging a block with the next one, cutting one in two, and     *)
(* adding one at the end.                                                  *)
Merged(T, sz, b, c, T2, s2) ==
  /\ T2 = T \ {c}
  /\ s2 = [x \in T2 |-> IF x = b THEN sz[b] + sz[c] ELSE sz[x]]

HasCut(T, sz, b, s, c, T2, s2) ==
  /\ c = b + s /\ T2 = T \cup {c}
  /\ s2 = [x \in T2 |-> IF x = b THEN s ELSE IF x = c THEN sz[b] - s ELSE sz[x]]

Grown(T, sz, e, s, T2, s2) ==
  /\ T2 = T \cup {e}
  /\ s2 = [x \in T2 |-> IF x = e THEN s ELSE sz[x]]

(* Two neighbours become one block. *)
LEMMA Merge ==
  ASSUME NEW T, NEW sz, NEW e, Tiling(T, sz, e), NEW b \in T, NEW c \in T,
         b + sz[b] = c, NEW T2, NEW s2, Merged(T, sz, b, c, T2, s2)
  PROVE  Tiling(T2, s2, e)
  <1>1. /\ e \in Nat \ {0} /\ T \subseteq 1..(e - 1) /\ 1 \in T \cup {e}
        /\ sz \in [T -> Nat]
        /\ \A x \in T : sz[x] >= 4 /\ Even(sz[x]) /\ x + sz[x] \in T \cup {e}
        /\ \A x, y \in T : x < y => x + sz[x] <= y
        /\ \A y \in (T \cup {e}) \ {1} : \E x \in T : x + sz[x] = y
    BY DEF Tiling
  <1>2. /\ T2 = T \ {c}
        /\ s2 = [x \in T2 |-> IF x = b THEN sz[b] + sz[c] ELSE sz[x]]
    BY DEF Merged
  <1>3. /\ b \in Nat /\ c \in Nat /\ sz[b] \in Nat /\ sz[c] \in Nat /\ b < c
        /\ b \in T2 /\ 1 <= b /\ b # c /\ c # e /\ c # 1
        /\ \A x \in T : x \in Nat /\ sz[x] \in Nat
    BY <1>1, <1>2
  <1>4. /\ s2 \in [T2 -> Nat] /\ s2[b] = sz[b] + sz[c]
        /\ \A x \in T2 : x # b => s2[x] = sz[x]
        /\ \A x \in T2 : x \in T /\ x # c
    BY <1>2, <1>3, <1>1
  <1>5. ASSUME NEW x \in T2, x # b PROVE x + sz[x] # c
    <2>1. x \in T
      BY <1>4
    <2>2. CASE x < b
      BY <1>1, <1>3, <2>1, <2>2
    <2>3. CASE b < x
      <3>1. c <= x
        BY <1>1, <1>3, <2>1, <2>3
      <3> QED
        BY <1>1, <1>3, <2>1, <3>1
    <2> QED
      BY <1>3, <1>5, <2>1, <2>2, <2>3
  <1>6. \A x \in T2 : s2[x] >= 4 /\ Even(s2[x]) /\ x + s2[x] \in T2 \cup {e}
    <2>1. SUFFICES ASSUME NEW x \in T2
                   PROVE  s2[x] >= 4 /\ Even(s2[x]) /\ x + s2[x] \in T2 \cup {e}
      OBVIOUS
    <2>2. CASE x # b
      BY <1>1, <1>2, <1>4, <1>5, <2>2
    <2>3. CASE x = b
      <3>1. Even(sz[b] + sz[c]) /\ sz[b] + sz[c] >= 4
        <4>1. Even(sz[b]) /\ Even(sz[c]) /\ sz[b] >= 4
          BY <1>1
        <4>2. Even(sz[b] + sz[c])
          BY <1>3, <4>1, EvenFacts
        <4> QED
          BY <1>3, <4>1, <4>2
      <3>2. b + (sz[b] + sz[c]) = c + sz[c] /\ c + sz[c] # c
        BY <1>1, <1>3
      <3>3. c + sz[c] \in T2 \cup {e}
        BY <1>1, <1>2, <3>2
      <3> QED
        BY <1>4, <2>3, <3>1, <3>2, <3>3
    <2> QED
      BY <2>2, <2>3
  <1>7. ASSUME NEW x \in T2, NEW y \in T2, x < y PROVE x + s2[x] <= y
    <2>1. CASE x # b
      BY <1>1, <1>4, <1>7, <2>1
    <2>2. CASE x = b
      <3>1. c <= y
        BY <1>1, <1>3, <1>4, <1>7, <2>2
      <3>2. c < y
        BY <1>3, <1>4, <3>1
      <3>3. c + sz[c] <= y
        BY <1>1, <1>4, <3>2
      <3> QED
        BY <1>3, <1>4, <2>2, <3>3
    <2> QED
      BY <2>1, <2>2
  <1>8. ASSUME NEW y \in (T2 \cup {e}) \ {1} PROVE \E x \in T2 : x + s2[x] = y
    <2>1. PICK x \in T : x + sz[x] = y
      BY <1>1, <1>4
    <2>2. CASE x = c
      BY <1>3, <1>4, <2>1, <2>2
    <2>3. CASE x = b
      BY <1>3, <1>4, <2>1, <2>3
    <2>4. CASE x # b /\ x # c
      BY <1>2, <1>4, <2>1, <2>4
    <2> QED
      BY <2>2, <2>3, <2>4
  <1>9. T2 \subseteq 1..(e - 1) /\ 1 \in T2 \cup {e}
    BY <1>1, <1>2, <1>3
  <1> QED
    BY <1>1, <1>4, <1>6, <1>7, <1>8, <1>9 DEF Tiling

(* A block is cut in two. *)
LEMMA Cut ==
  ASSUME NEW T, NEW sz, NEW e, Tiling(T, sz, e), NEW b \in T, NEW s \in Nat,
         s >= 4, Even(s), sz[b] - s >= 4, NEW c, NEW T2, NEW s2,
         HasCut(T, sz, b, s, c, T2, s2)
  PROVE  Tiling(T2, s2, e) /\ c \notin T
  <1>1. /\ e \in Nat \ {0} /\ T \subseteq 1..(e - 1) /\ 1 \in T \cup {e}
        /\ sz \in [T -> Nat]
        /\ \A x \in T : sz[x] >= 4 /\ Even(sz[x]) /\ x + sz[x] \in T \cup {e}
        /\ \A x, y \in T : x < y => x + sz[x] <= y
        /\ \A y \in (T \cup {e}) \ {1} : \E x \in T : x + sz[x] = y
    BY DEF Tiling
  <1>2. /\ c = b + s /\ T2 = T \cup {c}
        /\ s2 = [x \in T2 |-> IF x = b THEN s
                              ELSE IF x = c THEN sz[b] - s ELSE sz[x]]
    BY DEF HasCut
  <1>3. /\ b \in Nat /\ c \in Nat /\ sz[b] \in Nat /\ b < c /\ 1 <= b
        /\ c + (sz[b] - s) = b + sz[b] /\ c + 4 <= b + sz[b]
        /\ \A x \in T : x \in Nat /\ sz[x] \in Nat
    <2>1. \A x \in T : x \in Nat /\ 1 <= x /\ sz[x] \in Nat
      BY <1>1
    <2>2. c = b + s
      BY <1>2
    <2> QED
      BY <2>1, <2>2
  <1>4. b + sz[b] <= e
    BY <1>1, <1>3
  <1>5. c \in 1..(e - 1) /\ c # e /\ c # 1
    BY <1>1, <1>3, <1>4
  <1>6. ASSUME NEW x \in T
        PROVE  x # c /\ (x < c => x <= b) /\ (c < x => b + sz[b] <= x)
    <2>1. CASE x <= b
      BY <1>3, <2>1
    <2>2. CASE b < x
      <3>1. b + sz[b] <= x
        BY <1>1, <2>2
      <3> QED
        BY <1>3, <3>1
    <2> QED
      BY <1>3, <2>1, <2>2
  <1>7. /\ s2 \in [T2 -> Nat] /\ s2[b] = s /\ s2[c] = sz[b] - s
        /\ \A x \in T : x # b => s2[x] = sz[x]
        /\ b \in T2 /\ c \in T2 /\ b # c
    BY <1>2, <1>3, <1>6
  <1>8. ASSUME NEW x \in T2
        PROVE  s2[x] >= 4 /\ Even(s2[x]) /\ x + s2[x] \in T2 \cup {e}
    <2>1. CASE x = b
      BY <1>2, <1>7, <2>1
    <2>2. CASE x = c
      <3>1. Even(sz[b])
        BY <1>1
      <3>2. Even(sz[b] - s)
        BY <1>3, <3>1, EvenFacts
      <3>3. b + sz[b] \in T2 \cup {e}
        BY <1>1, <1>2
      <3> QED
        BY <1>3, <1>7, <2>2, <3>2, <3>3
    <2>3. CASE x # b /\ x # c
      BY <1>1, <1>2, <1>7, <2>3
    <2> QED
      BY <2>1, <2>2, <2>3
  <1>9. ASSUME NEW x \in T2, NEW y \in T2, x < y PROVE x + s2[x] <= y
    <2>1. CASE x = c
      <3>1. y \in T /\ b + sz[b] <= y
        BY <1>2, <1>3, <1>6, <1>9, <2>1
      <3> QED
        BY <1>3, <1>7, <2>1, <3>1
    <2>2. CASE x = b
      <3>1. y = c \/ y \in T
        BY <1>2
      <3>2. y \in T => b + sz[b] <= y
        BY <1>1, <1>9, <2>2
      <3> QED
        BY <1>2, <1>3, <1>7, <2>2, <3>1, <3>2
    <2>3. CASE x # b /\ x # c
      <3>1. x \in T /\ s2[x] = sz[x]
        BY <1>2, <1>7, <2>3
      <3>2. CASE y = c
        <4>1. x < b
          BY <1>3, <1>6, <1>9, <2>3, <3>1, <3>2
        <4>2. x + sz[x] <= b
          BY <1>1, <3>1, <4>1
        <4> QED
          BY <1>3, <3>1, <3>2, <4>2
      <3>3. CASE y # c
        BY <1>1, <1>2, <1>9, <3>1, <3>3
      <3> QED
        BY <3>2, <3>3
    <2> QED
      BY <2>1, <2>2, <2>3
  <1>10. ASSUME NEW y \in (T2 \cup {e}) \ {1} PROVE \E x \in T2 : x + s2[x] = y
    <2>1. CASE y = c
      BY <1>2, <1>7, <2>1
    <2>2. CASE y # c
      <3>1. PICK x \in T : x + sz[x] = y
        BY <1>1, <1>2, <2>2
      <3>2. CASE x = b
        BY <1>3, <1>7, <3>1, <3>2
      <3>3. CASE x # b
        BY <1>2, <1>7, <3>1, <3>3
      <3> QED
        BY <3>2, <3>3
    <2> QED
      BY <2>1, <2>2
  <1>11. T2 \subseteq 1..(e - 1) /\ 1 \in T2 \cup {e}
    BY <1>1, <1>2, <1>5
  <1>12. Tiling(T2, s2, e)
    BY <1>1, <1>7, <1>8, <1>9, <1>10, <1>11 DEF Tiling
  <1> QED
    BY <1>6, <1>12

(* A block takes the place of the epilogue. *)
LEMMA Grow ==
  ASSUME NEW T, NEW sz, NEW e, Tiling(T, sz, e), NEW s \in Nat, s >= 4, Even(s),
         NEW T2, NEW s2, Grown(T, sz, e, s, T2, s2)
  PROVE  Tiling(T2, s2, e + s)
  <1>1. /\ e \in Nat \ {0} /\ T \subseteq 1..(e - 1) /\ 1 \in T \cup {e}
        /\ sz \in [T -> Nat]
        /\ \A x \in T : sz[x] >= 4 /\ Even(sz[x]) /\ x + sz[x] \in T \cup {e}
        /\ \A x, y \in T : x < y => x + sz[x] <= y
        /\ \A y \in (T \cup {e}) \ {1} : \E x \in T : x + sz[x] = y
    BY DEF Tiling
  <1>2. T2 = T \cup {e} /\ s2 = [x \in T2 |-> IF x = e THEN s ELSE sz[x]]
    BY DEF Grown
  <1>3. /\ s2 \in [T2 -> Nat] /\ s2[e] = s /\ e \notin T
        /\ \A x \in T : s2[x] = sz[x] /\ x \in Nat /\ sz[x] \in Nat /\ x < e
    BY <1>1, <1>2
  <1>4. \A x \in T : x + sz[x] <= e
    BY <1>1, <1>3
  <1>5. \A x \in T2 : s2[x] >= 4 /\ Even(s2[x]) /\ x + s2[x] \in T2 \cup {e + s}
    BY <1>1, <1>2, <1>3
  <1>6. \A x, y \in T2 : x < y => x + s2[x] <= y
    BY <1>1, <1>2, <1>3, <1>4
  <1>7. \A y \in (T2 \cup {e + s}) \ {1} : \E x \in T2 : x + s2[x] = y
    BY <1>1, <1>2, <1>3
  <1>8. /\ T2 \subseteq 1..(e + s - 1) /\ 1 \in T2 \cup {e + s}
        /\ e + s \in Nat \ {0}
    BY <1>1, <1>2, <1>3
  <1> QED
    BY <1>3, <1>5, <1>6, <1>7, <1>8 DEF Tiling

-----------------------------------------------------------------------------
(* The words of a block. *)
LEMMA Extents ==
  ASSUME NEW T, NEW sz, NEW e, Tiling(T, sz, e), NEW b \in T
  PROVE  /\ b \in Nat /\ sz[b] \in Nat /\ e \in Nat /\ 1 <= b /\ sz[b] >= 4
         /\ Even(sz[b]) /\ b + sz[b] <= e
         /\ \A c \in T : c # b => c + sz[c] <= b \/ b + sz[b] <= c
  <1>1. /\ e \in Nat \ {0} /\ T \subseteq 1..(e - 1)
        /\ sz \in [T -> Nat]
        /\ \A x \in T : sz[x] >= 4 /\ Even(sz[x]) /\ x + sz[x] \in T \cup {e}
        /\ \A x, y \in T : x < y => x + sz[x] <= y
    BY DEF Tiling
  <1>2. b \in Nat /\ sz[b] \in Nat /\ e \in Nat /\ 1 <= b /\ b + sz[b] <= e
    BY <1>1
  <1>3. \A c \in T : c # b => c < b \/ b < c
    BY <1>1
  <1> QED
    BY <1>1, <1>2, <1>3

(* The block before another one is unique. *)
LEMMA OnePrevious ==
  ASSUME NEW T, NEW sz, NEW e, Tiling(T, sz, e), NEW b \in T, NEW c \in T,
         b + sz[b] = c + sz[c]
  PROVE  b = c
  <1>1. /\ b \in Nat /\ sz[b] \in Nat /\ sz[b] >= 4
        /\ c # b => c + sz[c] <= b \/ b + sz[b] <= c
    BY Extents
  <1>2. c \in Nat /\ sz[c] \in Nat /\ sz[c] >= 4
    BY Extents
  <1> QED
    BY <1>1, <1>2

TwoWritten(m, b, s, v, w) == w = [m EXCEPT ![b] = v, ![b + s - 1] = v]

WriteReady(m, b, s, v) ==
  /\ m \in Memory /\ b \in Nat /\ s \in Nat /\ s >= 4 /\ b + s <= Limit /\ v \in Int

(* Two tags are written and nothing else changes. *)
LEMMA WriteTagsFacts ==
  ASSUME NEW m, NEW b, NEW s, NEW v, WriteReady(m, b, s, v),
         NEW w, TwoWritten(m, b, s, v, w)
  PROVE  /\ w \in Memory /\ w[b] = v /\ w[b + s - 1] = v
         /\ \A a \in 0..(Limit - 1) : a # b /\ a # b + s - 1 => w[a] = m[a]
  <1>1. /\ Limit \in Nat /\ b \in 0..(Limit - 1) /\ b + s - 1 \in 0..(Limit - 1)
        /\ b # b + s - 1 /\ v \in Int
    BY HeapAssumption DEF WriteReady
  <1>2. m \in Memory
    BY DEF WriteReady
  <1> QED
    BY <1>1, <1>2 DEF Memory, TwoWritten

(* FreeBlock() writes inside of its block only. *)
LEMMA FreeBlockFacts ==
  ASSUME NEW m \in Memory, NEW b \in Nat, NEW s \in Nat, s >= 4, b + s <= Limit
  PROVE  /\ FreeBlock(m, b, s) \in Memory
         /\ FreeBlock(m, b, s)[b] = s
         /\ FreeBlock(m, b, s)[b + s - 1] = s
         /\ \A a \in 0..(Limit - 1) : ~(b <= a /\ a < b + s) =>
               FreeBlock(m, b, s)[a] = m[a]
  <1>1. Limit \in Nat /\ b \in 0..(Limit - 1) /\ b + s - 1 \in 0..(Limit - 1)
        /\ b # b + s - 1 /\ Junk \in Int
    BY HeapAssumption DEF Junk
  <1>2. s \in Int
    OBVIOUS
  <1>3. PICK w : w = write_tags(m, b, s, FALSE)
                 /\ w = [m EXCEPT ![b] = s, ![b + s - 1] = s]
    BY DEF write_tags, pack
  <1>4. /\ w \in Memory /\ w[b] = s /\ w[b + s - 1] = s
        /\ \A a \in 0..(Limit - 1) : a # b /\ a # b + s - 1 => w[a] = m[a]
    <2>1. TwoWritten(m, b, s, s, w)
      BY <1>3 DEF TwoWritten
    <2>2. WriteReady(m, b, s, s)
      BY <1>2 DEF WriteReady
    <2> QED
      BY <2>1, <2>2, WriteTagsFacts
  <1>5. DOMAIN m = 0..(Limit - 1)
    BY DEF Memory
  <1>6. FreeBlock(m, b, s) = [a \in 0..(Limit - 1) |->
                                IF a \in (b + 1)..(b + s - 2) THEN Junk ELSE w[a]]
    BY <1>3, <1>5 DEF FreeBlock
  <1> HIDE DEF Junk
  <1>7. FreeBlock(m, b, s) \in Memory
    BY <1>1, <1>4, <1>6 DEF Memory
  <1>8. b \notin (b + 1)..(b + s - 2) /\ b + s - 1 \notin (b + 1)..(b + s - 2)
    BY <1>1
  <1>9. ASSUME NEW a \in 0..(Limit - 1), ~(b <= a /\ a < b + s)
        PROVE  FreeBlock(m, b, s)[a] = m[a]
    <2>1. a # b /\ a # b + s - 1 /\ a \notin (b + 1)..(b + s - 2)
      BY <1>1, <1>9
    <2> QED
      BY <1>4, <1>6, <2>1
  <1> QED
    BY <1>1, <1>4, <1>6, <1>7, <1>8, <1>9

(* Memory that differs from m in words of the block f only. *)
Outside(m, m2, f, s) ==
  \A a \in 0..(Limit - 1) : ~(f <= a /\ a < f + s) => m2[a] = m[a]

(* A change inside one block leaves the tags of the others right. *)
LEMMA Retag ==
  ASSUME NEW T, NEW sz, NEW e, Tiling(T, sz, e), e < Limit, NEW A, NEW f \in T,
         NEW m, NEW m2, Outside(m, m2, f, sz[f]), m[0] = 1, m[e] = 1,
         \A b \in T \ {f} : TagsAt(m, b, sz[b], A), TagsAt(m2, f, sz[f], A)
  PROVE  Tagged(T, sz, A, e, m2)
  <1>1. /\ f \in Nat /\ sz[f] \in Nat /\ e \in Nat /\ 1 <= f /\ f + sz[f] <= e
    BY Extents
  <1>2. Limit \in Nat /\ 0 \in 0..(Limit - 1) /\ e \in 0..(Limit - 1)
    BY <1>1, HeapAssumption
  <1>3. m2[0] = 1 /\ m2[e] = 1
    BY <1>1, <1>2 DEF Outside
  <1>4. ASSUME NEW b \in T, b # f PROVE TagsAt(m2, b, sz[b], A)
    <2>1. /\ b \in Nat /\ sz[b] \in Nat /\ 1 <= b /\ sz[b] >= 4 /\ b + sz[b] <= e
          /\ f + sz[f] <= b \/ b + sz[b] <= f
      BY <1>4, Extents
    <2>2. /\ b \in 0..(Limit - 1) /\ b + sz[b] - 1 \in 0..(Limit - 1)
          /\ ~(f <= b /\ b < f + sz[f])
          /\ ~(f <= b + sz[b] - 1 /\ b + sz[b] - 1 < f + sz[f])
      BY <1>1, <1>2, <2>1
    <2>3. m2[b] = m[b] /\ m2[b + sz[b] - 1] = m[b + sz[b] - 1]
      BY <2>2 DEF Outside
    <2>4. TagsAt(m, b, sz[b], A)
      BY <1>4
    <2> QED
      BY <2>3, <2>4 DEF TagsAt
  <1> QED
    BY <1>3, <1>4 DEF Tagged

(* The other blocks keep their contents. *)
LEMMA OthersUntouched ==
  ASSUME NEW T, NEW sz, NEW e, Tiling(T, sz, e), e < Limit, NEW f \in T,
         NEW m, NEW m2, Outside(m, m2, f, sz[f]), NEW S \in SUBSET T,
         f \notin S, NEW s0, \A b \in S : s0[b] = sz[b]
  PROVE  Untouched(S, T, s0, sz, m, m2)
  <1>1. f \in Nat /\ sz[f] \in Nat /\ 1 <= f /\ f + sz[f] <= e /\ e \in Nat
    BY Extents
  <1>2. ASSUME NEW b \in S, NEW a \in b..(b + sz[b] - 1)
        PROVE  m2[a] = m[a]
    <2>1. /\ b \in T /\ b # f
      OBVIOUS
    <2>2. /\ b \in Nat /\ sz[b] \in Nat /\ 1 <= b /\ b + sz[b] <= e
          /\ f + sz[f] <= b \/ b + sz[b] <= f
      BY <2>1, Extents
    <2>3. a \in 0..(Limit - 1) /\ ~(f <= a /\ a < f + sz[f])
      BY <1>1, <2>2, HeapAssumption
    <2> QED
      BY <2>3 DEF Outside
  <1> QED
    BY <1>2 DEF Untouched

-----------------------------------------------------------------------------
(* coalesce() of a free block b: it becomes part of the block f. *)
Coalesced(T, sz, A, e, b, T2, s2, f) ==
  /\ Tiling(T2, s2, e) /\ A \subseteq T2 /\ T2 \subseteq T
  /\ f \in T2 /\ f \notin A /\ s2[f] >= sz[b]
  /\ \A x \in T2 : x # f => s2[x] = sz[x]
  /\ Spaced(T2, s2, A, e)

(* The sizes of the free blocks before and behind b that it is merged with. *)
Around(T, sz, A, b, n, fwd, f, back) ==
  /\ n = b + sz[b]
  /\ fwd = IF n \in T /\ n \notin A THEN sz[n] ELSE 0
  /\ \/ f \in T /\ f \notin A /\ f + sz[f] = b /\ back = sz[f]
     \/ f = b /\ back = 0 /\ \A x \in T : x + sz[x] = b => x \in A

(* What coalesce() merges is a tiling again, with no two free blocks in a  *)
(* row.                                                                    *)
LEMMA CoalesceTiles ==
  ASSUME NEW T, NEW sz, NEW A \in SUBSET T, NEW e, Tiling(T, sz, e),
         NEW b \in T, b \notin A, SpacedBut(T, sz, A, e, b),
         NEW n, NEW fwd, NEW f, NEW back, Around(T, sz, A, b, n, fwd, f, back)
  PROVE  \E T2, s2 : /\ Coalesced(T, sz, A, e, b, T2, s2, f)
                     /\ s2[f] = sz[b] + fwd + back
  <1>0. /\ n = b + sz[b]
        /\ fwd = IF n \in T /\ n \notin A THEN sz[n] ELSE 0
        /\ \/ f \in T /\ f \notin A /\ f + sz[f] = b /\ back = sz[f]
           \/ f = b /\ back = 0 /\ \A x \in T : x + sz[x] = b => x \in A
    BY DEF Around
  <1>types. /\ b \in Nat /\ sz[b] \in Nat /\ e \in Nat /\ 1 <= b /\ sz[b] >= 4
            /\ b + sz[b] <= e /\ n \in T \cup {e} /\ n \in Nat /\ b < n
            /\ e \notin T /\ sz \in [T -> Nat]
            /\ \A x \in T : x \in Nat /\ sz[x] \in Nat /\ sz[x] >= 4
    BY <1>0, Extents DEF Tiling
  <1>1. PICK T1, s1 : /\ Tiling(T1, s1, e) /\ A \subseteq T1 /\ T1 \subseteq T
                      /\ b \in T1 /\ s1[b] = sz[b] + fwd
                      /\ \A x \in T1 : x # b => s1[x] = sz[x]
                      /\ b + s1[b] \in A \cup {e}
                      /\ \A x \in T : x < b => x \in T1
                      /\ fwd \in Nat
    <2>1. CASE n \in T /\ n \notin A
      <3>1. PICK T1, s1 :
              /\ T1 = T \ {n}
              /\ s1 = [x \in T1 |-> IF x = b THEN sz[b] + sz[n] ELSE sz[x]]
        OBVIOUS
      <3>2. Tiling(T1, s1, e)
        <4>1. Merged(T, sz, b, n, T1, s1)
          BY <3>1 DEF Merged
        <4> QED
          BY <1>0, <2>1, <4>1, Merge
      <3>3. fwd = sz[n] /\ b \in T1 /\ s1[b] = sz[b] + sz[n]
            /\ \A x \in T1 : x # b => s1[x] = sz[x]
        BY <1>0, <1>types, <2>1, <3>1
      <3>4. A \subseteq T1 /\ T1 \subseteq T /\ \A x \in T : x < b => x \in T1
        BY <1>types, <2>1, <3>1
      <3>5. n + sz[n] \in A \cup {e}
        BY <1>0, <1>types, <2>1 DEF SpacedBut
      <3>6. b + (sz[b] + sz[n]) = n + sz[n] /\ sz[n] \in Nat
        BY <1>0, <1>types, <2>1
      <3> QED
        BY <3>2, <3>3, <3>4, <3>5, <3>6
    <2>2. CASE ~(n \in T /\ n \notin A)
      <3>1. fwd = 0 /\ sz[b] + 0 = sz[b] /\ n \in A \cup {e}
        BY <1>0, <1>types, <2>2
      <3> QED
        BY <1>0, <1>types, <3>1
    <2> QED
      BY <2>1, <2>2
  <1>2. CASE f \in T /\ f \notin A /\ f + sz[f] = b /\ back = sz[f]
    <2>1. f < b /\ f \in T1 /\ s1[f] = sz[f] /\ f # b /\ f \in Nat /\ sz[f] \in Nat
      BY <1>types, <1>1, <1>2
    <2>2. PICK T2, s2 :
            /\ T2 = T1 \ {b}
            /\ s2 = [x \in T2 |-> IF x = f THEN s1[f] + s1[b] ELSE s1[x]]
      OBVIOUS
    <2>3. Tiling(T2, s2, e)
      <3>1. f + s1[f] = b
        BY <1>2, <2>1
      <3>2. Merged(T1, s1, f, b, T2, s2)
        BY <2>2 DEF Merged
      <3> QED
        BY <1>1, <2>1, <3>1, <3>2, Merge
    <2>4. /\ f \in T2 /\ s2[f] = sz[f] + (sz[b] + fwd)
          /\ \A x \in T2 : x # f => s2[x] = sz[x]
          /\ A \subseteq T2 /\ T2 \subseteq T /\ b \notin T2
      BY <1>1, <2>1, <2>2
    <2>5. s2[f] = sz[b] + fwd + back /\ s2[f] >= sz[b] /\ f + s2[f] = b + s1[b]
      BY <1>types, <1>1, <1>2, <2>1, <2>4
    <2>6. ASSUME NEW x \in T2, x \notin A PROVE x + s2[x] \in A \cup {e}
      <3>1. CASE x = f
        BY <1>1, <2>5, <3>1
      <3>2. CASE x # f
        <4>1. x \in T /\ s2[x] = sz[x] /\ x # b
          BY <2>4, <2>6, <3>2
        <4>2. x + sz[x] # b
          BY <1>2, <3>2, <4>1, OnePrevious
        <4> QED
          BY <2>6, <4>1, <4>2 DEF SpacedBut
      <3> QED
        BY <3>1, <3>2
    <2>7. Spaced(T2, s2, A, e)
      BY <2>6 DEF Spaced
    <2>8. Coalesced(T, sz, A, e, b, T2, s2, f)
      BY <1>2, <2>3, <2>4, <2>5, <2>7 DEF Coalesced
    <2> QED
      BY <2>5, <2>8
  <1>3. CASE f = b /\ back = 0 /\ \A x \in T : x + sz[x] = b => x \in A
    <2>1. s1[b] = sz[b] + fwd + back /\ s1[b] >= sz[b]
      BY <1>types, <1>1, <1>3
    <2>2. ASSUME NEW x \in T1, x \notin A PROVE x + s1[x] \in A \cup {e}
      <3>1. CASE x = b
        BY <1>1, <3>1
      <3>2. CASE x # b
        <4>1. x \in T /\ s1[x] = sz[x] /\ x + sz[x] # b
          BY <1>1, <1>3, <2>2, <3>2
        <4> QED
          BY <2>2, <3>2, <4>1 DEF SpacedBut
      <3> QED
        BY <3>1, <3>2
    <2>3. Coalesced(T, sz, A, e, b, T1, s1, f)
      BY <1>1, <1>3, <2>1, <2>2 DEF Coalesced, Spaced
    <2> QED
      BY <1>3, <2>1, <2>3
  <1> QED
    BY <1>0, <1>2, <1>3

(* Two changes that leave blocks alone. *)
LEMMA UntouchedTwice ==
  ASSUME NEW S, NEW T, NEW T2, NEW T3, NEW sz, NEW s2, NEW s3,
         NEW m, NEW m2, NEW m3,
         Untouched(S, T2, sz, s2, m, m2), Untouched(S, T3, s2, s3, m2, m3)
  PROVE  Untouched(S, T3, sz, s3, m, m3)
  BY DEF Untouched

(* What coalesce() finds around the block, and the block that it makes. *)
LEMMA CoalesceIs ==
  ASSUME NEW T, NEW sz, NEW A, NEW e, NEW m, Shape(T, sz, A, e, m),
         NEW b \in T, b \notin A, SpacedBut(T, sz, A, e, b)
  PROVE  \E T2, s2, f : /\ Coalesced(T, sz, A, e, b, T2, s2, f)
                        /\ coalesce(m, b) = <<FreeBlock(m, f, s2[f]), f>>
  <1>shape. /\ Tiling(T, sz, e) /\ A \subseteq T /\ Tagged(T, sz, A, e, m)
            /\ m[0] = 1 /\ m[e] = 1
    BY DEF Shape, Tagged
  <1>types. /\ b \in Nat /\ sz[b] \in Nat /\ e \in Nat /\ 1 <= b /\ sz[b] >= 4
            /\ e \notin T
            /\ \A x \in T : x \in Nat /\ sz[x] \in Nat /\ sz[x] >= 4 /\ 1 <= x
    BY <1>shape, Extents DEF Tiling
  <1>1. PICK n : n = b + sz[b]
    OBVIOUS
  <1>2. n \in T \cup {e}
    BY <1>1, <1>shape DEF Tiling
  <1>3. PICK fwd : fwd = IF n \in T /\ n \notin A THEN sz[n] ELSE 0
    OBVIOUS
  <1>4. find_next(m, b) = n /\ get_size(m, b) = sz[b]
    BY <1>1, <1>shape, Reads
  <1>5. (IF get_alloc(m, n) THEN 0 ELSE get_size(m, n)) = fwd
    <2>1. CASE n \in T
      <3>1. get_size(m, n) = sz[n] /\ (get_alloc(m, n) <=> n \in A)
        BY <1>shape, <2>1, Reads
      <3> QED
        BY <1>3, <2>1, <3>1
    <2>2. CASE n \notin T
      <3>1. m[n] = 1
        BY <1>2, <1>shape, <2>2
      <3>2. get_alloc(m, n)
        BY <3>1, EdgeFacts DEF get_alloc
      <3> QED
        BY <1>3, <2>2, <3>2
    <2> QED
      BY <2>1, <2>2
  <1>6. PICK f, back :
          /\ \/ f \in T /\ f \notin A /\ f + sz[f] = b /\ back = sz[f]
             \/ f = b /\ back = 0 /\ \A x \in T : x + sz[x] = b => x \in A
          /\ f = (IF extract_alloc(m[find_prev_footer(b)]) THEN b ELSE find_prev(m, b))
          /\ back = (IF extract_alloc(m[find_prev_footer(b)]) THEN 0
                     ELSE get_size(m, find_prev(m, b)))
    <2>1. CASE b = 1
      <3>1. find_prev_footer(b) = 0 /\ \A x \in T : x + sz[x] # b
        BY <1>types, <2>1 DEF find_prev_footer
      <3>2. extract_alloc(m[find_prev_footer(b)])
        BY <1>shape, <3>1, EdgeFacts
      <3> QED
        BY <3>1, <3>2
    <2>2. CASE b # 1
      <3>1. PICK p \in T : p + sz[p] = b
        BY <1>shape, <2>2 DEF Tiling
      <3>2. find_prev_footer(b) = p + sz[p] - 1
        BY <1>types, <3>1 DEF find_prev_footer
      <3>3. /\ extract_size(m[find_prev_footer(b)]) = sz[p]
            /\ extract_alloc(m[find_prev_footer(b)]) <=> p \in A
            /\ get_size(m, p) = sz[p]
        BY <1>shape, <3>2, Reads
      <3>4. find_prev(m, b) = p
        BY <1>types, <3>1, <3>3 DEF find_prev
      <3>5. CASE p \in A
        <4>1. \A x \in T : x + sz[x] = b => x \in A
          BY <1>shape, <3>1, <3>5, OnePrevious
        <4> QED
          BY <3>3, <3>5, <4>1
      <3>6. CASE p \notin A
        BY <3>1, <3>3, <3>4, <3>6
      <3> QED
        BY <3>5, <3>6
    <2> QED
      BY <2>1, <2>2
  <1>7. PICK T2, s2 : /\ Coalesced(T, sz, A, e, b, T2, s2, f)
                      /\ s2[f] = sz[b] + fwd + back
    <2>1. Around(T, sz, A, b, n, fwd, f, back)
      BY <1>1, <1>3, <1>6 DEF Around
    <2>2. A \in SUBSET T /\ Tiling(T, sz, e)
      BY <1>shape
    <2> QED
      BY <2>1, <2>2, CoalesceTiles
  <1>8. coalesce(m, b) = <<FreeBlock(m, f, sz[b] + fwd + back), f>>
    BY <1>4, <1>5, <1>6 DEF coalesce
  <1> QED
    BY <1>7, <1>8

(* The heap after coalesce() of a free block. *)
LEMMA CoalesceEffect ==
  ASSUME NEW T, NEW sz, NEW A, NEW e, NEW m, Shape(T, sz, A, e, m),
         NEW b \in T, b \notin A, SpacedBut(T, sz, A, e, b)
  PROVE  \E T2, s2, f, m2 :
            /\ coalesce(m, b) = <<m2, f>>
            /\ Shape(T2, s2, A, e, m2) /\ Spaced(T2, s2, A, e)
            /\ f \in T2 /\ f \notin A /\ s2[f] >= sz[b]
            /\ Untouched(A, T2, sz, s2, m, m2)
  <1>1. PICK T2, s2, f : /\ Coalesced(T, sz, A, e, b, T2, s2, f)
                         /\ coalesce(m, b) = <<FreeBlock(m, f, s2[f]), f>>
    BY CoalesceIs
  <1>2. PICK m2 : m2 = FreeBlock(m, f, s2[f])
    OBVIOUS
  <1>3. /\ Tiling(T2, s2, e) /\ A \subseteq T2 /\ T2 \subseteq T
        /\ f \in T2 /\ f \notin A /\ s2[f] >= sz[b]
        /\ \A x \in T2 : x # f => s2[x] = sz[x]
        /\ Spaced(T2, s2, A, e)
    BY <1>1 DEF Coalesced
  <1>4. /\ Tagged(T, sz, A, e, m) /\ m[0] = 1 /\ m[e] = 1 /\ e < Limit
        /\ m \in Memory
    BY DEF Shape, Tagged
  <1>5. /\ f \in Nat /\ s2[f] \in Nat /\ s2[f] >= 4 /\ f + s2[f] <= e /\ e \in Nat
    BY <1>3, Extents
  <1>6. f + s2[f] <= Limit
    BY <1>4, <1>5, HeapAssumption
  <1>7. /\ m2 \in Memory /\ m2[f] = s2[f] /\ m2[f + s2[f] - 1] = s2[f]
        /\ \A a \in 0..(Limit - 1) : ~(f <= a /\ a < f + s2[f]) => m2[a] = m[a]
    BY <1>2, <1>4, <1>5, <1>6, FreeBlockFacts
  <1>8. Outside(m, m2, f, s2[f])
    BY <1>7 DEF Outside
  <1>9. TagsAt(m2, f, s2[f], A)
    BY <1>3, <1>7 DEF TagsAt, Tag
  <1>10. \A x \in T2 \ {f} : TagsAt(m, x, s2[x], A)
    BY <1>3, <1>4 DEF Tagged
  <1>11. Tagged(T2, s2, A, e, m2)
    BY <1>3, <1>4, <1>8, <1>9, <1>10, Retag
  <1>12. Untouched(A, T2, sz, s2, m, m2)
    <2>1. A \in SUBSET T2 /\ \A x \in A : sz[x] = s2[x]
      BY <1>3
    <2> QED
      BY <1>3, <1>4, <1>8, <2>1, OthersUntouched
  <1>13. Shape(T2, s2, A, e, m2)
    BY <1>3, <1>4, <1>7, <1>11 DEF Shape
  <1> QED
    BY <1>1, <1>2, <1>3, <1>12, <1>13

-----------------------------------------------------------------------------
(* What _free(), extend_heap() and place() do to the heap. *)
LEMMA FreeEffect ==
  ASSUME NEW T, NEW sz, NEW A, NEW e, NEW m, Shape(T, sz, A, e, m),
         Spaced(T, sz, A, e), NEW b \in A,
         NEW w, TwoWritten(m, b, sz[b], sz[b], w)
  PROVE  \E T2, s2, f, m2 :
            /\ coalesce(w, b) = <<m2, f>>
            /\ Shape(T2, s2, A \ {b}, e, m2) /\ Spaced(T2, s2, A \ {b}, e)
            /\ Untouched(A \ {b}, T2, sz, s2, m, m2)
  <1>1. /\ Tiling(T, sz, e) /\ A \subseteq T /\ Tagged(T, sz, A, e, m)
        /\ m[0] = 1 /\ m[e] = 1 /\ e < Limit /\ m \in Memory /\ b \in T
    BY DEF Shape, Tagged
  <1>2. /\ b \in Nat /\ sz[b] \in Nat /\ sz[b] >= 4 /\ b + sz[b] <= e /\ e \in Nat
    BY <1>1, Extents
  <1>3. b + sz[b] <= Limit /\ sz[b] \in Int
    BY <1>1, <1>2, HeapAssumption
  <1>4. /\ w \in Memory /\ w[b] = sz[b] /\ w[b + sz[b] - 1] = sz[b]
        /\ \A a \in 0..(Limit - 1) : a # b /\ a # b + sz[b] - 1 => w[a] = m[a]
    <2>1. WriteReady(m, b, sz[b], sz[b])
      BY <1>1, <1>2, <1>3 DEF WriteReady
    <2> QED
      BY <2>1, WriteTagsFacts
  <1>5. Outside(m, w, b, sz[b])
    BY <1>2, <1>4, HeapAssumption DEF Outside
  <1>6. PICK B : B = A \ {b}
    OBVIOUS
  <1>7. TagsAt(w, b, sz[b], B)
    BY <1>4, <1>6 DEF TagsAt, Tag
  <1>8. \A x \in T \ {b} : TagsAt(m, x, sz[x], B)
    BY <1>1, <1>6 DEF Tagged, TagsAt, Tag
  <1>9. Tagged(T, sz, B, e, w)
    BY <1>1, <1>5, <1>7, <1>8, Retag
  <1>10. Shape(T, sz, B, e, w)
    BY <1>1, <1>4, <1>6, <1>9 DEF Shape
  <1>11. SpacedBut(T, sz, B, e, b)
    BY <1>6 DEF Spaced, SpacedBut
  <1>12. Untouched(B, T, sz, sz, m, w)
    <2>1. B \in SUBSET T /\ b \notin B
      BY <1>1, <1>6
    <2> QED
      BY <1>1, <1>5, <2>1, OthersUntouched
  <1>13. PICK T2, s2, f, m2 :
            /\ coalesce(w, b) = <<m2, f>>
            /\ Shape(T2, s2, B, e, m2) /\ Spaced(T2, s2, B, e)
            /\ Untouched(B, T2, sz, s2, w, m2)
    <2>1. b \notin B
      BY <1>6
    <2> QED
      BY <1>1, <1>10, <1>11, <2>1, CoalesceEffect
  <1>14. Untouched(B, T2, sz, s2, m, m2)
    BY <1>12, <1>13, UntouchedTwice
  <1> QED
    BY <1>6, <1>13, <1>14

(* A new block at the end, merged with a free one before it. *)
LEMMA ExtendEffect ==
  ASSUME NEW T, NEW sz, NEW A, NEW e, NEW m, Shape(T, sz, A, e, m),
         Spaced(T, sz, A, e), NEW s \in Nat, s >= 4, Even(s), e + s < Limit
  PROVE  \E T2, s2, f, m2 :
            /\ NewBlock(m, e + 1, s) = <<m2, f>>
            /\ Shape(T2, s2, A, e + s, m2) /\ Spaced(T2, s2, A, e + s)
            /\ f \in T2 /\ f \notin A /\ s2[f] >= s
            /\ Untouched(A, T2, sz, s2, m, m2)
  <1>1. /\ Tiling(T, sz, e) /\ A \subseteq T /\ Tagged(T, sz, A, e, m)
        /\ m[0] = 1 /\ m[e] = 1 /\ m \in Memory
    BY DEF Shape, Tagged
  <1>2. e \in Nat /\ 1 <= e /\ e \notin T /\ e \notin A /\ e + 1 - 1 = e
        /\ sz \in [T -> Nat]
    BY <1>1 DEF Tiling
  <1>3. PICK w : w = write_tags(m, e, s, FALSE) /\ TwoWritten(m, e, s, s, w)
    BY DEF write_tags, pack, TwoWritten
  <1>4. e + s <= Limit /\ s \in Int /\ Limit \in Nat
    BY <1>2, HeapAssumption
  <1>5. /\ w \in Memory /\ w[e] = s /\ w[e + s - 1] = s
        /\ \A a \in 0..(Limit - 1) : a # e /\ a # e + s - 1 => w[a] = m[a]
    <2>1. WriteReady(m, e, s, s)
      BY <1>1, <1>2, <1>4 DEF WriteReady
    <2>2. TwoWritten(m, e, s, s, w)
      BY <1>3
    <2> QED
      BY <2>1, <2>2, WriteTagsFacts
  <1>6. PICK v : v = [w EXCEPT ![e + s] = 1]
    OBVIOUS
  <1>7. e + s \in 0..(Limit - 1) /\ e + s # e /\ e + s # e + s - 1 /\ e + s # 0
        /\ e \in 0..(Limit - 1) /\ e + s - 1 \in 0..(Limit - 1)
        /\ 0 \in 0..(Limit - 1) /\ 0 # e /\ 0 # e + s - 1
    BY <1>2, <1>4
  <1>8. /\ v \in Memory /\ v[e] = s /\ v[e + s - 1] = s /\ v[e + s] = 1
        /\ v[0] = 1
    BY <1>1, <1>5, <1>6, <1>7 DEF Memory
  <1>9. \A a \in 0..(Limit - 1) : a < e => v[a] = m[a]
    <2>1. SUFFICES ASSUME NEW a \in 0..(Limit - 1), a < e PROVE v[a] = m[a]
      OBVIOUS
    <2>2. a # e /\ a # e + s - 1 /\ a # e + s
      BY <1>2, <1>4, <2>1
    <2> QED
      BY <1>5, <1>6, <2>2 DEF Memory
  <1>10. NewBlock(m, e + 1, s) = coalesce(v, e)
    <2>1. pack(0, TRUE) = 1
      BY DEF pack
    <2>2. PICK b : b = e + 1 /\ b - 1 = e
      BY <1>2
    <2> HIDE DEF pack
    <2>3. NewBlock(m, b, s)
            = coalesce([write_tags(m, e, s, FALSE) EXCEPT ![e + s] = 1], e)
      <3>1. b - 1 = e
        BY <2>2
      <3> QED
        BY <2>1, <3>1, Zenon DEF NewBlock
    <2> QED
      BY <1>3, <1>6, <2>2, <2>3
  <1>11. PICK T1, s1 : Grown(T, sz, e, s, T1, s1)
    BY DEF Grown
  <1>12. Tiling(T1, s1, e + s)
    BY <1>1, <1>11, Grow
  <1>13. T1 = T \cup {e} /\ s1[e] = s /\ \A x \in T : s1[x] = sz[x]
    BY <1>2, <1>11 DEF Grown
  <1>14. ASSUME NEW x \in T
         PROVE  /\ TagsAt(v, x, s1[x], A)
                /\ \A a \in x..(x + sz[x] - 1) : v[a] = m[a]
    <2>1. x \in Nat /\ 1 <= x /\ sz[x] \in Nat /\ sz[x] >= 4 /\ x + sz[x] <= e
      BY <1>1, Extents
    <2>2. /\ \A a \in x..(x + sz[x] - 1) : a \in 0..(Limit - 1) /\ a < e
          /\ x \in x..(x + sz[x] - 1) /\ x + sz[x] - 1 \in x..(x + sz[x] - 1)
      BY <1>2, <1>4, <2>1
    <2>3. \A a \in x..(x + sz[x] - 1) : v[a] = m[a]
      BY <1>9, <2>2
    <2>4. TagsAt(m, x, sz[x], A)
      BY <1>1 DEF Tagged
    <2>5. TagsAt(v, x, sz[x], A)
      BY <2>2, <2>3, <2>4 DEF TagsAt
    <2> QED
      BY <1>13, <2>3, <2>5
  <1>15. TagsAt(v, e, s1[e], A)
    BY <1>2, <1>8, <1>13 DEF TagsAt, Tag
  <1>16. Tagged(T1, s1, A, e + s, v)
    BY <1>8, <1>13, <1>14, <1>15 DEF Tagged
  <1>17. Shape(T1, s1, A, e + s, v) /\ e \in T1
    BY <1>1, <1>8, <1>12, <1>13, <1>16 DEF Shape
  <1>18. SpacedBut(T1, s1, A, e + s, e)
    BY <1>13 DEF Spaced, SpacedBut
  <1>19. PICK T2, s2, f, m2 :
            /\ coalesce(v, e) = <<m2, f>>
            /\ Shape(T2, s2, A, e + s, m2) /\ Spaced(T2, s2, A, e + s)
            /\ f \in T2 /\ f \notin A /\ s2[f] >= s1[e]
            /\ Untouched(A, T2, s1, s2, v, m2)
    BY <1>2, <1>17, <1>18, CoalesceEffect
  <1>20. Untouched(A, T1, sz, s1, m, v)
    BY <1>1, <1>13, <1>14 DEF Untouched
  <1>21. Untouched(A, T2, sz, s2, m, m2)
    BY <1>19, <1>20, UntouchedTwice
  <1> QED
    BY <1>10, <1>13, <1>19, <1>21

(* A free block is split if the rest is large enough, and allocated. *)
LEMMA PlaceEffect ==
  ASSUME NEW T, NEW sz, NEW A, NEW e, NEW m, Shape(T, sz, A, e, m),
         Spaced(T, sz, A, e), NEW b \in T, b \notin A,
         NEW s \in Nat, s >= 4, Even(s), s <= sz[b]
  PROVE  \E T2, s2 : /\ Shape(T2, s2, A \cup {b}, e, place(m, b, s))
                     /\ Spaced(T2, s2, A \cup {b}, e)
                     /\ b \in T2 /\ s2[b] >= s
                     /\ Untouched(A, T2, sz, s2, m, place(m, b, s))
  <1>1. /\ Tiling(T, sz, e) /\ A \subseteq T /\ Tagged(T, sz, A, e, m)
        /\ m[0] = 1 /\ m[e] = 1 /\ m \in Memory /\ e < Limit
    BY DEF Shape, Tagged
  <1>2. /\ b \in Nat /\ sz[b] \in Nat /\ sz[b] >= 4 /\ b + sz[b] <= e /\ e \in Nat
        /\ 1 <= b /\ Even(sz[b])
    BY <1>1, Extents
  <1>3. get_size(m, b) = sz[b]
    BY <1>1, Reads
  <1>4. PICK B : B = A \cup {b}
    OBVIOUS
  <1>5. PICK v : v = place(m, b, s)
    OBVIOUS
  <1>6. Limit \in Nat /\ b + sz[b] <= Limit
    BY <1>1, <1>2, HeapAssumption
  <1>7. \A x \in T \ {b} : TagsAt(m, x, sz[x], B)
    BY <1>1, <1>4 DEF Tagged, TagsAt, Tag
  <1>8. CASE sz[b] - s >= 4
    <2>1. PICK c, T2, s2 : HasCut(T, sz, b, s, c, T2, s2)
      BY DEF HasCut
    <2>2. Tiling(T2, s2, e) /\ c \notin T
      BY <1>1, <1>8, <2>1, Cut
    <2>3. /\ c = b + s /\ T2 = T \cup {c} /\ s2[b] = s /\ s2[c] = sz[b] - s
          /\ \A x \in T : x # b => s2[x] = sz[x]
      BY <1>2, <2>1, <2>2 DEF HasCut
    <2>4. PICK w : w = write_tags(m, b, s, TRUE) /\ TwoWritten(m, b, s, s + 1, w)
      BY DEF write_tags, pack, TwoWritten
    <2>5. PICK r \in Nat : r = sz[b] - s
      BY <1>2, <1>8
    <2>6. v = write_tags(w, c, r, FALSE)
      BY <1>3, <1>5, <1>8, <2>3, <2>4, <2>5 DEF place, min_block_size
    <2>7. TwoWritten(w, c, r, r, v)
      BY <2>6 DEF write_tags, pack, TwoWritten
    <2>8. /\ b + s <= Limit /\ s + 1 \in Int /\ c + r <= Limit /\ r >= 4 /\ c \in Nat
          /\ r \in Int /\ c + r = b + sz[b]
      BY <1>2, <1>6, <1>8, <2>3, <2>5
    <2>9. /\ w \in Memory /\ w[b] = s + 1 /\ w[b + s - 1] = s + 1
          /\ \A a \in 0..(Limit - 1) : a # b /\ a # b + s - 1 => w[a] = m[a]
      <3>1. WriteReady(m, b, s, s + 1)
        BY <1>1, <1>2, <2>8 DEF WriteReady
      <3>2. TwoWritten(m, b, s, s + 1, w)
        BY <2>4
      <3> QED
        BY <3>1, <3>2, WriteTagsFacts
    <2>10. /\ v \in Memory /\ v[c] = r /\ v[c + r - 1] = r
           /\ \A a \in 0..(Limit - 1) : a # c /\ a # c + r - 1 => v[a] = w[a]
      <3>1. WriteReady(w, c, r, r)
        BY <2>8, <2>9 DEF WriteReady
      <3> QED
        BY <2>7, <3>1, WriteTagsFacts
    <2>11. v[b] = s + 1 /\ v[b + s - 1] = s + 1
      <3>1. /\ b \in 0..(Limit - 1) /\ b + s - 1 \in 0..(Limit - 1)
            /\ b # c /\ b # c + r - 1 /\ b + s - 1 # c /\ b + s - 1 # c + r - 1
        BY <1>2, <1>6, <2>3, <2>8
      <3> QED
        BY <2>9, <2>10, <3>1
    <2>12. Outside(m, v, b, sz[b])
      <3>1. SUFFICES ASSUME NEW a \in 0..(Limit - 1), ~(b <= a /\ a < b + sz[b])
                     PROVE  v[a] = m[a]
        BY DEF Outside
      <3>2. a # b /\ a # b + s - 1 /\ a # c /\ a # c + r - 1
        BY <1>2, <1>6, <2>3, <2>8, <3>1
      <3> QED
        BY <2>9, <2>10, <3>2
    <2>13. TagsAt(v, b, s2[b], B) /\ TagsAt(v, c, s2[c], B)
      <3>1. c \notin B /\ b \in B
        BY <1>1, <1>4, <2>2
      <3> QED
        BY <2>3, <2>5, <2>10, <2>11, <3>1 DEF TagsAt, Tag
    <2>14. ASSUME NEW x \in T, x # b
           PROVE  /\ TagsAt(v, x, sz[x], B) /\ s2[x] = sz[x]
                  /\ \A a \in x..(x + sz[x] - 1) : v[a] = m[a]
      <3>1. /\ x \in Nat /\ 1 <= x /\ sz[x] \in Nat /\ sz[x] >= 4 /\ x + sz[x] <= e
            /\ b + sz[b] <= x \/ x + sz[x] <= b
        BY <1>1, <2>14, Extents
      <3>2. /\ \A a \in x..(x + sz[x] - 1) : /\ a \in 0..(Limit - 1)
                                             /\ ~(b <= a /\ a < b + sz[b])
            /\ x \in x..(x + sz[x] - 1) /\ x + sz[x] - 1 \in x..(x + sz[x] - 1)
        BY <1>1, <1>2, <1>6, <3>1
      <3>3. \A a \in x..(x + sz[x] - 1) : v[a] = m[a]
        BY <2>12, <3>2 DEF Outside
      <3>4. TagsAt(v, x, sz[x], B)
        BY <1>7, <2>14, <3>2, <3>3 DEF TagsAt
      <3> QED
        BY <2>3, <2>14, <3>3, <3>4
    <2>15. v[0] = 1 /\ v[e] = 1
      <3>1. 0 \in 0..(Limit - 1) /\ e \in 0..(Limit - 1)
        BY <1>1, <1>2, <1>6
      <3> QED
        BY <1>1, <1>2, <2>12, <3>1 DEF Outside
    <2>16. Tagged(T2, s2, B, e, v)
      <3>1. ASSUME NEW x \in T2 PROVE TagsAt(v, x, s2[x], B)
        BY <2>3, <2>13, <2>14
      <3> QED
        BY <2>15, <3>1 DEF Tagged
    <2>17. Spaced(T2, s2, B, e)
      <3>1. SUFFICES ASSUME NEW x \in T2, x \notin B PROVE x + s2[x] \in B \cup {e}
        BY DEF Spaced
      <3>2. CASE x = c
        <4>1. b + sz[b] \in A \cup {e}
          BY DEF Spaced
        <4> QED
          BY <1>4, <2>3, <2>5, <2>8, <3>2, <4>1
      <3>3. CASE x # c
        <4>1. x \in T /\ x \notin A /\ x # b
          BY <1>4, <2>3, <3>1, <3>3
        <4>2. x + sz[x] \in A \cup {e}
          BY <4>1 DEF Spaced
        <4> QED
          BY <1>4, <2>3, <4>1, <4>2
      <3> QED
        BY <3>2, <3>3
    <2>18. Untouched(A, T2, sz, s2, m, v)
      <3>1. \A x \in A : x \in T /\ x # b /\ x \in T2
        BY <1>1, <2>3
      <3> QED
        BY <2>14, <3>1 DEF Untouched
    <2>19. Shape(T2, s2, B, e, v) /\ b \in T2 /\ s2[b] >= s
      BY <1>1, <1>4, <2>2, <2>3, <2>10, <2>16 DEF Shape
    <2> QED
      BY <1>4, <1>5, <2>17, <2>18, <2>19
  <1>9. CASE ~(sz[b] - s >= 4)
    <2>1. v = write_tags(m, b, sz[b], TRUE)
      BY <1>3, <1>5, <1>9 DEF place, min_block_size
    <2>2. TwoWritten(m, b, sz[b], sz[b] + 1, v)
      BY <2>1 DEF write_tags, pack, TwoWritten
    <2>3. sz[b] + 1 \in Int
      BY <1>2
    <2>4. /\ v \in Memory /\ v[b] = sz[b] + 1 /\ v[b + sz[b] - 1] = sz[b] + 1
          /\ \A a \in 0..(Limit - 1) : a # b /\ a # b + sz[b] - 1 => v[a] = m[a]
      <3>1. WriteReady(m, b, sz[b], sz[b] + 1)
        BY <1>1, <1>2, <1>6, <2>3 DEF WriteReady
      <3> QED
        BY <2>2, <3>1, WriteTagsFacts
    <2>5. Outside(m, v, b, sz[b])
      BY <1>2, <1>6, <2>4 DEF Outside
    <2>6. TagsAt(v, b, sz[b], B)
      BY <1>4, <2>4 DEF TagsAt, Tag
    <2>7. Tagged(T, sz, B, e, v)
      BY <1>1, <1>7, <2>5, <2>6, Retag
    <2>8. Spaced(T, sz, B, e)
      BY <1>4 DEF Spaced
    <2>9. Untouched(A, T, sz, sz, m, v)
      <3>1. A \in SUBSET T
        BY <1>1
      <3> QED
        BY <1>1, <2>5, <3>1, OthersUntouched
    <2>10. Shape(T, sz, B, e, v)
      BY <1>1, <1>4, <2>4, <2>7 DEF Shape
    <2> QED
      BY <1>4, <1>5, <2>8, <2>9, <2>10
  <1> QED
    BY <1>8, <1>9

-----------------------------------------------------------------------------
(* The walk from heap_listp visits every block and the epilogue. *)
LEMMA LeastOf ==
  ASSUME NEW S \in SUBSET Nat, S # {}
  PROVE  \E x \in S : \A y \in S : x <= y
  <1> DEFINE R == {p \in Nat \X Nat : p[1] < p[2]}
  <1>1. IsWellFoundedOn(R, Nat)
    BY NatLessThanWellFounded DEF OpToRel
  <1> HIDE DEF R
  <1>2. PICK x \in S : \A y \in S : <<y, x>> \notin R
    BY <1>1, WFMin
  <1>3. \A y \in S : ~(y < x)
    BY <1>2 DEF R
  <1> QED
    BY <1>3

(* f takes n steps of the walk in m. *)
Walks(f, n, m) ==
  f = [k \in 0..n |-> IF k = 0 THEN heap_listp
                      ELSE IF f[k - 1] \in 1..(mem_brkp - 1) THEN find_next(m, f[k - 1])
                      ELSE f[k - 1]]

(* The walk is defined: there is a function for any number of steps. *)
LEMMA WalkExists ==
  ASSUME NEW m, NEW N \in Nat
  PROVE  \E f : Walks(f, N, m)
  <1>1. PICK Bad : Bad = {n \in Nat : ~\E f : Walks(f, n, m)}
    OBVIOUS
  <1>2. ASSUME Bad # {} PROVE FALSE
    <2>1. PICK n \in Bad : \A k \in Bad : n <= k
      BY <1>1, <1>2, LeastOf
    <2>2. n # 0
      <3>1. PICK f : f = [k \in 0..0 |-> heap_listp]
        OBVIOUS
      <3>2. Walks(f, 0, m)
        BY <3>1 DEF Walks
      <3> QED
        BY <1>1, <3>2
    <2>3. n \in Nat /\ n - 1 \in Nat /\ n - 1 \notin Bad
      BY <1>1, <2>1, <2>2
    <2>4. PICK f : Walks(f, n - 1, m)
      BY <1>1, <2>3
    <2>5. PICK last : last = IF f[n - 1] \in 1..(mem_brkp - 1) THEN find_next(m, f[n - 1])
                             ELSE f[n - 1]
      OBVIOUS
    <2>6. PICK g : g = [k \in 0..n |-> IF k = n THEN last ELSE f[k]]
      OBVIOUS
    <2>7. Walks(g, n, m)
      <3>1. SUFFICES ASSUME NEW k \in 0..n
                     PROVE  g[k] = IF k = 0 THEN heap_listp
                                   ELSE IF g[k - 1] \in 1..(mem_brkp - 1)
                                   THEN find_next(m, g[k - 1])
                                   ELSE g[k - 1]
        BY <2>6 DEF Walks
      <3>2. CASE k = n
        <4>1. g[k] = last /\ k # 0 /\ k - 1 = n - 1 /\ n - 1 \in 0..n /\ n - 1 # n
          BY <2>2, <2>3, <2>6, <3>2
        <4>2. g[k - 1] = f[n - 1]
          BY <2>6, <4>1
        <4> QED
          BY <2>5, <4>1, <4>2
      <3>3. CASE k # n
        <4>1. k \in 0..(n - 1) /\ g[k] = f[k]
          BY <2>3, <2>6, <3>3
        <4>2. k # 0 => g[k - 1] = f[k - 1]
          BY <2>3, <2>6, <3>3
        <4>3. f[k] = IF k = 0 THEN heap_listp
                     ELSE IF f[k - 1] \in 1..(mem_brkp - 1) THEN find_next(m, f[k - 1])
                     ELSE f[k - 1]
          BY <2>4, <4>1 DEF Walks
        <4> QED
          BY <4>1, <4>2, <4>3
      <3> QED
        BY <3>2, <3>3
    <2> QED
      BY <1>1, <2>3, <2>1, <2>7
  <1> QED
    BY <1>1, <1>2

(* Blocks() is the range of a walk. *)
LEMMA BlocksWalk ==
  ASSUME NEW m
  PROVE  \E f : /\ Walks(f, Limit \div dsize, m)
                /\ Blocks(m) = {f[k] : k \in 0..(Limit \div dsize)}
  <1> DEFINE at[k \in 0..(Limit \div dsize)] ==
               IF k = 0 THEN heap_listp
               ELSE IF at[k - 1] \in 1..(mem_brkp - 1) THEN find_next(m, at[k - 1])
               ELSE at[k - 1]
  <1>1. Limit \div dsize \in Nat
    BY HeapAssumption DEF dsize
  <1>2. Blocks(m) = {at[k] : k \in 0..(Limit \div dsize)}
    BY Zenon DEF Blocks
  <1> HIDE DEF at
  <1>3. PICK f : Walks(f, Limit \div dsize, m)
    BY <1>1, WalkExists
  <1>4. f = [k \in 0..(Limit \div dsize) |->
               IF k = 0 THEN heap_listp
               ELSE IF f[k - 1] \in 1..(mem_brkp - 1) THEN find_next(m, f[k - 1])
               ELSE f[k - 1]]
    BY <1>3, Zenon DEF Walks
  <1>5. at = [k \in 0..(Limit \div dsize) |->
               IF k = 0 THEN heap_listp
               ELSE IF at[k - 1] \in 1..(mem_brkp - 1) THEN find_next(m, at[k - 1])
               ELSE at[k - 1]]
    BY <1>4, Zenon DEF at
  <1>6. Walks(at, Limit \div dsize, m)
    BY <1>5, Zenon DEF Walks
  <1> QED
    BY <1>2, <1>6

(* In a tiled heap Blocks() is the tiles and the epilogue. *)
LEMMA BlocksAre ==
  ASSUME NEW T, NEW sz, NEW A, NEW e, NEW m, Shape(T, sz, A, e, m),
         heap_listp = 1, mem_brkp - 1 = e
  PROVE  Blocks(m) = T \cup {e}
  <1>1. PICK N : N = Limit \div dsize
    OBVIOUS
  <1>2. PICK f : Walks(f, N, m) /\ Blocks(m) = {f[k] : k \in 0..N}
    BY <1>1, BlocksWalk
  <1>3. Tiling(T, sz, e) /\ Tagged(T, sz, A, e, m) /\ e < Limit /\ m[e] = 1
    BY DEF Shape, Tagged
  <1>4. /\ e \in Nat \ {0} /\ T \subseteq 1..(e - 1) /\ 1 \in T \cup {e}
        /\ \A c \in (T \cup {e}) \ {1} : \E b \in T : b + sz[b] = c
        /\ \A b \in T : b + sz[b] \in T \cup {e}
    BY <1>3 DEF Tiling
  <1>5. \A b \in T : b \in Nat /\ 1 <= b /\ b < e
    BY <1>3, <1>4
  <1>6. N \in Nat /\ 1 + 4 * N > e
    BY <1>1, <1>3, <1>4, HeapAssumption DEF dsize
  <1>7. \A b \in T : find_next(m, b) = b + sz[b]
    BY <1>3, Reads
  <1>8. find_next(m, e) = e
    BY <1>3, <1>4, EdgeFacts DEF find_next, get_size
  <1>9. f[0] = 1
    BY <1>2, <1>6 DEF Walks
  <1>10. ASSUME NEW k \in 0..N, k # 0, f[k - 1] \in T \cup {e}
        PROVE  f[k] = find_next(m, f[k - 1])
    <2>1. f[k - 1] \in 1..(mem_brkp - 1)
      <3>1. f[k - 1] \in 1..e
        <4>1. PICK x \in T \cup {e} : x = f[k - 1]
          BY <1>10
        <4>2. x \in Nat /\ 1 <= x /\ x <= e
          BY <1>4, <1>5
        <4>3. x \in 1..e
          BY <1>4, <4>2
        <4> QED
          BY <4>1, <4>3
      <3> QED
        BY <3>1
    <2>2. f[k] = IF k = 0 THEN heap_listp
                 ELSE IF f[k - 1] \in 1..(mem_brkp - 1) THEN find_next(m, f[k - 1])
                 ELSE f[k - 1]
      BY <1>2 DEF Walks
    <2> QED
      BY <1>10, <2>1, <2>2
  <1>11. \A k \in 0..N : f[k] \in T \cup {e} /\ (f[k] = e \/ f[k] >= 1 + 4 * k)
    <2>1. PICK Bad : Bad = {k \in 0..N : ~(f[k] \in T \cup {e}
                                           /\ (f[k] = e \/ f[k] >= 1 + 4 * k))}
      OBVIOUS
    <2>2. ASSUME Bad # {} PROVE FALSE
      <3>1. Bad \in SUBSET Nat
        BY <1>6, <2>1
      <3>2. PICK k \in Bad : \A j \in Bad : k <= j
        BY <2>2, <3>1, LeastOf
      <3>3. k # 0
        BY <1>4, <1>9, <2>1, <3>2
      <3>4. k \in 0..N /\ k - 1 \in 0..N /\ k - 1 \notin Bad
        BY <1>6, <2>1, <3>2, <3>3
      <3>5. PICK x : x = f[k - 1]
        OBVIOUS
      <3>6. x \in T \cup {e} /\ (x = e \/ x >= 1 + 4 * (k - 1))
        BY <2>1, <3>4, <3>5
      <3>7. f[k] = find_next(m, x)
        BY <1>10, <3>3, <3>4, <3>5, <3>6
      <3>8. CASE x = e
        BY <1>8, <2>1, <3>2, <3>7, <3>8
      <3>9. CASE x # e
        <4>1. x \in T /\ x >= 1 + 4 * (k - 1)
          BY <3>6, <3>9
        <4>2. f[k] = x + sz[x] /\ x + sz[x] \in T \cup {e}
          BY <1>4, <1>7, <3>7, <4>1
        <4>3. x \in Nat /\ sz[x] \in Nat /\ sz[x] >= 4
          BY <1>3, <4>1, Extents
        <4>4. x + sz[x] >= 1 + 4 * k
          BY <1>6, <3>4, <4>1, <4>3
        <4> QED
          BY <2>1, <3>2, <4>2, <4>4
      <3> QED
        BY <3>8, <3>9
    <2> QED
      BY <2>1, <2>2
  <1>12. f[N] = e
    <2>1. N \in 0..N
      BY <1>6
    <2>2. f[N] \in T \cup {e} /\ (f[N] = e \/ f[N] >= 1 + 4 * N)
      BY <1>11, <2>1
    <2>3. PICK x \in T \cup {e} : x = f[N]
      BY <2>2
    <2>4. x \in T => x \in Nat /\ x < e
      BY <1>5
    <2>5. x = e \/ x >= 1 + 4 * N
      BY <2>2, <2>3
    <2>6. x \in T => FALSE
      BY <1>4, <1>6, <2>4, <2>5
    <2> QED
      BY <2>3, <2>6
  <1>13. \A c \in T : \E k \in 0..N : f[k] = c
    <2>1. PICK Bad : Bad = {c \in T : ~\E k \in 0..N : f[k] = c}
      OBVIOUS
    <2>2. ASSUME Bad # {} PROVE FALSE
      <3>1. Bad \in SUBSET Nat
        BY <1>5, <2>1
      <3>2. PICK c \in Bad : \A d \in Bad : c <= d
        BY <2>2, <3>1, LeastOf
      <3>3. c \in T /\ c # 1
        BY <1>6, <1>9, <2>1, <3>2
      <3>4. PICK b \in T : b + sz[b] = c
        BY <1>4, <3>3
      <3>5. b \in Nat /\ sz[b] \in Nat /\ sz[b] >= 4
        BY <1>3, Extents
      <3>6. b < c /\ ~(c <= b)
        BY <3>4, <3>5
      <3>7. b \notin Bad
        BY <3>2, <3>6
      <3>8. PICK k \in 0..N : f[k] = b
        BY <2>1, <3>7
      <3>9. b # e
        BY <1>4
      <3>10. k # N
        BY <1>12, <3>8, <3>9
      <3>11. k + 1 \in 0..N /\ k + 1 # 0 /\ (k + 1) - 1 = k
        BY <1>6, <3>8, <3>10
      <3>12. f[k + 1] = find_next(m, b)
        BY <1>10, <3>8, <3>11
      <3>13. f[k + 1] = c
        BY <1>7, <3>4, <3>12
      <3> QED
        BY <2>1, <3>2, <3>11, <3>13
    <2> QED
      BY <2>1, <2>2
  <1>14. N \in 0..N
    BY <1>6
  <1>15. \A x : x \in Blocks(m) <=> x \in T \cup {e}
    BY <1>2, <1>11, <1>12, <1>13, <1>14
  <1> QED
    BY <1>15

-----------------------------------------------------------------------------
(* A region that is in use, or about to be. *)
Region == {r \in [ptr : Nat \ {0}, size : Nat \ {0}, keep : Nat, fill : Int] :
             r.keep <= r.size}

BlocksOf(O) == {r.ptr - 1 : r \in O}
Holds(m, r) == \A i \in 0..(r.keep - 1) : m[r.ptr + i] = r.fill
Fits(O, sz, m) == \A r \in O : r.size + 2 <= sz[r.ptr - 1] /\ Holds(m, r)

(* The block b, if there is one, is free and has n words. *)
Ready(T, sz, A, b, n) == b # NULL => b \in T \ A /\ n <= sz[b]

(* The memory m up to the epilogue e holds the regions O. *)
Arranged(T, sz, O, m, e, b, n) ==
  /\ Shape(T, sz, BlocksOf(O), e, m) /\ Spaced(T, sz, BlocksOf(O), e)
  /\ Fits(O, sz, m) /\ Ready(T, sz, BlocksOf(O), b, n)
Apart(O) == \A r, q \in O : r.ptr = q.ptr => r = q
Sound(O, m, e, b, n) ==
  /\ O \subseteq Region /\ Apart(O)
  /\ \E T, sz : Arranged(T, sz, O, m, e, b, n)

(* The fields of a region. *)
LEMMA RegionFacts ==
  ASSUME NEW r \in Region
  PROVE  /\ r.ptr \in Nat /\ r.ptr # 0 /\ r.ptr - 1 \in Nat /\ (r.ptr - 1) + 1 = r.ptr
         /\ r.size \in Nat /\ r.size # 0 /\ r.keep \in Nat /\ r.fill \in Int
         /\ r.keep <= r.size /\ r # NoRegion
  <1>1. /\ r.ptr \in Nat /\ r.ptr # 0 /\ r.size \in Nat /\ r.size # 0
        /\ r.keep \in Nat /\ r.fill \in Int /\ r.keep <= r.size
    BY DEF Region
  <1>2. r # NoRegion
    BY <1>1 DEF NoRegion, NULL
  <1> QED
    BY <1>1, <1>2

(* Where a region lies in its block. *)
LEMMA RegionExtent ==
  ASSUME NEW O, NEW m, NEW e, NEW b, NEW n, NEW T, NEW sz, O \subseteq Region,
         Arranged(T, sz, O, m, e, b, n), NEW r \in O
  PROVE  /\ r.ptr - 1 \in T /\ r.ptr - 1 \in BlocksOf(O)
         /\ sz[r.ptr - 1] \in Nat /\ r.size + 2 <= sz[r.ptr - 1]
         /\ (r.ptr - 1) + sz[r.ptr - 1] <= e /\ e < Limit /\ e \in Nat
         /\ Holds(m, r) /\ m \in Memory
  <1>1. /\ BlocksOf(O) \subseteq T /\ Tiling(T, sz, e) /\ e < Limit /\ Fits(O, sz, m)
        /\ m \in Memory
    BY DEF Arranged, Shape
  <1>2. r.ptr - 1 \in BlocksOf(O)
    BY DEF BlocksOf
  <1>3. r.ptr - 1 \in T
    BY <1>1, <1>2
  <1>4. PICK c : c = r.ptr - 1
    OBVIOUS
  <1>5. c \in T
    BY <1>3, <1>4
  <1>6. sz[c] \in Nat /\ c + sz[c] <= e /\ e \in Nat
    BY <1>1, <1>5, Extents
  <1>7. r.size + 2 <= sz[r.ptr - 1] /\ Holds(m, r)
    BY <1>1 DEF Fits
  <1> QED
    BY <1>1, <1>2, <1>3, <1>4, <1>6, <1>7

(* Regions in blocks that are left alone stay what they are. *)
LEMMA StillFits ==
  ASSUME NEW O, NEW m, NEW e, NEW b, NEW n, NEW T, NEW sz, O \subseteq Region,
         Arranged(T, sz, O, m, e, b, n), NEW S, S \subseteq O,
         NEW T2, NEW s2, NEW m2, Untouched(BlocksOf(S), T2, sz, s2, m, m2)
  PROVE  Fits(S, s2, m2)
  <1>1. SUFFICES ASSUME NEW r \in S
                 PROVE  r.size + 2 <= s2[r.ptr - 1] /\ Holds(m2, r)
    BY DEF Fits
  <1>2. /\ sz[r.ptr - 1] \in Nat /\ r.size + 2 <= sz[r.ptr - 1] /\ Holds(m, r)
    BY RegionExtent
  <1>3. r \in Region
    OBVIOUS
  <1>4. r.ptr \in Nat /\ r.ptr - 1 \in Nat /\ r.keep \in Nat /\ r.size \in Nat
        /\ r.keep <= r.size
    BY <1>3, RegionFacts
  <1>5. PICK c : c = r.ptr - 1
    OBVIOUS
  <1>6. c \in BlocksOf(S)
    BY <1>5 DEF BlocksOf
  <1>7. s2[c] = sz[c] /\ \A a \in c..(c + sz[c] - 1) : m2[a] = m[a]
    BY <1>6 DEF Untouched
  <1>8. ASSUME NEW i \in 0..(r.keep - 1) PROVE m2[r.ptr + i] = r.fill
    <2>1. r.ptr + i \in c..(c + sz[c] - 1)
      BY <1>2, <1>4, <1>5
    <2>2. m[r.ptr + i] = r.fill
      BY <1>2 DEF Holds
    <2> QED
      BY <1>7, <2>1, <2>2
  <1> QED
    BY <1>2, <1>5, <1>7, <1>8 DEF Holds

(* _free() of a region. *)
LEMMA SoundFree ==
  ASSUME NEW O, NEW m, NEW e, NEW b, NEW n, Sound(O, m, e, b, n), NEW r \in O,
         NEW c, c = r.ptr - 1, NEW k
  PROVE  Sound(O \ {r}, coalesce(write_tags(m, c, get_size(m, c), FALSE), c)[1],
               e, NULL, k)
  <1>1. PICK T, sz : Arranged(T, sz, O, m, e, b, n)
    BY DEF Sound
  <1>2. O \subseteq Region /\ Apart(O)
    BY DEF Sound
  <1>3. PICK A : A = BlocksOf(O)
    OBVIOUS
  <1>4. Shape(T, sz, A, e, m) /\ Spaced(T, sz, A, e)
    BY <1>1, <1>3 DEF Arranged
  <1>5. c \in A /\ c \in T
    BY <1>1, <1>2, <1>3, RegionExtent
  <1>6. get_size(m, c) = sz[c]
    BY <1>4, <1>5, Reads DEF Shape
  <1>7. PICK w : w = write_tags(m, c, sz[c], FALSE)
    OBVIOUS
  <1>8. TwoWritten(m, c, sz[c], sz[c], w)
    BY <1>7 DEF write_tags, pack, TwoWritten
  <1>9. PICK T2, s2, f, m2 :
            /\ coalesce(w, c) = <<m2, f>>
            /\ Shape(T2, s2, A \ {c}, e, m2) /\ Spaced(T2, s2, A \ {c}, e)
            /\ Untouched(A \ {c}, T2, sz, s2, m, m2)
    BY <1>4, <1>5, <1>8, FreeEffect
  <1>10. PICK S : S = O \ {r}
    OBVIOUS
  <1>11. BlocksOf(S) = A \ {c}
    <2>1. ASSUME NEW q \in O, q.ptr - 1 = c PROVE q = r
      <3>1. q.ptr \in Nat /\ r.ptr \in Nat
        BY <1>2, RegionFacts
      <3>2. q.ptr = r.ptr
        BY <2>1, <3>1
      <3> QED
        BY <1>2, <3>2 DEF Apart
    <2> QED
      BY <1>3, <1>10, <2>1 DEF BlocksOf
  <1>12. S \subseteq O
    BY <1>10
  <1>13. Untouched(BlocksOf(S), T2, sz, s2, m, m2)
    BY <1>9, <1>11
  <1>14. Fits(S, s2, m2)
    BY <1>1, <1>2, <1>12, <1>13, StillFits
  <1>15. Arranged(T2, s2, S, m2, e, NULL, k)
    BY <1>9, <1>11, <1>14 DEF Arranged, Ready
  <1>16. S \subseteq Region /\ Apart(S)
    BY <1>2, <1>12 DEF Apart
  <1>17. Sound(S, m2, e, NULL, k)
    BY <1>15, <1>16 DEF Sound
  <1>18. coalesce(write_tags(m, c, get_size(m, c), FALSE), c)[1] = m2
    <2>1. write_tags(m, c, get_size(m, c), FALSE) = w
      BY <1>6, <1>7
    <2>2. coalesce(w, c)[1] = m2
      BY <1>9
    <2> QED
      BY <2>1, <2>2, Zenon
  <1> QED
    BY <1>10, <1>17, <1>18

(* extend_heap() *)
LEMMA SoundExtend ==
  ASSUME NEW O, NEW m, NEW e, NEW b, NEW n, Sound(O, m, e, b, n),
         NEW s \in Nat, s >= 4, Even(s), e + s < Limit, NEW k \in Nat, k <= s
  PROVE  /\ Sound(O, NewBlock(m, e + 1, s)[1], e + s, NewBlock(m, e + 1, s)[2], k)
         /\ NewBlock(m, e + 1, s)[2] \in Nat \ {0}
  <1>1. PICK T, sz : Arranged(T, sz, O, m, e, b, n)
    BY DEF Sound
  <1>2. O \subseteq Region /\ Apart(O)
    BY DEF Sound
  <1>3. PICK A : A = BlocksOf(O)
    OBVIOUS
  <1>4. Shape(T, sz, A, e, m) /\ Spaced(T, sz, A, e)
    BY <1>1, <1>3 DEF Arranged
  <1>5. PICK T2, s2, f, m2 :
            /\ NewBlock(m, e + 1, s) = <<m2, f>>
            /\ Shape(T2, s2, A, e + s, m2) /\ Spaced(T2, s2, A, e + s)
            /\ f \in T2 /\ f \notin A /\ s2[f] >= s
            /\ Untouched(A, T2, sz, s2, m, m2)
    BY <1>4, ExtendEffect
  <1>6. Fits(O, s2, m2)
    BY <1>1, <1>2, <1>3, <1>5, StillFits
  <1>7. f \in Nat /\ 1 <= f /\ s2[f] \in Nat
    BY <1>5, Extents DEF Shape
  <1>8. k <= s2[f]
    BY <1>5, <1>7
  <1>9. Arranged(T2, s2, O, m2, e + s, f, k)
    BY <1>3, <1>5, <1>6, <1>8 DEF Arranged, Ready
  <1>10. Sound(O, m2, e + s, f, k)
    BY <1>2, <1>9 DEF Sound
  <1>11. NewBlock(m, e + 1, s)[1] = m2 /\ NewBlock(m, e + 1, s)[2] = f
    BY <1>5
  <1> QED
    BY <1>7, <1>10, <1>11

(* place() *)
LEMMA SoundPlace ==
  ASSUME NEW O, NEW m, NEW e, NEW b, NEW n \in Nat, Sound(O, m, e, b, n), b # NULL,
         n >= 4, Even(n), NEW r \in Region, r.ptr = b + 1, r.size + 2 <= n,
         r.keep = 0, NEW k
  PROVE  /\ Sound(O \cup {r}, place(m, b, n), e, NULL, k)
         /\ \A q \in O : q.ptr # r.ptr
  <1>1. PICK T, sz : Arranged(T, sz, O, m, e, b, n)
    BY DEF Sound
  <1>2. O \subseteq Region /\ Apart(O)
    BY DEF Sound
  <1>3. PICK A : A = BlocksOf(O)
    OBVIOUS
  <1>4. /\ Shape(T, sz, A, e, m) /\ Spaced(T, sz, A, e)
        /\ b \in T /\ b \notin A /\ n <= sz[b]
    BY <1>1, <1>3 DEF Arranged, Ready
  <1>5. b \in Nat
    BY <1>4, Extents DEF Shape
  <1>6. PICK T2, s2 : /\ Shape(T2, s2, A \cup {b}, e, place(m, b, n))
                      /\ Spaced(T2, s2, A \cup {b}, e)
                      /\ b \in T2 /\ s2[b] >= n
                      /\ Untouched(A, T2, sz, s2, m, place(m, b, n))
    BY <1>4, PlaceEffect
  <1>7. PICK m2 : m2 = place(m, b, n)
    OBVIOUS
  <1>8. Fits(O, s2, m2)
    <2>1. Untouched(BlocksOf(O), T2, sz, s2, m, m2)
      BY <1>3, <1>6, <1>7
    <2> QED
      BY <1>1, <1>2, <2>1, StillFits
  <1>9. r.ptr - 1 = b /\ r.size \in Nat
    BY <1>5, RegionFacts
  <1>10. s2[b] \in Nat
    BY <1>6, Extents DEF Shape
  <1>11. r.size + 2 <= s2[r.ptr - 1] /\ Holds(m2, r)
    <2>1. r.size + 2 <= s2[b]
      BY <1>6, <1>9, <1>10
    <2>2. 0..(r.keep - 1) = {}
      OBVIOUS
    <2>3. Holds(m2, r)
      BY <2>2 DEF Holds
    <2> QED
      BY <1>9, <2>1, <2>3
  <1>12. PICK S : S = O \cup {r}
    OBVIOUS
  <1>13. Fits(S, s2, m2)
    BY <1>8, <1>11, <1>12 DEF Fits
  <1>14. BlocksOf(S) = A \cup {b}
    BY <1>3, <1>9, <1>12 DEF BlocksOf
  <1>15. \A q \in O : q.ptr # r.ptr
    <2>1. \A q \in O : q.ptr - 1 # b
      BY <1>3, <1>4 DEF BlocksOf
    <2> QED
      BY <1>9, <2>1
  <1>16. S \subseteq Region /\ Apart(S)
    BY <1>2, <1>12, <1>15 DEF Apart
  <1>17. Arranged(T2, s2, S, m2, e, NULL, k)
    BY <1>6, <1>7, <1>13, <1>14 DEF Arranged, Ready
  <1>18. Sound(S, m2, e, NULL, k)
    BY <1>16, <1>17 DEF Sound
  <1> QED
    BY <1>7, <1>12, <1>15, <1>18

(* A write to a region, by its owner, memset() or memcpy(). *)
LEMMA SoundRewrite ==
  ASSUME NEW O, NEW m, NEW e, NEW b, NEW n, Sound(O, m, e, b, n), NEW r \in O,
         NEW q \in Region, q.ptr = r.ptr, q.size = r.size, NEW m2 \in Memory,
         Outside(m, m2, r.ptr, r.size), Holds(m2, q)
  PROVE  Sound((O \ {r}) \cup {q}, m2, e, b, n)
  <1>1. PICK T, sz : Arranged(T, sz, O, m, e, b, n)
    BY DEF Sound
  <1>2. O \subseteq Region /\ Apart(O)
    BY DEF Sound
  <1>3. PICK A : A = BlocksOf(O)
    OBVIOUS
  <1>4. /\ Tiling(T, sz, e) /\ A \subseteq T /\ e < Limit /\ Tagged(T, sz, A, e, m)
        /\ Spaced(T, sz, A, e) /\ Ready(T, sz, A, b, n) /\ Fits(O, sz, m)
    BY <1>1, <1>3 DEF Arranged, Shape
  <1>5. PICK c : c = r.ptr - 1
    OBVIOUS
  <1>6. /\ c \in T /\ sz[c] \in Nat /\ r.size + 2 <= sz[c] /\ c + sz[c] <= e
        /\ e \in Nat
    BY <1>1, <1>2, <1>5, RegionExtent
  <1>7. c \in Nat /\ r.ptr = c + 1 /\ r.size \in Nat /\ r.ptr \in Nat /\ 1 <= c
    <2>1. r \in Region
      BY <1>2
    <2>2. c \in Nat /\ 1 <= c
      BY <1>4, <1>6, Extents
    <2> QED
      BY <1>5, <2>1, <2>2, RegionFacts
  <1>8. Limit \in Nat /\ e \in Nat
    BY <1>6, HeapAssumption
  <1>9. ASSUME NEW a \in 0..(Limit - 1), a <= c \/ c + r.size < a
        PROVE  m2[a] = m[a]
    <2>1. ~(r.ptr <= a /\ a < r.ptr + r.size)
      BY <1>7, <1>8, <1>9
    <2> QED
      BY <2>1 DEF Outside
  <1>10. m2[0] = 1 /\ m2[e] = 1
    <2>1. 0 \in 0..(Limit - 1) /\ e \in 0..(Limit - 1) /\ 0 <= c /\ c + r.size < e
      BY <1>4, <1>6, <1>7, <1>8
    <2> QED
      BY <1>4, <1>9, <2>1 DEF Tagged
  <1>11. ASSUME NEW x \in T PROVE TagsAt(m2, x, sz[x], A)
    <2>1. /\ x \in Nat /\ sz[x] \in Nat /\ 1 <= x /\ sz[x] >= 4 /\ x + sz[x] <= e
          /\ c # x => c + sz[c] <= x \/ x + sz[x] <= c
      BY <1>4, <1>6, Extents
    <2>2. PICK y : y = x + sz[x] - 1
      OBVIOUS
    <2>3. /\ x \in 0..(Limit - 1) /\ y \in 0..(Limit - 1)
          /\ x <= c \/ c + r.size < x
          /\ y <= c \/ c + r.size < y
      <3>1. CASE x = c
        BY <1>4, <1>6, <1>7, <1>8, <2>1, <2>2, <3>1
      <3>2. CASE x # c
        BY <1>4, <1>6, <1>7, <1>8, <2>1, <2>2, <3>2
      <3> QED
        BY <3>1, <3>2
    <2>4. m2[x] = m[x] /\ m2[y] = m[y]
      BY <1>9, <2>3
    <2>5. TagsAt(m, x, sz[x], A)
      BY <1>4 DEF Tagged
    <2> QED
      BY <2>2, <2>4, <2>5 DEF TagsAt
  <1>12. Shape(T, sz, A, e, m2)
    BY <1>4, <1>10, <1>11 DEF Shape, Tagged
  <1>13. PICK S : S = (O \ {r}) \cup {q}
    OBVIOUS
  <1>14. BlocksOf(S) = A
    BY <1>3, <1>13 DEF BlocksOf
  <1>15. S \subseteq Region /\ Apart(S)
    BY <1>2, <1>13 DEF Apart
  <1>16. ASSUME NEW p \in O, p # r
         PROVE  p.size + 2 <= sz[p.ptr - 1] /\ Holds(m2, p)
    <2>1. p.size + 2 <= sz[p.ptr - 1] /\ Holds(m, p)
      BY <1>4 DEF Fits
    <2>2. PICK d : d = p.ptr - 1
      OBVIOUS
    <2>3. p.ptr \in Nat /\ p.ptr = d + 1 /\ d \in Nat /\ p.keep \in Nat
          /\ p.size \in Nat /\ p.keep <= p.size
      BY <1>2, <2>2, RegionFacts
    <2>4. d # c
      <3>1. p.ptr # r.ptr
        BY <1>2, <1>16 DEF Apart
      <3> QED
        BY <1>7, <2>3, <3>1
    <2>5. d \in T /\ d + sz[d] <= e /\ sz[d] \in Nat
      BY <1>1, <1>2, <2>2, RegionExtent
    <2>6. c + sz[c] <= d \/ d + sz[d] <= c
      BY <1>4, <1>6, <2>4, <2>5, Extents
    <2>7. ASSUME NEW i \in 0..(p.keep - 1) PROVE m2[p.ptr + i] = p.fill
      <3>1. PICK a : a = p.ptr + i
        OBVIOUS
      <3>2. p.size + 2 <= sz[d]
        BY <2>1, <2>2
      <3>3. a \in 0..(Limit - 1) /\ (a <= c \/ c + r.size < a)
        BY <1>4, <1>6, <1>7, <1>8, <2>3, <2>5, <2>6, <3>1, <3>2
      <3>4. m[a] = p.fill
        BY <2>1, <3>1 DEF Holds
      <3> QED
        BY <1>9, <3>1, <3>3, <3>4
    <2> QED
      BY <2>1, <2>7 DEF Holds
  <1>17. q.size + 2 <= sz[q.ptr - 1]
    BY <1>5, <1>6
  <1>18. Fits(S, sz, m2)
    BY <1>13, <1>16, <1>17 DEF Fits
  <1>19. Arranged(T, sz, S, m2, e, b, n)
    BY <1>4, <1>12, <1>14, <1>18 DEF Arranged
  <1>20. Sound(S, m2, e, b, n)
    BY <1>15, <1>19 DEF Sound
  <1> QED
    BY <1>13, <1>20

(* find_fit() *)
LEMMA SoundFind ==
  ASSUME NEW O, NEW m, NEW e, NEW b, NEW n, Sound(O, m, e, b, n),
         heap_listp = 1, mem_brkp - 1 = e, NEW k
  PROVE  find_fit(m, k) \in Nat /\ Sound(O, m, e, find_fit(m, k), k)
  <1>1. PICK T, sz : Arranged(T, sz, O, m, e, b, n)
    BY DEF Sound
  <1>2. PICK A : A = BlocksOf(O)
    OBVIOUS
  <1>3. /\ Shape(T, sz, A, e, m) /\ Tiling(T, sz, e) /\ Tagged(T, sz, A, e, m)
        /\ m[e] = 1
    BY <1>1, <1>2 DEF Arranged, Shape, Tagged
  <1>4. Blocks(m) = T \cup {e}
    BY <1>3, BlocksAre
  <1>5. \A x \in T : get_size(m, x) = sz[x] /\ (get_alloc(m, x) <=> x \in A) /\ x \in Nat
    BY <1>3, Reads, Extents
  <1>6. get_alloc(m, e)
    BY <1>3, EdgeFacts DEF get_alloc
  <1>7. PICK fits : fits = {x \in Blocks(m) : /\ get_size(m, x) > 0 /\ ~get_alloc(m, x)
                                              /\ k <= get_size(m, x)}
    OBVIOUS
  <1>8. find_fit(m, k) = IF fits = {} THEN NULL ELSE CHOOSE x \in fits : \A y \in fits : x <= y
    BY <1>7 DEF find_fit
  <1>9. \A x \in fits : x \in T /\ x \notin A /\ k <= sz[x] /\ x \in Nat
    BY <1>4, <1>5, <1>6, <1>7
  <1>10. find_fit(m, k) = NULL \/ find_fit(m, k) \in fits
    <2>1. fits # {} => \E x \in fits : \A y \in fits : x <= y
      BY <1>9, LeastOf
    <2> QED
      BY <1>8, <2>1
  <1>11. PICK f : f = find_fit(m, k)
    OBVIOUS
  <1>12. f \in Nat /\ (f # NULL => f \in T \ A /\ k <= sz[f])
    BY <1>9, <1>10, <1>11 DEF NULL
  <1>13. Arranged(T, sz, O, m, e, f, k)
    BY <1>1, <1>2, <1>12 DEF Arranged, Ready
  <1>14. Sound(O, m, e, f, k)
    BY <1>13 DEF Sound
  <1> QED
    BY <1>11, <1>12, <1>14

(* The assertions of mm_checkheap() hold. *)
LEMMA SoundCheck ==
  ASSUME NEW O, NEW m, NEW e, NEW b, NEW n, Sound(O, m, e, b, n), heap_listp = 1
  PROVE  mm_checkheap(m)
  <1>1. PICK T, sz : Arranged(T, sz, O, m, e, b, n)
    BY DEF Sound
  <1>2. PICK A : A = BlocksOf(O)
    OBVIOUS
  <1>3. /\ Tiling(T, sz, e) /\ Tagged(T, sz, A, e, m) /\ m[e] = 1 /\ m[0] = 1
        /\ 1 \in T \cup {e}
    BY <1>1, <1>2 DEF Arranged, Shape, Tagged, Tiling
  <1>4. m[find_prev_footer(heap_listp)] = pack(0, TRUE)
    BY <1>3 DEF find_prev_footer, pack
  <1>5. CASE 1 \in T
    <2>1. m[1] = Tag(sz[1], 1, A) /\ m[1 + sz[1] - 1] = Tag(sz[1], 1, A)
          /\ find_next(m, 1) = 1 + sz[1]
      BY <1>3, <1>5, Reads
    <2>2. m[heap_listp] = m[find_prev_footer(find_next(m, heap_listp))]
      <3>1. m[1] = m[find_prev_footer(find_next(m, 1))]
        <4>1. sz[1] \in Nat
          BY <1>3, <1>5, Extents
        <4>2. find_prev_footer(find_next(m, 1)) = 1 + sz[1] - 1
          BY <2>1, <4>1 DEF find_prev_footer
        <4> QED
          BY <2>1, <4>2, Zenon
      <3> QED
        BY <3>1
    <2> QED
      BY <1>4, <2>2 DEF mm_checkheap
  <1>6. CASE 1 = e
    <2>1. get_size(m, heap_listp) = 0
      BY <1>3, <1>6, EdgeFacts DEF get_size
    <2> QED
      BY <1>4, <2>1 DEF mm_checkheap
  <1> QED
    BY <1>3, <1>5, <1>6

(* What HeapTiles says of the blocks. *)
Tiled(m, O) ==
  LET epilogue == mem_brkp - 1
      tiles == Blocks(m) \ {epilogue}
  IN /\ epilogue \in Blocks(m) /\ m[epilogue] = pack(0, TRUE)
     /\ \A b \in tiles :
          /\ b \in 1..(epilogue - 1)
          /\ find_next(m, b) \in tiles \cup {epilogue}
          /\ get_size(m, b) >= min_block_size
          /\ m[b] = m[find_next(m, b) - 1]
          /\ get_alloc(m, b) \/ get_alloc(m, find_next(m, b))
     /\ {b + 1 : b \in {c \in tiles : get_alloc(m, c)}} = {r.ptr : r \in O}

(* A heap that holds the regions O is tiled. *)
LEMMA SoundTiled ==
  ASSUME NEW O, NEW m, NEW e, NEW b, NEW n, Sound(O, m, e, b, n),
         heap_listp = 1, mem_brkp - 1 = e
  PROVE  Tiled(m, O)
  <1>1. PICK T, sz : Arranged(T, sz, O, m, e, b, n)
    BY DEF Sound
  <1>2. O \subseteq Region
    BY DEF Sound
  <1>3. PICK A : A = BlocksOf(O)
    OBVIOUS
  <1>4. /\ Shape(T, sz, A, e, m) /\ Tiling(T, sz, e) /\ Tagged(T, sz, A, e, m)
        /\ m[e] = 1 /\ Spaced(T, sz, A, e) /\ A \subseteq T
    BY <1>1, <1>3 DEF Arranged, Shape, Tagged
  <1>5. Blocks(m) = T \cup {e}
    BY <1>4, BlocksAre
  <1>6. e \notin T /\ e \in Nat /\ T \subseteq 1..(e - 1)
        /\ \A x \in T : x + sz[x] \in T \cup {e}
    BY <1>4 DEF Tiling
  <1>7. Blocks(m) \ {e} = T
    BY <1>5, <1>6
  <1>8. \A x \in T : /\ get_size(m, x) = sz[x] /\ (get_alloc(m, x) <=> x \in A)
                     /\ find_next(m, x) = x + sz[x]
                     /\ m[x] = m[x + sz[x] - 1]
    BY <1>4, Reads
  <1>9. get_alloc(m, e)
    BY <1>4, EdgeFacts DEF get_alloc
  <1>10. ASSUME NEW x \in T
         PROVE  /\ x \in 1..(e - 1)
                /\ find_next(m, x) \in T \cup {e}
                /\ get_size(m, x) >= min_block_size
                /\ m[x] = m[find_next(m, x) - 1]
                /\ get_alloc(m, x) \/ get_alloc(m, find_next(m, x))
    <2>1. x \in 1..(e - 1) /\ find_next(m, x) \in T \cup {e}
      BY <1>6, <1>8
    <2>2. get_size(m, x) >= min_block_size
      <3>1. sz[x] >= 4
        BY <1>4, Extents
      <3> QED
        BY <1>8, <3>1 DEF min_block_size
    <2>3. m[x] = m[find_next(m, x) - 1]
      <3>1. x \in Nat /\ sz[x] \in Nat
        BY <1>4, Extents
      <3>2. find_next(m, x) - 1 = x + sz[x] - 1
        BY <1>8, <3>1
      <3> QED
        BY <1>8, <3>2, Zenon
    <2>4. get_alloc(m, x) \/ get_alloc(m, find_next(m, x))
      <3>1. CASE x \in A
        BY <1>8, <3>1
      <3>2. CASE x \notin A
        <4>1. x + sz[x] \in A \cup {e}
          BY <1>4, <3>2 DEF Spaced
        <4>2. get_alloc(m, x + sz[x])
          BY <1>4, <1>8, <1>9, <4>1
        <4> QED
          BY <1>8, <4>2
      <3> QED
        BY <3>1, <3>2
    <2> QED
      BY <2>1, <2>2, <2>3, <2>4
  <1>11. {c \in T : get_alloc(m, c)} = A
    BY <1>4, <1>8
  <1>12. {x + 1 : x \in A} = {r.ptr : r \in O}
    <2>1. \A r \in O : (r.ptr - 1) + 1 = r.ptr
      BY <1>2, RegionFacts
    <2> QED
      BY <1>3, <2>1 DEF BlocksOf
  <1>13. e \in Blocks(m) /\ m[e] = pack(0, TRUE)
    BY <1>4, <1>5 DEF pack
  <1> QED
    BY <1>7, <1>10, <1>11, <1>12, <1>13, Zenon DEF Tiled

(* Regions do not overlap. *)
LEMMA SoundApart ==
  ASSUME NEW O, NEW m, NEW e, NEW b, NEW n, Sound(O, m, e, b, n),
         NEW r \in O, NEW q \in O, r.ptr # q.ptr
  PROVE  Abstract!Words(q) \cap Abstract!Words(r) = {}
  <1>1. PICK T, sz : Arranged(T, sz, O, m, e, b, n)
    BY DEF Sound
  <1>2. O \subseteq Region
    BY DEF Sound
  <1>3. PICK c, d : c = r.ptr - 1 /\ d = q.ptr - 1
    OBVIOUS
  <1>4. c \in T /\ sz[c] \in Nat /\ r.size + 2 <= sz[c]
    BY <1>1, <1>2, <1>3, RegionExtent
  <1>5. d \in T /\ sz[d] \in Nat /\ q.size + 2 <= sz[d]
    BY <1>1, <1>2, <1>3, RegionExtent
  <1>6. /\ r.ptr = c + 1 /\ q.ptr = d + 1 /\ c \in Nat /\ d \in Nat
        /\ r.size \in Nat /\ q.size \in Nat
    BY <1>2, <1>3, RegionFacts
  <1>7. c # d
    BY <1>6
  <1>8. d + sz[d] <= c \/ c + sz[c] <= d
    <2>1. Tiling(T, sz, e)
      BY <1>1 DEF Arranged, Shape
    <2> QED
      BY <1>4, <1>5, <1>7, <2>1, Extents
  <1>9. ASSUME NEW a \in r.ptr .. (r.ptr + r.size - 1),
               a \in q.ptr .. (q.ptr + q.size - 1)
        PROVE  FALSE
    BY <1>4, <1>5, <1>6, <1>8, <1>9
  <1> QED
    BY <1>9 DEF Abstract!Words

-----------------------------------------------------------------------------
(* Sizes: what _malloc() asks the heap for, and what mem_sbrk() gives. *)
Needed(n) == Wrap(round_up(n, dsize) + dsize)

(* Sizes below the modulus do not wrap. *)
LEMMA WrapSmall ==
  ASSUME NEW n \in Nat, n < SizeModulus
  PROVE  Wrap(n) = n
  BY HeapAssumption DEF Wrap

(* The block for n words is even, not too small, and holds them and two    *)
(* tags.                                                                   *)
LEMMA NeededFacts ==
  ASSUME NEW n \in Nat, n # 0, SizeFits(n)
  PROVE  /\ Needed(n) \in Nat /\ Needed(n) >= 4 /\ Even(Needed(n))
         /\ n + 2 <= Needed(n)
  <1>1. SizeModulus \in Nat /\ n + 4 <= SizeModulus
    BY HeapAssumption DEF SizeFits, min_block_size
  <1>2. n + 2 - 1 \in Nat /\ n + 2 - 1 < SizeModulus /\ n + 2 - 1 = n + 1
    BY <1>1
  <1>3. Wrap(n + 2 - 1) = n + 1
    BY <1>2, WrapSmall
  <1>4. PICK k \in Nat : k = (n + 1) \div 2 /\ n <= 2 * k /\ 2 * k <= n + 1
    OBVIOUS
  <1>5. 2 * k \in Nat /\ 2 * k < SizeModulus
    BY <1>1, <1>4
  <1>6. Wrap(2 * k) = 2 * k
    BY <1>5, WrapSmall
  <1>7. round_up(n, dsize) = 2 * k
    BY <1>3, <1>4, <1>6 DEF round_up, dsize
  <1>8. 2 * k + 2 \in Nat /\ 2 * k + 2 < SizeModulus
    BY <1>1, <1>4
  <1>9. Wrap(2 * k + 2) = 2 * k + 2
    BY <1>8, WrapSmall
  <1>10. Needed(n) = 2 * k + 2
    BY <1>7, <1>9 DEF Needed, dsize
  <1>11. 2 * k + 2 >= 4 /\ n + 2 <= 2 * k + 2 /\ Even(2 * k + 2)
    BY <1>4 DEF Even
  <1> QED
    BY <1>8, <1>10, <1>11

(* A size that wraps is a size. *)
LEMMA WrapNat ==
  ASSUME NEW n \in Nat, SizeModulus >= 4
  PROVE  Wrap(n) \in Nat
  BY HeapAssumption DEF Wrap

(* mem_sbrk() keeps the break below the pages that are mapped. *)
LEMMA SbrkFacts ==
  ASSUME NEW b \in Nat, NEW top \in Nat, NEW incr \in Nat, b <= top, top <= Limit,
         NEW ok, ~SbrkFails(b, top, incr, ok)
  PROVE  /\ SbrkTop(b, top, incr) \in Nat /\ b + incr <= SbrkTop(b, top, incr)
         /\ SbrkTop(b, top, incr) <= Limit
  <1>1. CASE b + incr > top
    <2>1. ~(SbrkTop(b, top, incr) > Limit)
      BY <1>1 DEF SbrkFails
    <2>2. PICK x \in Nat : x = b + incr - top
      BY <1>1
    <2>3. PICK y : y = PAGE_SIZE * ((x + PAGE_SIZE - 1) \div PAGE_SIZE)
      OBVIOUS
    <2>4. y \in Nat /\ y >= x
      <3>1. PAGE_SIZE \in Nat \ {0}
        BY HeapAssumption
      <3> QED
        BY <2>3, <3>1, Ceiling
    <2>5. SbrkTop(b, top, incr) = top + y
      BY <1>1, <2>2, <2>3 DEF SbrkTop
    <2> QED
      BY <2>1, <2>2, <2>4, <2>5, HeapAssumption
  <1>2. CASE ~(b + incr > top)
    BY <1>2 DEF SbrkTop
  <1> QED
    BY <1>1, <1>2

-----------------------------------------------------------------------------
(* The invariant.  A call is at p, with its arguments o, the block or      *)
(* payload b, and the region r that it was given.  The regions that it     *)
(* holds: r until it is freed, and the new one from the moment it is       *)
(* placed, at first with nothing in it.                                    *)
Ops == [kind : {"none", "malloc", "calloc", "realloc", "free"}, size : Nat, nmemb : Nat]

GivenTo(o, b, r) ==
  [ptr |-> b, size |-> o.size,
   keep |-> CASE o.kind = "calloc" -> o.size
              [] o.kind = "realloc" -> SmallerOf(o.size, r.keep)
              [] OTHER -> 0,
   fill |-> IF o.kind = "realloc" THEN r.fill ELSE 0]
BlankFor(o, b, r) == [ptr |-> b, size |-> o.size, keep |-> 0, fill |-> 0]
Returned(o, r) == o.kind = "realloc" /\ o.size # 0 /\ r # NoRegion

HeldBy(p, o, b, r) ==
  IF p \in {"begin", "find", "extend", "place"} THEN {r} \ {NoRegion}
  ELSE IF p = "zero" THEN {BlankFor(o, b, r)}
  ELSE IF p = "copy" THEN {r, BlankFor(o, b, r)}
  ELSE IF p = "free" THEN IF b = NULL THEN {r} ELSE {r, GivenTo(o, b, r)}
  ELSE IF p = "unlock" THEN IF b # NULL THEN {GivenTo(o, b, r)}
                            ELSE IF Returned(o, r) THEN {r} ELSE {}
  ELSE {}

(* Its request is one that _malloc() can serve. *)
Allocates(o) == /\ o.kind \in {"malloc", "calloc", "realloc"}
                /\ o.size # 0 /\ SizeFits(o.size)

CallOK(p, o, b, r, h) ==
  /\ r # NoRegion => o.kind \in {"free", "realloc"}
  /\ p = "app" => o = NoOp /\ b = NULL /\ r = NoRegion
  /\ p = "begin" => /\ b = NULL /\ o.kind # "none"
                    /\ o.kind = "calloc" => <<o.nmemb, o.size>> \in Products
                    /\ o.kind # "calloc" => SizeFits(o.size)
  /\ p = "find" => /\ b = NULL /\ o.kind \in {"malloc", "calloc", "realloc"}
                   /\ SizeFits(o.size) /\ (o.kind = "realloc" => o.size # 0)
  /\ p \in {"extend", "place", "zero", "copy"} => Allocates(o) /\ h # NULL
  /\ p = "extend" => b = NULL
  /\ p \in {"place", "zero", "copy"} => b # NULL
  /\ p = "zero" => o.kind = "calloc"
  /\ p = "copy" => o.kind = "realloc" /\ r # NoRegion /\ r.ptr # b
  /\ p = "free" => /\ r # NoRegion
                   /\ b = NULL => ~Returned(o, r)
                   /\ b # NULL => Allocates(o) /\ o.kind = "realloc" /\ r.ptr # b
  /\ p = "unlock" /\ b # NULL => Allocates(o)
  /\ p = "killed" => r = NoRegion

(* The block that the call is about to place. *)
WantedBy(p, b) == IF p = "place" THEN b ELSE NULL

(* Before mm_init() there is no heap; after it the heap holds O. *)
HeapOK(O, m, k, top, h, b, n) ==
  \/ h = NULL /\ O = {} /\ m \in Memory /\ k = 0 /\ top = 0
  \/ /\ h = 1 /\ k \in Nat /\ top \in Nat
     /\ 2 <= k /\ k <= top /\ top <= Limit
     /\ Sound(O, m, k - 1, b, n)

TypeInv ==
  /\ malloc_mutex \in Threads \cup {NoThread}
  /\ pc \in [Threads -> Locations]
  /\ op \in [Threads -> Ops]
  /\ block \in [Threads -> Nat]
  /\ old \in [Threads -> Region \cup {NoRegion}]
  /\ live \subseteq Region
  /\ panicked = FALSE

LockInv == \A t \in Threads : pc[t] # "app" <=> malloc_mutex = t

CallsInv ==
  \A t \in Threads : /\ CallOK(pc[t], op[t], block[t], old[t], heap_listp)
                     /\ live \cap HeldBy(pc[t], op[t], block[t], old[t]) = {}

HeapInv ==
  /\ malloc_mutex = NoThread =>
       HeapOK(live, mem, mem_brkp, mem_alloctop, heap_listp, NULL, 0)
  /\ \A t \in Threads : malloc_mutex = t =>
       HeapOK(live \cup HeldBy(pc[t], op[t], block[t], old[t]), mem, mem_brkp,
              mem_alloctop, heap_listp, WantedBy(pc[t], block[t]), Needed(op[t].size))

IInv == TypeInv /\ LockInv /\ CallsInv /\ HeapInv

Moved(f, f2, t, v) == f2 = [f EXCEPT ![t] = v]

(* A thread in a call is alone. *)
LEMMA Inside ==
  ASSUME IInv, NEW t \in Threads, pc[t] # "app"
  PROVE  /\ malloc_mutex = t /\ pc[t] \in Locations /\ op[t] \in Ops
         /\ block[t] \in Nat /\ old[t] \in Region \cup {NoRegion}
         /\ CallOK(pc[t], op[t], block[t], old[t], heap_listp)
         /\ live \cap HeldBy(pc[t], op[t], block[t], old[t]) = {}
         /\ HeapOK(live \cup HeldBy(pc[t], op[t], block[t], old[t]), mem, mem_brkp,
                   mem_alloctop, heap_listp, WantedBy(pc[t], block[t]),
                   Needed(op[t].size))
  <1>1. malloc_mutex = t
    BY DEF IInv, LockInv
  <1>2. CallOK(pc[t], op[t], block[t], old[t], heap_listp)
        /\ live \cap HeldBy(pc[t], op[t], block[t], old[t]) = {}
    BY DEF IInv, CallsInv
  <1>3. HeapOK(live \cup HeldBy(pc[t], op[t], block[t], old[t]), mem, mem_brkp,
               mem_alloctop, heap_listp, WantedBy(pc[t], block[t]),
               Needed(op[t].size))
    BY <1>1 DEF IInv, HeapInv
  <1> QED
    BY <1>1, <1>2, <1>3 DEF IInv, TypeInv

(* A thread outside of a call holds nothing, whatever the heap is. *)
LEMMA Outsider ==
  ASSUME NEW o, NEW b, NEW r, NEW h, NEW k, CallOK("app", o, b, r, h)
  PROVE  CallOK("app", o, b, r, k) /\ HeldBy("app", o, b, r) = {}
  BY DEF CallOK, HeldBy

(* A step of a call that does not end it: what is left to show. *)
LEMMA Frame ==
  ASSUME IInv, NEW t \in Threads, pc[t] # "app",
         NEW p \in Locations, p # "app", NEW o \in Ops, NEW b \in Nat,
         NEW r \in Region \cup {NoRegion},
         Moved(pc, pc', t, p), Moved(op, op', t, o), Moved(block, block', t, b),
         Moved(old, old', t, r), malloc_mutex' = malloc_mutex, live' = live,
         panicked' = FALSE,
         CallOK(p, o, b, r, heap_listp'), live \cap HeldBy(p, o, b, r) = {},
         HeapOK(live \cup HeldBy(p, o, b, r), mem', mem_brkp', mem_alloctop',
                heap_listp', WantedBy(p, b), Needed(o.size))
  PROVE  IInv'
  <1>1. TypeInv /\ LockInv /\ CallsInv
    BY DEF IInv
  <1>2. malloc_mutex = t
    BY Inside
  <1>3. pc' \in [Threads -> Locations] /\ pc'[t] = p
        /\ \A u \in Threads : u # t => pc'[u] = pc[u]
    BY <1>1 DEF TypeInv, Moved
  <1>4. op' \in [Threads -> Ops] /\ op'[t] = o
        /\ \A u \in Threads : u # t => op'[u] = op[u]
    BY <1>1 DEF TypeInv, Moved
  <1>5. block' \in [Threads -> Nat] /\ block'[t] = b
        /\ \A u \in Threads : u # t => block'[u] = block[u]
    BY <1>1 DEF TypeInv, Moved
  <1>6. old' \in [Threads -> Region \cup {NoRegion}] /\ old'[t] = r
        /\ \A u \in Threads : u # t => old'[u] = old[u]
    BY <1>1 DEF TypeInv, Moved
  <1>7. TypeInv'
    BY <1>1, <1>3, <1>4, <1>5, <1>6 DEF TypeInv
  <1>8. LockInv'
    BY <1>1, <1>2, <1>3 DEF LockInv
  <1>9. ASSUME NEW u \in Threads
        PROVE  /\ CallOK(pc'[u], op'[u], block'[u], old'[u], heap_listp')
               /\ live' \cap HeldBy(pc'[u], op'[u], block'[u], old'[u]) = {}
    <2>1. CASE u = t
      BY <1>3, <1>4, <1>5, <1>6, <2>1
    <2>2. CASE u # t
      <3>1. pc[u] = "app"
        BY <1>1, <1>2, <2>2 DEF LockInv
      <3>2. CallOK("app", op[u], block[u], old[u], heap_listp)
        BY <1>1, <3>1 DEF CallsInv
      <3>3. CallOK("app", op[u], block[u], old[u], heap_listp')
            /\ HeldBy("app", op[u], block[u], old[u]) = {}
        BY <3>2, Outsider
      <3>4. pc'[u] = "app" /\ op'[u] = op[u] /\ block'[u] = block[u] /\ old'[u] = old[u]
        BY <1>3, <1>4, <1>5, <1>6, <2>2, <3>1
      <3> QED
        BY <3>3, <3>4
    <2> QED
      BY <2>1, <2>2
  <1>10. CallsInv'
    BY <1>9 DEF CallsInv
  <1>11. HeapInv'
    <2>1. malloc_mutex' = t /\ t # NoThread
      BY <1>2, HeapAssumption
    <2>2. HeapOK(live' \cup HeldBy(pc'[t], op'[t], block'[t], old'[t]), mem', mem_brkp',
                 mem_alloctop', heap_listp', WantedBy(pc'[t], block'[t]),
                 Needed(op'[t].size))
      BY <1>3, <1>4, <1>5, <1>6
    <2> QED
      BY <2>1, <2>2 DEF HeapInv
  <1> QED
    BY <1>7, <1>8, <1>10, <1>11 DEF IInv

-----------------------------------------------------------------------------
(* Each step preserves the invariant. *)
LEMMA HeapNone ==
  ASSUME NEW O, NEW m, NEW k, NEW top, NEW h, NEW b, NEW n,
         HeapOK(O, m, k, top, h, b, n), NEW j
  PROVE  HeapOK(O, m, k, top, h, NULL, j)
  <1>1. CASE h = NULL /\ O = {} /\ m \in Memory /\ k = 0 /\ top = 0
    BY <1>1 DEF HeapOK
  <1>2. CASE Sound(O, m, k - 1, b, n)
    <2>1. PICK T, sz : Arranged(T, sz, O, m, k - 1, b, n)
      BY <1>2 DEF Sound
    <2>2. Arranged(T, sz, O, m, k - 1, NULL, j)
      BY <2>1 DEF Arranged, Ready
    <2>3. Sound(O, m, k - 1, NULL, j)
      BY <1>2, <2>2 DEF Sound
    <2> QED
      BY <1>1, <2>3 DEF HeapOK
  <1> QED
    BY <1>1, <1>2 DEF HeapOK

(* The region that a call gets, before and after it is cleared or copied   *)
(* to.                                                                     *)
LEMMA NewRegion ==
  ASSUME NEW o \in Ops, o.size # 0, NEW b \in Nat, b # NULL,
         NEW r \in Region \cup {NoRegion}
  PROVE  /\ BlankFor(o, b, r) \in Region /\ GivenTo(o, b, r) \in Region
         /\ BlankFor(o, b, r).ptr = b /\ BlankFor(o, b, r).size = o.size
         /\ BlankFor(o, b, r).keep = 0
         /\ GivenTo(o, b, r).ptr = b /\ GivenTo(o, b, r).size = o.size
         /\ o.kind = "calloc" => GivenTo(o, b, r).fill = 0
         /\ o.kind = "realloc" => /\ GivenTo(o, b, r).fill = r.fill
                                  /\ GivenTo(o, b, r).keep <= r.keep
         /\ o.kind # "calloc" /\ r = NoRegion => GivenTo(o, b, r).keep = 0
  <1>1. o.size \in Nat /\ b \in Nat \ {0} /\ o.size \in Nat \ {0}
    BY DEF Ops, NULL
  <1>2. r.keep \in Nat /\ r.fill \in Int
    BY RegionFacts DEF NoRegion
  <1>3. BlankFor(o, b, r) \in Region
    BY <1>1 DEF BlankFor, Region
  <1>4. PICK g : g = GivenTo(o, b, r)
    OBVIOUS
  <1>5. /\ g.ptr = b /\ g.size = o.size
        /\ g.keep = CASE o.kind = "calloc" -> o.size
                      [] o.kind = "realloc" -> SmallerOf(o.size, r.keep)
                      [] OTHER -> 0
        /\ g.fill = IF o.kind = "realloc" THEN r.fill ELSE 0
    BY <1>4 DEF GivenTo
  <1>6. /\ SmallerOf(o.size, r.keep) \in Nat /\ SmallerOf(o.size, r.keep) <= o.size
        /\ SmallerOf(o.size, r.keep) <= r.keep
    BY <1>1, <1>2 DEF SmallerOf
  <1>7. g.keep \in Nat /\ g.keep <= o.size
    BY <1>1, <1>5, <1>6
  <1>8. g.fill \in Int
    BY <1>2, <1>5
  <1>9. g \in [ptr : Nat \ {0}, size : Nat \ {0}, keep : Nat, fill : Int]
    <2>1. g = [ptr |-> g.ptr, size |-> g.size, keep |-> g.keep, fill |-> g.fill]
      BY <1>4 DEF GivenTo
    <2> QED
      BY <1>1, <1>5, <1>7, <1>8, <2>1
  <1>10. g \in Region
    BY <1>5, <1>7, <1>9 DEF Region
  <1>11. o.kind = "realloc" => g.fill = r.fill /\ g.keep <= r.keep
    BY <1>5, <1>6
  <1>12. o.kind # "calloc" /\ r = NoRegion => g.keep = 0
    <2>1. r = NoRegion => r.keep = 0
      BY DEF NoRegion
    <2>2. r = NoRegion => SmallerOf(o.size, r.keep) = 0
      BY <1>1, <2>1 DEF SmallerOf
    <2> QED
      BY <1>5, <2>2
  <1>13. /\ BlankFor(o, b, r).ptr = b /\ BlankFor(o, b, r).size = o.size
         /\ BlankFor(o, b, r).keep = 0
    BY DEF BlankFor
  <1> QED
    BY <1>3, <1>4, <1>5, <1>10, <1>11, <1>12, <1>13

(* malloc(), calloc(), realloc() and free() *)
LEMMA CallStep ==
  ASSUME IInv, NEW t \in Threads,
         NEW kind \in {"malloc", "calloc", "realloc", "free"},
         NEW size \in Nat, NEW nmemb \in Nat, Call(t, kind, size, nmemb),
         kind = "calloc" => <<nmemb, size>> \in Products,
         kind # "calloc" => SizeFits(size),
         NEW r \in live \cup {NoRegion}, r # NoRegion => kind \in {"free", "realloc"},
         old' = [old EXCEPT ![t] = r], live' = live \ {r}
  PROVE  IInv'
  <1>1. TypeInv /\ LockInv /\ CallsInv /\ HeapInv
    BY DEF IInv
  <1>2. PICK o : o = [kind |-> kind, size |-> size, nmemb |-> nmemb]
    OBVIOUS
  <1>3. /\ pc[t] = "app" /\ malloc_mutex = NoThread /\ malloc_mutex' = t
        /\ pc' = [pc EXCEPT ![t] = "begin"] /\ op' = [op EXCEPT ![t] = o]
        /\ mem' = mem /\ mem_brkp' = mem_brkp /\ mem_alloctop' = mem_alloctop
        /\ heap_listp' = heap_listp /\ block' = block /\ panicked' = panicked
    BY <1>2 DEF Call, TakeMutex, memory
  <1>4. /\ o \in Ops /\ o.kind = kind /\ o.size = size /\ o.nmemb = nmemb
    BY <1>2 DEF Ops
  <1>5. block[t] = NULL /\ old[t] = NoRegion
    BY <1>1, <1>3 DEF CallsInv, CallOK
  <1>6. r \in Region \cup {NoRegion} /\ NoRegion \notin live
    BY <1>1, RegionFacts DEF TypeInv
  <1>7. TypeInv'
    BY <1>1, <1>3, <1>4, <1>6 DEF TypeInv, Locations
  <1>8. /\ pc'[t] = "begin" /\ op'[t] = o /\ block'[t] = NULL /\ old'[t] = r
        /\ \A u \in Threads : u # t => /\ pc'[u] = pc[u] /\ op'[u] = op[u]
                                       /\ block'[u] = block[u] /\ old'[u] = old[u]
    BY <1>1, <1>3, <1>5 DEF TypeInv
  <1>9. LockInv'
    BY <1>1, <1>3, <1>8, HeapAssumption DEF LockInv
  <1>10. CallOK("begin", o, NULL, r, heap_listp')
    BY <1>4 DEF CallOK
  <1>11. HeldBy("begin", o, NULL, r) = {r} \ {NoRegion}
    BY DEF HeldBy
  <1>12. live' \cap HeldBy("begin", o, NULL, r) = {}
    BY <1>11
  <1>13. ASSUME NEW u \in Threads
         PROVE  /\ CallOK(pc'[u], op'[u], block'[u], old'[u], heap_listp')
                /\ live' \cap HeldBy(pc'[u], op'[u], block'[u], old'[u]) = {}
    <2>1. CASE u = t
      BY <1>8, <1>10, <1>12, <2>1
    <2>2. CASE u # t
      <3>1. pc[u] = "app"
        BY <1>1, <1>3, HeapAssumption DEF LockInv
      <3>2. CallOK("app", op[u], block[u], old[u], heap_listp)
        BY <1>1, <3>1 DEF CallsInv
      <3>3. CallOK("app", op[u], block[u], old[u], heap_listp')
            /\ HeldBy("app", op[u], block[u], old[u]) = {}
        BY <3>2, Outsider
      <3> QED
        BY <1>8, <2>2, <3>1, <3>3
    <2> QED
      BY <2>1, <2>2
  <1>14. live' \cup HeldBy("begin", o, NULL, r) = live
    BY <1>6, <1>11
  <1>15. HeapOK(live, mem, mem_brkp, mem_alloctop, heap_listp, NULL, 0)
    BY <1>1, <1>3 DEF HeapInv
  <1>16. HeapOK(live, mem, mem_brkp, mem_alloctop, heap_listp, NULL, Needed(o.size))
    BY <1>15, HeapNone
  <1>17. WantedBy("begin", NULL) = NULL
    BY DEF WantedBy
  <1>18. HeapOK(live' \cup HeldBy(pc'[t], op'[t], block'[t], old'[t]), mem', mem_brkp',
                mem_alloctop', heap_listp', WantedBy(pc'[t], block'[t]),
                Needed(op'[t].size))
    BY <1>3, <1>8, <1>14, <1>16, <1>17
  <1>19. HeapInv'
    BY <1>3, <1>18, HeapAssumption DEF HeapInv
  <1>20. CallsInv'
    BY <1>13 DEF CallsInv
  <1> QED
    BY <1>7, <1>9, <1>19, <1>20 DEF IInv

(* Given(), StillHeld() and asize() in terms of the call. *)
LEMMA GivenIs ==
  ASSUME NEW t \in Threads
  PROVE  /\ Given(t) = GivenTo(op[t], block[t], old[t])
         /\ StillHeld(t) <=> Returned(op[t], old[t])
         /\ asize(t) = Needed(op[t].size)
  BY DEF Given, GivenTo, StillHeld, Returned, asize, Needed

(* The end of a call: what it holds becomes live. *)
LEMMA UnlockStep ==
  ASSUME IInv, NEW t \in Threads, unlock(t)
  PROVE  IInv'
  <1>1. TypeInv /\ LockInv /\ CallsInv /\ HeapInv
    BY DEF IInv
  <1>2. /\ pc[t] = "unlock" /\ malloc_mutex' = NoThread
        /\ pc' = [pc EXCEPT ![t] = "app"] /\ op' = [op EXCEPT ![t] = NoOp]
        /\ block' = [block EXCEPT ![t] = NULL] /\ old' = [old EXCEPT ![t] = NoRegion]
        /\ mem' = mem /\ mem_brkp' = mem_brkp /\ mem_alloctop' = mem_alloctop
        /\ heap_listp' = heap_listp /\ panicked' = panicked
    BY DEF unlock, Goto, memory
  <1>3. live' = live \cup HeldBy(pc[t], op[t], block[t], old[t])
    <2>1. live' = live \cup (IF block[t] # NULL THEN {Given(t)}
                             ELSE IF StillHeld(t) THEN {old[t]} ELSE {})
      BY DEF unlock
    <2>2. /\ Given(t) = GivenTo(op[t], block[t], old[t])
          /\ StillHeld(t) <=> Returned(op[t], old[t])
      BY GivenIs
    <2>3. HeldBy(pc[t], op[t], block[t], old[t])
            = IF block[t] # NULL THEN {GivenTo(op[t], block[t], old[t])}
              ELSE IF Returned(op[t], old[t]) THEN {old[t]} ELSE {}
      BY <1>2 DEF HeldBy
    <2> QED
      BY <2>1, <2>2, <2>3
  <1>4. /\ malloc_mutex = t /\ op[t] \in Ops /\ block[t] \in Nat
        /\ old[t] \in Region \cup {NoRegion}
        /\ CallOK(pc[t], op[t], block[t], old[t], heap_listp)
        /\ HeapOK(live \cup HeldBy(pc[t], op[t], block[t], old[t]), mem, mem_brkp,
                  mem_alloctop, heap_listp, WantedBy(pc[t], block[t]),
                  Needed(op[t].size))
    BY <1>2, Inside
  <1>5. HeapOK(live', mem', mem_brkp', mem_alloctop', heap_listp', NULL, 0)
    <2>1. HeapOK(live \cup HeldBy(pc[t], op[t], block[t], old[t]), mem, mem_brkp,
                 mem_alloctop, heap_listp, NULL, 0)
      BY <1>4, HeapNone
    <2> QED
      BY <1>2, <1>3, <2>1
  <1>6. HeapInv'
    BY <1>2, <1>5, HeapAssumption DEF HeapInv
  <1>7. live' \subseteq Region
    BY <1>5, <1>2 DEF HeapOK, Sound
  <1>8. NoOp \in Ops /\ NULL \in Nat /\ "app" \in Locations
    BY DEF NoOp, Ops, NULL, Locations
  <1>9. TypeInv'
    BY <1>1, <1>2, <1>7, <1>8 DEF TypeInv
  <1>10. /\ pc'[t] = "app" /\ op'[t] = NoOp /\ block'[t] = NULL /\ old'[t] = NoRegion
         /\ \A u \in Threads : u # t => /\ pc'[u] = pc[u] /\ op'[u] = op[u]
                                        /\ block'[u] = block[u] /\ old'[u] = old[u]
    BY <1>1, <1>2 DEF TypeInv
  <1>11. LockInv'
    BY <1>1, <1>2, <1>4, <1>10, HeapAssumption DEF LockInv
  <1>12. ASSUME NEW u \in Threads
         PROVE  /\ CallOK(pc'[u], op'[u], block'[u], old'[u], heap_listp')
                /\ live' \cap HeldBy(pc'[u], op'[u], block'[u], old'[u]) = {}
    <2>1. CASE u = t
      <3>1. CallOK("app", NoOp, NULL, NoRegion, heap_listp')
        BY DEF CallOK
      <3>2. HeldBy("app", NoOp, NULL, NoRegion) = {}
        BY <3>1, Outsider
      <3> QED
        BY <1>10, <2>1, <3>1, <3>2
    <2>2. CASE u # t
      <3>1. pc[u] = "app"
        BY <1>1, <1>4, <2>2 DEF LockInv
      <3>2. CallOK("app", op[u], block[u], old[u], heap_listp)
        BY <1>1, <3>1 DEF CallsInv
      <3>3. CallOK("app", op[u], block[u], old[u], heap_listp')
            /\ HeldBy("app", op[u], block[u], old[u]) = {}
        BY <3>2, Outsider
      <3> QED
        BY <1>10, <2>2, <3>1, <3>3
    <2> QED
      BY <2>1, <2>2
  <1>13. CallsInv'
    BY <1>12 DEF CallsInv
  <1> QED
    BY <1>6, <1>9, <1>11, <1>13 DEF IInv

(* The owner of a region writes to it. *)
LEMMA FillHeap ==
  ASSUME NEW O, NEW m, NEW k, NEW top, NEW h, NEW b, NEW n,
         HeapOK(O, m, k, top, h, b, n), NEW r \in O, NEW q \in Region,
         q.ptr = r.ptr, q.size = r.size, NEW m2 \in Memory,
         Outside(m, m2, r.ptr, r.size), Holds(m2, q)
  PROVE  HeapOK((O \ {r}) \cup {q}, m2, k, top, h, b, n)
  <1>1. Sound(O, m, k - 1, b, n)
    BY DEF HeapOK
  <1>2. Sound((O \ {r}) \cup {q}, m2, k - 1, b, n)
    BY <1>1, SoundRewrite
  <1> QED
    BY <1>2 DEF HeapOK

(* What a heap in order holds are regions, at different places. *)
LEMMA HeapMemory ==
  ASSUME NEW O, NEW m, NEW k, NEW top, NEW h, NEW b, NEW n,
         HeapOK(O, m, k, top, h, b, n)
  PROVE  m \in Memory /\ O \subseteq Region /\ Apart(O)
  BY DEF HeapOK, Sound, Arranged, Shape, Apart

(* fill(), at any time during a call of another thread. *)
LEMMA FillStep ==
  ASSUME IInv, NEW r \in live, fill(r)
  PROVE  IInv'
  <1>1. TypeInv /\ LockInv /\ CallsInv /\ HeapInv
    BY DEF IInv
  <1>2. /\ mem_brkp' = mem_brkp /\ mem_alloctop' = mem_alloctop
        /\ heap_listp' = heap_listp /\ malloc_mutex' = malloc_mutex
        /\ pc' = pc /\ op' = op /\ block' = block /\ old' = old
        /\ panicked' = panicked
    BY DEF fill
  <1>3. PICK q : q = [r EXCEPT !.keep = r.size, !.fill = -r.ptr]
    OBVIOUS
  <1>4. live' = (live \ {r}) \cup {q}
    BY <1>3 DEF fill
  <1>5. r \in Region
    BY <1>1 DEF TypeInv
  <1>6. q \in Region /\ q.ptr = r.ptr /\ q.size = r.size /\ q.keep = r.size
        /\ q.fill = -r.ptr /\ r.ptr \in Nat /\ r.size \in Nat
    <2>1. /\ r \in [ptr : Nat \ {0}, size : Nat \ {0}, keep : Nat, fill : Int]
          /\ r.ptr \in Nat /\ r.size \in Nat
      BY <1>5 DEF Region
    <2>2. q.ptr = r.ptr /\ q.size = r.size /\ q.keep = r.size /\ q.fill = -r.ptr
      BY <1>3, <2>1
    <2>3. -r.ptr \in Int
      BY <2>1
    <2>4. q \in [ptr : Nat \ {0}, size : Nat \ {0}, keep : Nat, fill : Int]
      BY <1>3, <2>1, <2>3
    <2>5. q.keep <= q.size
      BY <2>1, <2>2
    <2>6. q \in Region
      BY <2>4, <2>5 DEF Region
    <2> QED
      BY <2>1, <2>2, <2>6
  <1>7. mem \in Memory /\ \A O, b, n :
          HeapOK(O, mem, mem_brkp, mem_alloctop, heap_listp, b, n) /\ r \in O =>
            HeapOK((O \ {r}) \cup {q}, mem', mem_brkp, mem_alloctop, heap_listp, b, n)
    <2>1. mem \in Memory
      <3>1. CASE malloc_mutex = NoThread
        BY <1>1, <3>1, HeapMemory DEF HeapInv
      <3>2. CASE malloc_mutex \in Threads
        BY <1>1, <3>2, HeapMemory DEF HeapInv
      <3> QED
        BY <1>1, <3>1, <3>2 DEF TypeInv
    <2>2. mem' = [a \in 0..(Limit - 1) |->
                    IF a \in r.ptr..(r.ptr + r.size - 1) THEN -r.ptr ELSE mem[a]]
      BY DEF fill
    <2>3. -r.ptr \in Int
      BY <1>6
    <2>4. mem' \in Memory
      BY <2>1, <2>2, <2>3 DEF Memory
    <2>5. Outside(mem, mem', r.ptr, r.size)
      <3>1. SUFFICES ASSUME NEW a \in 0..(Limit - 1), ~(r.ptr <= a /\ a < r.ptr + r.size)
                     PROVE  mem'[a] = mem[a]
        BY DEF Outside
      <3>2. a \notin r.ptr..(r.ptr + r.size - 1)
        BY <1>6, <3>1
      <3> QED
        BY <2>2, <3>2
    <2>6. ASSUME NEW O, NEW b, NEW n, r \in O,
                 HeapOK(O, mem, mem_brkp, mem_alloctop, heap_listp, b, n)
          PROVE  HeapOK((O \ {r}) \cup {q}, mem', mem_brkp, mem_alloctop, heap_listp, b, n)
      <3>1. Sound(O, mem, mem_brkp - 1, b, n)
        BY <2>6 DEF HeapOK
      <3>2. PICK T, sz : Arranged(T, sz, O, mem, mem_brkp - 1, b, n) /\ O \subseteq Region
        BY <3>1 DEF Sound
      <3>3. PICK e, s : e = mem_brkp - 1 /\ s = sz[r.ptr - 1]
        OBVIOUS
      <3>4. s \in Nat /\ r.size + 2 <= s /\ (r.ptr - 1) + s <= e /\ e < Limit /\ e \in Nat
        BY <2>6, <3>2, <3>3, RegionExtent
      <3>5. Holds(mem', q)
        <4>1. SUFFICES ASSUME NEW i \in 0..(r.size - 1) PROVE mem'[r.ptr + i] = -r.ptr
          BY <1>6 DEF Holds
        <4>2. /\ r.ptr + i \in 0..(Limit - 1)
              /\ r.ptr + i \in r.ptr..(r.ptr + r.size - 1)
          BY <1>6, <3>4, HeapAssumption
        <4> QED
          BY <2>2, <4>2
      <3> QED
        BY <1>6, <2>4, <2>5, <2>6, <3>5, FillHeap
    <2> QED
      BY <2>1, <2>6
  <1>8. TypeInv'
    BY <1>1, <1>2, <1>4, <1>6 DEF TypeInv
  <1>9. LockInv'
    BY <1>1, <1>2 DEF LockInv
  <1>10. ASSUME NEW t \in Threads
         PROVE  live' \cap HeldBy(pc[t], op[t], block[t], old[t]) = {}
    <2>1. PICK H : H = HeldBy(pc[t], op[t], block[t], old[t])
      OBVIOUS
    <2>2. live \cap H = {}
      BY <1>1, <2>1 DEF CallsInv
    <2>3. CASE malloc_mutex = t
      <3>1. HeapOK(live \cup H, mem, mem_brkp, mem_alloctop, heap_listp,
                   WantedBy(pc[t], block[t]), Needed(op[t].size))
        BY <1>1, <2>1, <2>3 DEF HeapInv
      <3>2. Apart(live \cup H)
        BY <3>1, HeapMemory
      <3>3. q \notin H
        BY <1>6, <2>2, <3>2 DEF Apart
      <3> QED
        BY <1>4, <2>1, <2>2, <3>3
    <2>4. CASE malloc_mutex # t
      <3>1. pc[t] = "app"
        BY <1>1, <2>4 DEF LockInv
      <3>2. H = {}
        BY <2>1, <3>1 DEF HeldBy
      <3> QED
        BY <2>1, <3>2
    <2> QED
      BY <2>3, <2>4
  <1>11. CallsInv'
    BY <1>1, <1>2, <1>10 DEF CallsInv
  <1>12. HeapInv'
    <2>1. ASSUME malloc_mutex = NoThread
          PROVE  HeapOK(live', mem', mem_brkp, mem_alloctop, heap_listp, NULL, 0)
      BY <1>1, <1>4, <1>7, <2>1 DEF HeapInv
    <2>2. ASSUME NEW t \in Threads, malloc_mutex = t
          PROVE  HeapOK(live' \cup HeldBy(pc[t], op[t], block[t], old[t]), mem',
                        mem_brkp, mem_alloctop, heap_listp,
                        WantedBy(pc[t], block[t]), Needed(op[t].size))
      <3>1. PICK H : H = HeldBy(pc[t], op[t], block[t], old[t])
        OBVIOUS
      <3>2. live \cap H = {}
        BY <1>1, <3>1 DEF CallsInv
      <3>3. HeapOK(live \cup H, mem, mem_brkp, mem_alloctop, heap_listp,
                   WantedBy(pc[t], block[t]), Needed(op[t].size))
        BY <1>1, <2>2, <3>1 DEF HeapInv
      <3>4. live' \cup H = ((live \cup H) \ {r}) \cup {q}
        BY <1>4, <3>2
      <3>5. r \in live \cup H
        OBVIOUS
      <3> QED
        BY <1>7, <3>1, <3>3, <3>4, <3>5
    <2> QED
      BY <1>2, <2>1, <2>2 DEF HeapInv
  <1> QED
    BY <1>8, <1>9, <1>11, <1>12 DEF IInv

(* The steps that leave the heap alone. *)
LEMMA SameHeap ==
  ASSUME IInv, NEW t \in Threads, pc[t] # "app", pc[t] # "place",
         NEW p \in Locations, p # "app", p # "place", NEW o \in Ops,
         Moved(pc, pc', t, p), Moved(op, op', t, o), block[t] = NULL,
         block' = block, old' = old, malloc_mutex' = malloc_mutex, live' = live,
         panicked' = FALSE, UNCHANGED memory,
         CallOK(p, o, NULL, old[t], heap_listp),
         HeldBy(p, o, NULL, old[t]) = HeldBy(pc[t], op[t], NULL, old[t])
  PROVE  IInv'
  <1>1. /\ live \cap HeldBy(pc[t], op[t], block[t], old[t]) = {}
        /\ old[t] \in Region \cup {NoRegion}
        /\ HeapOK(live \cup HeldBy(pc[t], op[t], block[t], old[t]), mem, mem_brkp,
                  mem_alloctop, heap_listp, WantedBy(pc[t], block[t]),
                  Needed(op[t].size))
    BY Inside
  <1>2. PICK H : H = HeldBy(p, o, NULL, old[t])
    OBVIOUS
  <1>3. HeapOK(live \cup H, mem, mem_brkp, mem_alloctop, heap_listp, NULL,
               Needed(o.size))
    BY <1>1, <1>2, HeapNone
  <1>4. /\ mem' = mem /\ mem_brkp' = mem_brkp /\ mem_alloctop' = mem_alloctop
        /\ heap_listp' = heap_listp
    BY DEF memory
  <1>5. WantedBy(p, NULL) = NULL
    BY DEF WantedBy
  <1>6. HeapOK(live \cup HeldBy(p, o, NULL, old[t]), mem', mem_brkp', mem_alloctop',
               heap_listp', WantedBy(p, NULL), Needed(o.size))
    BY <1>2, <1>3, <1>4, <1>5
  <1>7. live \cap HeldBy(p, o, NULL, old[t]) = {}
    BY <1>1
  <1>8. Moved(block, block', t, NULL) /\ Moved(old, old', t, old[t])
    BY DEF IInv, TypeInv, Moved
  <1>9. CallOK(p, o, NULL, old[t], heap_listp') /\ NULL \in Nat
    BY <1>4 DEF NULL
  <1> QED
    BY <1>1, <1>6, <1>7, <1>8, <1>9, Frame

(* The first tests of the wrappers. *)
LEMMA BeginStep ==
  ASSUME GoodSizes, IInv, NEW t \in Threads, begin(t)
  PROVE  IInv'
  <1>1. /\ pc[t] = "begin" /\ UNCHANGED memory /\ malloc_mutex' = malloc_mutex
        /\ block' = block /\ old' = old /\ live' = live /\ panicked' = panicked
    BY DEF begin, Goto
  <1>2. PICK o \in Ops : o = op[t]
    BY DEF IInv, TypeInv
  <1>3. panicked = FALSE /\ op \in [Threads -> Ops] /\ pc \in [Threads -> Locations]
    BY DEF IInv, TypeInv
  <1>4. /\ block[t] = NULL /\ o.kind # "none"
        /\ o.kind = "calloc" => <<o.nmemb, o.size>> \in Products
        /\ o.kind # "calloc" => SizeFits(o.size)
        /\ old[t] # NoRegion => o.kind \in {"free", "realloc"}
    BY <1>1, <1>2, Inside DEF CallOK
  <1>5. o.kind \in {"malloc", "calloc", "realloc", "free"} /\ o.size \in Nat
        /\ o.nmemb \in Nat
    BY <1>4 DEF Ops
  <1>6. HeldBy("begin", o, NULL, old[t]) = {old[t]} \ {NoRegion}
    BY DEF HeldBy
  <1>7. ASSUME NEW p \in Locations, p # "app", p # "place", NEW o2 \in Ops,
               Moved(pc, pc', t, p), Moved(op, op', t, o2),
               CallOK(p, o2, NULL, old[t], heap_listp),
               HeldBy(p, o2, NULL, old[t]) = {old[t]} \ {NoRegion}
        PROVE  IInv'
    BY <1>1, <1>2, <1>3, <1>4, <1>6, <1>7, SameHeap
  <1>8. op' = IF o.kind = "calloc" /\ o.nmemb # 0
              THEN [op EXCEPT ![t].size = Wrap(o.nmemb * o.size)] ELSE op
    BY <1>2 DEF begin
  <1>9. {"killed", "unlock", "free", "find"} \subseteq Locations
    BY DEF Locations
  <1>10. CASE o.kind = "calloc"
    <2>1. old[t] = NoRegion /\ <<o.nmemb, o.size>> \in Products
      BY <1>4, <1>10
    <2>2. CASE o.nmemb = 0
      <3>1. Moved(pc, pc', t, "killed") /\ Moved(op, op', t, o)
        BY <1>2, <1>3, <1>8, <1>10, <2>2 DEF begin, Goto, Moved
      <3>2. CallOK("killed", o, NULL, old[t], heap_listp)
            /\ HeldBy("killed", o, NULL, old[t]) = {}
        BY <2>1 DEF CallOK, HeldBy
      <3> QED
        BY <1>7, <1>9, <2>1, <3>1, <3>2
    <2>3. CASE o.nmemb # 0
      <3>1. PICK n \in Nat : n = Wrap(o.nmemb * o.size)
        <4>1. o.nmemb * o.size \in Nat
          BY <1>5
        <4> QED
          BY <4>1, WrapNat DEF GoodSizes, min_block_size
      <3>2. PICK o2 : o2 = [o EXCEPT !.size = n]
        OBVIOUS
      <3>3. o2 \in Ops /\ o2.kind = "calloc" /\ o2.size = n
        BY <1>10, <3>2 DEF Ops
      <3>4. Moved(op, op', t, o2)
        BY <1>2, <1>3, <1>8, <1>10, <2>3, <3>1, <3>2 DEF Moved
      <3>5. CASE Overflows(o.nmemb, o.size)
        <4>1. Moved(pc, pc', t, "unlock")
          BY <1>2, <1>10, <2>3, <3>5 DEF begin, Goto, Moved
        <4>2. CallOK("unlock", o2, NULL, old[t], heap_listp)
              /\ HeldBy("unlock", o2, NULL, old[t]) = {}
          BY <2>1, <3>3 DEF CallOK, HeldBy, Returned
        <4> QED
          BY <1>7, <1>9, <2>1, <3>3, <3>4, <4>1, <4>2
      <3>6. CASE ~Overflows(o.nmemb, o.size)
        <4>1. Moved(pc, pc', t, "find")
          BY <1>2, <1>10, <2>3, <3>6 DEF begin, Goto, Moved
        <4>2. SizeFits(n)
          <5>1. PICK pr \in Products : pr[1] = o.nmemb /\ pr[2] = o.size
            BY <2>1
          <5> QED
            BY <2>3, <3>1, <3>6, <5>1 DEF GoodSizes
        <4>3. CallOK("find", o2, NULL, old[t], heap_listp)
              /\ HeldBy("find", o2, NULL, old[t]) = {old[t]} \ {NoRegion}
          BY <2>1, <3>3, <4>2 DEF CallOK, HeldBy
        <4> QED
          BY <1>7, <1>9, <3>3, <3>4, <4>1, <4>3
      <3> QED
        BY <3>5, <3>6
    <2> QED
      BY <2>2, <2>3
  <1>11. CASE o.kind # "calloc"
    <2>1. Moved(op, op', t, o)
      BY <1>2, <1>3, <1>8, <1>11 DEF Moved
    <2>2. CASE o.kind = "free" \/ (o.kind = "realloc" /\ o.size = 0)
      <3>1. CASE old[t] = NoRegion
        <4>1. Moved(pc, pc', t, "unlock")
          BY <1>2, <2>2, <3>1 DEF begin, Goto, Moved
        <4>2. CallOK("unlock", o, NULL, old[t], heap_listp)
              /\ HeldBy("unlock", o, NULL, old[t]) = {}
          BY <3>1 DEF CallOK, HeldBy, Returned
        <4> QED
          BY <1>7, <1>9, <2>1, <3>1, <4>1, <4>2
      <3>2. CASE old[t] # NoRegion
        <4>1. Moved(pc, pc', t, "free")
          BY <1>2, <2>2, <3>2 DEF begin, Goto, Moved
        <4>2. CallOK("free", o, NULL, old[t], heap_listp)
              /\ HeldBy("free", o, NULL, old[t]) = {old[t]} \ {NoRegion}
          BY <1>4, <2>2, <3>2 DEF CallOK, HeldBy, Returned
        <4> QED
          BY <1>7, <1>9, <2>1, <4>1, <4>2
      <3> QED
        BY <3>1, <3>2
    <2>3. CASE o.kind = "malloc" \/ (o.kind = "realloc" /\ o.size # 0)
      <3>1. Moved(pc, pc', t, "find")
        BY <1>2, <2>3 DEF begin, Goto, Moved
      <3>2. CallOK("find", o, NULL, old[t], heap_listp)
            /\ HeldBy("find", o, NULL, old[t]) = {old[t]} \ {NoRegion}
        BY <1>4, <1>5, <1>11, <2>3 DEF CallOK, HeldBy
      <3> QED
        BY <1>7, <1>9, <2>1, <3>1, <3>2
    <2> QED
      BY <1>5, <1>11, <2>2, <2>3
  <1> QED
    BY <1>10, <1>11

(* find_fit(), between the two calls of mm_checkheap(). *)
LEMMA FindStep ==
  ASSUME IInv, NEW t \in Threads, find(t)
  PROVE  IInv'
  <1>1. /\ pc[t] = "find" /\ UNCHANGED memory /\ malloc_mutex' = malloc_mutex
        /\ op' = op /\ old' = old /\ live' = live /\ heap_listp # NULL
    BY DEF find, Goto
  <1>2. PICK o \in Ops : o = op[t]
    BY DEF IInv, TypeInv
  <1>3. /\ op \in [Threads -> Ops] /\ pc \in [Threads -> Locations]
        /\ block \in [Threads -> Nat] /\ old \in [Threads -> Region \cup {NoRegion}]
    BY DEF IInv, TypeInv
  <1>4. /\ block[t] = NULL /\ o.kind \in {"malloc", "calloc", "realloc"}
        /\ SizeFits(o.size) /\ (o.kind = "realloc" => o.size # 0)
        /\ old[t] # NoRegion => o.kind \in {"free", "realloc"}
    BY <1>1, <1>2, Inside DEF CallOK
  <1>5. PICK H : H = HeldBy("find", o, NULL, old[t])
    OBVIOUS
  <1>6. /\ live \cap H = {}
        /\ HeapOK(live \cup H, mem, mem_brkp, mem_alloctop, heap_listp,
                  WantedBy("find", NULL), Needed(o.size))
    BY <1>1, <1>2, <1>4, <1>5, Inside
  <1>7. PICK e, b0 : e = mem_brkp - 1 /\ b0 = WantedBy("find", NULL)
    OBVIOUS
  <1>8. /\ heap_listp = 1 /\ mem_brkp - 1 = e
        /\ Sound(live \cup H, mem, e, b0, Needed(o.size))
    BY <1>1, <1>6, <1>7 DEF HeapOK
  <1>9. mm_checkheap(mem)
    BY <1>8, SoundCheck
  <1>10. panicked' = FALSE
    BY <1>9 DEF find
  <1>11. Moved(op, op', t, o) /\ Moved(old, old', t, old[t])
    BY <1>1, <1>2, <1>3 DEF Moved
  <1>12. H = {old[t]} \ {NoRegion}
    BY <1>5 DEF HeldBy
  <1>13. CASE o.size = 0
    <2>1. Moved(pc, pc', t, "unlock") /\ "unlock" \in Locations
      BY <1>2, <1>13 DEF find, Goto, Moved, Locations
    <2>2. block' = block
      BY <1>2, <1>3, <1>4, <1>13 DEF find
    <2>3. CallOK("unlock", o, NULL, old[t], heap_listp)
      BY <1>4 DEF CallOK
    <2>4. HeldBy("unlock", o, NULL, old[t]) = H
      BY <1>4, <1>12, <1>13 DEF HeldBy, Returned
    <2> QED
      BY <1>1, <1>2, <1>4, <1>5, <1>10, <1>11, <2>1, <2>2, <2>3, <2>4, SameHeap
  <1>14. CASE o.size # 0
    <2>1. PICK b : b = find_fit(mem, Needed(o.size))
      OBVIOUS
    <2>2. asize(t) = Needed(o.size)
      BY <1>2, GivenIs
    <2>3. b \in Nat /\ Sound(live \cup H, mem, e, b, Needed(o.size))
      BY <1>8, <2>1, SoundFind
    <2>4. Allocates(o)
      BY <1>4, <1>14 DEF Allocates
    <2>5. Moved(block, block', t, b)
      BY <1>2, <1>14, <2>1, <2>2 DEF find, Moved
    <2>6. /\ mem' = mem /\ mem_brkp' = mem_brkp /\ mem_alloctop' = mem_alloctop
          /\ heap_listp' = heap_listp
      BY <1>1 DEF memory
    <2>7. HeapOK(live \cup H, mem', mem_brkp', mem_alloctop', heap_listp', b,
                 Needed(o.size))
      BY <1>6, <1>8, <2>3, <2>6 DEF HeapOK
    <2>8. PICK p : p = IF b = NULL THEN "extend" ELSE "place"
      OBVIOUS
    <2>9. Moved(pc, pc', t, p) /\ p \in Locations /\ p # "app"
      BY <1>2, <1>14, <2>1, <2>2, <2>8 DEF find, Goto, Moved, Locations
    <2>10. CallOK(p, o, b, old[t], heap_listp')
      BY <1>1, <1>4, <2>4, <2>6, <2>8 DEF CallOK
    <2>11. HeldBy(p, o, b, old[t]) = H /\ WantedBy(p, b) = b
      BY <1>12, <2>8 DEF HeldBy, WantedBy
    <2>12. /\ HeapOK(live \cup HeldBy(p, o, b, old[t]), mem', mem_brkp', mem_alloctop',
                     heap_listp', WantedBy(p, b), Needed(o.size))
           /\ live \cap HeldBy(p, o, b, old[t]) = {}
      BY <1>6, <2>7, <2>11
    <2>13. old[t] \in Region \cup {NoRegion} /\ pc[t] # "app"
      BY <1>1, <1>3
    <2> QED
      BY <1>1, <1>10, <1>11, <2>3, <2>5, <2>9, <2>10, <2>12, <2>13, Frame
  <1> QED
    BY <1>13, <1>14

(* A call that gets no memory still holds the region it was given. *)
LEMMA ExtendFailsStep ==
  ASSUME IInv, NEW t \in Threads, extend_fails(t)
  PROVE  IInv'
  <1>1. /\ pc[t] = "extend" /\ UNCHANGED memory /\ malloc_mutex' = malloc_mutex
        /\ op' = op /\ block' = block /\ old' = old /\ live' = live
        /\ panicked' = panicked /\ Moved(pc, pc', t, "unlock")
    BY DEF extend_fails, Goto, Moved
  <1>2. PICK o \in Ops : o = op[t]
    BY DEF IInv, TypeInv
  <1>3. /\ block[t] = NULL /\ Allocates(o)
        /\ old[t] # NoRegion => o.kind \in {"free", "realloc"}
    BY <1>1, <1>2, Inside DEF CallOK
  <1>4. CallOK("unlock", o, NULL, old[t], heap_listp)
    BY <1>3 DEF CallOK
  <1>5. HeldBy("unlock", o, NULL, old[t]) = HeldBy("extend", o, NULL, old[t])
    BY <1>3 DEF HeldBy, Returned, Allocates
  <1>6. Moved(op, op', t, o) /\ panicked' = FALSE
    BY <1>1, <1>2 DEF IInv, TypeInv, Moved
  <1>7. "unlock" \in Locations
    BY DEF Locations
  <1> QED
    BY <1>1, <1>2, <1>3, <1>4, <1>5, <1>6, <1>7, SameHeap

(* mem_sbrk() and extend_heap() *)
LEMMA HeapExtend ==
  ASSUME NEW O, NEW m, NEW k, NEW top, NEW b, NEW n,
         HeapOK(O, m, k, top, 1, b, n), NEW s \in Nat, s >= 4, Even(s),
         NEW ok, ~SbrkFails(k, top, s, ok), NEW j \in Nat, j <= s
  PROVE  /\ HeapOK(O, NewBlock(m, k, s)[1], k + s, SbrkTop(k, top, s), 1,
                   NewBlock(m, k, s)[2], j)
         /\ NewBlock(m, k, s)[2] \in Nat \ {0}
  <1>1. /\ k \in Nat /\ top \in Nat /\ 2 <= k /\ k <= top /\ top <= Limit
        /\ Sound(O, m, k - 1, b, n)
    BY DEF HeapOK, NULL
  <1>2. /\ SbrkTop(k, top, s) \in Nat /\ k + s <= SbrkTop(k, top, s)
        /\ SbrkTop(k, top, s) <= Limit
    BY <1>1, SbrkFacts
  <1>3. PICK e \in Nat : e = k - 1 /\ k = e + 1
    BY <1>1
  <1>4. e + s < Limit /\ (k + s) - 1 = e + s
    BY <1>1, <1>2, <1>3, HeapAssumption
  <1>5. Sound(O, m, e, b, n)
    BY <1>1, <1>3
  <1>6. /\ Sound(O, NewBlock(m, e + 1, s)[1], e + s, NewBlock(m, e + 1, s)[2], j)
        /\ NewBlock(m, e + 1, s)[2] \in Nat \ {0}
    BY <1>4, <1>5, SoundExtend
  <1>7. PICK w : w = NewBlock(m, k, s) /\ w = NewBlock(m, e + 1, s)
    BY <1>3
  <1>8. Sound(O, w[1], (k + s) - 1, w[2], j) /\ w[2] \in Nat \ {0}
    BY <1>4, <1>6, <1>7
  <1>9. k + s \in Nat /\ 2 <= k + s
    BY <1>1
  <1>10. HeapOK(O, w[1], k + s, SbrkTop(k, top, s), 1, w[2], j)
    BY <1>2, <1>8, <1>9 DEF HeapOK
  <1> QED
    BY <1>7, <1>8, <1>10

(* A call gets a new block at the end of the heap. *)
LEMMA ExtendStep ==
  ASSUME IInv, NEW t \in Threads, extend_heap(t)
  PROVE  IInv'
  <1>1. PICK o \in Ops : o = op[t]
    BY DEF IInv, TypeInv
  <1>2. PICK n : n = Needed(o.size) /\ n = asize(t)
    BY <1>1, GivenIs
  <1>3. PICK s : s = LargerOf(n, chunksize)
    OBVIOUS
  <1>4. PICK w : w = NewBlock(mem, mem_brkp, s)
    OBVIOUS
  <1>5. /\ pc[t] = "extend" /\ malloc_mutex' = malloc_mutex /\ heap_listp' = heap_listp
        /\ op' = op /\ old' = old /\ live' = live /\ panicked' = panicked
        /\ Moved(pc, pc', t, "place") /\ Moved(block, block', t, w[2])
        /\ mem' = w[1] /\ mem_brkp' = mem_brkp + s
        /\ mem_alloctop' = SbrkTop(mem_brkp, mem_alloctop, s)
        /\ ~SbrkFails(mem_brkp, mem_alloctop, s, TRUE)
    BY <1>2, <1>3, <1>4 DEF extend_heap, Goto, Moved
  <1>6. /\ block[t] = NULL /\ Allocates(o) /\ heap_listp # NULL
        /\ old[t] # NoRegion => o.kind \in {"free", "realloc"}
        /\ old[t] \in Region \cup {NoRegion}
    BY <1>1, <1>5, Inside DEF CallOK
  <1>7. n \in Nat /\ n >= 4 /\ Even(n)
    <2>1. o.size \in Nat /\ o.size # 0 /\ SizeFits(o.size)
      BY <1>6 DEF Allocates, Ops
    <2> QED
      BY <1>2, <2>1, NeededFacts
  <1>8. s \in Nat /\ s >= 4 /\ Even(s) /\ n <= s
    BY <1>3, <1>7, HeapAssumption DEF LargerOf, Even
  <1>9. PICK H : H = HeldBy("extend", o, NULL, old[t])
    OBVIOUS
  <1>10. /\ live \cap H = {}
         /\ HeapOK(live \cup H, mem, mem_brkp, mem_alloctop, heap_listp,
                   WantedBy("extend", NULL), n)
    BY <1>1, <1>2, <1>5, <1>6, <1>9, Inside
  <1>11. heap_listp = 1
    BY <1>6, <1>10 DEF HeapOK
  <1>12. /\ HeapOK(live \cup H, w[1], mem_brkp + s,
                   SbrkTop(mem_brkp, mem_alloctop, s), 1, w[2], n)
         /\ w[2] \in Nat \ {0}
    <2>1. HeapOK(live \cup H, mem, mem_brkp, mem_alloctop, 1,
                 WantedBy("extend", NULL), n)
      BY <1>10, <1>11
    <2> QED
      BY <1>4, <1>5, <1>7, <1>8, <2>1, HeapExtend
  <1>13. HeldBy("place", o, w[2], old[t]) = H /\ WantedBy("place", w[2]) = w[2]
    BY <1>9 DEF HeldBy, WantedBy
  <1>14. /\ HeapOK(live \cup HeldBy("place", o, w[2], old[t]), mem', mem_brkp',
                   mem_alloctop', heap_listp', WantedBy("place", w[2]), Needed(o.size))
         /\ live \cap HeldBy("place", o, w[2], old[t]) = {}
    BY <1>2, <1>5, <1>10, <1>11, <1>12, <1>13
  <1>15. CallOK("place", o, w[2], old[t], heap_listp')
    BY <1>5, <1>6, <1>12 DEF CallOK, NULL
  <1>16. Moved(op, op', t, o) /\ Moved(old, old', t, old[t]) /\ panicked' = FALSE
    BY <1>1, <1>5 DEF IInv, TypeInv, Moved
  <1>17. "place" \in Locations /\ pc[t] # "app" /\ w[2] \in Nat
    BY <1>5, <1>12 DEF Locations
  <1> QED
    BY <1>5, <1>6, <1>14, <1>15, <1>16, <1>17, Frame

(* mm_init(): a heap of two tags, and a first chunk if there is one. *)
LEMMA SoundInit ==
  ASSUME NEW m \in Memory, NEW m2, m2 = [m EXCEPT ![0] = 1, ![1] = 1], NEW n
  PROVE  Sound({}, m2, 1, NULL, n)
  <1>1. PICK sz : sz = [x \in {} |-> 0]
    OBVIOUS
  <1>2. 0 \in 0..(Limit - 1) /\ 1 \in 0..(Limit - 1) /\ 1 < Limit
    BY HeapAssumption
  <1>3. m2 \in Memory /\ m2[0] = 1 /\ m2[1] = 1
    BY <1>2 DEF Memory
  <1>4. Tiling({}, sz, 1)
    BY <1>1 DEF Tiling
  <1>5. BlocksOf({}) = {}
    BY DEF BlocksOf
  <1>6. Shape({}, sz, {}, 1, m2) /\ Spaced({}, sz, {}, 1)
    BY <1>2, <1>3, <1>4 DEF Shape, Tagged, Spaced
  <1>7. Arranged({}, sz, {}, m2, 1, NULL, n)
    BY <1>5, <1>6 DEF Arranged, Fits, Ready
  <1>8. Apart({})
    BY DEF Apart
  <1> QED
    BY <1>7, <1>8 DEF Sound

(* The first call of _malloc() sets up the heap. *)
LEMMA InitHeapStep ==
  ASSUME IInv, NEW t \in Threads, NEW ok \in BOOLEAN, init_heap(t, ok)
  PROVE  IInv'
  <1>1. /\ pc[t] = "find" /\ heap_listp = NULL /\ mm_init(ok)
        /\ malloc_mutex' = malloc_mutex /\ pc' = pc /\ op' = op /\ block' = block
        /\ old' = old /\ live' = live /\ panicked' = panicked
    BY DEF init_heap
  <1>2. PICK o \in Ops : o = op[t]
    BY DEF IInv, TypeInv
  <1>3. PICK b \in Nat : b = block[t]
    BY DEF IInv, TypeInv
  <1>4. PICK r \in Region \cup {NoRegion} : r = old[t]
    BY DEF IInv, TypeInv
  <1>5. CallOK("find", o, b, r, heap_listp)
    BY <1>1, <1>2, <1>3, <1>4, Inside
  <1>6. CallOK("find", o, b, r, heap_listp')
    BY <1>5 DEF CallOK
  <1>7. PICK O : O = live \cup HeldBy("find", o, b, r)
    OBVIOUS
  <1>8. /\ live \cap HeldBy("find", o, b, r) = {}
        /\ HeapOK(O, mem, mem_brkp, mem_alloctop, heap_listp, WantedBy("find", b),
                  Needed(o.size))
    BY <1>1, <1>2, <1>3, <1>4, <1>7, Inside
  <1>9. O = {} /\ mem \in Memory
    BY <1>1, <1>8 DEF HeapOK, NULL
  <1>10. PICK m : m = [mem EXCEPT ![0] = 1, ![1] = 1]
    OBVIOUS
  <1>11. Sound({}, m, 1, NULL, Needed(o.size))
    BY <1>9, <1>10, SoundInit
  <1>12. HeapOK(O, m, 2, PAGE_SIZE, 1, NULL, Needed(o.size))
    <2>1. 2 - 1 = 1 /\ PAGE_SIZE \in Nat /\ 2 <= PAGE_SIZE /\ PAGE_SIZE <= Limit
      BY HeapAssumption
    <2> QED
      BY <1>9, <1>11, <2>1 DEF HeapOK
  <1>13. /\ heap_listp' = 1
         /\ mem' = IF SbrkFails(2, PAGE_SIZE, chunksize, ok) THEN m
                   ELSE NewBlock(m, 2, chunksize)[1]
         /\ mem_brkp' = IF SbrkFails(2, PAGE_SIZE, chunksize, ok) THEN 2
                        ELSE 2 + chunksize
         /\ mem_alloctop' = IF SbrkFails(2, PAGE_SIZE, chunksize, ok) THEN PAGE_SIZE
                            ELSE SbrkTop(2, PAGE_SIZE, chunksize)
    BY <1>1, <1>10 DEF mm_init, pack
  <1>14. HeapOK(O, mem', mem_brkp', mem_alloctop', heap_listp', NULL, Needed(o.size))
    <2>1. CASE SbrkFails(2, PAGE_SIZE, chunksize, ok)
      BY <1>12, <1>13, <2>1
    <2>2. CASE ~SbrkFails(2, PAGE_SIZE, chunksize, ok)
      <3>1. chunksize \in Nat /\ chunksize >= 4 /\ Even(chunksize)
            /\ 0 \in Nat /\ 0 <= chunksize
        BY HeapAssumption DEF Even
      <3>2. HeapOK(O, NewBlock(m, 2, chunksize)[1], 2 + chunksize,
                   SbrkTop(2, PAGE_SIZE, chunksize), 1, NewBlock(m, 2, chunksize)[2], 0)
        BY <1>12, <2>2, <3>1, HeapExtend
      <3>3. HeapOK(O, NewBlock(m, 2, chunksize)[1], 2 + chunksize,
                   SbrkTop(2, PAGE_SIZE, chunksize), 1, NULL, Needed(o.size))
        BY <3>2, HeapNone
      <3> QED
        BY <1>13, <2>2, <3>3
    <2> QED
      BY <2>1, <2>2
  <1>15. HeapOK(live \cup HeldBy("find", o, b, r), mem', mem_brkp', mem_alloctop',
                heap_listp', WantedBy("find", b), Needed(o.size))
    BY <1>7, <1>14 DEF WantedBy
  <1>16. /\ Moved(pc, pc', t, "find") /\ Moved(op, op', t, o)
         /\ Moved(block, block', t, b) /\ Moved(old, old', t, r) /\ panicked' = FALSE
    BY <1>1, <1>2, <1>3, <1>4 DEF IInv, TypeInv, Moved
  <1>17. "find" \in Locations /\ pc[t] # "app"
    BY <1>1 DEF Locations
  <1> QED
    BY <1>1, <1>6, <1>8, <1>15, <1>16, <1>17, Frame

(* place() *)
LEMMA PlaceStep ==
  ASSUME IInv, NEW t \in Threads, place_block(t)
  PROVE  IInv'
  <1>1. PICK o \in Ops : o = op[t]
    BY DEF IInv, TypeInv
  <1>2. PICK n : n = Needed(o.size) /\ n = asize(t)
    BY <1>1, GivenIs
  <1>3. PICK b \in Nat : b = block[t]
    BY DEF IInv, TypeInv
  <1>4. PICK r \in Region \cup {NoRegion} : r = old[t]
    BY DEF IInv, TypeInv
  <1>5. PICK p : p = CASE o.kind = "calloc" -> "zero"
                       [] o.kind = "realloc" /\ r # NoRegion -> "copy"
                       [] OTHER -> "unlock"
    OBVIOUS
  <1>6. /\ pc[t] = "place" /\ malloc_mutex' = malloc_mutex /\ heap_listp' = heap_listp
        /\ op' = op /\ old' = old /\ live' = live /\ mem_brkp' = mem_brkp
        /\ mem_alloctop' = mem_alloctop /\ mem' = place(mem, b, n)
        /\ Moved(pc, pc', t, p)
    BY <1>1, <1>2, <1>3, <1>4, <1>5 DEF place_block, Goto, Moved
  <1>7. /\ b # NULL /\ Allocates(o) /\ heap_listp # NULL
        /\ r # NoRegion => o.kind \in {"free", "realloc"}
    BY <1>1, <1>3, <1>4, <1>6, Inside DEF CallOK
  <1>8. o.size \in Nat /\ o.size # 0 /\ SizeFits(o.size)
        /\ o.kind \in {"malloc", "calloc", "realloc"}
    BY <1>7 DEF Allocates, Ops
  <1>9. n \in Nat /\ n >= 4 /\ Even(n) /\ o.size + 2 <= n
    BY <1>2, <1>8, NeededFacts
  <1>10. PICK c \in Nat : c = b + 1 /\ c # NULL
    BY DEF NULL
  <1>11. Moved(block, block', t, c)
    BY <1>3, <1>10 DEF place_block, Moved
  <1>12. PICK O : O = live \cup HeldBy("place", o, b, r)
    OBVIOUS
  <1>13. /\ live \cap HeldBy("place", o, b, r) = {}
         /\ HeapOK(O, mem, mem_brkp, mem_alloctop, heap_listp, b, n)
    <2>1. WantedBy("place", b) = b
      BY DEF WantedBy
    <2> QED
      BY <1>1, <1>2, <1>3, <1>4, <1>6, <1>12, <2>1, Inside
  <1>14. PICK e : e = mem_brkp - 1
    OBVIOUS
  <1>15. heap_listp = 1 /\ Sound(O, mem, e, b, n)
    BY <1>7, <1>13, <1>14 DEF HeapOK
  <1>16. HeldBy("place", o, b, r) = {r} \ {NoRegion}
    BY DEF HeldBy
  <1>17. PICK g : g = IF p = "unlock" THEN GivenTo(o, c, r) ELSE BlankFor(o, c, r)
    OBVIOUS
  <1>18. g \in Region /\ g.ptr = b + 1 /\ g.size + 2 <= n /\ g.keep = 0
    <2>1. /\ BlankFor(o, c, r) \in Region /\ GivenTo(o, c, r) \in Region
          /\ BlankFor(o, c, r).ptr = c /\ BlankFor(o, c, r).size = o.size
          /\ BlankFor(o, c, r).keep = 0
          /\ GivenTo(o, c, r).ptr = c /\ GivenTo(o, c, r).size = o.size
          /\ o.kind # "calloc" /\ r = NoRegion => GivenTo(o, c, r).keep = 0
      BY <1>8, <1>10, NewRegion
    <2>2. p = "unlock" => o.kind # "calloc" /\ r = NoRegion
      BY <1>5, <1>7, <1>8
    <2> QED
      BY <1>9, <1>10, <1>17, <2>1, <2>2
  <1>19. /\ Sound(O \cup {g}, place(mem, b, n), e, NULL, n)
         /\ \A q \in O : q.ptr # g.ptr
    BY <1>7, <1>9, <1>15, <1>18, SoundPlace
  <1>20. mm_checkheap(mem')
    BY <1>6, <1>15, <1>19, SoundCheck
  <1>21. panicked' = FALSE
    BY <1>20 DEF place_block
  <1>22. HeldBy(p, o, c, r) = ({r} \ {NoRegion}) \cup {g}
    BY <1>5, <1>7, <1>8, <1>10, <1>17 DEF HeldBy
  <1>23. live \cup HeldBy(p, o, c, r) = O \cup {g}
    BY <1>12, <1>16, <1>22
  <1>24. live \cap HeldBy(p, o, c, r) = {}
    <2>1. g \notin live
      BY <1>12, <1>19
    <2> QED
      BY <1>13, <1>16, <1>22, <2>1
  <1>25. WantedBy(p, c) = NULL
    BY <1>5 DEF WantedBy
  <1>26. HeapOK(live \cup HeldBy(p, o, c, r), mem', mem_brkp', mem_alloctop',
                heap_listp', WantedBy(p, c), Needed(o.size))
    <2>1. HeapOK(O \cup {g}, place(mem, b, n), mem_brkp, mem_alloctop, heap_listp,
                 NULL, n)
      BY <1>13, <1>14, <1>15, <1>19 DEF HeapOK, NULL
    <2> QED
      BY <1>2, <1>6, <1>23, <1>25, <2>1
  <1>27. p = "copy" => r # NoRegion /\ r.ptr # c
    <2>1. p = "copy" => r # NoRegion
      BY <1>5
    <2>2. r # NoRegion => r \in O
      BY <1>12, <1>16
    <2> QED
      BY <1>10, <1>18, <1>19, <2>1, <2>2
  <1>28. CallOK(p, o, c, r, heap_listp')
    BY <1>5, <1>6, <1>7, <1>10, <1>27 DEF CallOK
  <1>29. Moved(op, op', t, o) /\ Moved(old, old', t, r)
    BY <1>1, <1>4, <1>6 DEF IInv, TypeInv, Moved
  <1>30. p \in Locations /\ p # "app" /\ pc[t] # "app"
    BY <1>5, <1>6 DEF Locations
  <1> QED
    BY <1>6, <1>11, <1>21, <1>24, <1>26, <1>28, <1>29, <1>30, Frame

(* memset() and memcpy(): the new region r1 becomes g. *)
LEMMA RewriteStep ==
  ASSUME IInv, NEW t \in Threads, NEW p \in Locations, p # "app", p # "place",
         pc[t] \in {"zero", "copy"}, Moved(pc, pc', t, p), malloc_mutex' = malloc_mutex,
         heap_listp' = heap_listp, mem_brkp' = mem_brkp, mem_alloctop' = mem_alloctop,
         op' = op, block' = block, old' = old, live' = live, panicked' = panicked,
         NEW r1, r1 = BlankFor(op[t], block[t], old[t]),
         NEW g, g = GivenTo(op[t], block[t], old[t]),
         CallOK(p, op[t], block[t], old[t], heap_listp),
         NEW S, HeldBy(pc[t], op[t], block[t], old[t]) = S \cup {r1}, r1 \notin S,
         HeldBy(p, op[t], block[t], old[t]) = S \cup {g},
         mem' \in Memory, Outside(mem, mem', r1.ptr, r1.size), Holds(mem', g)
  PROVE  IInv'
  <1>1. PICK o \in Ops : o = op[t]
    BY DEF IInv, TypeInv
  <1>2. PICK b \in Nat : b = block[t]
    BY DEF IInv, TypeInv
  <1>3. PICK r \in Region \cup {NoRegion} : r = old[t]
    BY DEF IInv, TypeInv
  <1>4. pc[t] # "app"
    OBVIOUS
  <1>5. b # NULL /\ Allocates(o)
    BY <1>1, <1>2, <1>4, Inside DEF CallOK
  <1>6. o.size # 0
    BY <1>5 DEF Allocates
  <1>7. /\ r1 \in Region /\ g \in Region /\ g.ptr = r1.ptr /\ g.size = r1.size
    BY <1>1, <1>2, <1>3, <1>5, <1>6, NewRegion
  <1>8. /\ live \cap (S \cup {r1}) = {}
        /\ HeapOK(live \cup (S \cup {r1}), mem, mem_brkp, mem_alloctop, heap_listp,
                  WantedBy(pc[t], block[t]), Needed(op[t].size))
    BY <1>4, Inside
  <1>9. PICK O : O = live \cup (S \cup {r1})
    OBVIOUS
  <1>10. r1 \in O /\ Apart(O) /\ HeapOK(O, mem, mem_brkp, mem_alloctop, heap_listp,
                                        NULL, Needed(o.size))
    BY <1>8, <1>9, HeapMemory, HeapNone
  <1>11. HeapOK((O \ {r1}) \cup {g}, mem', mem_brkp, mem_alloctop, heap_listp,
                NULL, Needed(o.size))
    BY <1>7, <1>10, FillHeap
  <1>12. live \cup (S \cup {g}) = (O \ {r1}) \cup {g}
    BY <1>8, <1>9
  <1>13. live \cap (S \cup {g}) = {}
    <2>1. g \in live => g = r1
      BY <1>7, <1>9, <1>10 DEF Apart
    <2> QED
      BY <1>8, <2>1
  <1>14. WantedBy(p, b) = NULL
    BY DEF WantedBy
  <1>15. /\ HeapOK(live \cup HeldBy(p, o, b, r), mem', mem_brkp', mem_alloctop',
                   heap_listp', WantedBy(p, b), Needed(o.size))
         /\ live \cap HeldBy(p, o, b, r) = {}
    BY <1>1, <1>2, <1>3, <1>11, <1>12, <1>13, <1>14
  <1>16. /\ Moved(op, op', t, o) /\ Moved(block, block', t, b) /\ Moved(old, old', t, r)
         /\ panicked' = FALSE
    BY <1>1, <1>2, <1>3 DEF IInv, TypeInv, Moved
  <1>17. CallOK(p, o, b, r, heap_listp')
    BY <1>1, <1>2, <1>3
  <1> QED
    BY <1>4, <1>15, <1>16, <1>17, Frame

(* A region lies in memory and holds what it should. *)
LEMMA RegionInHeap ==
  ASSUME NEW O, NEW m, NEW k, NEW top, NEW h, NEW b, NEW n,
         HeapOK(O, m, k, top, h, b, n), NEW r \in O
  PROVE  /\ \A i \in 0..(r.size - 1) : r.ptr + i \in 0..(Limit - 1)
         /\ Holds(m, r)
  <1>1. PICK e : e = k - 1 /\ Sound(O, m, e, b, n)
    BY DEF HeapOK
  <1>2. PICK T, sz : Arranged(T, sz, O, m, e, b, n) /\ O \subseteq Region
    BY <1>1 DEF Sound
  <1>3. PICK s : s = sz[r.ptr - 1]
    OBVIOUS
  <1>4. /\ s \in Nat /\ r.size + 2 <= s /\ (r.ptr - 1) + s <= e /\ e < Limit
        /\ e \in Nat /\ Holds(m, r)
    BY <1>2, <1>3, RegionExtent
  <1>5. r.ptr \in Nat /\ r.size \in Nat /\ Limit \in Nat
    BY <1>2, RegionFacts, HeapAssumption
  <1> QED
    BY <1>4, <1>5

(* memset() of _calloc() *)
LEMMA ZeroStep ==
  ASSUME IInv, NEW t \in Threads, zero(t)
  PROVE  IInv'
  <1>1. /\ pc[t] = "zero" /\ Moved(pc, pc', t, "unlock") /\ malloc_mutex' = malloc_mutex
        /\ heap_listp' = heap_listp /\ mem_brkp' = mem_brkp
        /\ mem_alloctop' = mem_alloctop /\ op' = op /\ block' = block /\ old' = old
        /\ live' = live /\ panicked' = panicked
    BY DEF zero, Goto, Moved
  <1>2. PICK o \in Ops : o = op[t]
    BY DEF IInv, TypeInv
  <1>3. PICK b \in Nat : b = block[t]
    BY DEF IInv, TypeInv
  <1>4. PICK r \in Region \cup {NoRegion} : r = old[t]
    BY DEF IInv, TypeInv
  <1>5. b # NULL /\ Allocates(o) /\ o.kind = "calloc"
        /\ (r # NoRegion => o.kind \in {"free", "realloc"})
    BY <1>1, <1>2, <1>3, <1>4, Inside DEF CallOK
  <1>6. o.size # 0 /\ o.size \in Nat
    BY <1>5 DEF Allocates, Ops
  <1>7. PICK r1, g : r1 = BlankFor(o, b, r) /\ g = GivenTo(o, b, r)
    OBVIOUS
  <1>8. /\ r1 \in Region /\ g \in Region /\ r1.ptr = b /\ r1.size = o.size
        /\ g.ptr = b /\ g.size = o.size /\ g.fill = 0
    BY <1>5, <1>6, <1>7, NewRegion
  <1>9. HeldBy("zero", o, b, r) = {} \cup {r1} /\ HeldBy("unlock", o, b, r) = {} \cup {g}
    BY <1>5, <1>7 DEF HeldBy
  <1>10. HeapOK(live \cup HeldBy("zero", o, b, r), mem, mem_brkp, mem_alloctop,
                heap_listp, WantedBy("zero", b), Needed(o.size))
    BY <1>1, <1>2, <1>3, <1>4, Inside
  <1>11. mem \in Memory
    BY <1>10, HeapMemory
  <1>12. \A i \in 0..(o.size - 1) : b + i \in 0..(Limit - 1)
    <2>1. r1 \in live \cup HeldBy("zero", o, b, r)
      BY <1>9
    <2> QED
      BY <1>8, <1>10, <2>1, RegionInHeap
  <1>13. mem' = [a \in 0..(Limit - 1) |->
                   IF a \in b..(b + o.size - 1) THEN 0 ELSE mem[a]]
    BY <1>2, <1>3 DEF zero
  <1>14. mem' \in Memory
    BY <1>11, <1>13 DEF Memory
  <1>15. Outside(mem, mem', r1.ptr, r1.size)
    <2>1. SUFFICES ASSUME NEW a \in 0..(Limit - 1), ~(b <= a /\ a < b + o.size)
                   PROVE  mem'[a] = mem[a]
      BY <1>8 DEF Outside
    <2>2. a \notin b..(b + o.size - 1)
      BY <1>6, <2>1
    <2> QED
      BY <1>13, <2>2
  <1>16. Holds(mem', g)
    <2>1. SUFFICES ASSUME NEW i \in 0..(g.keep - 1) PROVE mem'[b + i] = 0
      BY <1>8 DEF Holds
    <2>2. g.keep \in Nat /\ g.keep <= o.size
      BY <1>8, RegionFacts
    <2>3. i \in 0..(o.size - 1) /\ b + i \in b..(b + o.size - 1)
      BY <1>6, <2>2
    <2> QED
      BY <1>12, <1>13, <2>3
  <1>17. CallOK("unlock", o, b, r, heap_listp)
    BY <1>5 DEF CallOK
  <1>18. "unlock" \in Locations
    BY DEF Locations
  <1>19. PICK S : S = {}
    OBVIOUS
  <1>20. /\ r1 = BlankFor(op[t], block[t], old[t])
         /\ g = GivenTo(op[t], block[t], old[t])
         /\ CallOK("unlock", op[t], block[t], old[t], heap_listp)
         /\ HeldBy(pc[t], op[t], block[t], old[t]) = S \cup {r1} /\ r1 \notin S
         /\ HeldBy("unlock", op[t], block[t], old[t]) = S \cup {g}
    BY <1>1, <1>2, <1>3, <1>4, <1>7, <1>9, <1>17, <1>18, <1>19
  <1>21. pc[t] \in {"zero", "copy"}
    BY <1>1
  <1> QED
    BY <1>1, <1>14, <1>15, <1>16, <1>18, <1>20, <1>21, RewriteStep

(* memcpy() of _realloc(): it stays inside of both regions. *)
LEMMA CopyStep ==
  ASSUME IInv, NEW t \in Threads, copy(t)
  PROVE  IInv'
  <1>1. /\ pc[t] = "copy" /\ Moved(pc, pc', t, "free") /\ malloc_mutex' = malloc_mutex
        /\ heap_listp' = heap_listp /\ mem_brkp' = mem_brkp
        /\ mem_alloctop' = mem_alloctop /\ op' = op /\ block' = block /\ old' = old
        /\ live' = live /\ panicked' = panicked
    BY DEF copy, Goto, Moved
  <1>2. PICK o \in Ops : o = op[t]
    BY DEF IInv, TypeInv
  <1>3. PICK b \in Nat : b = block[t]
    BY DEF IInv, TypeInv
  <1>4. PICK r \in Region \cup {NoRegion} : r = old[t]
    BY DEF IInv, TypeInv
  <1>5. b # NULL /\ Allocates(o) /\ o.kind = "realloc" /\ r # NoRegion /\ r.ptr # b
    BY <1>1, <1>2, <1>3, <1>4, Inside DEF CallOK
  <1>6. o.size # 0 /\ o.size \in Nat /\ r \in Region
    BY <1>5 DEF Allocates, Ops
  <1>7. PICK r1, g : r1 = BlankFor(o, b, r) /\ g = GivenTo(o, b, r)
    OBVIOUS
  <1>8. /\ r1 \in Region /\ g \in Region /\ r1.ptr = b /\ r1.size = o.size
        /\ g.ptr = b /\ g.size = o.size /\ g.fill = r.fill /\ g.keep <= r.keep
    BY <1>5, <1>6, <1>7, NewRegion
  <1>9. HeldBy("copy", o, b, r) = {r} \cup {r1} /\ HeldBy("free", o, b, r) = {r} \cup {g}
    BY <1>5, <1>7 DEF HeldBy
  <1>10. PICK O : O = live \cup HeldBy("copy", o, b, r)
    OBVIOUS
  <1>11. HeapOK(O, mem, mem_brkp, mem_alloctop, heap_listp, WantedBy("copy", b),
                Needed(o.size))
    BY <1>1, <1>2, <1>3, <1>4, <1>10, Inside
  <1>12. r \in O /\ r1 \in O
    BY <1>9, <1>10
  <1>13. mem \in Memory
    BY <1>11, HeapMemory
  <1>14. \A i \in 0..(o.size - 1) : b + i \in 0..(Limit - 1)
    BY <1>8, <1>11, <1>12, RegionInHeap
  <1>15. PICK e, b0 : e = mem_brkp - 1 /\ b0 = WantedBy("copy", b)
                      /\ Sound(O, mem, e, b0, Needed(o.size))
    BY <1>11, <1>12 DEF HeapOK
  <1>16. PICK T, sz : Arranged(T, sz, O, mem, e, b0, Needed(o.size)) /\ O \subseteq Region
    BY <1>15 DEF Sound
  <1>17. PICK d, s : d = r.ptr - 1 /\ s = sz[d]
    OBVIOUS
  <1>18. /\ d \in T /\ s \in Nat /\ r.size + 2 <= s /\ d + s <= e /\ e < Limit
         /\ e \in Nat /\ Holds(mem, r)
    BY <1>12, <1>16, <1>17, RegionExtent
  <1>19. /\ r.ptr \in Nat /\ r.ptr = d + 1 /\ d \in Nat /\ r.keep \in Nat
         /\ r.size \in Nat /\ r.keep <= r.size
    BY <1>6, <1>17, RegionFacts
  <1>20. get_size(mem, d) = s
    BY <1>16, <1>17, <1>18, Reads DEF Arranged, Shape
  <1>21. PICK k : k = copysize(t)
    OBVIOUS
  <1>22. k \in Nat /\ k <= o.size /\ k <= s - 2 /\ (k = o.size \/ k = s - 2)
    <2>1. OldPayload(t) = s - 2
      BY <1>4, <1>17, <1>20 DEF OldPayload, get_payload_size, dsize
    <2>2. k = IF o.size < s - 2 THEN o.size ELSE s - 2
      BY <1>2, <1>21, <2>1 DEF copysize
    <2> QED
      BY <1>6, <1>18, <1>19, <2>2
  <1>23. mem' = [a \in 0..(Limit - 1) |->
                   IF a \in b..(b + k - 1) THEN mem[r.ptr + a - b] ELSE mem[a]]
    BY <1>3, <1>4, <1>21 DEF copy
  <1>24. ASSUME NEW a \in b..(b + k - 1) PROVE r.ptr + a - b \in 0..(Limit - 1)
    BY <1>18, <1>19, <1>22, HeapAssumption
  <1>25. mem' \in Memory
    <2>1. \A a \in 0..(Limit - 1) : mem'[a] \in Int
      BY <1>13, <1>23, <1>24 DEF Memory
    <2> QED
      BY <1>23, <2>1 DEF Memory
  <1>26. Outside(mem, mem', r1.ptr, r1.size)
    <2>1. SUFFICES ASSUME NEW a \in 0..(Limit - 1), ~(b <= a /\ a < b + o.size)
                   PROVE  mem'[a] = mem[a]
      BY <1>8 DEF Outside
    <2>2. a \notin b..(b + k - 1)
      BY <1>6, <1>22, <2>1
    <2> QED
      BY <1>23, <2>2
  <1>27. Holds(mem', g)
    <2>1. SUFFICES ASSUME NEW i \in 0..(g.keep - 1) PROVE mem'[b + i] = r.fill
      BY <1>8 DEF Holds
    <2>2. g.keep \in Nat /\ g.keep <= o.size
      BY <1>8, RegionFacts
    <2>3. i \in 0..(o.size - 1) /\ i \in 0..(r.keep - 1) /\ b + i \in b..(b + k - 1)
      BY <1>6, <1>8, <1>18, <1>19, <1>22, <2>2
    <2>4. PICK a : a = b + i /\ r.ptr + a - b = r.ptr + i
      BY <1>19, <2>3
    <2>5. mem'[a] = mem[r.ptr + a - b]
      BY <1>14, <1>23, <2>3, <2>4
    <2>6. mem[r.ptr + i] = r.fill
      BY <1>18, <2>3 DEF Holds
    <2> QED
      BY <2>4, <2>5, <2>6
  <1>28. CallOK("free", o, b, r, heap_listp)
    BY <1>5 DEF CallOK
  <1>29. "free" \in Locations /\ r1 \notin {r}
    BY <1>5, <1>8 DEF Locations
  <1>30. PICK S : S = {r}
    OBVIOUS
  <1>31. /\ r1 = BlankFor(op[t], block[t], old[t])
         /\ g = GivenTo(op[t], block[t], old[t])
         /\ CallOK("free", op[t], block[t], old[t], heap_listp)
         /\ HeldBy(pc[t], op[t], block[t], old[t]) = S \cup {r1} /\ r1 \notin S
         /\ HeldBy("free", op[t], block[t], old[t]) = S \cup {g}
    BY <1>1, <1>2, <1>3, <1>4, <1>7, <1>9, <1>28, <1>29, <1>30
  <1>32. pc[t] \in {"zero", "copy"}
    BY <1>1
  <1> QED
    BY <1>1, <1>25, <1>26, <1>27, <1>29, <1>31, <1>32, RewriteStep

(* _free() *)
LEMMA FreeStep ==
  ASSUME IInv, NEW t \in Threads, free_block(t)
  PROVE  IInv'
  <1>1. PICK o \in Ops : o = op[t]
    BY DEF IInv, TypeInv
  <1>2. PICK b \in Nat : b = block[t]
    BY DEF IInv, TypeInv
  <1>3. PICK r \in Region \cup {NoRegion} : r = old[t]
    BY DEF IInv, TypeInv
  <1>4. PICK d : d = r.ptr - 1
    OBVIOUS
  <1>5. /\ pc[t] = "free" /\ Moved(pc, pc', t, "unlock") /\ malloc_mutex' = malloc_mutex
        /\ heap_listp' = heap_listp /\ mem_brkp' = mem_brkp
        /\ mem_alloctop' = mem_alloctop /\ op' = op /\ block' = block /\ old' = old
        /\ live' = live /\ panicked' = panicked
        /\ mem' = coalesce(write_tags(mem, d, get_size(mem, d), FALSE), d)[1]
    BY <1>3, <1>4 DEF free_block, Goto, Moved
  <1>6. /\ r # NoRegion
        /\ r # NoRegion => o.kind \in {"free", "realloc"}
        /\ b = NULL => ~Returned(o, r)
        /\ b # NULL => Allocates(o) /\ o.kind = "realloc" /\ r.ptr # b
    BY <1>1, <1>2, <1>3, <1>5, Inside DEF CallOK
  <1>7. PICK H : H = HeldBy("free", o, b, r)
    OBVIOUS
  <1>8. /\ live \cap H = {}
        /\ HeapOK(live \cup H, mem, mem_brkp, mem_alloctop, heap_listp,
                  WantedBy("free", b), Needed(o.size))
    BY <1>1, <1>2, <1>3, <1>5, <1>7, Inside
  <1>9. PICK G : G = HeldBy("unlock", o, b, r)
    OBVIOUS
  <1>10. H = {r} \cup G /\ r \notin G
    <2>1. CASE b = NULL
      BY <1>6, <1>7, <1>9, <2>1 DEF HeldBy
    <2>2. CASE b # NULL
      <3>1. GivenTo(o, b, r).ptr = b
        BY DEF GivenTo
      <3> QED
        BY <1>6, <1>7, <1>9, <2>2, <3>1 DEF HeldBy
    <2> QED
      BY <2>1, <2>2
  <1>11. r \in live \cup H /\ (live \cup H) \ {r} = live \cup G /\ live \cap G = {}
    BY <1>8, <1>10
  <1>12. PICK O, e, b0 : O = live \cup H /\ e = mem_brkp - 1 /\ b0 = WantedBy("free", b)
                         /\ Sound(O, mem, e, b0, Needed(o.size))
    BY <1>8, <1>11 DEF HeapOK
  <1>13. Sound(O \ {r}, mem', e, NULL, Needed(o.size))
    BY <1>4, <1>5, <1>11, <1>12, SoundFree
  <1>14. HeapOK(live \cup G, mem', mem_brkp, mem_alloctop, heap_listp, NULL,
                Needed(o.size))
    <2>1. /\ heap_listp = 1 /\ mem_brkp \in Nat /\ mem_alloctop \in Nat
          /\ 2 <= mem_brkp /\ mem_brkp <= mem_alloctop /\ mem_alloctop <= Limit
      BY <1>8, <1>11 DEF HeapOK
    <2>2. Sound(live \cup G, mem', mem_brkp - 1, NULL, Needed(o.size))
      BY <1>11, <1>12, <1>13
    <2> QED
      BY <2>1, <2>2 DEF HeapOK
  <1>15. WantedBy("unlock", b) = NULL
    BY DEF WantedBy
  <1>16. /\ HeapOK(live \cup HeldBy("unlock", o, b, r), mem', mem_brkp', mem_alloctop',
                   heap_listp', WantedBy("unlock", b), Needed(o.size))
         /\ live \cap HeldBy("unlock", o, b, r) = {}
    BY <1>5, <1>9, <1>11, <1>14, <1>15
  <1>17. CallOK("unlock", o, b, r, heap_listp')
    BY <1>6 DEF CallOK
  <1>18. /\ Moved(op, op', t, o) /\ Moved(block, block', t, b) /\ Moved(old, old', t, r)
         /\ panicked' = FALSE
    BY <1>1, <1>2, <1>3, <1>5 DEF IInv, TypeInv, Moved
  <1>19. "unlock" \in Locations /\ pc[t] # "app"
    BY <1>5 DEF Locations
  <1> QED
    BY <1>5, <1>16, <1>17, <1>18, <1>19, Frame

-----------------------------------------------------------------------------
(* The invariant holds initially. *)
LEMMA InitIInv ==
  ASSUME Init
  PROVE  IInv
  <1>1. mem \in Memory
    BY DEF Init, Memory
  <1>2. NoOp \in Ops /\ NULL \in Nat /\ "app" \in Locations
    BY DEF NoOp, Ops, NULL, Locations
  <1>3. TypeInv
    BY <1>2 DEF Init, TypeInv
  <1>4. LockInv
    BY HeapAssumption DEF Init, LockInv
  <1>5. CallsInv
    BY DEF Init, CallsInv, CallOK
  <1>6. HeapInv
    <2>1. HeapOK(live, mem, mem_brkp, mem_alloctop, heap_listp, NULL, 0)
      BY <1>1 DEF Init, HeapOK
    <2> QED
      BY <2>1, HeapAssumption DEF Init, HeapInv
  <1> QED
    BY <1>3, <1>4, <1>5, <1>6 DEF IInv

(* Every step preserves it. *)
LEMMA NextIInv ==
  ASSUME GoodSizes, IInv, Next
  PROVE  IInv'
  <1>1. ASSUME NEW t \in Threads, NEW n \in Requests
        PROVE  n \in Nat /\ SizeFits(n)
    BY HeapAssumption DEF GoodSizes
  <1>2. ASSUME NEW t \in Threads, pc[t] = "app", old' = old, live' = live
        PROVE  old' = [old EXCEPT ![t] = NoRegion] /\ live' = live \ {NoRegion}
    <2>1. old[t] = NoRegion /\ old \in [Threads -> Region \cup {NoRegion}]
      BY <1>2 DEF IInv, CallsInv, CallOK, TypeInv
    <2>2. NoRegion \notin live
      BY RegionFacts DEF IInv, TypeInv
    <2> QED
      BY <1>2, <2>1, <2>2
  <1>3. ASSUME NEW r \in live, fill(r) PROVE IInv'
    BY <1>3, FillStep
  <1>4. ASSUME NEW t \in Threads, NEW n \in Requests, malloc(t, n) PROVE IInv'
    <2>1. Call(t, "malloc", n, 0) /\ pc[t] = "app" /\ old' = old /\ live' = live
      BY <1>4 DEF malloc, Call
    <2>2. old' = [old EXCEPT ![t] = NoRegion] /\ live' = live \ {NoRegion}
      BY <1>2, <2>1
    <2> QED
      BY <1>1, <2>1, <2>2, CallStep
  <1>5. ASSUME NEW t \in Threads, NEW p \in Products, calloc(t, p[1], p[2])
        PROVE  IInv'
    <2>1. Call(t, "calloc", p[2], p[1]) /\ pc[t] = "app" /\ old' = old /\ live' = live
      BY <1>5 DEF calloc, Call
    <2>2. old' = [old EXCEPT ![t] = NoRegion] /\ live' = live \ {NoRegion}
      BY <1>2, <2>1
    <2>3. PICK n \in Nat, s \in Nat : p = <<n, s>> /\ p[1] = n /\ p[2] = s
      BY HeapAssumption
    <2>4. Call(t, "calloc", s, n) /\ <<n, s>> \in Products
      BY <2>1, <2>3
    <2> QED
      BY <2>2, <2>4, CallStep
  <1>6. ASSUME NEW t \in Threads, NEW r \in live \cup {NoRegion}, free(t, r)
        PROVE  IInv'
    <2>1. /\ Call(t, "free", 0, 0) /\ old' = [old EXCEPT ![t] = r]
          /\ live' = live \ {r}
      BY <1>6 DEF free, GiveIn
    <2>2. SizeFits(0)
      BY DEF GoodSizes, SizeFits, min_block_size
    <2> QED
      BY <2>1, <2>2, CallStep
  <1>7. ASSUME NEW t \in Threads, NEW r \in live \cup {NoRegion}, NEW n \in Requests,
               realloc(t, r, n)
        PROVE  IInv'
    <2>1. /\ Call(t, "realloc", n, 0) /\ old' = [old EXCEPT ![t] = r]
          /\ live' = live \ {r}
      BY <1>7 DEF realloc, GiveIn
    <2> QED
      BY <1>1, <2>1, CallStep
  <1>8. ASSUME NEW t \in Threads, begin(t) PROVE IInv'
    BY <1>8, BeginStep
  <1>9. ASSUME NEW t \in Threads, NEW ok \in BOOLEAN, init_heap(t, ok)
        PROVE  IInv'
    BY <1>9, InitHeapStep
  <1>10. ASSUME NEW t \in Threads, find(t) PROVE IInv'
    BY <1>10, FindStep
  <1>11. ASSUME NEW t \in Threads, extend_fails(t) PROVE IInv'
    BY <1>11, ExtendFailsStep
  <1>12. ASSUME NEW t \in Threads, extend_heap(t) PROVE IInv'
    BY <1>12, ExtendStep
  <1>13. ASSUME NEW t \in Threads, place_block(t) PROVE IInv'
    BY <1>13, PlaceStep
  <1>14. ASSUME NEW t \in Threads, zero(t) PROVE IInv'
    BY <1>14, ZeroStep
  <1>15. ASSUME NEW t \in Threads, copy(t) PROVE IInv'
    BY <1>15, CopyStep
  <1>16. ASSUME NEW t \in Threads, free_block(t) PROVE IInv'
    BY <1>16, FreeStep
  <1>17. ASSUME NEW t \in Threads, unlock(t) PROVE IInv'
    BY <1>17, UnlockStep
  <1> QED
    BY <1>3, <1>4, <1>5, <1>6, <1>7, <1>8, <1>9, <1>10, <1>11, <1>12, <1>13,
       <1>14,
       <1>15, <1>16, <1>17 DEF Next

(* So does a step that changes nothing. *)
LEMMA StutterIInv ==
  ASSUME IInv, UNCHANGED vars
  PROVE  IInv'
  <1>1. /\ mem' = mem /\ mem_brkp' = mem_brkp /\ mem_alloctop' = mem_alloctop
        /\ heap_listp' = heap_listp /\ malloc_mutex' = malloc_mutex /\ pc' = pc
        /\ op' = op /\ block' = block /\ old' = old /\ live' = live
        /\ panicked' = panicked
    BY DEF vars, memory
  <1> QED
    BY <1>1 DEF IInv, TypeInv, LockInv, CallsInv, HeapInv

(* The invariant holds in every state that is reached without a request    *)
(* that wraps around.                                                      *)
THEOREM Invariance ==
  ASSUME GoodSizes
  PROVE  Spec => []IInv
  <1>1. Init => IInv
    BY InitIInv
  <1>2. IInv /\ [Next]_vars => IInv'
    BY NextIInv, StutterIInv
  <1> QED
    BY <1>1, <1>2, PTL DEF Spec

-----------------------------------------------------------------------------
(* The invariant implies HeapTiles. *)
LEMMA TilesFromInv ==
  ASSUME IInv
  PROVE  HeapTiles
  <1>1. TypeInv /\ LockInv /\ CallsInv /\ HeapInv
    BY DEF IInv
  <1>2. ASSUME malloc_mutex = NoThread, heap_listp # NULL
        PROVE  Tiled(mem, Kept \ {NoRegion})
    <2>1. HeapOK(live, mem, mem_brkp, mem_alloctop, heap_listp, NULL, 0)
      BY <1>1, <1>2 DEF HeapInv
    <2>2. PICK e : e = mem_brkp - 1 /\ Sound(live, mem, e, NULL, 0) /\ heap_listp = 1
      BY <1>2, <2>1 DEF HeapOK
    <2>3. \A t \in Threads : pc[t] = "app"
      BY <1>1, <1>2, HeapAssumption DEF LockInv
    <2>4. NoRegion \notin live
      BY <1>1, RegionFacts DEF TypeInv
    <2>5. Kept \ {NoRegion} = live
      BY <2>3, <2>4 DEF Kept
    <2> QED
      BY <2>2, <2>5, SoundTiled
  <1>3. ~panicked
    BY <1>1 DEF TypeInv
  <1> QED
    BY <1>2, <1>3, Zenon DEF HeapTiles, Tiled

(* Between calls the blocks tile the heap, correctly tagged and coalesced, *)
(* the allocated ones are the regions handed out, and mm_checkheap() never *)
(* fails.                                                                  *)
THEOREM BlocksTileHeap ==
  ASSUME GoodSizes
  PROVE  Spec => []HeapTiles
  <1>1. IInv => HeapTiles
    BY TilesFromInv
  <1> QED
    BY <1>1, Invariance, PTL

(* The invariant implies PayloadIntact. *)
LEMMA IntactFromInv ==
  ASSUME IInv
  PROVE  PayloadIntact
  <1>1. TypeInv /\ LockInv /\ CallsInv /\ HeapInv
    BY DEF IInv
  <1>2. SUFFICES ASSUME NEW r \in Kept PROVE Holds(mem, r)
    BY Zenon DEF PayloadIntact, Holds
  <1>3. CASE r = NoRegion
    <2>1. 0..(r.keep - 1) = {}
      BY <1>3 DEF NoRegion
    <2> QED
      BY <2>1 DEF Holds
  <1>4. CASE r \in live
    <2>1. CASE malloc_mutex = NoThread
      BY <1>1, <1>4, <2>1, RegionInHeap DEF HeapInv
    <2>2. CASE malloc_mutex \in Threads
      <3>1. PICK O, b, n : /\ HeapOK(O, mem, mem_brkp, mem_alloctop, heap_listp, b, n)
                           /\ r \in O
        <4>1. PICK t \in Threads : malloc_mutex = t
          BY <2>2
        <4>2. PICK O : O = live \cup HeldBy(pc[t], op[t], block[t], old[t])
          OBVIOUS
        <4>3. HeapOK(O, mem, mem_brkp, mem_alloctop, heap_listp,
                     WantedBy(pc[t], block[t]), Needed(op[t].size))
          BY <1>1, <4>1, <4>2 DEF HeapInv
        <4> QED
          BY <1>4, <4>2, <4>3
      <3> QED
        BY <3>1, RegionInHeap
    <2> QED
      BY <1>1, <2>1, <2>2 DEF TypeInv
  <1>5. CASE r \notin live /\ r # NoRegion
    <2>1. PICK t \in Threads : /\ r = old[t]
                               /\ pc[t] \in {"begin", "find", "extend", "place", "copy"}
      BY <1>5 DEF Kept
    <2>2. r \in HeldBy(pc[t], op[t], block[t], old[t])
      BY <1>5, <2>1 DEF HeldBy
    <2>3. pc[t] # "app"
      BY <2>1
    <2>4. PICK O, b, n : /\ HeapOK(O, mem, mem_brkp, mem_alloctop, heap_listp, b, n)
                         /\ r \in O
      BY <2>2, <2>3, Inside
    <2> QED
      BY <2>4, RegionInHeap
  <1> QED
    BY <1>3, <1>4, <1>5

(* What a thread has written to a region stays there for as long as it     *)
(* holds the region, whatever calls are made.                              *)
THEOREM PayloadsStay ==
  ASSUME GoodSizes
  PROVE  Spec => []PayloadIntact
  <1>1. IInv => PayloadIntact
    BY IntactFromInv
  <1> QED
    BY <1>1, Invariance, PTL

-----------------------------------------------------------------------------
(* The refinement: the regions in use and the regions given back are the   *)
(* variables of AllocSpec.                                                 *)
LEMMA CallRefines ==
  ASSUME IInv, NEW t \in Threads, pc[t] = "app", NEW r \in live \cup {NoRegion},
         GiveIn(t, r)
  PROVE  [Abstract!Next]_(Abstract!vars)
  <1>1. old[t] = NoRegion /\ old \in [Threads -> Region \cup {NoRegion}]
    BY DEF IInv, CallsInv, CallOK, TypeInv
  <1>2. NoRegion \notin live
    BY RegionFacts DEF IInv, TypeInv
  <1>3. old' = [old EXCEPT ![t] = r] /\ live' = live \ {r}
    BY DEF GiveIn
  <1>4. CASE r = NoRegion
    <2>1. old' = old /\ live' = live
      BY <1>1, <1>2, <1>3, <1>4
    <2> QED
      BY <2>1 DEF Abstract!vars
  <1>5. CASE r \in live
    <2>1. Abstract!TakeBack(t, r)
      BY <1>1, <1>3, <1>5 DEF Abstract!TakeBack
    <2> QED
      BY <1>5, <2>1 DEF Abstract!Next
  <1> QED
    BY <1>4, <1>5

(* The end of a call hands out a new region apart from all others, or the  *)
(* old one, or nothing.                                                    *)
LEMMA UnlockRefines ==
  ASSUME IInv, NEW t \in Threads, unlock(t)
  PROVE  [Abstract!Next]_(Abstract!vars)
  <1>1. PICK o \in Ops : o = op[t]
    BY DEF IInv, TypeInv
  <1>2. PICK b \in Nat : b = block[t]
    BY DEF IInv, TypeInv
  <1>3. PICK r \in Region \cup {NoRegion} : r = old[t]
    BY DEF IInv, TypeInv
  <1>4. /\ pc[t] = "unlock" /\ old' = [old EXCEPT ![t] = NoRegion]
        /\ live' = live \cup (IF b # NULL THEN {GivenTo(o, b, r)}
                              ELSE IF Returned(o, r) THEN {r} ELSE {})
    <2>1. /\ Given(t) = GivenTo(op[t], block[t], old[t])
          /\ StillHeld(t) <=> Returned(op[t], old[t])
      BY GivenIs
    <2>2. live' = live \cup (IF block[t] # NULL THEN {Given(t)}
                             ELSE IF StillHeld(t) THEN {old[t]} ELSE {})
      BY DEF unlock
    <2>3. pc[t] = "unlock" /\ old' = [old EXCEPT ![t] = NoRegion]
      BY DEF unlock, Goto
    <2> QED
      BY <1>1, <1>2, <1>3, <2>1, <2>2, <2>3
  <1>5. /\ malloc_mutex = t /\ CallOK("unlock", o, b, r, heap_listp)
        /\ live \cap HeldBy("unlock", o, b, r) = {}
        /\ HeapOK(live \cup HeldBy("unlock", o, b, r), mem, mem_brkp, mem_alloctop,
                  heap_listp, WantedBy("unlock", b), Needed(o.size))
    BY <1>1, <1>2, <1>3, <1>4, Inside
  <1>6. old \in [Threads -> Region \cup {NoRegion}]
    BY DEF IInv, TypeInv
  <1>7. CASE b # NULL
    <2>1. PICK g : g = GivenTo(o, b, r)
      OBVIOUS
    <2>2. live' = live \cup {g} /\ HeldBy("unlock", o, b, r) = {g}
      BY <1>4, <1>7, <2>1 DEF HeldBy
    <2>3. Allocates(o) /\ (r # NoRegion => o.kind \in {"free", "realloc"})
      BY <1>5, <1>7 DEF CallOK
    <2>4. PICK O, e, b0, n : O = live \cup {g} /\ Sound(O, mem, e, b0, n)
      BY <1>5, <2>2 DEF HeapOK
    <2>5. Apart(O) /\ g \notin live
      BY <1>5, <2>2, <2>4 DEF Sound
    <2>6. ASSUME NEW q \in live
          PROVE  Abstract!Words(q) \cap Abstract!Words(g) = {}
      <3>1. q.ptr # g.ptr
        BY <2>4, <2>5 DEF Apart
      <3> QED
        BY <2>4, <3>1, SoundApart
    <2>7. ASSUME NEW u \in Threads, u # t
          PROVE  Abstract!Words(old[u]) \cap Abstract!Words(g) = {}
      <3>1. pc[u] = "app"
        BY <1>5, <2>7 DEF IInv, LockInv
      <3>2. old[u] = NoRegion
        BY <3>1 DEF IInv, CallsInv, CallOK
      <3>3. Abstract!Words(NoRegion) = {}
        BY DEF Abstract!Words, NoRegion, NULL
      <3> QED
        BY <3>2, <3>3
    <2>8. ASSUME r # NoRegion
          PROVE  /\ g.fill = r.fill
                 /\ g.keep = IF r.keep < g.size THEN r.keep ELSE g.size
      <3>1. o.kind = "realloc"
        BY <2>3, <2>8 DEF Allocates
      <3>2. g.fill = r.fill /\ g.keep = SmallerOf(o.size, r.keep) /\ g.size = o.size
        BY <2>1, <3>1 DEF GivenTo
      <3>3. o.size \in Nat /\ r.keep \in Nat
        BY <2>8, RegionFacts DEF Ops
      <3> QED
        BY <3>2, <3>3 DEF SmallerOf
    <2>9. Abstract!Give(t, g)
      <3>1. \A q \in live \cup {old[u] : u \in Threads \ {t}} :
              Abstract!Words(q) \cap Abstract!Words(g) = {}
        BY <2>6, <2>7
      <3> QED
        BY <1>3, <1>4, <2>2, <2>8, <3>1 DEF Abstract!Give
    <2>10. g \in live'
      BY <2>2
    <2> QED
      BY <2>9, <2>10 DEF Abstract!Next
  <1>8. CASE b = NULL /\ Returned(o, r)
    <2>1. r # NoRegion /\ live' = live \cup {r}
      BY <1>4, <1>8 DEF Returned
    <2>2. Abstract!GiveBack(t)
      BY <1>3, <1>4, <2>1 DEF Abstract!GiveBack
    <2> QED
      BY <2>2 DEF Abstract!Next
  <1>9. CASE b = NULL /\ ~Returned(o, r)
    <2>1. live' = live
      BY <1>4, <1>9
    <2>2. CASE r = NoRegion
      <3>1. old' = old
        BY <1>3, <1>4, <1>6, <2>2
      <3> QED
        BY <2>1, <3>1 DEF Abstract!vars
    <2>3. CASE r # NoRegion
      <3>1. Abstract!Freed(t)
        BY <1>3, <1>4, <2>1, <2>3 DEF Abstract!Freed
      <3> QED
        BY <3>1 DEF Abstract!Next
    <2> QED
      BY <2>2, <2>3
  <1> QED
    BY <1>7, <1>8, <1>9

(* Every step is a step of AllocSpec or leaves its variables alone. *)
LEMMA StepRefines ==
  ASSUME IInv, [Next]_vars
  PROVE  [Abstract!Next]_(Abstract!vars)
  <1>1. ASSUME live' = live, old' = old PROVE [Abstract!Next]_(Abstract!vars)
    BY <1>1 DEF Abstract!vars
  <1>2. ASSUME NEW r \in live, fill(r) PROVE [Abstract!Next]_(Abstract!vars)
    <2>1. /\ live' = (live \ {r}) \cup {[r EXCEPT !.keep = r.size, !.fill = -r.ptr]}
          /\ old' = old
      BY <1>2 DEF fill
    <2>2. Abstract!Fill(r, -r.ptr)
      BY <2>1 DEF Abstract!Fill
    <2> QED
      BY <2>2 DEF Abstract!Next
  <1>3. ASSUME NEW t \in Threads, NEW n, malloc(t, n)
        PROVE  [Abstract!Next]_(Abstract!vars)
    BY <1>1, <1>3 DEF malloc
  <1>4. ASSUME NEW t \in Threads, NEW n, NEW s, calloc(t, n, s)
        PROVE  [Abstract!Next]_(Abstract!vars)
    BY <1>1, <1>4 DEF calloc
  <1>5. ASSUME NEW t \in Threads, NEW r \in live \cup {NoRegion}, free(t, r)
        PROVE  [Abstract!Next]_(Abstract!vars)
    <2>1. pc[t] = "app" /\ GiveIn(t, r)
      BY <1>5 DEF free, Call
    <2> QED
      BY <2>1, CallRefines
  <1>6. ASSUME NEW t \in Threads, NEW r \in live \cup {NoRegion}, NEW n, realloc(t, r, n)
        PROVE  [Abstract!Next]_(Abstract!vars)
    <2>1. pc[t] = "app" /\ GiveIn(t, r)
      BY <1>6 DEF realloc, Call
    <2> QED
      BY <2>1, CallRefines
  <1>7. ASSUME NEW t \in Threads, unlock(t)
        PROVE  [Abstract!Next]_(Abstract!vars)
    BY <1>7, UnlockRefines
  <1>8. ASSUME NEW t \in Threads,
               \/ begin(t) \/ (\E ok \in BOOLEAN : init_heap(t, ok))
               \/ find(t) \/ extend_fails(t) \/ extend_heap(t) \/ place_block(t)
               \/ zero(t) \/ copy(t) \/ free_block(t)
        PROVE  live' = live /\ old' = old
    BY <1>8
       DEF begin, init_heap, find, extend_fails, extend_heap, place_block,
           zero,
                copy, free_block
  <1>9. ASSUME UNCHANGED vars PROVE live' = live /\ old' = old
    BY <1>9 DEF vars
  <1> QED
    BY <1>1, <1>2, <1>3, <1>4, <1>5, <1>6, <1>7, <1>8, <1>9 DEF Next

(* The wrappers and the allocator implement AllocSpec: a region that is    *)
(* handed out is apart from all others, a realloc() that succeeds keeps    *)
(* what fits of the old region and one that fails leaves it alone.         *)
THEOREM AllocImplemented ==
  ASSUME GoodSizes
  PROVE  Spec => ImplementsAlloc
  <1>1. Init => Abstract!Init
    BY DEF Init, Abstract!Init
  <1>2. IInv /\ [Next]_vars => [Abstract!Next]_(Abstract!vars)
    BY StepRefines
  <1> QED
    BY <1>1, <1>2, Invariance, PTL DEF Spec, ImplementsAlloc, Abstract!Spec
=============================================================================
