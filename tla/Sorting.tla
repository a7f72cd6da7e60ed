------------------------------ MODULE Sorting ------------------------------
(***************************************************************************)
(* qsort(), libstdlib/qsort.c: Bentley and McIlroy's quicksort.  The array *)
(* is a function a on 0 .. n-1; an index stands for a pointer, so es is 1, *)
(* and cmp(i, j) compares the elements there.  The recursion is the        *)
(* sequence of ranges that are still to be sorted, the next one first.  A  *)
(* step is one round of one of the loops.                                  *)
(***************************************************************************)
EXTENDS Integers, Sequences, FiniteSets

cmp(a, i, j) == IF a[i] < a[j] THEN -1 ELSE IF a[i] = a[j] THEN 0 ELSE 1

swap(a, i, j) == [a EXCEPT ![i] = a[j], ![j] = a[i]]

\* Exchanges r elements from i and from j on, as the macro does: nothing when
\* r is 0.
vecswap(a, i, j, r) ==
  [k \in DOMAIN a |-> IF k \in i .. i + r - 1 THEN a[j + (k - i)]
                      ELSE IF k \in j .. j + r - 1 THEN a[i + (k - j)]
                      ELSE a[k]]

Smaller(x, y) == IF x < y THEN x ELSE y

med3(a, x, y, z) ==
  IF cmp(a, x, y) < 0
  THEN IF cmp(a, y, z) < 0 THEN y ELSE IF cmp(a, x, z) < 0 THEN z ELSE x
  ELSE IF cmp(a, y, z) > 0 THEN y ELSE IF cmp(a, x, z) < 0 THEN x ELSE z

\* The median of three, of nine in a long range, the middle in a short one.
Pivot(a, lo, n) ==
  LET mid == lo + n \div 2   last == lo + n - 1   d == n \div 8
  IN IF n <= 7 THEN mid
     ELSE IF n <= 40 THEN med3(a, lo, mid, last)
     ELSE med3(a, med3(a, lo, lo + d, lo + 2 * d), med3(a, mid - d, mid, mid + d),
               med3(a, last - 2 * d, last - d, last))

\* Moves the elements equal to the pivot to the middle, one too many on the right.
GatherTooMany(s, lo, n) ==
  LET l == Smaller(s.pa - lo, s.pb - s.pa)
      r == Smaller(s.pd - s.pc, lo + n - s.pd)
  IN vecswap(vecswap(s.a, lo, s.pb - l, l), s.pb, lo + n - r, r)

\* Moves the elements equal to the pivot from the ends to the middle.
GatherEqual(s, lo, n) ==
  LET l == Smaller(s.pa - lo, s.pb - s.pa)
      r == Smaller(s.pd - s.pc, lo + n - s.pd - 1)
  IN vecswap(vecswap(s.a, lo, s.pb - l, l), s.pb, lo + n - r, r)

-----------------------------------------------------------------------------
(***************************************************************************)
(* The loops.  f.at says which of them the frame f is in; each operator is *)
(* one round of a loop.  A pass sorts the first of the ranges f.todo.      *)
(***************************************************************************)
First(f) == Head(f.todo)
End(f) == First(f).lo + First(f).n

EnterInsertion(f) ==
  [f EXCEPT !.at = "insertion", !.pm = First(f).lo + 1, !.pl = First(f).lo + 1]

\* The head of a pass: a short range is sorted by insertion, in a longer one the
\* pivot goes to the front and the scans start.
pass(f) ==
  LET lo == First(f).lo   n == First(f).n
  IN IF n < 7 THEN EnterInsertion(f)
     ELSE [f EXCEPT !.at = "up", !.a = swap(f.a, lo, Pivot(f.a, lo, n)),
                    !.pa = lo + 1, !.pb = lo + 1,
                    !.pc = lo + n - 1, !.pd = lo + n - 1, !.swapped = FALSE]

\* Insertion: the element at pl sinks, or the next one pm is taken up.
insertion(f) ==
  IF f.pm >= End(f) THEN [f EXCEPT !.at = "pass", !.todo = Tail(f.todo)]
  ELSE IF f.pl > First(f).lo /\ cmp(f.a, f.pl - 1, f.pl) > 0
  THEN [f EXCEPT !.a = swap(f.a, f.pl, f.pl - 1), !.pl = f.pl - 1]
  ELSE [f EXCEPT !.pm = f.pm + 1, !.pl = f.pm + 1]

\* The scan from the left, over elements up to the pivot.  Those equal to the
\* pivot, which is the first element, are gathered below pa.
up(f) ==
  LET r == cmp(f.a, f.pb, First(f).lo)
  IN IF f.pb > f.pc \/ r > 0 THEN [f EXCEPT !.at = "down"]
     ELSE IF r = 0
     THEN [f EXCEPT !.a = swap(f.a, f.pa, f.pb), !.pa = f.pa + 1,
                    !.pb = f.pb + 1, !.swapped = TRUE]
     ELSE [f EXCEPT !.pb = f.pb + 1]

\* The scan from the right; elements equal to the pivot are gathered above pd.
down(f) ==
  LET r == cmp(f.a, f.pc, First(f).lo)
  IN IF f.pb > f.pc \/ r < 0 THEN [f EXCEPT !.at = "meet"]
     ELSE IF r = 0
     THEN [f EXCEPT !.a = swap(f.a, f.pc, f.pd), !.pd = f.pd - 1,
                    !.pc = f.pc - 1, !.swapped = TRUE]
     ELSE [f EXCEPT !.pc = f.pc - 1]

\* Between the scans: two elements change sides, or the scans have met.  Then
\* the range is split, or sorted by insertion when it was found in order.
meet(f) ==
  LET lo == First(f).lo   n == First(f).n
      Part(first, len) == IF len > 1 THEN <<[lo |-> first, n |-> len]>> ELSE <<>>
  IN IF f.pb <= f.pc
     THEN [f EXCEPT !.at = "up", !.a = swap(f.a, f.pb, f.pc), !.swapped = TRUE,
                    !.pb = f.pb + 1, !.pc = f.pc - 1]
     ELSE IF ~f.swapped THEN EnterInsertion(f)
     ELSE [f EXCEPT !.at = "pass", !.a = GatherEqual(f, lo, n),
                    !.todo = Part(lo, f.pb - f.pa)
                               \o Part(lo + n - (f.pd - f.pc), f.pd - f.pc)
                               \o Tail(f.todo)]

\* The frame with which qsort() starts on the array a.
sort_all(a) ==
  [at |-> "pass", a |-> a, todo |-> <<[lo |-> 0, n |-> Cardinality(DOMAIN a)]>>,
   pa |-> 0, pb |-> 0, pc |-> 0, pd |-> 0, swapped |-> FALSE, pm |-> 0, pl |-> 0]

qsort(f) == CASE f.at = "pass" -> pass(f)
              [] f.at = "insertion" -> insertion(f)
              [] f.at = "up" -> up(f)
              [] f.at = "down" -> down(f)
              [] f.at = "meet" -> meet(f)

\* Two elements of the frame f are in order unless they lie in one range that
\* is still to be sorted, and the elements are those of the array a0.
InOrderAcross(f, a0) ==
  LET Together(i, j) == \E k \in DOMAIN f.todo :
        {i, j} \subseteq f.todo[k].lo .. f.todo[k].lo + f.todo[k].n - 1
      Count(a, x) == Cardinality({i \in DOMAIN a : a[i] = x})
  IN /\ \A i, j \in DOMAIN a0 : i < j => f.a[i] <= f.a[j] \/ Together(i, j)
     /\ \A i \in DOMAIN a0 : Count(f.a, a0[i]) = Count(a0, a0[i])
=============================================================================
