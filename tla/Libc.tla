-------------------------------- MODULE Libc --------------------------------
(***************************************************************************)
(* The routines of the C library that keep state from step to step: the    *)
(* 64-bit division and qsort(), whose loops are in Division and Sorting,   *)
(* strtok() with its static pointer, and bcopy(), which memcpy() and       *)
(* memmove() jump into.  A behaviour is one use of one routine: call holds *)
(* its arguments, frame what it has in memory and registers.               *)
(***************************************************************************)
EXTENDS Division, Sorting

CONSTANTS Dividends, Divisors,   \* the operands of divisions
          Arrays,                \* the arrays to sort, functions on 0 .. n-1
          Strings, Delims,       \* the texts to cut up and the delimiters
          MemSize                \* the bytes of the memory in which bcopy() works

CONSTANTS NULL, NUL              \* the null pointer and the character '\0'

Characters(str) == {str[i] : i \in 1 .. Len(str)}

\* The operands have four digits; the arrays are indexed from 0, a string has no
\* NUL inside and NUL is no delimiter.
ASSUME LibcAssumption ==
  /\ Dividends \cup Divisors \subseteq 0 .. Weight(4) - 1
  /\ \A a \in Arrays : /\ IsFiniteSet(DOMAIN a)
                       /\ a \in [0 .. Cardinality(DOMAIN a) - 1 -> Int]
  /\ \A s \in Strings : /\ s \in Seq(Characters(s))
                        /\ NUL \notin Characters(s)
  /\ \A delim \in Delims : NUL \notin delim
  /\ MemSize \in Nat /\ NULL \notin Nat

VARIABLES call, frame

vars == <<call, frame>>

-----------------------------------------------------------------------------
(***************************************************************************)
(* strtok().  f.str is the memory of the string, f.last the static         *)
(* pointer, f.toks the pointers returned so far, the last of them NULL when *)
(* the string is used up.                                                  *)
(***************************************************************************)
FirstFrom(str, p, chars) ==
  CHOOSE k \in p .. Len(str) : /\ str[k] \in chars
                               /\ \A i \in p .. k - 1 : str[i] \notin chars

\* The next call resumes at the delimiter itself, which is NUL by now.
CutAndStay(f, tok, k) ==
  IF f.str[k] = NUL
  THEN [f EXCEPT !.last = NULL, !.toks = Append(f.toks, tok)]
  ELSE [f EXCEPT !.str[k] = NUL, !.last = k, !.toks = Append(f.toks, tok)]

\* The token that starts at tok ends at k, where a delimiter becomes its NUL;
\* the next call goes on behind it.
CutToken(f, tok, k) ==
  IF f.str[k] = NUL
  THEN [f EXCEPT !.last = NULL, !.toks = Append(f.toks, tok)]
  ELSE [f EXCEPT !.str[k] = NUL, !.last = k + 1, !.toks = Append(f.toks, tok)]

\* One call: s is NULL in every call but the first of a string.
strtok(f, s0, delim) ==
  LET s == IF s0 = NULL THEN f.last ELSE s0
      Nothing == [f EXCEPT !.last = NULL, !.toks = Append(f.toks, NULL)]
      tok == FirstFrom(f.str, s, Characters(f.str) \ delim)
  IN IF s = NULL THEN Nothing
     ELSE IF f.str[tok] = NUL THEN Nothing
     ELSE CutToken(f, tok, FirstFrom(f.str, tok, delim \cup {NUL}))

\* The case of the overlap is missed when the two ranges differ by one byte.
MissesAdjacent(from, to, bytes) == from + 1 < to /\ to < from + bytes

-----------------------------------------------------------------------------
(***************************************************************************)
(* bcopy().  esi, edi and ecx are the registers; movsl moves four bytes at *)
(* a time.                                                                 *)
(***************************************************************************)
\* Backwards exactly when the target starts inside the source.
MustCopyBackwards(from, to, bytes) == from < to /\ to < from + bytes

\* The label bcopy_common: the registers and the direction.
bcopy(from, to, bytes) ==
  LET mem == [i \in 0 .. MemSize - 1 |-> i]
  IN IF from = to /\ bytes > 0 THEN [mem |-> mem, pc |-> "ret"]
     ELSE IF MustCopyBackwards(from, to, bytes)
     THEN [mem |-> mem, esi |-> from + bytes - 1, edi |-> to + bytes - 1,
           ecx |-> bytes, pc |-> "backwards"]
     ELSE [mem |-> mem, esi |-> from, edi |-> to, ecx |-> bytes \div 4,
           bytes |-> bytes % 4, pc |-> "words"]

\* One round of a rep: len bytes are moved, the pointers go on by step.
Move(f, len, step) ==
  [f EXCEPT !.mem = [i \in DOMAIN f.mem |-> IF i \in f.edi .. f.edi + len - 1
                                             THEN f.mem[f.esi + (i - f.edi)]
                                             ELSE f.mem[i]],
            !.esi = f.esi + step, !.edi = f.edi + step, !.ecx = f.ecx - 1]

-----------------------------------------------------------------------------
Calls ==
  [fn : {"qdivrem"}, u : Dividends, v : Divisors]
    \cup [fn : {"qsort"}, a : Arrays]
    \cup [fn : {"strtok"}, s : Strings, delim : Delims]
    \cup {c \in [fn : {"bcopy"}, from : 0 .. MemSize - 1, to : 0 .. MemSize - 1,
                 bytes : 0 .. MemSize] :
            c.from + c.bytes <= MemSize /\ c.to + c.bytes <= MemSize}

\* The frame with which a routine starts on its arguments.
Entered(c) ==
  CASE c.fn = "qdivrem" -> qdivrem(c.u, c.v)
    [] c.fn = "qsort" -> sort_all(c.a)
    [] c.fn = "strtok" -> [str |-> Append(c.s, NUL), last |-> NULL, toks |-> <<>>]
    [] c.fn = "bcopy" -> bcopy(c.from, c.to, c.bytes)

Init == /\ call \in Calls
        /\ frame = Entered(call)

divide == /\ call.fn = "qdivrem" /\ frame.pc \notin {"trap", "done"}
          /\ frame' = program_d(frame)
          /\ UNCHANGED call

sort == /\ call.fn = "qsort" /\ frame.todo # <<>>
        /\ frame' = qsort(frame)
        /\ UNCHANGED call

\* The string is tokenised until NULL has been returned twice.
Spent(toks) == Len(toks) > 1 /\ toks[Len(toks)] = NULL /\ toks[Len(toks) - 1] = NULL

tokenise == /\ call.fn = "strtok" /\ ~Spent(frame.toks)
            /\ frame' = strtok(frame, IF frame.toks = <<>> THEN 1 ELSE NULL,
                               call.delim)
            /\ UNCHANGED call

movsl == /\ call.fn = "bcopy" /\ frame.pc = "words"
         /\ frame' = IF frame.ecx > 0 THEN Move(frame, 4, 4)
                     ELSE [frame EXCEPT !.ecx = frame.bytes, !.pc = "bytes"]
         /\ UNCHANGED call

movsb == /\ call.fn = "bcopy" /\ frame.pc \in {"bytes", "backwards"}
         /\ frame' = IF frame.ecx > 0
                     THEN Move(frame, 1, IF frame.pc = "bytes" THEN 1 ELSE -1)
                     ELSE [frame EXCEPT !.pc = "ret"]
         /\ UNCHANGED call

Next == divide \/ sort \/ tokenise \/ movsl \/ movsb

Spec == Init /\ [][Next]_vars

-----------------------------------------------------------------------------
(***************************************************************************)
(* Properties.                                                             *)
(***************************************************************************)

\* Before every digit that __qdivrem() looks for, the digits found and what is
\* left of the normalised dividend make up the dividend, with the rest below the
\* divisor's next place, and the quotient and remainder returned are those of integer
\* division, whatever trial quotient had to be corrected or added back.
DivisionExact ==
  call.fn = "qdivrem" =>
    CASE frame.pc = "trap" -> call.v = 0
      [] frame.pc = "done" -> /\ frame.quot * call.v + frame.rem = call.u
                              /\ frame.rem < call.v
      [] frame.pc \in {"loop", "finish"} -> SoFarExact(frame, call.u, call.v)
      [] OTHER -> TRUE

\* After every round of every loop of qsort() only the elements within a range
\* that is still to be sorted may be out of order, and no element was lost: at
\* the end the array is sorted.
SortedOutsideRanges == call.fn = "qsort" => InOrderAcross(frame, call.a)

\* The starts of the maximal runs without delimiters in the original string.
RunStarts == {i \in 1 .. Len(call.s) :
                /\ call.s[i] \notin call.delim
                /\ i = 1 \/ call.s[i - 1] \in call.delim}

\* The successive calls of strtok() return the runs between the delimiters,
\* each once and from left to right, then NULL for ever, and every token still
\* reads as its run, NUL-terminated, after the later calls have cut theirs.
TokensExact ==
  call.fn = "strtok" =>
    LET toks == frame.toks
        given == {toks[i] : i \in {k \in DOMAIN toks : toks[k] # NULL}}
        EndOf(p) == FirstFrom(Append(call.s, NUL), p, call.delim \cup {NUL})
    IN /\ given \subseteq RunStarts
       /\ \A i, j \in DOMAIN toks : (i < j /\ toks[j] # NULL) =>
            toks[i] # NULL /\ toks[i] < toks[j]
       /\ \A p \in RunStarts \ given : \A t \in given : t < p
       /\ (NULL \in {toks[i] : i \in DOMAIN toks}) => given = RunStarts
       /\ \A p \in given : FirstFrom(frame.str, p, {NUL}) = EndOf(p)

\* When bcopy() returns the target holds what the source held before the call,
\* however the two overlap, and every other byte is untouched.
CopyExact ==
  (call.fn = "bcopy" /\ frame.pc = "ret") =>
    \A i \in 0 .. MemSize - 1 :
      frame.mem[i] = IF i \in call.to .. call.to + call.bytes - 1
                     THEN call.from + (i - call.to) ELSE i
=============================================================================
