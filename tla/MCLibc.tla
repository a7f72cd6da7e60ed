------------------------------- MODULE MCLibc -------------------------------
(***************************************************************************)
(* Every 8-bit dividend and divisor in base 4, so that each divisor has    *)
(* one to four digits and all three kinds of correction of a trial digit   *)
(* occur; every array of 7 and of 8 elements of three values, and two of   *)
(* 48 for the median of nine and for ranges that are split again; every    *)
(* string of up to five characters, with one and with two delimiters.      *)
(***************************************************************************)
EXTENDS Libc

MCOperands == 0 .. B * B * B * B - 1
MCArrays ==
  [0 .. 6 -> 0 .. 2] \cup [0 .. 7 -> 0 .. 2]
    \cup {[i \in 0 .. 47 |-> (i * 29) % 48], [i \in 0 .. 47 |-> (i * 29) % 11]}
MCStrings == UNION {[1 .. n -> {"a", ",", ";"}] : n \in 0 .. 5}
MCDelims == {{","}, {",", ";"}}
=============================================================================
