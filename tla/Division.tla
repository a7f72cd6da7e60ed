------------------------------ MODULE Division ------------------------------
(***************************************************************************)
(* 64-bit unsigned division on a 32-bit machine, libx86/gccisms.c: Knuth's *)
(* Program D in base B = 2^HALF_BITS on operands of four digits.  The      *)
(* digits of uspace, vspace and qspace are functions on 0 .. 4, and the    *)
(* moving pointers u, v and q are the offsets uo, vo and qo.  A u_int      *)
(* holds two digits and wraps.  A step is one round of one of the loops.   *)
(***************************************************************************)
EXTENDS Integers, Sequences

CONSTANT HalfBits            \* HALF_BITS: 16 in the code

ASSUME HalfBitsAssumption == HalfBits \in Nat /\ HalfBits > 1

\* Bit[k] is 1 << k.
Bit[k \in 0 .. HalfBits] == IF k = 0 THEN 1 ELSE 2 * Bit[k - 1]

B == Bit[HalfBits]
HHALF(x) == x \div B
LHALF(x) == x % B
COMBINE(a, b) == a * B + b
UInt(x) == x % (B * B)

\* The four digits of a quad, with a leading zero, and the quad of such digits.
Digits(x) ==
  LET H == x \div (B * B)   L == x % (B * B)
  IN [i \in 0 .. 4 |-> IF i = 0 THEN 0
                       ELSE <<HHALF(H), LHALF(H), HHALF(L), LHALF(L)>>[i]]
Quad(p) == COMBINE(COMBINE(COMBINE(p[1], p[2]), p[3]), p[4])

\* Shifts p[from] .. p[from + len] left; what falls out on the left is lost.
shl(p, from, len, sh) ==
  [i \in 0 .. 4 |->
     IF i \notin from .. from + len THEN p[i]
     ELSE LHALF(p[i] * Bit[sh])
            + (IF i = from + len THEN 0 ELSE p[i + 1] \div Bit[HalfBits - sh])]

\* The answer of a division that needs no loop.
Answer(q, r) == [pc |-> "done", quot |-> q, rem |-> r]

\* A divisor of one digit t: schoolbook division, digit by digit.
OneDigit(uq, t) ==
  LET u == Digits(uq)
      rbj2 == COMBINE(u[1] % t, u[2])
      rbj3 == COMBINE(rbj2 % t, u[3])
      rbj4 == COMBINE(rbj3 % t, u[4])
  IN Answer(COMBINE(COMBINE(COMBINE(u[1] \div t, rbj2 \div t), rbj3 \div t),
                    rbj4 \div t),
            rbj4 % t)

\* How many leading zero digits p[1], p[2], ... has.
LeadingZeros(p) == CHOOSE k \in 0 .. 3 : /\ p[k + 1] # 0
                                         /\ \A i \in 1 .. k : p[i] = 0

\* D1: the frame with which the loop starts, both operands shifted left until
\* the first digit of the divisor is at least B/2.  The digits of q that the loop
\* has still to find, which nobody reads before, are 0.
Normalised(uq, vq) ==
  LET u == Digits(uq)   v == Digits(vq)
      vo == LeadingZeros(v)   uo == LeadingZeros(u)
      n == 4 - vo   m == vo - uo
      d == CHOOSE s \in 0 .. HalfBits - 1 :
             v[vo + 1] * Bit[s] \in B \div 2 .. B - 1
  IN [pc |-> "loop", m |-> m, n |-> n, d |-> d, j |-> 0, uo |-> uo, vo |-> vo,
      qo |-> 4 - m, q |-> [i \in 0 .. 4 |-> 0],
      qhat |-> 0, rhat |-> 0, i |-> 0, t |-> 0,
      u |-> IF d > 0 THEN shl(u, uo, m + n, d) ELSE u,
      v |-> IF d > 0 THEN shl(v, vo + 1, n - 1, d) ELSE v]

\* Everything before the loop: the special cases and D1.
qdivrem(uq, vq) ==
  IF vq = 0 THEN [pc |-> "trap"]
  ELSE IF uq < vq THEN Answer(0, uq)
  ELSE IF vq < B THEN OneDigit(uq, vq)
  ELSE Normalised(uq, vq)

\* The digits u[j + i] and v[i] that the loops work on.
uj(f, i) == f.u[f.uo + f.j + i]
vi(f, i) == f.v[f.vo + i]

\* The trial quotient is one too large; when rhat needs another digit, it cannot
\* be too large any more.
qhat_too_big(f, qhat, rhat) ==
  [f EXCEPT !.qhat = qhat - 1, !.rhat = rhat + vi(f, 1),
            !.pc = IF rhat + vi(f, 1) >= B THEN "subtract" ELSE "trial",
            !.i = f.n, !.t = 0]

\* D3: a first trial quotient, from the first digit of the divisor.
first_trial(f) ==
  LET nn == COMBINE(uj(f, 0), uj(f, 1))
  IN IF uj(f, 0) = vi(f, 1) THEN qhat_too_big(f, B, uj(f, 1))
     ELSE [f EXCEPT !.qhat = nn \div vi(f, 1), !.rhat = nn % vi(f, 1),
                    !.pc = "trial", !.i = f.n, !.t = 0]

\* D3: it is corrected with the second digit.
trial(f) ==
  IF UInt(vi(f, 2) * f.qhat) > COMBINE(f.rhat, uj(f, 2))
  THEN qhat_too_big(f, f.qhat, f.rhat)
  ELSE [f EXCEPT !.pc = "subtract"]

\* D7: the digit is found.
next_digit(f) == [f EXCEPT !.q[f.qo + f.j] = f.qhat, !.j = f.j + 1,
                           !.pc = IF f.j + 1 <= f.m THEN "loop" ELSE "finish"]

\* D5: tests the borrow of the subtraction.  The mistake does not.
IgnoreBorrow(f, borrow) == next_digit(f)
test_remainder(f, borrow) ==
  IF borrow THEN [f EXCEPT !.qhat = f.qhat - 1, !.pc = "add", !.i = f.n, !.t = 0]
  ELSE next_digit(f)

\* D4: u[j .. j+n] - qhat * v[1 .. n], digit by digit from the right; t carries
\* the borrow.
subtract(f) ==
  LET s == UInt(uj(f, f.i) - (IF f.i > 0 THEN vi(f, f.i) * f.qhat ELSE 0) - f.t)
      g == [f EXCEPT !.u[f.uo + f.j + f.i] = LHALF(s)]
  IN IF f.i > 0 THEN [g EXCEPT !.t = (B - HHALF(s)) % B, !.i = f.i - 1]
     ELSE test_remainder(g, HHALF(s) # 0)

\* D6: adds v[1 .. n] back to u[j .. j+n].
add(f) ==
  LET s == f.t + uj(f, f.i) + (IF f.i > 0 THEN vi(f, f.i) ELSE 0)
      g == [f EXCEPT !.u[f.uo + f.j + f.i] = LHALF(s)]
  IN IF f.i > 0 THEN [g EXCEPT !.t = HHALF(s), !.i = f.i - 1]
     ELSE next_digit(g)

\* The remainder is u[m .. m+n] shifted back.
Remainder(f) ==
  LET first == f.uo + f.m   last == f.uo + f.m + f.n
      Shifted(i) == (f.u[i] \div Bit[f.d]) + LHALF(f.u[i - 1] * Bit[HalfBits - f.d])
  IN IF f.d = 0 THEN f.u
     ELSE [i \in 0 .. 4 |-> IF i = first THEN 0
                            ELSE IF i \in first + 1 .. last THEN Shifted(i)
                            ELSE f.u[i]]

\* What the callers of __qdivrem() take from it.
umoddi3(f) == Quad(Remainder(f))
udivdi3(f) == Quad(f.q)
Finished(f) == Answer(udivdi3(f), umoddi3(f))

\* One round of the loop that the frame f is in.
program_d(f) == CASE f.pc = "loop" -> first_trial(f)
                  [] f.pc = "trial" -> trial(f)
                  [] f.pc = "subtract" -> subtract(f)
                  [] f.pc = "add" -> add(f)
                  [] f.pc = "finish" -> Finished(f)

\* The weight of the digit with k digits to its right, and the value of all
\* five digits of p.
Weight(k) == <<1, B, B * B, B * B * B, B * B * B * B>>[k + 1]
Value(p) == p[0] * Weight(4) + Quad(p)

\* The digits found so far are those of the quotient, and what is left of the
\* dividend is smaller than the divisor at the place of the next digit: for
\* the frame f of the division of uq by vq, between two digits.
SoFarExact(f, uq, vq) ==
  /\ Quad(f.q) * vq * Bit[f.d] + Value(f.u) = uq * Bit[f.d]
  /\ Value(f.u) < Weight(f.m + 1 - f.j) * vq * Bit[f.d]
=============================================================================
