----------------------------- MODULE LibcProofs -----------------------------
(***************************************************************************)
(* Proofs about Libc.tla, for arrays and strings of any length, memory of  *)
(* any size and digits of any width: bcopy() copies exactly, strtok()      *)
(* returns the tokens, qsort() sorts and __qdivrem() divides.              *)
(***************************************************************************)
EXTENDS Libc, FiniteSetTheorems, SequenceTheorems, NaturalsInduction,
        WellFoundedInduction, TLAPS

-----------------------------------------------------------------------------
(***************************************************************************)
(* __qdivrem().  Every trial quotient that D3 leaves is the digit sought   *)
(* or one more, and D4 and D6 take the digit's multiple of the divisor     *)
(* from the dividend.                                                      *)
(*                                                                         *)
(* Powers of two, digits and weights.                                      *)
(***************************************************************************)
\* A non-empty set of numbers has a least element.
LEMMA LeastOf ==
  ASSUME NEW S \in SUBSET Nat, S # {}
  PROVE  \E x \in S : \A y \in S : x <= y
  <1> DEFINE R == {p \in Nat \X Nat : p[1] < p[2]}
  <1>1. IsWellFoundedOn(R, Nat)
    BY NatLessThanWellFounded DEF OpToRel
  <1> HIDE DEF R
  <1>2. PICK x \in S : \A y \in S : <<y, x>> \notin R
    BY <1>1, WFMin
  <1>3. \A y \in S : ~(y < x)
    BY <1>2 DEF R
  <1> QED
    BY <1>3

\* f holds the powers of two up to the n-th.
Powers(f, n) == f = [k \in 0 .. n |-> IF k = 0 THEN 1 ELSE 2 * f[k - 1]]

LEMMA PowersExist ==
  ASSUME NEW N \in Nat
  PROVE  \E f : Powers(f, N)
  <1>1. PICK Bad : Bad = {n \in Nat : ~\E f : Powers(f, n)}
    OBVIOUS
  <1>2. ASSUME Bad # {} PROVE FALSE
    <2>1. PICK n \in Bad : \A k \in Bad : n <= k
      BY <1>1, <1>2, LeastOf
    <2>2. n # 0
      <3>1. PICK f : f = [k \in 0 .. 0 |-> 1]
        OBVIOUS
      <3>2. Powers(f, 0)
        BY <3>1 DEF Powers
      <3> QED
        BY <1>1, <3>2
    <2>3. n \in Nat /\ n - 1 \in Nat /\ n - 1 \notin Bad
      BY <1>1, <2>1, <2>2
    <2>4. PICK f : Powers(f, n - 1)
      BY <1>1, <2>3
    <2>5. PICK g : g = [k \in 0 .. n |-> IF k = n THEN 2 * f[n - 1] ELSE f[k]]
      OBVIOUS
    <2>6. Powers(g, n)
      <3>1. SUFFICES ASSUME NEW k \in 0 .. n
                     PROVE  g[k] = IF k = 0 THEN 1 ELSE 2 * g[k - 1]
        BY <2>5 DEF Powers
      <3>2. CASE k = n
        <4>1. g[k] = 2 * f[n - 1] /\ k # 0 /\ k - 1 = n - 1 /\ n - 1 \in 0 .. n /\ n - 1 # n
          BY <2>2, <2>3, <2>5, <3>2
        <4>2. g[k - 1] = f[n - 1]
          BY <2>5, <4>1
        <4> QED
          BY <4>1, <4>2
      <3>3. CASE k # n
        <4>1. k \in 0 .. n - 1 /\ g[k] = f[k]
          BY <2>3, <2>5, <3>3
        <4>2. k # 0 => g[k - 1] = f[k - 1]
          BY <2>3, <2>5, <3>3
        <4>3. f[k] = IF k = 0 THEN 1 ELSE 2 * f[k - 1]
          BY <2>4, <4>1 DEF Powers
        <4> QED
          BY <4>1, <4>2, <4>3
      <3> QED
        BY <3>2, <3>3
    <2> QED
      BY <1>1, <2>3, <2>1, <2>6
  <1> QED
    BY <1>1, <1>2

LEMMA BitPowers == Powers(Bit, HalfBits)
  <1>1. PICK f : Powers(f, HalfBits)
    BY HalfBitsAssumption, PowersExist
  <1> QED
    BY <1>1, Zenon DEF Powers, Bit

\* The bits are positive numbers, each twice the one before.
LEMMA BitIs ==
  /\ Bit[0] = 1
  /\ \A k \in 0 .. HalfBits : Bit[k] \in Nat /\ Bit[k] > 0
  /\ \A k \in 1 .. HalfBits : Bit[k] = 2 * Bit[k - 1]
  <1>1. Bit[0] = 1 /\ \A k \in 1 .. HalfBits : Bit[k] = 2 * Bit[k - 1]
    <2>1. \A k \in 0 .. HalfBits : Bit[k] = IF k = 0 THEN 1 ELSE 2 * Bit[k - 1]
      BY BitPowers, Zenon DEF Powers
    <2>2. 0 \in 0 .. HalfBits /\ \A k \in 1 .. HalfBits : k \in 0 .. HalfBits /\ k # 0
      BY HalfBitsAssumption
    <2> QED
      BY <2>1, <2>2, Zenon
  <1>2. PICK Bad : Bad = {k \in 0 .. HalfBits : ~(Bit[k] \in Nat /\ Bit[k] > 0)}
    OBVIOUS
  <1>3. ASSUME Bad # {} PROVE FALSE
    <2>1. PICK k \in Bad : \A i \in Bad : k <= i
      BY <1>2, <1>3, LeastOf, HalfBitsAssumption
    <2>2. k \in 1 .. HalfBits /\ k - 1 \in 0 .. HalfBits /\ k - 1 \notin Bad
      BY <1>1, <1>2, <2>1, HalfBitsAssumption
    <2>3. Bit[k - 1] \in Nat /\ Bit[k - 1] > 0
      BY <1>2, <2>2
    <2>4. Bit[k] = 2 * Bit[k - 1]
      BY <1>1, <2>2
    <2>5. Bit[k] \in Nat /\ Bit[k] > 0
      BY <2>3, <2>4
    <2> QED
      BY <1>2, <2>1, <2>5
  <1> QED
    BY <1>1, <1>2, <1>3

\* Shifting left by d and on by the rest of a digit is shifting by a digit.
LEMMA BitProduct ==
  ASSUME NEW d \in 0 .. HalfBits
  PROVE  Bit[d] * Bit[HalfBits - d] = B
  <1>1. PICK Bad : Bad = {k \in 0 .. HalfBits : Bit[k] * Bit[HalfBits - k] # B}
    OBVIOUS
  <1>2. ASSUME Bad # {} PROVE FALSE
    <2>1. PICK k \in Bad : \A i \in Bad : k <= i
      <3>1. Bad \in SUBSET Nat
        <4>1. Bad \subseteq 0 .. HalfBits
          BY <1>1, Zenon
        <4> QED
          BY <4>1
      <3> QED
        BY <1>2, <3>1, LeastOf, Zenon
    <2>2. k # 0
      <3>1. HalfBits - 0 = HalfBits /\ HalfBits \in 0 .. HalfBits
        BY HalfBitsAssumption
      <3>2. Bit[0] * Bit[HalfBits] = Bit[HalfBits]
        BY <3>1, BitIs
      <3> QED
        BY <1>1, <2>1, <3>1, <3>2 DEF B
    <2>3. /\ k \in 1 .. HalfBits /\ k - 1 \in 0 .. HalfBits /\ k - 1 \notin Bad
          /\ HalfBits - k \in 0 .. HalfBits /\ HalfBits - (k - 1) \in 1 .. HalfBits
          /\ HalfBits - (k - 1) - 1 = HalfBits - k
      BY <1>1, <2>1, <2>2, HalfBitsAssumption
    <2>4. PICK x \in Nat, y \in Nat : x = Bit[k - 1] /\ y = Bit[HalfBits - k]
      BY <2>3, BitIs
    <2>5. Bit[k] = 2 * x /\ Bit[HalfBits - (k - 1)] = 2 * y
      BY <2>3, <2>4, BitIs
    <2>6. x * (2 * y) = B
      BY <1>1, <2>3, <2>4, <2>5
    <2>7. (2 * x) * y = x * (2 * y)
      OBVIOUS
    <2> QED
      BY <1>1, <2>1, <2>4, <2>5, <2>6, <2>7
  <1> QED
    BY <1>1, <1>2

LEMMA BIs == B \in Nat /\ B >= 4 /\ B = 2 * Bit[HalfBits - 1]
  <1>1. PICK x \in Nat : x = Bit[HalfBits - 2] /\ x > 0
    BY BitIs, HalfBitsAssumption
  <1>2. HalfBits - 1 \in 1 .. HalfBits /\ HalfBits \in 1 .. HalfBits
        /\ HalfBits - 1 - 1 = HalfBits - 2
    BY HalfBitsAssumption
  <1>3. Bit[HalfBits - 1] = 2 * x
    BY <1>1, <1>2, BitIs
  <1>4. Bit[HalfBits] = 2 * Bit[HalfBits - 1]
    BY <1>2, BitIs
  <1> QED
    BY <1>1, <1>3, <1>4 DEF B

\* The weights are the powers of B.
LEMMA WeightIs ==
  /\ Weight(0) = 1 /\ Weight(1) = B /\ Weight(2) = B * B /\ Weight(3) = B * B * B
  /\ Weight(4) = B * B * B * B
  BY DEF Weight

LEMMA WeightPositive == \A k \in 0 .. 4 : Weight(k) \in Nat /\ Weight(k) > 0
  <1>1. PICK b \in Nat : b = B /\ b > 0
    BY BIs
  <1>2. /\ b * b \in Nat /\ b * b > 0 /\ b * b * b \in Nat /\ b * b * b > 0
        /\ b * b * b * b \in Nat /\ b * b * b * b > 0
    BY <1>1
  <1> QED
    BY <1>1, <1>2, WeightIs

LEMMA WeightStep == \A k \in 0 .. 3 : Weight(k + 1) = B * Weight(k)
  <1>1. PICK b \in Nat : b = B
    BY BIs
  <1>2. b = b * 1 /\ b * b * b = b * (b * b) /\ b * b * b * b = b * (b * b * b)
    OBVIOUS
  <1>3. SUFFICES ASSUME NEW k \in 0 .. 3 PROVE Weight(k + 1) = B * Weight(k)
    OBVIOUS
  <1>4. \/ k = 0 /\ k + 1 = 1
        \/ k = 1 /\ k + 1 = 2
        \/ k = 2 /\ k + 1 = 3
        \/ k = 3 /\ k + 1 = 4
    BY <1>3
  <1> QED
    BY <1>1, <1>2, <1>4, WeightIs, Zenon

LEMMA WeightProduct ==
  \A j, k \in 0 .. 4 : j + k <= 4 => Weight(j) * Weight(k) = Weight(j + k)
  <1>1. PICK b \in Nat : b = B
    BY BIs
  <1>2. PICK w1 \in Nat, w2 \in Nat, w3 \in Nat, w4 \in Nat :
          w1 = b /\ w2 = b * b /\ w3 = b * b * b /\ w4 = b * b * b * b
    OBVIOUS
  <1>3. /\ w1 * w1 = w2 /\ w1 * w2 = w3 /\ w2 * w1 = w3 /\ w2 * w2 = w4 /\ w1 * w3 = w4
        /\ w3 * w1 = w4
    BY <1>2
  <1>4. /\ Weight(0) = 1 /\ Weight(1) = w1 /\ Weight(2) = w2 /\ Weight(3) = w3
        /\ Weight(4) = w4
    BY <1>1, <1>2, WeightIs, Zenon
  <1>5. SUFFICES ASSUME NEW j \in 0 .. 4, NEW k \in 0 .. 4, j + k <= 4
                 PROVE  Weight(j) * Weight(k) = Weight(j + k)
    OBVIOUS
  <1>6. CASE j = 0
    <2>1. j + k = k /\ Weight(k) \in Nat
      BY <1>6, WeightPositive
    <2> QED
      BY <1>4, <1>6, <2>1
  <1>7. CASE k = 0
    <2>1. j + k = j /\ Weight(j) \in Nat
      BY <1>7, WeightPositive
    <2> QED
      BY <1>4, <1>7, <2>1
  <1>8. CASE j # 0 /\ k # 0
    <2>1. \/ j = 1 /\ k = 1 /\ j + k = 2
          \/ j = 1 /\ k = 2 /\ j + k = 3
          \/ j = 2 /\ k = 1 /\ j + k = 3
          \/ j = 2 /\ k = 2 /\ j + k = 4
          \/ j = 1 /\ k = 3 /\ j + k = 4
          \/ j = 3 /\ k = 1 /\ j + k = 4
      BY <1>5, <1>8
    <2> QED
      BY <1>3, <1>4, <2>1, Zenon
  <1> QED
    BY <1>6, <1>7, <1>8

\* What the digits of p to the right of place k are worth.
Rest(p, k) == (IF k < 0 THEN p[0] * Weight(4) ELSE 0)
                + (IF k < 1 THEN p[1] * Weight(3) ELSE 0)
                + (IF k < 2 THEN p[2] * Weight(2) ELSE 0)
                + (IF k < 3 THEN p[3] * Weight(1) ELSE 0)
                + (IF k < 4 THEN p[4] * Weight(0) ELSE 0)

DigitRows == [0 .. 4 -> 0 .. B - 1]

LEMMA FiveOf ==
  ASSUME NEW S, NEW p \in [0 .. 4 -> S]
  PROVE  \E p0, p1, p2, p3, p4 \in S :
           p0 = p[0] /\ p1 = p[1] /\ p2 = p[2] /\ p3 = p[3] /\ p4 = p[4]
  <1>1. p[0] \in S /\ p[1] \in S /\ p[2] \in S /\ p[3] \in S /\ p[4] \in S
    OBVIOUS
  <1> QED
    BY <1>1, Zenon

LEMMA ValueIs ==
  ASSUME NEW p \in [0 .. 4 -> Int]
  PROVE  Value(p) = p[0] * Weight(4) + p[1] * Weight(3) + p[2] * Weight(2)
                      + p[3] * Weight(1) + p[4] * Weight(0)
  <1>1. PICK b \in Nat : b = B
    BY BIs
  <1>2. PICK p0 \in Int, p1 \in Int, p2 \in Int, p3 \in Int, p4 \in Int :
          p0 = p[0] /\ p1 = p[1] /\ p2 = p[2] /\ p3 = p[3] /\ p4 = p[4]
    OBVIOUS
  <1>3. p0 * (b * b * b * b) + (((p1 * b + p2) * b + p3) * b + p4)
          = p0 * (b * b * b * b) + p1 * (b * b * b) + p2 * (b * b) + p3 * b + p4 * 1
    OBVIOUS
  <1>4. Value(p) = p0 * (b * b * b * b) + (((p1 * b + p2) * b + p3) * b + p4)
    BY <1>1, <1>2, WeightIs, Zenon DEF Value, Quad, COMBINE
  <1> QED
    BY <1>1, <1>2, <1>3, <1>4, WeightIs, Zenon

\* One digit at a time.
LEMMA RestIs ==
  ASSUME NEW p \in [0 .. 4 -> Int]
  PROVE  /\ Rest(p, 4) = 0
         /\ \A k \in 0 .. 4 : /\ Rest(p, k) \in Int
                              /\ Rest(p, k - 1) \in Int
                              /\ Rest(p, k - 1) = p[k] * Weight(4 - k) + Rest(p, k)
         /\ Rest(p, 0 - 1) = Value(p)
  <1>1. PICK w0 \in Int, w1 \in Int, w2 \in Int, w3 \in Int, w4 \in Int :
          /\ w0 = p[0] * Weight(4) /\ w1 = p[1] * Weight(3) /\ w2 = p[2] * Weight(2)
          /\ w3 = p[3] * Weight(1) /\ w4 = p[4] * Weight(0)
    <2>1. \A x, y \in Int : x * y \in Int
      OBVIOUS
    <2>2. /\ p[0] \in Int /\ p[1] \in Int /\ p[2] \in Int /\ p[3] \in Int /\ p[4] \in Int
          /\ Weight(0) \in Int /\ Weight(1) \in Int /\ Weight(2) \in Int
          /\ Weight(3) \in Int /\ Weight(4) \in Int
      BY WeightPositive
    <2> QED
      BY <2>1, <2>2, Zenon
  <1>2. \A k \in Int : Rest(p, k) = (IF k < 0 THEN w0 ELSE 0) + (IF k < 1 THEN w1 ELSE 0)
                                    + (IF k < 2 THEN w2 ELSE 0) + (IF k < 3 THEN w3 ELSE 0)
                                    + (IF k < 4 THEN w4 ELSE 0)
    BY <1>1, Zenon DEF Rest
  <1>3. /\ Rest(p, 0 - 1) = w0 + w1 + w2 + w3 + w4 /\ Rest(p, 0) = w1 + w2 + w3 + w4
        /\ Rest(p, 1) = w2 + w3 + w4 /\ Rest(p, 2) = w3 + w4 /\ Rest(p, 3) = w4
        /\ Rest(p, 4) = 0
    BY <1>2
  <1>4. Value(p) = w0 + w1 + w2 + w3 + w4
    BY <1>1, ValueIs, Zenon
  <1>5. ASSUME NEW k \in 0 .. 4
        PROVE  /\ Rest(p, k) \in Int /\ Rest(p, k - 1) \in Int
               /\ Rest(p, k - 1) = p[k] * Weight(4 - k) + Rest(p, k)
    <2>1. \/ k = 0 /\ k - 1 = 0 - 1 /\ 4 - k = 4
          \/ k = 1 /\ k - 1 = 0 /\ 4 - k = 3
          \/ k = 2 /\ k - 1 = 1 /\ 4 - k = 2
          \/ k = 3 /\ k - 1 = 2 /\ 4 - k = 1
          \/ k = 4 /\ k - 1 = 3 /\ 4 - k = 0
      OBVIOUS
    <2>2. \E w \in Int : /\ p[k] * Weight(4 - k) = w
                         /\ Rest(p, k) \in Int /\ Rest(p, k - 1) = w + Rest(p, k)
      <3>1. CASE k = 0 /\ k - 1 = 0 - 1 /\ 4 - k = 4
        BY <1>1, <1>3, <3>1
      <3>2. CASE k = 1 /\ k - 1 = 0 /\ 4 - k = 3
        BY <1>1, <1>3, <3>2
      <3>3. CASE k = 2 /\ k - 1 = 1 /\ 4 - k = 2
        BY <1>1, <1>3, <3>3
      <3>4. CASE k = 3 /\ k - 1 = 2 /\ 4 - k = 1
        BY <1>1, <1>3, <3>4
      <3>5. CASE k = 4 /\ k - 1 = 3 /\ 4 - k = 0
        BY <1>1, <1>3, <3>5
      <3> QED
        BY <2>1, <3>1, <3>2, <3>3, <3>4, <3>5
    <2> QED
      BY <2>2
  <1> QED
    BY <1>3, <1>4, <1>5

LEMMA RestStep ==
  ASSUME NEW p \in [0 .. 4 -> Int], NEW k \in 0 .. 4
  PROVE  Rest(p, k - 1) = p[k] * Weight(4 - k) + Rest(p, k)
  BY RestIs

LEMMA WeightGrows ==
  ASSUME NEW i \in 0 .. 4, NEW k \in 0 .. 4, i <= k
  PROVE  Weight(i) <= Weight(k)
  <1>1. PICK w \in Nat, x \in Nat : w = Weight(i) /\ x = Weight(k - i) /\ x > 0
    BY WeightPositive
  <1>2. Weight(k) = w * x
    <2>1. k - i \in 0 .. 4 /\ i + (k - i) = k /\ i + (k - i) <= 4
      OBVIOUS
    <2> QED
      BY <1>1, <2>1, WeightProduct, Zenon
  <1>3. w <= w * x
    BY <1>1
  <1> QED
    BY <1>1, <1>2, <1>3

\* A number of k digits is less than B^k.
LEMMA OneDigitMore ==
  ASSUME NEW b \in Nat, NEW w \in Nat, NEW d \in 0 .. b - 1, NEW r \in Nat, r < w
  PROVE  d * w + r \in Nat /\ d * w + r < b * w
  <1>1. d * w \in Nat /\ (d + 1) * w = d * w + w
    OBVIOUS
  <1>2. (d + 1) * w <= b * w
    OBVIOUS
  <1> QED
    BY <1>1, <1>2

LEMMA RestBound ==
  ASSUME NEW p \in DigitRows
  PROVE  /\ \A k \in 0 .. 4 : Rest(p, k) \in Nat /\ Rest(p, k) < Weight(4 - k)
         /\ Value(p) \in Nat
  <1>0. p \in [0 .. 4 -> Int] /\ B \in Nat
    BY BIs DEF DigitRows
  <1>1. ASSUME NEW k \in 1 .. 4, Rest(p, k) \in Nat, Rest(p, k) < Weight(4 - k)
        PROVE  Rest(p, k - 1) \in Nat /\ Rest(p, k - 1) < Weight(4 - (k - 1))
    <2>1. PICK b \in Nat, w \in Nat, d \in Nat, r \in Nat :
            b = B /\ w = Weight(4 - k) /\ d = p[k] /\ r = Rest(p, k)
      BY <1>0, <1>1, WeightPositive DEF DigitRows
    <2>2. d \in 0 .. b - 1 /\ r < w
      BY <1>1, <2>1 DEF DigitRows
    <2>3. d * w + r \in Nat /\ d * w + r < b * w
      BY <2>2, OneDigitMore
    <2>4. Rest(p, k - 1) = d * w + r
      BY <1>0, <2>1, RestIs
    <2>5. Weight(4 - (k - 1)) = b * w
      <3>1. 4 - k \in 0 .. 3 /\ 4 - (k - 1) = (4 - k) + 1
        OBVIOUS
      <3> QED
        BY <2>1, <3>1, WeightStep, Zenon
    <2> QED
      BY <2>3, <2>4, <2>5
  <1>2. Rest(p, 4) \in Nat /\ Rest(p, 4) < Weight(4 - 4)
    BY <1>0, RestIs, WeightPositive
  <1>3. Rest(p, 3) \in Nat /\ Rest(p, 3) < Weight(4 - 3)
    BY <1>1, <1>2
  <1>4. Rest(p, 2) \in Nat /\ Rest(p, 2) < Weight(4 - 2)
    BY <1>1, <1>3
  <1>5. Rest(p, 1) \in Nat /\ Rest(p, 1) < Weight(4 - 1)
    BY <1>1, <1>4
  <1>6. Rest(p, 0) \in Nat /\ Rest(p, 0) < Weight(4 - 0)
    BY <1>1, <1>5
  <1>7. Value(p) \in Nat
    <2>1. PICK w \in Nat, d \in Nat, r \in Nat :
            w = Weight(4) /\ d = p[0] /\ r = Rest(p, 0)
      BY <1>0, <1>6, WeightPositive DEF DigitRows
    <2>2. Value(p) = d * w + r
      <3>1. Rest(p, 0 - 1) = p[0] * Weight(4 - 0) + Rest(p, 0)
        BY <1>0, RestIs
      <3>2. 4 - 0 = 4
        OBVIOUS
      <3> QED
        BY <1>0, <2>1, <3>1, <3>2, RestIs, Zenon
    <2>3. d * w + r \in Nat
      OBVIOUS
    <2> QED
      BY <2>2, <2>3
  <1>8. \A k \in 0 .. 4 : k = 0 \/ k = 1 \/ k = 2 \/ k = 3 \/ k = 4
    OBVIOUS
  <1> QED
    BY <1>2, <1>3, <1>4, <1>5, <1>6, <1>7, <1>8, Zenon

\* A digit stands for its multiple of its weight.
LEMMA DigitSet ==
  ASSUME NEW p \in [0 .. 4 -> Int], NEW k \in 0 .. 4, NEW x \in Int
  PROVE  Value([p EXCEPT ![k] = x]) = Value(p) + (x - p[k]) * Weight(4 - k)
  <1>1. PICK r : r = [p EXCEPT ![k] = x]
    OBVIOUS
  <1>2. /\ r \in [0 .. 4 -> Int] /\ r[k] = x
        /\ \A i \in 0 .. 4 : i # k => r[i] = p[i]
    BY <1>1
  <1>3. PICK w0 \in Int, w1 \in Int, w2 \in Int, w3 \in Int, w4 \in Int :
          w0 = Weight(0) /\ w1 = Weight(1) /\ w2 = Weight(2) /\ w3 = Weight(3)
            /\ w4 = Weight(4)
    <2>1. /\ Weight(0) \in Int /\ Weight(1) \in Int /\ Weight(2) \in Int
          /\ Weight(3) \in Int /\ Weight(4) \in Int
      BY WeightPositive
    <2> QED
      BY <2>1, Zenon
  <1>4. PICK p0 \in Int, p1 \in Int, p2 \in Int, p3 \in Int, p4 \in Int :
          p0 = p[0] /\ p1 = p[1] /\ p2 = p[2] /\ p3 = p[3] /\ p4 = p[4]
    OBVIOUS
  <1>5. Value(p) = p0 * w4 + p1 * w3 + p2 * w2 + p3 * w1 + p4 * w0
    BY <1>3, <1>4, ValueIs, Zenon
  <1>6. Value(r) = r[0] * w4 + r[1] * w3 + r[2] * w2 + r[3] * w1 + r[4] * w0
    BY <1>2, <1>3, ValueIs, Zenon
  <1>7. Value(r) = Value(p) + (x - p[k]) * Weight(4 - k)
    <2>1. CASE k = 0
      <3>1. /\ r[0] = x /\ r[1] = p1 /\ r[2] = p2 /\ r[3] = p3 /\ r[4] = p4
            /\ Weight(4 - k) = w4 /\ p[k] = p0
        BY <1>2, <1>3, <1>4, <2>1
      <3>2. x * w4 + p1 * w3 + p2 * w2 + p3 * w1 + p4 * w0
              = p0 * w4 + p1 * w3 + p2 * w2 + p3 * w1 + p4 * w0 + (x - p0) * w4
        OBVIOUS
      <3> QED
        BY <1>5, <1>6, <3>1, <3>2, Zenon
    <2>2. CASE k = 1
      <3>1. /\ r[0] = p0 /\ r[1] = x /\ r[2] = p2 /\ r[3] = p3 /\ r[4] = p4
            /\ Weight(4 - k) = w3 /\ p[k] = p1
        BY <1>2, <1>3, <1>4, <2>2
      <3>2. p0 * w4 + x * w3 + p2 * w2 + p3 * w1 + p4 * w0
              = p0 * w4 + p1 * w3 + p2 * w2 + p3 * w1 + p4 * w0 + (x - p1) * w3
        OBVIOUS
      <3> QED
        BY <1>5, <1>6, <3>1, <3>2, Zenon
    <2>3. CASE k = 2
      <3>1. /\ r[0] = p0 /\ r[1] = p1 /\ r[2] = x /\ r[3] = p3 /\ r[4] = p4
            /\ Weight(4 - k) = w2 /\ p[k] = p2
        BY <1>2, <1>3, <1>4, <2>3
      <3>2. p0 * w4 + p1 * w3 + x * w2 + p3 * w1 + p4 * w0
              = p0 * w4 + p1 * w3 + p2 * w2 + p3 * w1 + p4 * w0 + (x - p2) * w2
        OBVIOUS
      <3> QED
        BY <1>5, <1>6, <3>1, <3>2, Zenon
    <2>4. CASE k = 3
      <3>1. /\ r[0] = p0 /\ r[1] = p1 /\ r[2] = p2 /\ r[3] = x /\ r[4] = p4
            /\ Weight(4 - k) = w1 /\ p[k] = p3
        BY <1>2, <1>3, <1>4, <2>4
      <3>2. p0 * w4 + p1 * w3 + p2 * w2 + x * w1 + p4 * w0
              = p0 * w4 + p1 * w3 + p2 * w2 + p3 * w1 + p4 * w0 + (x - p3) * w1
        OBVIOUS
      <3> QED
        BY <1>5, <1>6, <3>1, <3>2, Zenon
    <2>5. CASE k = 4
      <3>1. /\ r[0] = p0 /\ r[1] = p1 /\ r[2] = p2 /\ r[3] = p3 /\ r[4] = x
            /\ Weight(4 - k) = w0 /\ p[k] = p4
        BY <1>2, <1>3, <1>4, <2>5
      <3>2. p0 * w4 + p1 * w3 + p2 * w2 + p3 * w1 + x * w0
              = p0 * w4 + p1 * w3 + p2 * w2 + p3 * w1 + p4 * w0 + (x - p4) * w0
        OBVIOUS
      <3> QED
        BY <1>5, <1>6, <3>1, <3>2, Zenon
    <2> QED
      BY <2>1, <2>2, <2>3, <2>4, <2>5
  <1> QED
    BY <1>1, <1>7

\* Leading zeros: a small value has them, and they are worth nothing.
LEMMA ZerosLead ==
  ASSUME NEW p \in [0 .. 4 -> Int], NEW k \in 0 .. 4, \A i \in 0 .. k : p[i] = 0
  PROVE  Value(p) = Rest(p, k)
  <1>1. ASSUME NEW i \in 0 .. k PROVE Rest(p, i - 1) = Rest(p, i)
    <2>0. i \in 0 .. 4 /\ 4 - i \in 0 .. 4 /\ p[i] = 0
      OBVIOUS
    <2>1. PICK w \in Nat, r \in Int : w = Weight(4 - i) /\ r = Rest(p, i)
      BY <2>0, RestIs, WeightPositive, Zenon
    <2>2. Rest(p, i - 1) = 0 * w + r
      BY <2>0, <2>1, RestIs, Zenon
    <2>3. 0 * w + r = r
      OBVIOUS
    <2> QED
      BY <2>1, <2>2, <2>3
  <1>2. Rest(p, 0) = Value(p)
    BY <1>1, RestIs
  <1>3. k >= 1 => Rest(p, 1) = Value(p)
    BY <1>1, <1>2
  <1>4. k >= 2 => Rest(p, 2) = Value(p)
    BY <1>1, <1>3
  <1>5. k >= 3 => Rest(p, 3) = Value(p)
    BY <1>1, <1>4
  <1>6. k >= 4 => Rest(p, 4) = Value(p)
    BY <1>1, <1>5
  <1> QED
    BY <1>2, <1>3, <1>4, <1>5, <1>6

LEMMA DigitCounts ==
  ASSUME NEW p \in DigitRows, NEW k \in 0 .. 4
  PROVE  p[k] * Weight(4 - k) <= Value(p)
  <1>0. p \in [0 .. 4 -> Int] /\ B \in Nat
    BY BIs DEF DigitRows
  <1>1. Rest(p, k - 1) <= Value(p)
    <2>1. ASSUME NEW i \in 0 .. 4 PROVE Rest(p, i) <= Rest(p, i - 1)
      <3>1. PICK w \in Nat, d \in Nat, r \in Nat :
              w = Weight(4 - i) /\ d = p[i] /\ r = Rest(p, i)
        BY <1>0, RestBound, WeightPositive DEF DigitRows
      <3>2. Rest(p, i - 1) = d * w + r
        BY <1>0, <3>1, RestIs
      <3>3. r <= d * w + r
        OBVIOUS
      <3> QED
        BY <3>1, <3>2, <3>3
    <2>2. /\ Rest(p, 0 - 1) = Value(p) /\ Rest(p, 0) \in Nat /\ Rest(p, 1) \in Nat
          /\ Rest(p, 2) \in Nat /\ Rest(p, 3) \in Nat /\ Value(p) \in Nat
      BY <1>0, RestIs, RestBound
    <2>3. /\ Rest(p, 0) <= Value(p) /\ Rest(p, 1) <= Rest(p, 0)
          /\ Rest(p, 2) <= Rest(p, 1) /\ Rest(p, 3) <= Rest(p, 2)
      BY <2>1, <2>2
    <2>4. \/ k = 0 /\ k - 1 = 0 - 1
          \/ k = 1 /\ k - 1 = 0
          \/ k = 2 /\ k - 1 = 1
          \/ k = 3 /\ k - 1 = 2
          \/ k = 4 /\ k - 1 = 3
      OBVIOUS
    <2> QED
      BY <2>2, <2>3, <2>4
  <1>2. PICK w \in Nat, d \in Nat, r \in Nat :
          w = Weight(4 - k) /\ d = p[k] /\ r = Rest(p, k)
    BY <1>0, RestBound, WeightPositive DEF DigitRows
  <1>3. Rest(p, k - 1) = d * w + r
    BY <1>0, <1>2, RestIs
  <1>4. d * w \in Nat /\ d * w <= d * w + r
    OBVIOUS
  <1> QED
    BY <1>1, <1>2, <1>3, <1>4, RestBound

LEMMA SmallLead ==
  ASSUME NEW p \in DigitRows, NEW k \in 0 .. 4, Value(p) < Weight(4 - k)
  PROVE  \A i \in 0 .. k : p[i] = 0
  <1>1. SUFFICES ASSUME NEW i \in 0 .. k, p[i] # 0 PROVE FALSE
    OBVIOUS
  <1>2. PICK w \in Nat, d \in Nat : w = Weight(4 - i) /\ d = p[i] /\ d > 0
    BY <1>1, BIs, WeightPositive DEF DigitRows
  <1>3. d * w <= Value(p)
    BY <1>2, DigitCounts
  <1>4. w <= d * w
    BY <1>2
  <1>5. Weight(4 - k) <= w
    BY <1>2, WeightGrows
  <1> QED
    BY <1>2, <1>3, <1>4, <1>5, RestBound, WeightPositive

\* Quotient and remainder.
LEMMA QuotientIs ==
  ASSUME NEW x \in Nat, NEW b \in Nat, NEW q \in Nat, NEW r \in Nat, r < b, x = q * b + r
  PROVE  x \div b = q /\ x % b = r
  OBVIOUS

LEMMA SplitAt ==
  ASSUME NEW x \in Nat, NEW b \in Nat, b > 0, NEW c \in Nat, x < c * b
  PROVE  /\ x \div b \in 0 .. c - 1 /\ x % b \in 0 .. b - 1
         /\ x = (x \div b) * b + (x % b)
  <1>1. PICK q \in Nat, r \in 0 .. b - 1 : q = x \div b /\ r = x % b /\ x = q * b + r
    OBVIOUS
  <1>2. q < c
    <2>1. SUFFICES ASSUME q >= c PROVE FALSE
      OBVIOUS
    <2>2. c * b <= q * b
      BY <2>1
    <2> QED
      BY <1>1, <2>2
  <1> QED
    BY <1>1, <1>2

\* The digits of a number of four digits.
LEMMA DigitsOK ==
  ASSUME NEW x \in Nat, x < Weight(4)
  PROVE  Digits(x) \in DigitRows /\ Digits(x)[0] = 0 /\ Value(Digits(x)) = x
  <1>1. PICK b \in Nat : b = B /\ b > 0
    BY BIs
  <1>2. PICK c \in Nat : c = b * b /\ c > 0
    BY <1>1
  <1>3. x < c * c
    <2>1. b * b * b * b = c * c
      BY <1>2
    <2> QED
      BY <1>1, <2>1, WeightIs
  <1>4. PICK H \in 0 .. c - 1, L \in 0 .. c - 1 :
          H = x \div c /\ L = x % c /\ x = H * c + L
    BY <1>2, <1>3, SplitAt
  <1>5. PICK h1 \in 0 .. b - 1, h2 \in 0 .. b - 1 :
          h1 = H \div b /\ h2 = H % b /\ H = h1 * b + h2
    BY <1>1, <1>2, <1>4, SplitAt
  <1>6. PICK l1 \in 0 .. b - 1, l2 \in 0 .. b - 1 :
          l1 = L \div b /\ l2 = L % b /\ L = l1 * b + l2
    BY <1>1, <1>2, <1>4, SplitAt
  <1>7. PICK p : p = Digits(x)
    OBVIOUS
  <1>8. p = [i \in 0 .. 4 |-> IF i = 0 THEN 0 ELSE <<h1, h2, l1, l2>>[i]]
    BY <1>1, <1>2, <1>4, <1>5, <1>6, <1>7, Zenon DEF Digits, HHALF, LHALF
  <1>9. p[0] = 0 /\ p[1] = h1 /\ p[2] = h2 /\ p[3] = l1 /\ p[4] = l2
    BY <1>8
  <1>10. p \in DigitRows
    <2>1. \A i \in 0 .. 4 : p[i] \in 0 .. b - 1
      BY <1>1, <1>9
    <2>2. p = [i \in 0 .. 4 |-> p[i]]
      BY <1>8
    <2> QED
      BY <1>1, <2>1, <2>2 DEF DigitRows
  <1>11. Value(p) = x
    <2>1. p \in [0 .. 4 -> Int]
      BY <1>10, BIs DEF DigitRows
    <2>2. Value(p) = 0 * (b * b * b * b) + h1 * (b * b * b) + h2 * (b * b) + l1 * b
                       + l2 * 1
      BY <1>1, <1>9, <2>1, ValueIs, WeightIs, Zenon
    <2>3. 0 * (b * b * b * b) + h1 * (b * b * b) + h2 * (b * b) + l1 * b + l2 * 1
            = (h1 * b + h2) * (b * b) + (l1 * b + l2)
      OBVIOUS
    <2> QED
      BY <1>2, <1>4, <1>5, <1>6, <2>2, <2>3, Zenon
  <1> QED
    BY <1>7, <1>9, <1>10, <1>11

\* The part of a digit that a shift by g pushes out on the left, and the rest.
ShiftsTo(x, g, h, b, c, r) ==
  /\ c \in 0 .. g - 1 /\ r \in 0 .. h - 1
  /\ x = c * h + r /\ x \div h = c /\ x % h = r
  /\ (x * g) % b = r * g /\ r * g \in 0 .. b - g

LEMMA DigitShifts ==
  ASSUME NEW g \in Nat, NEW h \in Nat, g > 0, h > 0, NEW b \in Nat, b = g * h,
         NEW x \in 0 .. b - 1
  PROVE  \E c, r : ShiftsTo(x, g, h, b, c, r)
  <1>1. PICK c \in 0 .. g - 1, r \in 0 .. h - 1 :
          c = x \div h /\ r = x % h /\ x = c * h + r
    BY SplitAt
  <1>2. x * g = c * b + r * g
    <2>1. (c * h + r) * g = c * (g * h) + r * g
      OBVIOUS
    <2> QED
      BY <1>1, <2>1
  <1>3. r * g \in 0 .. b - g
    <2>1. r * g <= (h - 1) * g /\ (h - 1) * g = h * g - g
      OBVIOUS
    <2>2. r * g \in Nat /\ h * g = b
      OBVIOUS
    <2> QED
      BY <2>1, <2>2
  <1>4. (x * g) % b = r * g
    <2>1. PICK y \in Nat, z \in Nat : y = x * g /\ z = r * g
      OBVIOUS
    <2>2. y = c * b + z /\ z < b /\ c \in Nat
      BY <1>2, <1>3, <2>1
    <2>3. y % b = z
      BY <2>2, QuotientIs, Zenon
    <2> QED
      BY <2>1, <2>3
  <1> QED
    BY <1>1, <1>3, <1>4 DEF ShiftsTo

\* c[i] and r[i] are the bits of p[i] that a shift by sh pushes out and keeps.
Carries(p, sh, c, r) ==
  /\ c \in [0 .. 4 -> Nat] /\ r \in [0 .. 4 -> Nat]
  /\ \A i \in 0 .. 4 : /\ c[i] = p[i] \div Bit[HalfBits - sh] /\ c[i] < Bit[sh]
                       /\ r[i] = LHALF(p[i] * Bit[sh]) /\ r[i] <= B - Bit[sh]
                       /\ p[i] * Bit[sh] = c[i] * B + r[i]

LEMMA CarriesExist ==
  ASSUME NEW p \in DigitRows, NEW sh \in 0 .. HalfBits
  PROVE  \E c, r : Carries(p, sh, c, r)
  <1>1. PICK g \in Nat, h \in Nat, b \in Nat :
          /\ g = Bit[sh] /\ h = Bit[HalfBits - sh] /\ b = B /\ g > 0 /\ h > 0 /\ b = g * h
    <2>1. HalfBits - sh \in 0 .. HalfBits
      BY HalfBitsAssumption
    <2>2. Bit[sh] * Bit[HalfBits - sh] = B
      BY BitProduct
    <2> QED
      BY <2>1, <2>2, BitIs, BIs
  <1>2. PICK c, r : /\ c = [i \in 0 .. 4 |-> p[i] \div h]
                    /\ r = [i \in 0 .. 4 |-> (p[i] * g) % b]
    OBVIOUS
  <1>3. ASSUME NEW i \in 0 .. 4
        PROVE  /\ c[i] \in Nat /\ r[i] \in Nat /\ c[i] < g /\ r[i] <= b - g
               /\ p[i] * g = c[i] * b + r[i]
    <2>1. PICK x \in 0 .. b - 1 : x = p[i]
      BY <1>1 DEF DigitRows
    <2>2. PICK k \in 0 .. g - 1, l \in 0 .. h - 1 : ShiftsTo(x, g, h, b, k, l)
      <3>1. g > 0 /\ h > 0 /\ b = g * h
        BY <1>1
      <3>2. PICK k, l : ShiftsTo(x, g, h, b, k, l)
        BY <3>1, DigitShifts, Zenon
      <3>3. k \in 0 .. g - 1 /\ l \in 0 .. h - 1
        BY <3>2, Zenon DEF ShiftsTo
      <3> QED
        BY <3>2, <3>3, Zenon
    <2>3. c[i] = k /\ r[i] = l * g
      BY <1>2, <2>1, <2>2, Zenon DEF ShiftsTo
    <2>4. x * g = k * b + l * g
      <3>1. (k * h + l) * g = k * (g * h) + l * g
        OBVIOUS
      <3> QED
        BY <1>1, <2>2, <3>1 DEF ShiftsTo
    <2> QED
      BY <2>1, <2>2, <2>3, <2>4 DEF ShiftsTo
  <1>4. Carries(p, sh, c, r)
    <2>1. c \in [0 .. 4 -> Nat] /\ r \in [0 .. 4 -> Nat]
      BY <1>2, <1>3
    <2>2. \A i \in 0 .. 4 : c[i] = p[i] \div h /\ r[i] = (p[i] * g) % b
      BY <1>2, Zenon
    <2> QED
      BY <1>1, <1>3, <2>1, <2>2, Zenon DEF Carries, LHALF
  <1> QED
    BY <1>4

\* Shifting a number whose first bits are zeros multiplies it.
LEMMA ShlMultiplies ==
  ASSUME NEW p \in DigitRows, NEW from \in 0 .. 4, NEW len, len = 4 - from,
         NEW sh \in 0 .. HalfBits, \A i \in 0 .. from - 1 : p[i] = 0,
         p[from] * Bit[sh] < B
  PROVE  /\ shl(p, from, len, sh) \in DigitRows
         /\ Value(shl(p, from, len, sh)) = Value(p) * Bit[sh]
         /\ \A i \in 0 .. from - 1 : shl(p, from, len, sh)[i] = 0
  <1>1. PICK c, r : Carries(p, sh, c, r)
    BY CarriesExist
  <1>2. PICK g \in Nat, b \in Nat : g = Bit[sh] /\ b = B /\ g > 0 /\ b >= 4
    BY BitIs, BIs
  <1>3. PICK s : s = shl(p, from, len, sh)
    OBVIOUS
  <1>4. \A i \in 0 .. 4 : /\ c[i] \in Nat /\ c[i] < g /\ r[i] \in Nat /\ r[i] <= b - g
                          /\ p[i] * g = c[i] * b + r[i] /\ p[i] \in Nat
    BY <1>1, <1>2 DEF Carries, DigitRows
  <1>5. \A i \in 0 .. from : c[i] = 0
    <2>1. SUFFICES ASSUME NEW i \in 0 .. from PROVE c[i] = 0
      OBVIOUS
    <2>2. PICK x \in Nat, y \in Nat, z \in Nat : x = p[i] /\ y = c[i] /\ z = r[i] /\ x * g = y * b + z
      <3>1. i \in 0 .. 4
        OBVIOUS
      <3> QED
        BY <1>4, <3>1, Zenon
    <2>3. x * g < b
      <3>1. CASE i = from
        BY <1>2, <2>2, <3>1
      <3>2. CASE i # from
        <4>1. x = 0
          BY <2>1, <2>2, <3>2
        <4>2. 0 * g = 0
          OBVIOUS
        <4> QED
          BY <1>2, <4>1, <4>2
      <3> QED
        BY <3>1, <3>2
    <2>4. y > 0 => b <= y * b
      OBVIOUS
    <2> QED
      BY <1>2, <2>2, <2>3, <2>4
  <1>6. \A i \in 0 .. from - 1 : r[i] = 0
    <2>1. SUFFICES ASSUME NEW i \in 0 .. from - 1 PROVE r[i] = 0
      OBVIOUS
    <2>2. i \in 0 .. 4 /\ p[i] = 0 /\ c[i] = 0
      BY <1>5, <2>1
    <2>3. 0 * g = 0 * b + r[i] /\ r[i] \in Nat
      BY <1>4, <2>2
    <2> QED
      BY <1>2, <2>3
  <1>7. s = [i \in 0 .. 4 |-> r[i] + (IF i = 4 THEN 0 ELSE c[i + 1])]
    <2>1. ASSUME NEW i \in 0 .. 4
          PROVE  (IF i \notin from .. from + len THEN p[i]
                  ELSE LHALF(p[i] * Bit[sh])
                         + (IF i = from + len THEN 0 ELSE p[i + 1] \div Bit[HalfBits - sh]))
                   = r[i] + (IF i = 4 THEN 0 ELSE c[i + 1])
      <3>1. CASE i \in from .. 4
        <4>1. r[i] = LHALF(p[i] * Bit[sh]) /\ from + len = 4
          BY <1>1 DEF Carries
        <4>2. i # 4 => c[i + 1] = p[i + 1] \div Bit[HalfBits - sh]
          <5>1. i # 4 => i + 1 \in 0 .. 4
            OBVIOUS
          <5> QED
            BY <1>1, <5>1 DEF Carries
        <4> QED
          BY <3>1, <4>1, <4>2
      <3>2. CASE i \notin from .. 4
        <4>1. i \in 0 .. from - 1 /\ i + 1 \in 0 .. from /\ i # 4 /\ from + len = 4
          BY <3>2
        <4>2. p[i] = 0 /\ r[i] = 0 /\ c[i + 1] = 0
          BY <1>5, <1>6, <4>1
        <4> QED
          BY <3>2, <4>1, <4>2
      <3> QED
        BY <3>1, <3>2
    <2> QED
      BY <1>3, <2>1, Zenon DEF shl
  <1>8. s \in DigitRows
    <2>1. ASSUME NEW i \in 0 .. 4 PROVE s[i] \in 0 .. b - 1
      <3>1. PICK x \in Nat : x = r[i] /\ x <= b - g
        BY <1>4
      <3>2. PICK y \in Nat : y = (IF i = 4 THEN 0 ELSE c[i + 1]) /\ y < g
        <4>1. i # 4 => i + 1 \in 0 .. 4
          OBVIOUS
        <4> QED
          BY <1>2, <1>4, <4>1
      <3> QED
        BY <1>7, <3>1, <3>2
    <2> QED
      BY <1>2, <1>7, <2>1 DEF DigitRows
  <1>9. \A i \in 0 .. from - 1 : s[i] = 0
    <2>1. SUFFICES ASSUME NEW i \in 0 .. from - 1 PROVE s[i] = 0
      OBVIOUS
    <2>2. i \in 0 .. 4 /\ i # 4 /\ i + 1 \in 0 .. from
      OBVIOUS
    <2>3. s[i] = r[i] + c[i + 1] /\ r[i] = 0 /\ c[i + 1] = 0
      BY <1>5, <1>6, <1>7, <2>2
    <2> QED
      BY <2>3
  <1>10. Value(s) = Value(p) * g
    <2>1. PICK c0 \in Nat, c1 \in Nat, c2 \in Nat, c3 \in Nat, c4 \in Nat :
            c0 = c[0] /\ c1 = c[1] /\ c2 = c[2] /\ c3 = c[3] /\ c4 = c[4]
      BY <1>1, FiveOf, Zenon DEF Carries
    <2>2. PICK r0 \in Nat, r1 \in Nat, r2 \in Nat, r3 \in Nat, r4 \in Nat :
            r0 = r[0] /\ r1 = r[1] /\ r2 = r[2] /\ r3 = r[3] /\ r4 = r[4]
      BY <1>1, FiveOf, Zenon DEF Carries
    <2>3. PICK p0 \in Nat, p1 \in Nat, p2 \in Nat, p3 \in Nat, p4 \in Nat :
            p0 = p[0] /\ p1 = p[1] /\ p2 = p[2] /\ p3 = p[3] /\ p4 = p[4]
      <3>1. p \in [0 .. 4 -> Nat]
        BY BIs DEF DigitRows
      <3> QED
        BY <3>1, FiveOf, Zenon
    <2>4. /\ p0 * g = c0 * b + r0 /\ p1 * g = c1 * b + r1 /\ p2 * g = c2 * b + r2
          /\ p3 * g = c3 * b + r3 /\ p4 * g = c4 * b + r4
      BY <1>4, <2>1, <2>2, <2>3
    <2>5. c0 = 0
      BY <1>5, <2>1
    <2>6. /\ s[0] = r0 + c1 /\ s[1] = r1 + c2 /\ s[2] = r2 + c3 /\ s[3] = r3 + c4
          /\ s[4] = r4
      BY <1>7, <2>1, <2>2
    <2>7. Value(s) = (r0 + c1) * (b * b * b * b) + (r1 + c2) * (b * b * b)
                       + (r2 + c3) * (b * b) + (r3 + c4) * b + r4 * 1
      <3>1. s \in [0 .. 4 -> Int]
        BY <1>8, BIs DEF DigitRows
      <3> QED
        BY <1>2, <2>6, <3>1, ValueIs, WeightIs, Zenon
    <2>8. Value(p) = p0 * (b * b * b * b) + p1 * (b * b * b) + p2 * (b * b) + p3 * b
                       + p4 * 1
      <3>1. p \in [0 .. 4 -> Int]
        BY BIs DEF DigitRows
      <3> QED
        BY <1>2, <2>3, <3>1, ValueIs, WeightIs, Zenon
    <2>9. (p0 * (b * b * b * b) + p1 * (b * b * b) + p2 * (b * b) + p3 * b + p4 * 1) * g
            = (p0 * g) * (b * b * b * b) + (p1 * g) * (b * b * b) + (p2 * g) * (b * b)
                + (p3 * g) * b + p4 * g
      OBVIOUS
    <2>10. (0 * b + r0) * (b * b * b * b) + (c1 * b + r1) * (b * b * b)
             + (c2 * b + r2) * (b * b) + (c3 * b + r3) * b + (c4 * b + r4)
             = (r0 + c1) * (b * b * b * b) + (r1 + c2) * (b * b * b) + (r2 + c3) * (b * b)
                 + (r3 + c4) * b + r4 * 1
      OBVIOUS
    <2> QED
      BY <2>4, <2>5, <2>7, <2>8, <2>9, <2>10, Zenon
  <1> QED
    BY <1>2, <1>3, <1>8, <1>9, <1>10

LEMMA QuadIs ==
  ASSUME NEW p \in [0 .. 4 -> Int], p[0] = 0
  PROVE  Quad(p) = Value(p)
  <1>1. PICK b \in Nat : b = B
    BY BIs
  <1>2. PICK p0 \in Int, p1 \in Int, p2 \in Int, p3 \in Int, p4 \in Int :
          p0 = p[0] /\ p1 = p[1] /\ p2 = p[2] /\ p3 = p[3] /\ p4 = p[4]
    BY FiveOf, Zenon
  <1>3. Quad(p) = ((p1 * b + p2) * b + p3) * b + p4
    BY <1>1, <1>2, Zenon DEF Quad, COMBINE
  <1>4. Value(p) = 0 * (b * b * b * b) + Quad(p)
    BY <1>1, WeightIs, Zenon DEF Value
  <1>5. 0 * (b * b * b * b) + (((p1 * b + p2) * b + p3) * b + p4)
          = ((p1 * b + p2) * b + p3) * b + p4
    OBVIOUS
  <1> QED
    BY <1>3, <1>4, <1>5, Zenon

\* The shift to the right, of a number that ends in zeros, divides it.
ShiftedBack(u, first, d) ==
  [i \in 0 .. 4 |->
     IF i = first THEN 0
     ELSE IF i \in first + 1 .. 4
     THEN (u[i] \div Bit[d]) + LHALF(u[i - 1] * Bit[HalfBits - d])
     ELSE u[i]]

LEMMA RemainderIs ==
  ASSUME NEW u \in DigitRows, NEW d \in 0 .. HalfBits, NEW first \in 0 .. 4,
         \A i \in 0 .. first : u[i] = 0, NEW R \in Nat, Value(u) = R * Bit[d],
         NEW s, s = ShiftedBack(u, first, d)
  PROVE  Quad(s) = R
  <1>1. PICK g \in Nat, h \in Nat, b \in Nat :
          /\ g = Bit[d] /\ h = Bit[HalfBits - d] /\ b = B /\ g > 0 /\ h > 0 /\ b = h * g
    <2>1. HalfBits - d \in 0 .. HalfBits
      BY HalfBitsAssumption
    <2>2. PICK g \in Nat, h \in Nat : g = Bit[d] /\ h = Bit[HalfBits - d] /\ g > 0 /\ h > 0
      BY <2>1, BitIs
    <2>3. g * h = B
      BY <2>2, BitProduct
    <2>4. g * h = h * g
      OBVIOUS
    <2> QED
      BY <2>2, <2>3, <2>4, BIs
  <1>2. PICK c, l : c = [i \in 0 .. 4 |-> u[i] \div g] /\ l = [i \in 0 .. 4 |-> u[i] % g]
    OBVIOUS
  <1>3. ASSUME NEW i \in 0 .. 4
        PROVE  /\ c[i] \in Nat /\ l[i] \in Nat /\ l[i] < g /\ u[i] = c[i] * g + l[i]
               /\ LHALF(u[i] * h) = l[i] * h
    <2>1. PICK x \in 0 .. b - 1 : x = u[i]
      BY <1>1 DEF DigitRows
    <2>2. PICK k, m : ShiftsTo(x, h, g, b, k, m)
      <3>1. g > 0 /\ h > 0 /\ b = h * g
        BY <1>1
      <3> QED
        BY <3>1, DigitShifts, Zenon
    <2>3. /\ k \in 0 .. h - 1 /\ m \in 0 .. g - 1 /\ x = k * g + m
          /\ x \div g = k /\ x % g = m /\ (x * h) % b = m * h
      BY <2>2, Zenon DEF ShiftsTo
    <2>4. c[i] = k /\ l[i] = m
      BY <1>2, <2>1, <2>3, Zenon
    <2>5. LHALF(u[i] * h) = m * h
      BY <1>1, <2>1, <2>3, Zenon DEF LHALF
    <2>6. k \in Nat /\ m \in Nat /\ m < g
      BY <1>1, <2>3
    <2> QED
      BY <2>1, <2>3, <2>4, <2>5, <2>6, Zenon
  <1>4. c \in [0 .. 4 -> Nat] /\ l \in [0 .. 4 -> Nat]
    BY <1>2, <1>3
  <1>5. \A i \in 0 .. first : c[i] = 0 /\ l[i] = 0
    <2>1. SUFFICES ASSUME NEW i \in 0 .. first PROVE c[i] = 0 /\ l[i] = 0
      OBVIOUS
    <2>2. PICK x \in Nat, y \in Nat : x = c[i] /\ y = l[i] /\ 0 = x * g + y
      <3>1. i \in 0 .. 4 /\ u[i] = 0
        OBVIOUS
      <3> QED
        BY <1>3, <3>1, Zenon
    <2>3. x > 0 => x * g > 0
      BY <1>1
    <2> QED
      BY <1>1, <2>2, <2>3
  <1>6. /\ s \in [0 .. 4 -> Int] /\ s[0] = 0
        /\ \A i \in 1 .. 4 : s[i] = c[i] + l[i - 1] * h
    <2>1. \A i \in 0 .. first : s[i] = 0
      <3>1. SUFFICES ASSUME NEW i \in 0 .. first PROVE s[i] = 0
        OBVIOUS
      <3>2. i \in 0 .. 4 /\ i \notin first + 1 .. 4 /\ u[i] = 0
        OBVIOUS
      <3>3. s[i] = 0 \/ s[i] = u[i]
        BY <3>2, Zenon DEF ShiftedBack
      <3> QED
        BY <3>2, <3>3
    <2>2. ASSUME NEW i \in 1 .. 4 PROVE s[i] \in Int /\ s[i] = c[i] + l[i - 1] * h
      <3>0. i \in 0 .. 4 /\ i - 1 \in 0 .. 4
        OBVIOUS
      <3>1. CASE i <= first
        <4>1. c[i] = 0 /\ l[i - 1] = 0 /\ s[i] = 0
          BY <1>5, <2>1, <3>1
        <4>2. 0 + 0 * h = 0
          OBVIOUS
        <4> QED
          BY <4>1, <4>2
      <3>2. CASE i > first
        <4>1. i \in first + 1 .. 4 /\ i # first
          BY <3>2
        <4>2. s[i] = (u[i] \div Bit[d]) + LHALF(u[i - 1] * Bit[HalfBits - d])
          BY <3>0, <4>1, Zenon DEF ShiftedBack
        <4>3. LHALF(u[i - 1] * h) = l[i - 1] * h /\ u[i] \div g = c[i]
          BY <1>2, <1>3, <3>0, Zenon
        <4>4. s[i] = c[i] + l[i - 1] * h
          BY <1>1, <4>2, <4>3, Zenon
        <4>5. PICK x \in Nat, y \in Nat : x = c[i] /\ y = l[i - 1]
          BY <1>3, <3>0
        <4>6. x + y * h \in Int
          OBVIOUS
        <4> QED
          BY <4>4, <4>5, <4>6
      <3> QED
        BY <3>1, <3>2
    <2>3. s[0] = 0
      BY <2>1
    <2>4. \A i \in 0 .. 4 : s[i] \in Int
      <3>1. \A i \in 0 .. 4 : i = 0 \/ i \in 1 .. 4
        OBVIOUS
      <3> QED
        BY <2>2, <2>3, <3>1
    <2>5. s \in [0 .. 4 -> Int]
      <3>1. s = [i \in 0 .. 4 |-> s[i]]
        BY Zenon DEF ShiftedBack
      <3> QED
        BY <2>4, <3>1, Zenon
    <2> QED
      BY <2>2, <2>3, <2>5
  <1>7. PICK c0 \in Nat, c1 \in Nat, c2 \in Nat, c3 \in Nat, c4 \in Nat :
          c0 = c[0] /\ c1 = c[1] /\ c2 = c[2] /\ c3 = c[3] /\ c4 = c[4]
    BY <1>4, FiveOf, Zenon
  <1>8. PICK l0 \in Nat, l1 \in Nat, l2 \in Nat, l3 \in Nat, l4 \in Nat :
          l0 = l[0] /\ l1 = l[1] /\ l2 = l[2] /\ l3 = l[3] /\ l4 = l[4]
    BY <1>4, FiveOf, Zenon
  <1>9. l0 = 0 /\ l4 < g /\ u[0] = 0
    BY <1>3, <1>5, <1>8
  <1>10. Value(s) = (c1 + 0 * h) * (b * b * b) + (c2 + l1 * h) * (b * b)
                      + (c3 + l2 * h) * b + (c4 + l3 * h)
    <2>1. /\ s[1] = c1 + 0 * h /\ s[2] = c2 + l1 * h /\ s[3] = c3 + l2 * h
          /\ s[4] = c4 + l3 * h
      <3>1. /\ 1 - 1 = 0 /\ 2 - 1 = 1 /\ 3 - 1 = 2 /\ 4 - 1 = 3
            /\ 1 \in 1 .. 4 /\ 2 \in 1 .. 4 /\ 3 \in 1 .. 4 /\ 4 \in 1 .. 4
        OBVIOUS
      <3> QED
        BY <1>6, <1>7, <1>8, <1>9, <3>1, Zenon
    <2>2. Value(s) = 0 * (b * b * b * b) + (c1 + 0 * h) * (b * b * b)
                       + (c2 + l1 * h) * (b * b) + (c3 + l2 * h) * b + (c4 + l3 * h) * 1
      BY <1>1, <1>6, <2>1, ValueIs, WeightIs, Zenon
    <2>3. 0 * (b * b * b * b) + (c1 + 0 * h) * (b * b * b)
            + (c2 + l1 * h) * (b * b) + (c3 + l2 * h) * b + (c4 + l3 * h) * 1
            = (c1 + 0 * h) * (b * b * b) + (c2 + l1 * h) * (b * b)
                + (c3 + l2 * h) * b + (c4 + l3 * h)
      OBVIOUS
    <2> QED
      BY <2>2, <2>3, Zenon
  <1>11. Value(u) = (c1 * g + l1) * (b * b * b) + (c2 * g + l2) * (b * b)
                      + (c3 * g + l3) * b + (c4 * g + l4)
    <2>0. u \in [0 .. 4 -> Int]
      BY BIs DEF DigitRows
    <2>1. /\ u[1] = c1 * g + l1 /\ u[2] = c2 * g + l2 /\ u[3] = c3 * g + l3
          /\ u[4] = c4 * g + l4
      BY <1>3, <1>7, <1>8
    <2>2. Value(u) = 0 * (b * b * b * b) + (c1 * g + l1) * (b * b * b)
                       + (c2 * g + l2) * (b * b) + (c3 * g + l3) * b + (c4 * g + l4) * 1
      BY <1>1, <1>9, <2>0, <2>1, ValueIs, WeightIs, Zenon
    <2>3. 0 * (b * b * b * b) + (c1 * g + l1) * (b * b * b)
            + (c2 * g + l2) * (b * b) + (c3 * g + l3) * b + (c4 * g + l4) * 1
            = (c1 * g + l1) * (b * b * b) + (c2 * g + l2) * (b * b)
                + (c3 * g + l3) * b + (c4 * g + l4)
      OBVIOUS
    <2> QED
      BY <2>2, <2>3, Zenon
  <1>12. PICK X \in Nat : X = Value(s)
    <2>1. (c1 + 0 * h) * (b * b * b) + (c2 + l1 * h) * (b * b)
            + (c3 + l2 * h) * b + (c4 + l3 * h) \in Nat
      OBVIOUS
    <2> QED
      BY <1>10, <2>1
  <1>13. X * g + l4 = R * g
    <2>1. ((c1 + 0 * h) * (b * b * b) + (c2 + l1 * h) * (b * b)
             + (c3 + l2 * h) * b + (c4 + l3 * h)) * g + l4
            = (c1 * g) * (b * b * b) + (c2 * g + l1 * (h * g)) * (b * b)
                + (c3 * g + l2 * (h * g)) * b + (c4 * g + l3 * (h * g)) + l4
      OBVIOUS
    <2>2. (c1 * g) * (b * b * b) + (c2 * g + l1 * b) * (b * b)
            + (c3 * g + l2 * b) * b + (c4 * g + l3 * b) + l4
            = (c1 * g + l1) * (b * b * b) + (c2 * g + l2) * (b * b)
                + (c3 * g + l3) * b + (c4 * g + l4)
      OBVIOUS
    <2>3. h * g = b /\ R * g = Value(u)
      BY <1>1
    <2> QED
      BY <1>10, <1>11, <1>12, <2>1, <2>2, <2>3, Zenon
  <1>14. X = R
    <2>1. (R - X) * g = l4
      BY <1>13
    <2>2. R - X > 0 => (R - X) * g >= g
      BY <1>1
    <2>3. R - X < 0 => (R - X) * g < 0
      BY <1>1
    <2> QED
      BY <1>9, <2>1, <2>2, <2>3
  <1> QED
    BY <1>6, <1>12, <1>14, QuadIs

\* Schoolbook division by one digit.
LEMMA OneDigitDivides ==
  ASSUME NEW uq \in Nat, uq < Weight(4), NEW t \in Nat, t > 0
  PROVE  /\ OneDigit(uq, t).quot * t + OneDigit(uq, t).rem = uq
         /\ OneDigit(uq, t).rem < t /\ OneDigit(uq, t).pc = "done"
  <1>1. PICK u : u = Digits(uq)
    OBVIOUS
  <1>2. u \in DigitRows /\ u[0] = 0 /\ Value(u) = uq /\ u \in [0 .. 4 -> Int]
    BY <1>1, DigitsOK, BIs DEF DigitRows
  <1>12. PICK b \in Nat : b = B
    BY BIs
  <1>3. PICK u0 \in Nat, u1 \in Nat, u2 \in Nat, u3 \in Nat, u4 \in Nat :
          u0 = u[0] /\ u1 = u[1] /\ u2 = u[2] /\ u3 = u[3] /\ u4 = u[4]
    <2>1. u \in [0 .. 4 -> Nat]
      BY <1>2, BIs DEF DigitRows
    <2> QED
      BY <2>1, FiveOf, Zenon
  <1>4. uq = ((u1 * b + u2) * b + u3) * b + u4
    BY <1>2, <1>3, <1>12, QuadIs, Zenon DEF Quad, COMBINE
  <1>5. ASSUME NEW x \in Nat
        PROVE  \E q \in Nat, r \in 0 .. t - 1 : q = x \div t /\ r = x % t /\ x = q * t + r
    OBVIOUS
  <1>6. PICK q1 \in Nat, r1 \in 0 .. t - 1 :
          q1 = u1 \div t /\ r1 = u1 % t /\ u1 = q1 * t + r1
    BY <1>5
  <1>7. PICK q2 \in Nat, r2 \in 0 .. t - 1 :
          q2 = (r1 * b + u2) \div t /\ r2 = (r1 * b + u2) % t /\ r1 * b + u2 = q2 * t + r2
    <2>1. r1 * b + u2 \in Nat
      OBVIOUS
    <2> QED
      BY <1>5, <2>1, Zenon
  <1>8. PICK q3 \in Nat, r3 \in 0 .. t - 1 :
          q3 = (r2 * b + u3) \div t /\ r3 = (r2 * b + u3) % t /\ r2 * b + u3 = q3 * t + r3
    <2>1. r2 * b + u3 \in Nat
      OBVIOUS
    <2> QED
      BY <1>5, <2>1, Zenon
  <1>9. PICK q4 \in Nat, r4 \in 0 .. t - 1 :
          q4 = (r3 * b + u4) \div t /\ r4 = (r3 * b + u4) % t /\ r3 * b + u4 = q4 * t + r4
    <2>1. r3 * b + u4 \in Nat
      OBVIOUS
    <2> QED
      BY <1>5, <2>1, Zenon
  <1>10. OneDigit(uq, t) = [pc |-> "done", quot |-> ((q1 * b + q2) * b + q3) * b + q4,
                            rem |-> r4]
    BY <1>1, <1>3, <1>6, <1>7, <1>8, <1>9, <1>12, Zenon DEF OneDigit, Answer, COMBINE
  <1>11. (((q1 * b + q2) * b + q3) * b + q4) * t + r4 = uq
    <2>1. u1 * b + u2 = (q1 * b + q2) * t + r2
      <3>1. (q1 * t + r1) * b + u2 = (q1 * b) * t + (r1 * b + u2)
        OBVIOUS
      <3>2. (q1 * b) * t + (q2 * t + r2) = (q1 * b + q2) * t + r2
        OBVIOUS
      <3> QED
        BY <1>6, <1>7, <3>1, <3>2, Zenon
    <2>2. PICK q12 \in Nat : q12 = q1 * b + q2
      OBVIOUS
    <2>3. (u1 * b + u2) * b + u3 = (q12 * b + q3) * t + r3
      <3>1. (q12 * t + r2) * b + u3 = (q12 * b) * t + (r2 * b + u3)
        OBVIOUS
      <3>2. (q12 * b) * t + (q3 * t + r3) = (q12 * b + q3) * t + r3
        OBVIOUS
      <3> QED
        BY <1>8, <2>1, <2>2, <3>1, <3>2, Zenon
    <2>4. PICK q13 \in Nat : q13 = q12 * b + q3
      OBVIOUS
    <2>5. ((u1 * b + u2) * b + u3) * b + u4 = (q13 * b + q4) * t + r4
      <3>1. (q13 * t + r3) * b + u4 = (q13 * b) * t + (r3 * b + u4)
        OBVIOUS
      <3>2. (q13 * b) * t + (q4 * t + r4) = (q13 * b + q4) * t + r4
        OBVIOUS
      <3> QED
        BY <1>9, <2>3, <2>4, <3>1, <3>2, Zenon
    <2> QED
      BY <1>4, <2>2, <2>4, <2>5, Zenon
  <1> QED
    BY <1>10, <1>11

-----------------------------------------------------------------------------
(***************************************************************************)
(* D1.                                                                     *)
(***************************************************************************)
LEMMA LeadingZerosIs ==
  ASSUME NEW p \in DigitRows, p[0] = 0, Value(p) > 0, NEW k, k = LeadingZeros(p)
  PROVE  k \in 0 .. 3 /\ p[k + 1] # 0 /\ \A i \in 0 .. k : p[i] = 0
  <1>0. p \in [0 .. 4 -> Int]
    BY BIs DEF DigitRows
  <1>1. PICK S : S = {i \in 1 .. 4 : p[i] # 0}
    OBVIOUS
  <1>2. S # {}
    <2>1. SUFFICES ASSUME S = {} PROVE FALSE
      OBVIOUS
    <2>2. \A i \in 0 .. 4 : p[i] = 0
      BY <1>1, <2>1
    <2>3. Value(p) = Rest(p, 4)
      BY <1>0, <2>2, ZerosLead
    <2> QED
      BY <1>0, <2>3, RestIs
  <1>3. PICK x \in S : \A y \in S : x <= y
    BY <1>1, <1>2, LeastOf
  <1>4. /\ x - 1 \in 0 .. 3 /\ p[x - 1 + 1] # 0
        /\ \A i \in 1 .. x - 1 : p[i] = 0
    BY <1>1, <1>3
  <1>5. k \in 0 .. 3 /\ p[k + 1] # 0 /\ \A i \in 1 .. k : p[i] = 0
    BY <1>4, Zenon DEF LeadingZeros
  <1> QED
    BY <1>5

LEMMA HasShift ==
  ASSUME NEW x \in 1 .. B - 1
  PROVE  \E s \in 0 .. HalfBits - 1 : x * Bit[s] \in B \div 2 .. B - 1
  <1>1. PICK h \in Nat, b \in Nat : h = Bit[HalfBits - 1] /\ b = B /\ b = 2 * h /\ B \div 2 = h
    <2>1. HalfBits - 1 \in 0 .. HalfBits
      BY HalfBitsAssumption
    <2>2. PICK h \in Nat : h = Bit[HalfBits - 1]
      BY <2>1, BitIs
    <2>3. B = 2 * h
      BY <2>2, BIs
    <2>4. (2 * h) \div 2 = h
      OBVIOUS
    <2> QED
      BY <2>2, <2>3, <2>4, BIs
  <1>2. PICK S : S = {s \in 0 .. HalfBits - 1 : x * Bit[s] >= h}
    OBVIOUS
  <1>3. S # {} /\ S \in SUBSET Nat
    <2>1. HalfBits - 1 \in 0 .. HalfBits - 1
      BY HalfBitsAssumption
    <2>2. x * h >= h
      BY BIs
    <2>3. S \subseteq 0 .. HalfBits - 1
      BY <1>2, Zenon
    <2> QED
      BY <1>1, <1>2, <2>1, <2>2, <2>3, HalfBitsAssumption
  <1>4. PICK s \in S : \A y \in S : s <= y
    BY <1>3, LeastOf
  <1>5. PICK g \in Nat : g = Bit[s] /\ x * g >= h /\ s \in 0 .. HalfBits - 1
    <2>1. s \in 0 .. HalfBits - 1 /\ s \in 0 .. HalfBits /\ x * Bit[s] >= h
      BY <1>2, <1>4, HalfBitsAssumption
    <2> QED
      BY <2>1, BitIs
  <1>6. x * g < b
    <2>1. CASE s = 0
      <3>1. g = 1 /\ x \in Nat /\ x < b
        BY <1>1, <1>5, <2>1, BitIs, BIs
      <3> QED
        BY <3>1
    <2>2. CASE s # 0
      <3>1. s - 1 \in 0 .. HalfBits - 1 /\ s \in 1 .. HalfBits /\ s - 1 \in 0 .. HalfBits
        BY <1>5, <2>2, HalfBitsAssumption
      <3>2. PICK y \in Nat : y = Bit[s - 1] /\ g = 2 * y
        BY <1>5, <3>1, BitIs
      <3>3. s - 1 \notin S
        BY <1>4, <1>5, <3>1
      <3>4. ~(x * y >= h)
        BY <1>2, <3>1, <3>2, <3>3, Zenon
      <3>5. x \in Nat
        BY BIs
      <3> QED
        BY <1>1, <3>2, <3>4, <3>5
    <2> QED
      BY <2>1, <2>2
  <1>7. x * g \in Nat
    BY BIs
  <1>8. x * g \in h .. b - 1
    BY <1>5, <1>6, <1>7
  <1> QED
    BY <1>1, <1>5, <1>8, Zenon

-----------------------------------------------------------------------------
(***************************************************************************)
(* D3.  U is what is left of the dividend and E the divisor at the place   *)
(* of the digit: U = (u0 u1 u2) A + ur and E = (v1 v2) A + vr.             *)
(***************************************************************************)
Leading(b, A, u0, u1, u2, ur, v1, v2, vr, U, E) ==
  /\ b \in Nat /\ A \in Nat /\ A > 0
  /\ u0 \in 0 .. b - 1 /\ u1 \in 0 .. b - 1 /\ u2 \in 0 .. b - 1 /\ ur \in 0 .. A - 1
  /\ v1 \in 1 .. b - 1 /\ v2 \in 0 .. b - 1 /\ vr \in 0 .. A - 1
  /\ U \in Nat /\ U = ((u0 * b + u1) * b + u2) * A + ur
  /\ E \in Nat /\ E = (v1 * b + v2) * A + vr
  /\ U < b * E

LEMMA Multiplied ==
  ASSUME NEW x \in Int, NEW y \in Int, NEW z \in Nat, x <= y
  PROVE  x * z <= y * z
  OBVIOUS

LEMMA Divided ==
  ASSUME NEW x \in Int, NEW y \in Int, NEW z \in Nat, x * z < y * z
  PROVE  x < y
  <1>1. SUFFICES ASSUME y <= x PROVE FALSE
    OBVIOUS
  <1>2. y * z <= x * z
    BY <1>1, Multiplied
  <1> QED
    BY <1>2

\* The dividend's first digit is at most the divisor's.
LEMMA FirstDigitFits ==
  ASSUME NEW b, NEW A, NEW u0, NEW u1, NEW u2, NEW ur, NEW v1, NEW v2, NEW vr, NEW U, NEW E,
         Leading(b, A, u0, u1, u2, ur, v1, v2, vr, U, E)
  PROVE  u0 <= v1
  <1>1. /\ b \in Nat /\ A \in Nat /\ A > 0
        /\ u0 \in 0 .. b - 1 /\ u1 \in 0 .. b - 1 /\ u2 \in 0 .. b - 1 /\ ur \in 0 .. A - 1
        /\ v1 \in 1 .. b - 1 /\ v2 \in 0 .. b - 1 /\ vr \in 0 .. A - 1
        /\ U = ((u0 * b + u1) * b + u2) * A + ur
        /\ E = (v1 * b + v2) * A + vr /\ U < b * E
    BY Zenon DEF Leading
  <1>2. PICK bA \in Nat : bA = b * A /\ bA > 0
    BY <1>1
  <1>3. E < (v1 + 1) * bA
    <2>1. (v1 * b + v2) * A = v1 * (b * A) + v2 * A
      BY <1>1
    <2>2. (v2 + 1) * A <= b * A /\ (v2 + 1) * A = v2 * A + A
      BY <1>1, Multiplied
    <2>3. (v1 + 1) * bA = v1 * bA + bA
      BY <1>1
    <2>4. v1 * bA \in Nat /\ v2 * A \in Nat
      BY <1>1
    <2> QED
      BY <1>1, <1>2, <2>1, <2>2, <2>3, <2>4
  <1>4. u0 * b * bA <= U
    <2>1. ((u0 * b + u1) * b + u2) * A + ur = u0 * b * (b * A) + (u1 * b * A + u2 * A + ur)
      BY <1>1
    <2>2. u1 * b * A + u2 * A + ur \in Nat /\ u0 * b * bA \in Nat
      BY <1>1
    <2> QED
      BY <1>1, <1>2, <2>1, <2>2
  <1>5. b * E <= (v1 + 1) * b * bA
    <2>1. b * E <= b * ((v1 + 1) * bA)
      <3>1. E \in Int /\ (v1 + 1) * bA \in Int
        BY <1>1
      <3>2. E * b <= ((v1 + 1) * bA) * b
        BY <1>1, <1>3, <3>1, Multiplied
      <3> QED
        BY <1>1, <3>1, <3>2
    <2> QED
      BY <1>1, <2>1
  <1>6. u0 * (b * bA) < (v1 + 1) * (b * bA)
    <2>1. u0 * b * bA = u0 * (b * bA) /\ (v1 + 1) * b * bA = (v1 + 1) * (b * bA)
      BY <1>1
    <2>2. u0 * (b * bA) \in Int /\ (v1 + 1) * (b * bA) \in Int /\ U \in Int /\ b * E \in Int
      BY <1>1
    <2> QED
      BY <1>1, <1>4, <1>5, <2>1, <2>2
  <1>7. u0 < v1 + 1
    BY <1>1, <1>6, Divided
  <1> QED
    BY <1>1, <1>7

\* The quotient of the leading digits is not too small.
LEMMA TrialLarge ==
  ASSUME NEW b, NEW A, NEW u0, NEW u1, NEW u2, NEW ur, NEW v1, NEW v2, NEW vr, NEW U, NEW E,
         Leading(b, A, u0, u1, u2, ur, v1, v2, vr, U, E), NEW q \in Nat,
         u0 * b + u1 < (q + 1) * v1
  PROVE  U < (q + 1) * E
  <1>1. /\ b \in Nat /\ A \in Nat /\ A > 0
        /\ u0 \in 0 .. b - 1 /\ u1 \in 0 .. b - 1 /\ u2 \in 0 .. b - 1 /\ ur \in 0 .. A - 1
        /\ v1 \in 1 .. b - 1 /\ v2 \in 0 .. b - 1 /\ vr \in 0 .. A - 1
        /\ U = ((u0 * b + u1) * b + u2) * A + ur
        /\ E = (v1 * b + v2) * A + vr
    BY Zenon DEF Leading
  <1>2. PICK bA \in Nat, nn \in Nat : bA = b * A /\ nn = u0 * b + u1
    BY <1>1
  <1>3. U < (nn + 1) * bA
    <2>1. (nn * b + u2) * A = nn * (b * A) + u2 * A
      BY <1>1
    <2>2. (u2 + 1) * A <= b * A /\ (u2 + 1) * A = u2 * A + A
      BY <1>1, Multiplied
    <2>3. (nn + 1) * bA = nn * bA + bA
      OBVIOUS
    <2>4. nn * bA \in Nat /\ u2 * A \in Nat
      BY <1>1
    <2> QED
      BY <1>1, <1>2, <2>1, <2>2, <2>3, <2>4
  <1>4. (nn + 1) * bA <= ((q + 1) * v1) * bA
    <2>1. nn + 1 <= (q + 1) * v1 /\ (q + 1) * v1 \in Int
      BY <1>1, <1>2
    <2> QED
      BY <2>1, Multiplied
  <1>5. (q + 1) * (v1 * bA) <= (q + 1) * E
    <2>1. v1 * bA <= E
      <3>1. (v1 * b + v2) * A + vr = v1 * (b * A) + (v2 * A + vr)
        BY <1>1
      <3>2. v2 * A + vr \in Nat /\ v1 * bA \in Nat
        BY <1>1
      <3> QED
        BY <1>1, <1>2, <3>1, <3>2
    <2>2. v1 * bA \in Int /\ E \in Int /\ q + 1 \in Nat
      BY <1>1
    <2>3. (v1 * bA) * (q + 1) <= E * (q + 1)
      BY <2>1, <2>2, Multiplied
    <2> QED
      BY <2>2, <2>3
  <1>6. ((q + 1) * v1) * bA = (q + 1) * (v1 * bA)
    BY <1>1
  <1>7. /\ (q + 1) * (v1 * bA) \in Int /\ (q + 1) * E \in Int /\ (nn + 1) * bA \in Int
        /\ U \in Int
    BY <1>1
  <1> QED
    BY <1>3, <1>4, <1>5, <1>6, <1>7

\* A trial quotient that fails the test with the second digit is too large.
LEMMA TrialTooLarge ==
  ASSUME NEW b, NEW A, NEW u0, NEW u1, NEW u2, NEW ur, NEW v1, NEW v2, NEW vr, NEW U, NEW E,
         Leading(b, A, u0, u1, u2, ur, v1, v2, vr, U, E), NEW q \in Nat, NEW r \in Nat,
         q * v1 + r = u0 * b + u1, v2 * q > r * b + u2
  PROVE  U < q * E /\ q > 0
  <1>1. /\ b \in Nat /\ A \in Nat /\ A > 0
        /\ u0 \in 0 .. b - 1 /\ u1 \in 0 .. b - 1 /\ u2 \in 0 .. b - 1 /\ ur \in 0 .. A - 1
        /\ v1 \in 1 .. b - 1 /\ v2 \in 0 .. b - 1 /\ vr \in 0 .. A - 1
        /\ U = ((u0 * b + u1) * b + u2) * A + ur
        /\ E = (v1 * b + v2) * A + vr
    BY Zenon DEF Leading
  <1>2. U < ((q * v1 + r) * b + u2 + 1) * A
    <2>1. PICK nn \in Nat : nn = q * v1 + r
      BY <1>1
    <2>2. U = (nn * b + u2) * A + ur
      BY <1>1, <2>1, Zenon
    <2>3. (nn * b + u2 + 1) * A = (nn * b + u2) * A + A /\ (nn * b + u2) * A \in Nat
      BY <1>1
    <2> QED
      BY <1>1, <2>1, <2>2, <2>3
  <1>3. (q * v1 + r) * b + u2 + 1 <= q * (v1 * b + v2)
    <2>1. (q * v1 + r) * b + u2 + 1 = q * v1 * b + (r * b + u2 + 1)
      BY <1>1
    <2>2. q * (v1 * b + v2) = q * v1 * b + v2 * q
      BY <1>1
    <2>3. q * v1 * b \in Int /\ r * b \in Int /\ v2 * q \in Int
      BY <1>1
    <2> QED
      BY <1>1, <2>1, <2>2, <2>3
  <1>4. ((q * v1 + r) * b + u2 + 1) * A <= (q * (v1 * b + v2)) * A
    <2>1. (q * v1 + r) * b + u2 + 1 \in Int /\ q * (v1 * b + v2) \in Int
      BY <1>1
    <2> QED
      BY <1>1, <1>3, <2>1, Multiplied
  <1>5. (q * (v1 * b + v2)) * A <= q * E
    <2>1. q * ((v1 * b + v2) * A + vr) = (q * (v1 * b + v2)) * A + q * vr
      BY <1>1
    <2>2. q * vr \in Nat /\ (q * (v1 * b + v2)) * A \in Int
      BY <1>1
    <2> QED
      BY <1>1, <2>1, <2>2
  <1>6. /\ (q * (v1 * b + v2)) * A \in Int /\ q * E \in Int /\ U \in Int
        /\ ((q * v1 + r) * b + u2 + 1) * A \in Int
    BY <1>1
  <1>7. q > 0
    BY <1>1
  <1> QED
    BY <1>2, <1>4, <1>5, <1>6, <1>7

\* One that passes it is at most one too large.
LEMMA TrialClose ==
  ASSUME NEW b, NEW A, NEW u0, NEW u1, NEW u2, NEW ur, NEW v1, NEW v2, NEW vr, NEW U, NEW E,
         Leading(b, A, u0, u1, u2, ur, v1, v2, vr, U, E), NEW q \in Nat, NEW r \in Nat,
         q < b, q * v1 + r = u0 * b + u1, v2 * q <= r * b + u2
  PROVE  (q - 1) * E <= U
  <1>1. /\ b \in Nat /\ A \in Nat /\ A > 0
        /\ u0 \in 0 .. b - 1 /\ u1 \in 0 .. b - 1 /\ u2 \in 0 .. b - 1 /\ ur \in 0 .. A - 1
        /\ v1 \in 1 .. b - 1 /\ v2 \in 0 .. b - 1 /\ vr \in 0 .. A - 1
        /\ U = ((u0 * b + u1) * b + u2) * A + ur
        /\ E = (v1 * b + v2) * A + vr
    BY Zenon DEF Leading
  <1>2. q * (v1 * b + v2) <= (u0 * b + u1) * b + u2
    <2>1. (q * v1 + r) * b + u2 = q * v1 * b + (r * b + u2)
      BY <1>1
    <2>2. q * (v1 * b + v2) = q * v1 * b + v2 * q
      BY <1>1
    <2>3. q * v1 * b \in Int /\ r * b \in Int /\ v2 * q \in Int
      BY <1>1
    <2>4. q * (v1 * b + v2) <= (q * v1 + r) * b + u2
      BY <1>1, <2>1, <2>2, <2>3
    <2> QED
      BY <2>4
  <1>3. (q * (v1 * b + v2)) * A <= U
    <2>1. q * (v1 * b + v2) \in Int /\ (u0 * b + u1) * b + u2 \in Int
      BY <1>1
    <2>2. (q * (v1 * b + v2)) * A <= ((u0 * b + u1) * b + u2) * A
      BY <1>1, <1>2, <2>1, Multiplied
    <2>3. (q * (v1 * b + v2)) * A \in Int /\ ((u0 * b + u1) * b + u2) * A \in Int
      BY <1>1
    <2> QED
      BY <1>1, <2>2, <2>3
  <1>4. q * vr <= E
    <2>1. vr * q <= A * q
      BY <1>1, Multiplied
    <2>2. q * A <= b * A
      BY <1>1, Multiplied
    <2>3. b * A <= v1 * (b * A)
      <3>1. PICK bA \in Nat : bA = b * A
        BY <1>1
      <3>2. 1 * bA <= v1 * bA
        BY <1>1, Multiplied
      <3> QED
        BY <3>1, <3>2
    <2>4. (v1 * b + v2) * A + vr = v1 * (b * A) + (v2 * A + vr)
      BY <1>1
    <2>5. /\ v2 * A + vr \in Nat /\ v1 * (b * A) \in Int /\ q * vr = vr * q
          /\ A * q = q * A /\ q * A \in Int /\ b * A \in Int /\ q * vr \in Int
      BY <1>1
    <2> QED
      BY <1>1, <2>1, <2>2, <2>3, <2>4, <2>5
  <1>5. (q - 1) * E = (q * (v1 * b + v2)) * A + q * vr - E
    <2>1. (q - 1) * ((v1 * b + v2) * A + vr)
            = (q * (v1 * b + v2)) * A + q * vr - ((v1 * b + v2) * A + vr)
      BY <1>1
    <2> QED
      BY <1>1, <2>1
  <1>6. (q * (v1 * b + v2)) * A \in Int /\ q * vr \in Int /\ E \in Int /\ U \in Int
    BY <1>1
  <1> QED
    BY <1>3, <1>4, <1>5, <1>6

-----------------------------------------------------------------------------
(***************************************************************************)
(* The divisor below the digits of the dividend from place p on.           *)
(***************************************************************************)
Placed(v, vo, p) ==
  /\ v \in DigitRows /\ vo \in 0 .. 2 /\ p \in 0 .. vo
  /\ \A k \in 0 .. vo : v[k] = 0
  /\ v[vo + 1] # 0

Window(u, p) == u \in DigitRows /\ \A k \in 0 .. p - 1 : u[k] = 0

\* What the divisor's digits behind the i-th are worth at place p.
PartOf(v, vo, p, i) == Weight(vo - p) * Rest(v, vo + i)

LEMMA PartIs ==
  ASSUME NEW v, NEW vo, NEW p, Placed(v, vo, p)
  PROVE  /\ PartOf(v, vo, p, 4 - vo) = 0
         /\ \A i \in 0 .. 4 - vo : /\ PartOf(v, vo, p, i) \in Nat
                                   /\ PartOf(v, vo, p, i) < Weight(4 - (p + i))
         /\ \A i \in 1 .. 4 - vo :
              PartOf(v, vo, p, i - 1) = v[vo + i] * Weight(4 - (p + i)) + PartOf(v, vo, p, i)
         /\ PartOf(v, vo, p, 0) = Weight(vo - p) * Value(v)
  <1>0. /\ v \in DigitRows /\ vo \in 0 .. 2 /\ p \in 0 .. vo /\ v \in [0 .. 4 -> Int]
        /\ \A k \in 0 .. vo : v[k] = 0
    BY BIs DEF Placed, DigitRows
  <1>1. PICK S \in Nat : S = Weight(vo - p) /\ S > 0
    BY <1>0, WeightPositive
  <1>2. ASSUME NEW i \in 0 .. 4 - vo
        PROVE  /\ Weight(4 - (p + i)) = S * Weight(4 - (vo + i))
               /\ vo + i \in 0 .. 4 /\ 4 - (vo + i) \in 0 .. 4
    <2>1. /\ vo - p \in 0 .. 4 /\ 4 - (vo + i) \in 0 .. 4 /\ vo + i \in 0 .. 4
          /\ (vo - p) + (4 - (vo + i)) = 4 - (p + i)
          /\ (vo - p) + (4 - (vo + i)) <= 4
      BY <1>0
    <2> QED
      BY <1>1, <2>1, WeightProduct, Zenon
  <1>3. PartOf(v, vo, p, 4 - vo) = 0
    <2>1. Rest(v, vo + (4 - vo)) = 0
      <3>1. vo + (4 - vo) = 4
        BY <1>0
      <3> QED
        BY <1>0, <3>1, RestIs
    <2>2. S * 0 = 0
      OBVIOUS
    <2> QED
      BY <1>1, <2>1, <2>2 DEF PartOf
  <1>4. ASSUME NEW i \in 0 .. 4 - vo
        PROVE  PartOf(v, vo, p, i) \in Nat /\ PartOf(v, vo, p, i) < Weight(4 - (p + i))
    <2>1. PICK r \in Nat, w \in Nat : r = Rest(v, vo + i) /\ w = Weight(4 - (vo + i)) /\ r < w
      <3>1. /\ Rest(v, vo + i) \in Nat /\ Rest(v, vo + i) < Weight(4 - (vo + i))
            /\ Weight(4 - (vo + i)) \in Nat
        BY <1>0, <1>2, RestBound, WeightPositive, Zenon
      <3> QED
        BY <3>1, Zenon
    <2>2. S * r \in Nat /\ S * r < S * w
      BY <1>1, <2>1
    <2> QED
      BY <1>1, <1>2, <2>1, <2>2, Zenon DEF PartOf
  <1>5. ASSUME NEW i \in 1 .. 4 - vo
        PROVE  PartOf(v, vo, p, i - 1) = v[vo + i] * Weight(4 - (p + i)) + PartOf(v, vo, p, i)
    <2>0. i \in 0 .. 4 - vo /\ vo + (i - 1) = (vo + i) - 1
      BY <1>0
    <2>1. PICK r \in Int, w \in Nat, x \in Int :
            r = Rest(v, vo + i) /\ w = Weight(4 - (vo + i)) /\ x = v[vo + i]
      <3>1. /\ Rest(v, vo + i) \in Int /\ Weight(4 - (vo + i)) \in Nat
            /\ v[vo + i] \in Int
        BY <1>0, <1>2, <2>0, RestIs, WeightPositive, Zenon
      <3> QED
        BY <3>1, Zenon
    <2>2. Rest(v, vo + (i - 1)) = x * w + r
      <3>1. Rest(v, (vo + i) - 1) = v[vo + i] * Weight(4 - (vo + i)) + Rest(v, vo + i)
        BY <1>0, <1>2, <2>0, RestIs, Zenon
      <3> QED
        BY <2>0, <2>1, <3>1, Zenon
    <2>3. S * (x * w + r) = x * (S * w) + S * r
      OBVIOUS
    <2>4. Weight(4 - (p + i)) = S * w
      BY <1>2, <2>0, <2>1, Zenon
    <2> QED
      BY <1>1, <2>1, <2>2, <2>3, <2>4, Zenon DEF PartOf
  <1>6. PartOf(v, vo, p, 0) = Weight(vo - p) * Value(v)
    <2>1. Value(v) = Rest(v, vo)
      BY <1>0, ZerosLead
    <2>2. vo + 0 = vo
      BY <1>0
    <2> QED
      BY <2>1, <2>2, Zenon DEF PartOf
  <1> QED
    BY <1>3, <1>4, <1>5, <1>6

LEMMA WindowIs ==
  ASSUME NEW u, NEW p \in 0 .. 2, Window(u, p)
  PROVE  /\ Value(u) = Rest(u, p - 1) /\ Value(u) \in Nat
         /\ Value(u) < B * Weight(4 - p)
  <1>0. u \in DigitRows /\ u \in [0 .. 4 -> Int]
    BY BIs DEF Window, DigitRows
  <1>1. Value(u) = Rest(u, p - 1)
    <2>1. CASE p = 0
      BY <1>0, <2>1, RestIs
    <2>2. CASE p # 0
      <3>1. p - 1 \in 0 .. 4 /\ \A k \in 0 .. p - 1 : u[k] = 0
        BY <2>2 DEF Window
      <3> QED
        BY <1>0, <3>1, ZerosLead
    <2> QED
      BY <2>1, <2>2
  <1>2. PICK b \in Nat, w \in Nat, r \in Nat : b = B /\ w = Weight(4 - p) /\ r = Rest(u, p) /\ r < w
    <2>1. p \in 0 .. 4 /\ 4 - p \in 0 .. 4
      OBVIOUS
    <2> QED
      BY <1>0, <2>1, RestBound, WeightPositive, BIs
  <1>3. PICK x \in 0 .. b - 1 : x = u[p]
    BY <1>0, <1>2 DEF DigitRows
  <1>4. x * w + r < b * w
    BY <1>2, OneDigitMore
  <1>5. Rest(u, p - 1) = x * w + r
    <2>1. p \in 0 .. 4
      OBVIOUS
    <2> QED
      BY <1>0, <1>2, <1>3, <2>1, RestIs, Zenon
  <1> QED
    BY <1>0, <1>1, <1>2, <1>4, <1>5, RestBound

\* The two in terms of their leading digits.
LEMMA LeadingIs ==
  ASSUME NEW u, NEW v, NEW vo, NEW p, Placed(v, vo, p), Window(u, p), NEW U, U = Value(u),
         NEW E, E = PartOf(v, vo, p, 0), U < B * E
  PROVE  Leading(B, Weight(4 - (p + 2)), u[p], u[p + 1], u[p + 2], Rest(u, p + 2),
                 v[vo + 1], v[vo + 2], PartOf(v, vo, p, 2), U, E)
  <1>0. /\ v \in DigitRows /\ vo \in 0 .. 2 /\ p \in 0 .. vo /\ v[vo + 1] # 0
        /\ u \in DigitRows /\ u \in [0 .. 4 -> Int] /\ p \in 0 .. 2
    BY BIs DEF Placed, Window, DigitRows
  <1>1. PICK b \in Nat, A \in Nat : b = B /\ A = Weight(4 - (p + 2)) /\ A > 0
    BY <1>0, BIs, WeightPositive
  <1>2. Weight(4 - (p + 1)) = b * A /\ Weight(4 - p) = b * (b * A)
    <2>1. /\ 4 - (p + 2) \in 0 .. 3 /\ 4 - (p + 1) \in 0 .. 3
          /\ 4 - (p + 1) = (4 - (p + 2)) + 1 /\ 4 - p = (4 - (p + 1)) + 1
      BY <1>0
    <2> QED
      BY <1>1, <2>1, WeightStep, Zenon
  <1>3. /\ u[p] \in 0 .. b - 1 /\ u[p + 1] \in 0 .. b - 1 /\ u[p + 2] \in 0 .. b - 1
        /\ v[vo + 1] \in 1 .. b - 1 /\ v[vo + 2] \in 0 .. b - 1
    BY <1>0, <1>1 DEF DigitRows
  <1>4. PICK u0 \in Nat, u1 \in Nat, u2 \in Nat, v1 \in Nat, v2 \in Nat :
          u0 = u[p] /\ u1 = u[p + 1] /\ u2 = u[p + 2] /\ v1 = v[vo + 1] /\ v2 = v[vo + 2]
    BY <1>3
  <1>5. PICK ur \in Nat : ur = Rest(u, p + 2) /\ ur < A
    <2>1. p + 2 \in 0 .. 4
      BY <1>0
    <2> QED
      BY <1>0, <1>1, <2>1, RestBound
  <1>6. U = ((u0 * b + u1) * b + u2) * A + ur
    <2>0. p \in 0 .. 4 /\ p + 1 \in 0 .. 4 /\ p + 2 \in 0 .. 4
      BY <1>0
    <2>2. Rest(u, p + 1) = u2 * A + ur
      <3>1. PICK k \in 0 .. 4 : k = p + 2 /\ k - 1 = p + 1
        BY <1>0
      <3>2. Rest(u, k - 1) = u[k] * Weight(4 - k) + Rest(u, k)
        BY <1>0, RestStep, Zenon
      <3> QED
        BY <1>1, <1>4, <1>5, <3>1, <3>2, Zenon
    <2>3. Rest(u, p) = u1 * (b * A) + (u2 * A + ur)
      <3>1. PICK k \in 0 .. 4 : k = p + 1 /\ k - 1 = p
        BY <1>0
      <3>2. Rest(u, k - 1) = u[k] * Weight(4 - k) + Rest(u, k)
        BY <1>0, RestStep, Zenon
      <3> QED
        BY <1>2, <1>4, <2>2, <3>1, <3>2, Zenon
    <2>4. Rest(u, p - 1) = u0 * (b * (b * A)) + (u1 * (b * A) + (u2 * A + ur))
      BY <1>0, <1>2, <1>4, <2>0, <2>3, RestIs, Zenon
    <2>5. U = Rest(u, p - 1)
      BY <1>0, WindowIs
    <2>6. u0 * (b * (b * A)) + (u1 * (b * A) + (u2 * A + ur))
            = ((u0 * b + u1) * b + u2) * A + ur
      OBVIOUS
    <2> QED
      BY <2>4, <2>5, <2>6, Zenon
  <1>7. PICK vr \in Nat : vr = PartOf(v, vo, p, 2) /\ vr < A
    <2>1. 2 \in 0 .. 4 - vo
      BY <1>0
    <2> QED
      BY <1>1, <2>1, PartIs
  <1>8. E = (v1 * b + v2) * A + vr
    <2>0. 1 \in 1 .. 4 - vo /\ 2 \in 1 .. 4 - vo
      BY <1>0
    <2>1. 1 - 1 = 0 /\ 2 - 1 = 1
      OBVIOUS
    <2>2. PartOf(v, vo, p, 1) = v2 * A + vr
      <3>1. PartOf(v, vo, p, 2 - 1) = v[vo + 2] * Weight(4 - (p + 2)) + PartOf(v, vo, p, 2)
        BY <2>0, PartIs, Zenon
      <3> QED
        BY <1>1, <1>4, <1>7, <2>1, <3>1, Zenon
    <2>3. E = v1 * (b * A) + (v2 * A + vr)
      <3>1. PartOf(v, vo, p, 1 - 1) = v[vo + 1] * Weight(4 - (p + 1)) + PartOf(v, vo, p, 1)
        BY <2>0, PartIs, Zenon
      <3> QED
        BY <1>2, <1>4, <2>1, <2>2, <3>1, Zenon
    <2>4. v1 * (b * A) + (v2 * A + vr) = (v1 * b + v2) * A + vr
      OBVIOUS
    <2> QED
      BY <2>3, <2>4, Zenon
  <1>9. U \in Nat /\ E \in Nat
    <2>1. 0 \in 0 .. 4 - vo
      BY <1>0
    <2> QED
      BY <1>0, <2>1, PartIs, WindowIs
  <1>10. ur \in 0 .. A - 1 /\ vr \in 0 .. A - 1
    BY <1>5, <1>7
  <1>11. Leading(b, A, u0, u1, u2, ur, v1, v2, vr, U, E)
    <2>1. U < b * E
      BY <1>1, Zenon
    <2> QED
      BY <1>1, <1>3, <1>4, <1>6, <1>8, <1>9, <1>10, <2>1, Zenon DEF Leading
  <1> QED
    BY <1>1, <1>4, <1>5, <1>7, <1>11, Zenon

-----------------------------------------------------------------------------
(***************************************************************************)
(* D4 and D6.                                                              *)
(***************************************************************************)
\* The low half of a wrapped difference and the borrow make up the difference.
LEMMA BorrowIs ==
  ASSUME NEW b \in Nat, b > 1, NEW x \in Int, b - b * b <= x, x < b,
         NEW s, s = x % (b * b)
  PROVE  /\ s % b \in 0 .. b - 1 /\ (b - (s \div b)) % b \in 0 .. b - 1
         /\ (s % b) - ((b - (s \div b)) % b) * b = x
         /\ (s \div b # 0) <=> (x < 0)
  <1>0. PICK c \in Nat : c = b * b /\ c > 0 /\ b <= c
    OBVIOUS
  <1>1. CASE x >= 0
    <2>1. s = x
      BY <1>0, <1>1
    <2>2. x = 0 * b + x /\ x \in Nat
      BY <1>1
    <2>3. s \div b = 0 /\ s % b = x
      BY <2>1, <2>2, QuotientIs
    <2>4. b - 0 = 1 * b + 0 /\ b - 0 \in Nat
      OBVIOUS
    <2>5. (b - 0) % b = 0
      BY <2>4, QuotientIs
    <2>6. x - 0 * b = x /\ x \in 0 .. b - 1 /\ 0 \in 0 .. b - 1 /\ ~(x < 0)
      BY <1>1
    <2>7. (b - (s \div b)) % b = 0
      BY <2>3, <2>5, Zenon
    <2> QED
      BY <2>3, <2>6, <2>7, Zenon
  <1>2. CASE x < 0
    <2>1. s = x + c /\ s \in Nat /\ s < c /\ b <= s
      <3>1. x + c \in Nat /\ x + c < c /\ b <= x + c
        BY <1>0, <1>2
      <3>2. x % c = x + c
        BY <1>0, <1>2, <3>1
      <3> QED
        BY <1>0, <3>1, <3>2
    <2>2. PICK H \in 0 .. b - 1, L \in 0 .. b - 1 : H = s \div b /\ L = s % b /\ s = H * b + L
      BY <1>0, <2>1, SplitAt
    <2>3. H # 0
      <3>1. SUFFICES ASSUME H = 0 PROVE FALSE
        OBVIOUS
      <3>2. 0 * b + L = L
        OBVIOUS
      <3> QED
        BY <2>1, <2>2, <3>1, <3>2
    <2>4. (b - H) % b = b - H
      <3>1. b - H \in Nat /\ b - H < b /\ b - H = 0 * b + (b - H)
        BY <2>3
      <3> QED
        BY <3>1, QuotientIs
    <2>5. L - (b - H) * b = x
      <3>1. L - (b - H) * b = (H * b + L) - b * b
        OBVIOUS
      <3> QED
        BY <1>0, <2>1, <2>2, <3>1
    <2> QED
      BY <1>2, <2>2, <2>3, <2>4, <2>5
  <1> QED
    BY <1>1, <1>2

\* The difference that a round of D4 forms is in the range.
LEMMA DifferenceFits ==
  ASSUME NEW b \in Nat, b > 1, NEW u \in 0 .. b - 1, NEW v \in 0 .. b - 1,
         NEW q \in 0 .. b - 1, NEW t \in 0 .. b - 1
  PROVE  u - v * q - t \in Int /\ b - b * b <= u - v * q - t /\ u - v * q - t < b
  <1>1. v * q <= (b - 1) * (b - 1)
    <2>1. v * q <= (b - 1) * q
      BY Multiplied
    <2>2. q * (b - 1) <= (b - 1) * (b - 1)
      BY Multiplied
    <2> QED
      BY <2>1, <2>2
  <1>2. (b - 1) * (b - 1) + (b - 1) = b * b - b
    OBVIOUS
  <1>3. v * q \in Nat /\ (b - 1) * (b - 1) \in Int /\ b * b \in Int
    OBVIOUS
  <1> QED
    BY <1>1, <1>2, <1>3

\* After the rounds of D4 for the digits behind the i-th.
Subtracting(u, v, vo, p, i, q, t, U) ==
  Value(u) - t * Weight(4 - (p + i)) = U - q * PartOf(v, vo, p, i)

\* A round changes one digit of the window.
Replaced(u, w, p, k, l) ==
  Window(w, p) /\ Value(w) = Value(u) + (l - u[k]) * Weight(4 - k)

LEMMA DigitReplaced ==
  ASSUME NEW u, NEW p \in 0 .. 2, Window(u, p), NEW k \in p .. 4, NEW l \in 0 .. B - 1,
         NEW w, w = [u EXCEPT ![k] = l]
  PROVE  Replaced(u, w, p, k, l)
  <1>0. u \in DigitRows /\ u \in [0 .. 4 -> Int] /\ k \in 0 .. 4 /\ l \in Int
    BY BIs DEF Window, DigitRows
  <1>1. Window(w, p)
    BY <1>0 DEF Window, DigitRows
  <1>2. Value(w) = Value(u) + (l - u[k]) * Weight(4 - k)
    BY <1>0, DigitSet, Zenon
  <1> QED
    BY <1>1, <1>2 DEF Replaced

LEMMA SubtractRound ==
  ASSUME NEW u, NEW v, NEW vo, NEW p, Placed(v, vo, p), Window(u, p),
         NEW i \in 1 .. 4 - vo, NEW q \in 0 .. B - 1, NEW t \in 0 .. B - 1, NEW U \in Int,
         Subtracting(u, v, vo, p, i, q, t, U),
         NEW s, s = UInt(u[p + i] - v[vo + i] * q - t),
         NEW w, w = [u EXCEPT ![p + i] = LHALF(s)]
  PROVE  /\ Window(w, p) /\ (B - HHALF(s)) % B \in 0 .. B - 1
         /\ Subtracting(w, v, vo, p, i - 1, q, (B - HHALF(s)) % B, U)
  <1>0. /\ v \in DigitRows /\ vo \in 0 .. 2 /\ p \in 0 .. vo /\ p \in 0 .. 2
        /\ u \in DigitRows /\ i \in 0 .. 4 - p
        /\ i \in 0 .. 4 - vo /\ p + i \in 0 .. 4 /\ vo + i \in 0 .. 4
    BY DEF Placed, Window
  <1>1. PICK b \in Nat : b = B /\ b > 1
    BY BIs
  <1>2. PICK ui \in 0 .. b - 1, vi0 \in 0 .. b - 1 : ui = u[p + i] /\ vi0 = v[vo + i]
    BY <1>0, <1>1 DEF DigitRows
  <1>3. PICK x \in Int : x = ui - vi0 * q - t /\ b - b * b <= x /\ x < b
    <2>1. q \in 0 .. b - 1 /\ t \in 0 .. b - 1
      BY <1>1
    <2> QED
      BY <1>1, <2>1, DifferenceFits
  <1>4. s = x % (b * b)
    BY <1>1, <1>2, <1>3, Zenon DEF UInt
  <1>5. PICK l, t1 : l = s % b /\ t1 = (b - (s \div b)) % b
    OBVIOUS
  <1>6. l \in 0 .. b - 1 /\ t1 \in 0 .. b - 1 /\ l - t1 * b = x
    BY <1>1, <1>3, <1>4, <1>5, BorrowIs
  <1>7. LHALF(s) = l /\ (B - HHALF(s)) % B = t1
    BY <1>1, <1>5, Zenon DEF LHALF, HHALF
  <1>8. PICK W \in Nat : W = Weight(4 - (p + i)) /\ Weight(4 - (p + (i - 1))) = b * W
    <2>1. 4 - (p + i) \in 0 .. 3 /\ 4 - (p + (i - 1)) = 4 - (p + i) + 1 /\ 4 - (p + i) \in 0 .. 4
      BY <1>0
    <2>2. Weight(4 - (p + i)) \in Nat /\ Weight(4 - (p + (i - 1))) = B * Weight(4 - (p + i))
      BY <2>1, WeightPositive, WeightStep, Zenon
    <2> QED
      BY <1>1, <2>2
  <1>9. Window(w, p) /\ Value(w) = Value(u) + (l - ui) * W
    <2>1. l \in 0 .. B - 1 /\ w = [u EXCEPT ![p + i] = l]
      BY <1>1, <1>6, <1>7
    <2>2. PICK k \in p .. 4 : k = p + i
      BY <1>0
    <2>3. w = [u EXCEPT ![k] = l]
      BY <2>1, <2>2
    <2>4. Replaced(u, w, p, k, l)
      BY <1>0, <2>1, <2>3, DigitReplaced
    <2> QED
      BY <1>2, <1>8, <2>2, <2>4, Zenon DEF Replaced
  <1>10. PICK R \in Nat, R1 \in Nat :
           R = PartOf(v, vo, p, i) /\ R1 = PartOf(v, vo, p, i - 1) /\ R1 = vi0 * W + R
    <2>1. i - 1 \in 0 .. 4 - vo
      BY <1>0
    <2>2. PartOf(v, vo, p, i) \in Nat /\ PartOf(v, vo, p, i - 1) \in Nat
      BY <1>0, <2>1, PartIs, Zenon
    <2>3. PartOf(v, vo, p, i - 1) = vi0 * W + PartOf(v, vo, p, i)
      BY <1>2, <1>8, PartIs, Zenon
    <2> QED
      BY <2>2, <2>3, Zenon
  <1>11. PICK y \in Nat, z \in Int : y = Value(u) /\ z = Value(w)
    <2>1. w \in DigitRows
      BY <1>9 DEF Window
    <2> QED
      BY <1>0, <2>1, RestBound
  <1>12. y - t * W = U - q * R
    BY <1>8, <1>10, <1>11, Zenon DEF Subtracting
  <1>13. z = y + (l - ui) * W
    BY <1>9, <1>11, Zenon
  <1>14. z - t1 * (b * W) = U - q * R1
    <2>0. q \in Int /\ t \in Int /\ l \in Int /\ t1 \in Int
      BY <1>1, <1>6
    <2>1. z - t1 * (b * W) = y + ((l - t1 * b) - ui) * W
      BY <1>13, <2>0
    <2>2. ((ui - vi0 * q - t) - ui) * W = 0 - q * (vi0 * W) - t * W
      BY <2>0
    <2>3. q * (vi0 * W + R) = q * (vi0 * W) + q * R
      BY <2>0
    <2>4. (l - t1 * b) - ui = (ui - vi0 * q - t) - ui
      BY <1>3, <1>6
    <2>5. z - t1 * (b * W) = y + (0 - q * (vi0 * W) - t * W)
      BY <2>1, <2>2, <2>4, Zenon
    <2>6. q * R1 = q * (vi0 * W) + q * R
      BY <1>10, <2>3, Zenon
    <2>7. q * (vi0 * W) \in Int /\ q * R \in Int /\ t * W \in Int
      BY <2>0
    <2> QED
      BY <1>12, <2>5, <2>6, <2>7
  <1>15. Subtracting(w, v, vo, p, i - 1, q, t1, U)
    BY <1>8, <1>10, <1>11, <1>14, Zenon DEF Subtracting
  <1> QED
    BY <1>1, <1>6, <1>7, <1>9, <1>15, Zenon

\* The last round of D4, on the digit that the divisor has none for.
Subtracted(w, v, vo, p, q, h, U) ==
  /\ Window(w, p)
  /\ h = 0 => Value(w) = U - q * PartOf(v, vo, p, 0)
  /\ h # 0 => /\ Value(w) = U - q * PartOf(v, vo, p, 0) + B * Weight(4 - p)
              /\ U < q * PartOf(v, vo, p, 0)

LEMMA SubtractLast ==
  ASSUME NEW u, NEW v, NEW vo, NEW p, Placed(v, vo, p), Window(u, p),
         NEW q \in 0 .. B - 1, NEW t \in 0 .. B - 1, NEW U \in Int,
         Subtracting(u, v, vo, p, 0, q, t, U),
         NEW s, s = UInt(u[p] - 0 - t),
         NEW w, w = [u EXCEPT ![p] = LHALF(s)]
  PROVE  Subtracted(w, v, vo, p, q, HHALF(s), U)
  <1>0. /\ vo \in 0 .. 2 /\ p \in 0 .. vo /\ p \in 0 .. 2 /\ u \in DigitRows /\ p \in 0 .. 4
        /\ 0 \in 0 .. 4 - vo
    BY DEF Placed, Window
  <1>1. PICK b \in Nat : b = B /\ b > 1
    BY BIs
  <1>2. PICK ui \in 0 .. b - 1 : ui = u[p]
    BY <1>0, <1>1 DEF DigitRows
  <1>3. PICK x \in Int : x = ui - 0 - t /\ b - b * b <= x /\ x < b /\ 0 - b < x
    <2>1. q \in 0 .. b - 1 /\ t \in 0 .. b - 1 /\ 0 \in 0 .. b - 1
      BY <1>1
    <2>2. /\ ui - 0 * q - t \in Int /\ b - b * b <= ui - 0 * q - t
          /\ ui - 0 * q - t < b
      BY <1>1, <2>1, DifferenceFits
    <2>3. 0 * q = 0
      BY <2>1
    <2>4. ui - 0 * q - t = ui - 0 - t
      BY <2>3, Zenon
    <2>5. ui - 0 - t \in Int /\ b - b * b <= ui - 0 - t /\ ui - 0 - t < b
      BY <2>2, <2>4, Zenon
    <2>6. 0 - b < ui - 0 - t
      BY <2>1
    <2> QED
      BY <2>5, <2>6
  <1>4. s = x % (b * b)
    BY <1>1, <1>2, <1>3, Zenon DEF UInt
  <1>5. PICK l, t1, h : l = s % b /\ t1 = (b - (s \div b)) % b /\ h = s \div b
    OBVIOUS
  <1>6. l \in 0 .. b - 1 /\ t1 \in 0 .. b - 1 /\ l - t1 * b = x /\ ((h # 0) <=> (x < 0))
    <2>1. /\ s % b \in 0 .. b - 1 /\ (b - (s \div b)) % b \in 0 .. b - 1
          /\ (s % b) - ((b - (s \div b)) % b) * b = x
          /\ (s \div b # 0) <=> (x < 0)
      <3>1. b - b * b <= x /\ x < b /\ b > 1
        BY <1>1, <1>3
      <3> QED
        BY <1>4, <3>1, BorrowIs, Zenon
    <2> QED
      BY <1>5, <2>1, Zenon
  <1>7. LHALF(s) = l /\ HHALF(s) = h
    BY <1>1, <1>5, Zenon DEF LHALF, HHALF
  <1>8. (h = 0 => t1 = 0) /\ (h # 0 => t1 = 1)
    <2>1. t1 \in Nat /\ t1 * b = l - x /\ l \in Int
      BY <1>6
    <2>2. t1 = 0 \/ t1 = 1
      <3>1. SUFFICES ASSUME 2 <= t1 PROVE FALSE
        BY <2>1
      <3>2. 2 * b <= t1 * b
        BY <2>1, <3>1, Multiplied
      <3> QED
        BY <1>3, <1>6, <2>1, <3>2
    <2>3. CASE t1 = 0
      <3>1. 0 * b = 0
        OBVIOUS
      <3>2. ~(x < 0)
        BY <1>6, <2>1, <2>3, <3>1
      <3> QED
        BY <1>6, <2>3, <3>2
    <2>4. CASE t1 = 1
      <3>1. 1 * b = b
        OBVIOUS
      <3>2. x < 0
        BY <1>6, <2>1, <2>4, <3>1
      <3> QED
        BY <1>6, <2>4, <3>2
    <2> QED
      BY <2>2, <2>3, <2>4
  <1>9. PICK W \in Nat : W = Weight(4 - p) /\ W = Weight(4 - (p + 0))
    <2>1. 4 - p \in 0 .. 4 /\ p + 0 = p
      BY <1>0
    <2> QED
      BY <2>1, WeightPositive
  <1>10. Replaced(u, w, p, p, l)
    <2>1. l \in 0 .. B - 1
      BY <1>1, <1>6, Zenon
    <2>2. w = [u EXCEPT ![p] = l]
      BY <1>7, Zenon
    <2>3. p \in p .. 4
      BY <1>0
    <2> QED
      BY <1>0, <2>1, <2>2, <2>3, DigitReplaced
  <1>11. PICK e \in Nat : e = PartOf(v, vo, p, 0)
    BY <1>0, PartIs
  <1>12. PICK y \in Nat, z \in Nat : y = Value(u) /\ z = Value(w) /\ z < b * W
    <2>1. Window(w, p)
      BY <1>10 DEF Replaced
    <2> QED
      BY <1>0, <1>1, <1>9, <2>1, WindowIs
  <1>13. y - t * W = U - q * e
    BY <1>9, <1>11, <1>12, Zenon DEF Subtracting
  <1>14. z = y + (l - ui) * W
    BY <1>2, <1>9, <1>10, <1>12, Zenon DEF Replaced
  <1>15. z - t1 * (b * W) = U - q * e
    <2>0. q \in Int /\ t \in Int /\ l \in Int /\ t1 \in Int
      BY <1>1, <1>6
    <2>1. z - t1 * (b * W) = y + ((l - t1 * b) - ui) * W
      BY <1>14, <2>0
    <2>2. (l - t1 * b) - ui = 0 - t
      BY <1>3, <1>6, <2>0
    <2>3. (0 - t) * W = 0 - t * W /\ t * W \in Int /\ q * e \in Int
      BY <2>0
    <2>4. z - t1 * (b * W) = y + (0 - t * W)
      BY <2>1, <2>2, <2>3, Zenon
    <2> QED
      BY <1>13, <2>3, <2>4
  <1>16. PICK bW \in Nat, qe \in Int : bW = b * W /\ qe = q * e
    <2>1. q \in Int
      BY <1>1
    <2> QED
      BY <2>1
  <1>17. z - t1 * bW = U - qe /\ z < bW
    BY <1>12, <1>15, <1>16, Zenon
  <1>18. h = 0 => z = U - qe
    BY <1>8, <1>17
  <1>19. h # 0 => z = U - qe + bW /\ U < qe
    BY <1>8, <1>17
  <1>20. Window(w, p)
    BY <1>10 DEF Replaced
  <1> QED
    BY <1>1, <1>7, <1>9, <1>11, <1>12, <1>16, <1>18, <1>19, <1>20, Zenon DEF Subtracted

\* After the rounds of D6 for the digits behind the i-th; Y was there before them.
Adding(u, v, vo, p, i, t, Y) ==
  Value(u) + t * Weight(4 - (p + i)) = Y + PartOf(v, vo, p, i)

\* A sum of two digits and a carry.
SumOf(b, x, y, t, s) ==
  s % b \in 0 .. b - 1 /\ s \div b \in 0 .. 1 /\ t + x + y = (s \div b) * b + (s % b)

LEMMA CarryIs ==
  ASSUME NEW b \in Nat, b > 1, NEW x \in 0 .. b - 1, NEW y \in 0 .. b - 1, NEW t \in 0 .. 1,
         NEW s, s = t + x + y
  PROVE  SumOf(b, x, y, t, s)
  <1>1. s \in Nat /\ s < 2 * b
    OBVIOUS
  <1>2. CASE s < b
    <2>1. s = 0 * b + s
      BY <1>1
    <2>2. s \div b = 0 /\ s % b = s
      BY <1>1, <1>2, <2>1, QuotientIs
    <2> QED
      BY <1>1, <1>2, <2>2 DEF SumOf
  <1>3. CASE s >= b
    <2>1. s - b \in Nat /\ s - b < b /\ s = 1 * b + (s - b)
      BY <1>1, <1>3
    <2>2. s \div b = 1 /\ s % b = s - b
      BY <1>1, <2>1, QuotientIs
    <2> QED
      BY <1>1, <2>1, <2>2 DEF SumOf
  <1> QED
    BY <1>1, <1>2, <1>3

LEMMA AddRound ==
  ASSUME NEW u, NEW v, NEW vo, NEW p, Placed(v, vo, p), Window(u, p),
         NEW i \in 1 .. 4 - vo, NEW t \in 0 .. 1, NEW Y \in Int,
         Adding(u, v, vo, p, i, t, Y),
         NEW s, s = t + u[p + i] + v[vo + i],
         NEW w, w = [u EXCEPT ![p + i] = LHALF(s)]
  PROVE  /\ Window(w, p) /\ HHALF(s) \in 0 .. 1
         /\ Adding(w, v, vo, p, i - 1, HHALF(s), Y)
  <1>0. /\ v \in DigitRows /\ vo \in 0 .. 2 /\ p \in 0 .. vo /\ p \in 0 .. 2
        /\ u \in DigitRows /\ i \in 0 .. 4 - p
        /\ i \in 0 .. 4 - vo /\ p + i \in 0 .. 4 /\ vo + i \in 0 .. 4
    BY DEF Placed, Window
  <1>1. PICK b \in Nat : b = B /\ b > 1
    BY BIs
  <1>2. PICK ui \in 0 .. b - 1, vi0 \in 0 .. b - 1 : ui = u[p + i] /\ vi0 = v[vo + i]
    BY <1>0, <1>1 DEF DigitRows
  <1>4. s = t + ui + vi0
    BY <1>2, Zenon
  <1>5. PICK l, t1 : l = s % b /\ t1 = s \div b
    OBVIOUS
  <1>6. l \in 0 .. b - 1 /\ t1 \in 0 .. 1 /\ t + ui + vi0 = t1 * b + l
    <2>1. s % b \in 0 .. b - 1 /\ s \div b \in 0 .. 1 /\ t + ui + vi0 = (s \div b) * b + (s % b)
      <3>1. b > 1
        BY <1>1
      <3>2. SumOf(b, ui, vi0, t, s)
        BY <1>4, <3>1, CarryIs, Zenon
      <3> QED
        BY <3>2, Zenon DEF SumOf
    <2> QED
      BY <1>5, <2>1, Zenon
  <1>7. LHALF(s) = l /\ HHALF(s) = t1
    BY <1>1, <1>5, Zenon DEF LHALF, HHALF
  <1>8. PICK W \in Nat : W = Weight(4 - (p + i)) /\ Weight(4 - (p + (i - 1))) = b * W
    <2>1. 4 - (p + i) \in 0 .. 3 /\ 4 - (p + (i - 1)) = 4 - (p + i) + 1 /\ 4 - (p + i) \in 0 .. 4
      BY <1>0
    <2>2. Weight(4 - (p + i)) \in Nat /\ Weight(4 - (p + (i - 1))) = B * Weight(4 - (p + i))
      BY <2>1, WeightPositive, WeightStep, Zenon
    <2> QED
      BY <1>1, <2>2
  <1>9. Window(w, p) /\ Value(w) = Value(u) + (l - ui) * W
    <2>1. l \in 0 .. B - 1
      BY <1>1, <1>6, Zenon
    <2>2. PICK k \in p .. 4 : k = p + i
      BY <1>0
    <2>3. w = [u EXCEPT ![k] = l]
      BY <1>7, <2>2, Zenon
    <2>4. Replaced(u, w, p, k, l)
      BY <1>0, <2>1, <2>3, DigitReplaced
    <2> QED
      BY <1>2, <1>8, <2>2, <2>4, Zenon DEF Replaced
  <1>10. PICK R \in Nat, R1 \in Nat :
           R = PartOf(v, vo, p, i) /\ R1 = PartOf(v, vo, p, i - 1) /\ R1 = vi0 * W + R
    <2>1. i - 1 \in 0 .. 4 - vo
      BY <1>0
    <2>2. PartOf(v, vo, p, i) \in Nat /\ PartOf(v, vo, p, i - 1) \in Nat
      BY <1>0, <2>1, PartIs, Zenon
    <2>3. PartOf(v, vo, p, i - 1) = vi0 * W + PartOf(v, vo, p, i)
      BY <1>2, <1>8, PartIs, Zenon
    <2> QED
      BY <2>2, <2>3, Zenon
  <1>11. PICK y \in Nat, z \in Int : y = Value(u) /\ z = Value(w)
    <2>1. w \in DigitRows
      BY <1>9 DEF Window
    <2> QED
      BY <1>0, <2>1, RestBound
  <1>12. y + t * W = Y + R
    BY <1>8, <1>10, <1>11, Zenon DEF Adding
  <1>13. z = y + (l - ui) * W
    BY <1>9, <1>11, Zenon
  <1>14. z + t1 * (b * W) = Y + R1
    <2>0. t \in Int /\ l \in Int /\ t1 \in Int /\ ui \in Int /\ vi0 \in Int
      BY <1>6
    <2>1. z + t1 * (b * W) = y + ((t1 * b + l) - ui) * W
      BY <1>13, <2>0
    <2>2. (t1 * b + l) - ui = t + vi0
      BY <1>6, <2>0
    <2>3. (t + vi0) * W = t * W + vi0 * W /\ t * W \in Int /\ vi0 * W \in Int
      BY <2>0
    <2>4. z + t1 * (b * W) = y + (t * W + vi0 * W)
      BY <2>1, <2>2, <2>3, Zenon
    <2>5. PICK tW \in Int, vW \in Int, X \in Int :
            tW = t * W /\ vW = vi0 * W /\ X = z + t1 * (b * W)
      BY <2>0, <2>3
    <2>6. X = y + (tW + vW) /\ y + tW = Y + R /\ R1 = vW + R
      BY <1>10, <1>12, <2>4, <2>5, Zenon
    <2>7. X = Y + R1
      BY <2>6
    <2> QED
      BY <2>5, <2>7, Zenon
  <1>15. Adding(w, v, vo, p, i - 1, t1, Y)
    BY <1>8, <1>10, <1>11, <1>14, Zenon DEF Adding
  <1> QED
    BY <1>6, <1>7, <1>9, <1>15, Zenon

\* The last round of D6 loses the carry, which makes up for the borrow of D4.
Added(w, v, vo, p, Y) ==
  Window(w, p) /\ Value(w) = Y + PartOf(v, vo, p, 0) - B * Weight(4 - p)

LEMMA AddLast ==
  ASSUME NEW u, NEW v, NEW vo, NEW p, Placed(v, vo, p), Window(u, p),
         NEW t \in 0 .. 1, NEW Y \in Int, Adding(u, v, vo, p, 0, t, Y),
         NEW s, s = t + u[p] + 0,
         NEW w, w = [u EXCEPT ![p] = LHALF(s)],
         B * Weight(4 - p) <= Y + PartOf(v, vo, p, 0)
  PROVE  Added(w, v, vo, p, Y)
  <1>0. /\ vo \in 0 .. 2 /\ p \in 0 .. vo /\ p \in 0 .. 2 /\ u \in DigitRows /\ p \in 0 .. 4
        /\ 0 \in 0 .. 4 - vo
    BY DEF Placed, Window
  <1>1. PICK b \in Nat : b = B /\ b > 1
    BY BIs
  <1>2. PICK ui \in 0 .. b - 1 : ui = u[p]
    BY <1>0, <1>1 DEF DigitRows
  <1>4. s = t + ui + 0
    BY <1>2, Zenon
  <1>5. PICK l, t1 : l = s % b /\ t1 = s \div b
    OBVIOUS
  <1>6. l \in 0 .. b - 1 /\ t1 \in 0 .. 1 /\ t + ui + 0 = t1 * b + l
    <2>1. 0 \in 0 .. b - 1
      BY <1>1
    <2>2. s % b \in 0 .. b - 1 /\ s \div b \in 0 .. 1 /\ t + ui + 0 = (s \div b) * b + (s % b)
      <3>1. b > 1
        BY <1>1
      <3>2. SumOf(b, ui, 0, t, s)
        BY <1>4, <2>1, <3>1, CarryIs, Zenon
      <3> QED
        BY <3>2, Zenon DEF SumOf
    <2> QED
      BY <1>5, <2>2, Zenon
  <1>7. LHALF(s) = l
    BY <1>1, <1>5, Zenon DEF LHALF
  <1>9. PICK W \in Nat : W = Weight(4 - p) /\ W = Weight(4 - (p + 0))
    <2>1. 4 - p \in 0 .. 4 /\ p + 0 = p
      BY <1>0
    <2> QED
      BY <2>1, WeightPositive
  <1>10. Replaced(u, w, p, p, l)
    <2>1. l \in 0 .. B - 1
      BY <1>1, <1>6, Zenon
    <2>2. w = [u EXCEPT ![p] = l]
      BY <1>7, Zenon
    <2>3. p \in p .. 4
      BY <1>0
    <2> QED
      BY <1>0, <2>1, <2>2, <2>3, DigitReplaced
  <1>11. PICK e \in Nat : e = PartOf(v, vo, p, 0)
    BY <1>0, PartIs
  <1>12. PICK y \in Nat, z \in Nat : y = Value(u) /\ z = Value(w) /\ z < b * W
    <2>1. Window(w, p)
      BY <1>10 DEF Replaced
    <2> QED
      BY <1>0, <1>1, <1>9, <2>1, WindowIs
  <1>13. y + t * W = Y + e
    BY <1>9, <1>11, <1>12, Zenon DEF Adding
  <1>14. z = y + (l - ui) * W
    BY <1>2, <1>9, <1>10, <1>12, Zenon DEF Replaced
  <1>15. z + t1 * (b * W) = Y + e
    <2>0. t \in Int /\ l \in Int /\ t1 \in Int /\ ui \in Int
      BY <1>6
    <2>1. z + t1 * (b * W) = y + ((t1 * b + l) - ui) * W
      BY <1>14, <2>0
    <2>2. (t1 * b + l) - ui = t
      <3>1. PICK c \in Int : c = t1 * b
        BY <2>0
      <3> QED
        BY <1>6, <2>0, <3>1
    <2>4. z + t1 * (b * W) = y + t * W
      BY <2>1, <2>2, Zenon
    <2> QED
      BY <1>13, <2>4, Zenon
  <1>16. PICK bW \in Nat : bW = b * W
    OBVIOUS
  <1>17. z + t1 * bW = Y + e /\ z < bW /\ bW <= Y + e
    BY <1>1, <1>9, <1>11, <1>12, <1>15, <1>16, Zenon
  <1>18. z = Y + e - bW
    BY <1>6, <1>17
  <1>20. Window(w, p)
    BY <1>10 DEF Replaced
  <1> QED
    BY <1>1, <1>9, <1>11, <1>12, <1>16, <1>18, <1>20, Zenon DEF Added

-----------------------------------------------------------------------------
(***************************************************************************)
(* One digit of the quotient: U is what is left of the dividend when the   *)
(* loop comes to place p.  Looking: the trial quotient is not yet chosen;  *)
(* Trying: q is a trial quotient that is not too small; Tried: it is at    *)
(* most one too large.                                                     *)
(***************************************************************************)
Looking(u, v, vo, p, U) ==
  /\ Placed(v, vo, p) /\ Window(u, p)
  /\ U \in Nat /\ Value(u) = U /\ U < B * PartOf(v, vo, p, 0)

NotTooSmall(u, v, vo, p, q, r, U) ==
  /\ q \in 0 .. B - 1 /\ q * v[vo + 1] + r = u[p] * B + u[p + 1]
  /\ U < (q + 1) * PartOf(v, vo, p, 0)

Trying(u, v, vo, p, q, r, U) ==
  /\ Looking(u, v, vo, p, U) /\ r \in 0 .. B - 1
  /\ NotTooSmall(u, v, vo, p, q, r, U)

Close(v, vo, p, q, U) ==
  /\ q \in 0 .. B - 1 /\ U < (q + 1) * PartOf(v, vo, p, 0)
  /\ (q - 1) * PartOf(v, vo, p, 0) <= U

Tried(u, v, vo, p, q, U) == Looking(u, v, vo, p, U) /\ Close(v, vo, p, q, U)

\* A product of two digits fits a u_int.
LEMMA ProductFits ==
  ASSUME NEW b \in Nat, b > 1, NEW x \in 0 .. b - 1, NEW y \in 0 .. b - 1
  PROVE  x * y \in Nat /\ x * y < b * b /\ (x * y) % (b * b) = x * y
  <1>1. x * y <= (b - 1) * y
    BY Multiplied
  <1>2. y * (b - 1) <= (b - 1) * (b - 1)
    BY Multiplied
  <1>3. PICK c \in Nat, z \in Nat : c = b * b /\ z = x * y /\ z < c
    <2>1. (b - 1) * (b - 1) < b * b /\ x * y \in Nat /\ b * b \in Nat
      OBVIOUS
    <2> QED
      BY <1>1, <1>2, <2>1
  <1>4. z % c = z
    BY <1>3
  <1> QED
    BY <1>3, <1>4, Zenon

LEMMA CloseEnough ==
  ASSUME NEW u, NEW v, NEW vo, NEW p, NEW U, NEW q, NEW r \in Nat,
         Looking(u, v, vo, p, U), NotTooSmall(u, v, vo, p, q, r, U),
         r >= B \/ v[vo + 2] * q <= r * B + u[p + 2]
  PROVE  Tried(u, v, vo, p, q, U)
  <1>0. /\ Placed(v, vo, p) /\ Window(u, p) /\ U = Value(u) /\ U \in Nat
        /\ U < B * PartOf(v, vo, p, 0)
    BY Zenon DEF Looking
  <1>b. PICK b \in Nat : b = B /\ b > 1
    BY BIs
  <1>E. PICK E : E = PartOf(v, vo, p, 0)
    OBVIOUS
  <1>1. b = B /\ b > 1 /\ E = PartOf(v, vo, p, 0)
    BY <1>b, <1>E, Zenon
  <1>2. PICK A, u0, u1, u2, ur, v1, v2, vr :
          /\ Leading(b, A, u0, u1, u2, ur, v1, v2, vr, U, E)
          /\ u0 = u[p] /\ u1 = u[p + 1] /\ u2 = u[p + 2] /\ v1 = v[vo + 1] /\ v2 = v[vo + 2]
    <2>1. Leading(B, Weight(4 - (p + 2)), u[p], u[p + 1], u[p + 2], Rest(u, p + 2),
                  v[vo + 1], v[vo + 2], PartOf(v, vo, p, 2), U, E)
      BY <1>0, <1>1, LeadingIs, Zenon
    <2> QED
      BY <1>1, <2>1, Zenon
  <1>L. Leading(b, A, u0, u1, u2, ur, v1, v2, vr, U, E)
    BY <1>2
  <1>3. q \in 0 .. b - 1 /\ q * v1 + r = u0 * b + u1 /\ U < (q + 1) * E
    BY <1>1, <1>2, Zenon DEF NotTooSmall
  <1>N. q * v1 + r = u0 * b + u1
    BY <1>3
  <1>4. u2 \in 0 .. b - 1 /\ v2 \in 0 .. b - 1
    BY <1>2, Zenon DEF Leading
  <1>5. v2 * q <= r * b + u2
    <2>1. CASE r >= B
      <3>1. v2 * q < b * b /\ v2 * q \in Nat
        BY <1>1, <1>3, <1>4, ProductFits
      <3>2. b * b <= r * b
        BY <1>1, <2>1, Multiplied
      <3>3. r * b \in Nat /\ b * b \in Nat /\ u2 \in Nat
        BY <1>4
      <3> QED
        BY <3>1, <3>2, <3>3
    <2>2. CASE v[vo + 2] * q <= r * B + u[p + 2]
      BY <1>1, <1>2, <2>2, Zenon
    <2> QED
      BY <2>1, <2>2, Zenon
  <1>6. (q - 1) * E <= U
    <2>1. q \in Nat /\ q < b
      BY <1>3
    <2> QED
      BY <1>L, <1>N, <1>5, <2>1, TrialClose
  <1> QED
    BY <1>1, <1>3, <1>6, Zenon DEF Tried, Close

\* What D3 leaves when it goes on with q and r.
Outcome(u, v, vo, p, q, r, U) ==
  IF r >= B THEN Tried(u, v, vo, p, q, U) ELSE Trying(u, v, vo, p, q, r, U)

LEMMA Outcomes ==
  ASSUME NEW u, NEW v, NEW vo, NEW p, NEW U, NEW q, NEW r \in Nat,
         Looking(u, v, vo, p, U), NotTooSmall(u, v, vo, p, q, r, U)
  PROVE  Outcome(u, v, vo, p, q, r, U)
  <1>1. CASE r >= B
    <2>1. Tried(u, v, vo, p, q, U)
      BY <1>1, CloseEnough, Zenon
    <2> QED
      BY <1>1, <2>1, Zenon DEF Outcome
  <1>2. CASE ~(r >= B)
    <2>1. r \in 0 .. B - 1
      BY <1>2, BIs
    <2>2. Trying(u, v, vo, p, q, r, U)
      BY <2>1, Zenon DEF Trying
    <2> QED
      BY <1>2, <2>2, Zenon DEF Outcome
  <1> QED
    BY <1>1, <1>2, Zenon

\* A trial quotient that the second digit shows to be too large is decremented.
LEMMA Decremented ==
  ASSUME NEW u, NEW v, NEW vo, NEW p, NEW U, NEW q, NEW r,
         Trying(u, v, vo, p, q, r, U), v[vo + 2] * q > r * B + u[p + 2]
  PROVE  r + v[vo + 1] \in Nat /\ Outcome(u, v, vo, p, q - 1, r + v[vo + 1], U)
  <1>0. /\ Placed(v, vo, p) /\ Window(u, p) /\ U = Value(u) /\ U \in Nat
        /\ U < B * PartOf(v, vo, p, 0) /\ Looking(u, v, vo, p, U)
    BY Zenon DEF Looking, Trying
  <1>b. PICK b \in Nat : b = B /\ b > 1
    BY BIs
  <1>E. PICK E : E = PartOf(v, vo, p, 0)
    OBVIOUS
  <1>1. b = B /\ b > 1 /\ E = PartOf(v, vo, p, 0)
    BY <1>b, <1>E, Zenon
  <1>2. PICK A, u0, u1, u2, ur, v1, v2, vr :
          /\ Leading(b, A, u0, u1, u2, ur, v1, v2, vr, U, E)
          /\ u0 = u[p] /\ u1 = u[p + 1] /\ u2 = u[p + 2] /\ v1 = v[vo + 1] /\ v2 = v[vo + 2]
    <2>1. Leading(B, Weight(4 - (p + 2)), u[p], u[p + 1], u[p + 2], Rest(u, p + 2),
                  v[vo + 1], v[vo + 2], PartOf(v, vo, p, 2), U, E)
      BY <1>0, <1>1, LeadingIs, Zenon
    <2> QED
      BY <1>1, <2>1, Zenon
  <1>L. Leading(b, A, u0, u1, u2, ur, v1, v2, vr, U, E)
    BY <1>2
  <1>3. /\ q \in 0 .. b - 1 /\ q * v1 + r = u0 * b + u1 /\ U < (q + 1) * E /\ r \in 0 .. b - 1
        /\ v2 * q > r * b + u2
    BY <1>1, <1>2, Zenon DEF Trying, NotTooSmall
  <1>N. q * v1 + r = u0 * b + u1 /\ v2 * q > r * b + u2
    BY <1>3
  <1>4. u0 \in 0 .. b - 1 /\ u1 \in 0 .. b - 1 /\ v1 \in 1 .. b - 1 /\ E \in Nat
    BY <1>2, Zenon DEF Leading
  <1>5. U < q * E /\ q > 0
    <2>1. q \in Nat /\ r \in Nat
      BY <1>3
    <2> QED
      BY <1>L, <1>N, <2>1, TrialTooLarge
  <1>6. q - 1 \in 0 .. b - 1 /\ r + v1 \in Nat /\ (q - 1) + 1 = q
    BY <1>3, <1>4, <1>5
  <1>7. (q - 1) * v1 + (r + v1) = u0 * b + u1
    <2>1. (q - 1) * v1 = q * v1 - v1 /\ q * v1 \in Int /\ u0 * b \in Int /\ q \in Int
      BY <1>3, <1>4
    <2> QED
      BY <1>3, <1>4, <2>1
  <1>8. NotTooSmall(u, v, vo, p, q - 1, r + v1, U)
    BY <1>1, <1>2, <1>5, <1>6, <1>7, Zenon DEF NotTooSmall
  <1>9. Outcome(u, v, vo, p, q - 1, r + v1, U)
    BY <1>0, <1>6, <1>8, Outcomes, Zenon
  <1> QED
    BY <1>2, <1>6, <1>9, Zenon

\* The first trial quotient.
LEMMA FirstTrial ==
  ASSUME NEW u, NEW v, NEW vo, NEW p, NEW U, Looking(u, v, vo, p, U),
         NEW nn, nn = COMBINE(u[p], u[p + 1])
  PROVE  /\ u[p] = v[vo + 1] =>
              u[p + 1] + v[vo + 1] \in Nat /\ Outcome(u, v, vo, p, B - 1, u[p + 1] + v[vo + 1], U)
         /\ u[p] # v[vo + 1] =>
              Trying(u, v, vo, p, nn \div v[vo + 1], nn % v[vo + 1], U)
  <1>0. /\ Placed(v, vo, p) /\ Window(u, p) /\ U = Value(u) /\ U \in Nat
        /\ U < B * PartOf(v, vo, p, 0) /\ Looking(u, v, vo, p, U)
    BY Zenon DEF Looking
  <1>b. PICK b \in Nat : b = B /\ b > 1
    BY BIs
  <1>E. PICK E : E = PartOf(v, vo, p, 0)
    OBVIOUS
  <1>1. b = B /\ b > 1 /\ E = PartOf(v, vo, p, 0)
    BY <1>b, <1>E, Zenon
  <1>2. PICK A, u0, u1, u2, ur, v1, v2, vr :
          /\ Leading(b, A, u0, u1, u2, ur, v1, v2, vr, U, E)
          /\ u0 = u[p] /\ u1 = u[p + 1] /\ u2 = u[p + 2] /\ v1 = v[vo + 1] /\ v2 = v[vo + 2]
    <2>1. Leading(B, Weight(4 - (p + 2)), u[p], u[p + 1], u[p + 2], Rest(u, p + 2),
                  v[vo + 1], v[vo + 2], PartOf(v, vo, p, 2), U, E)
      BY <1>0, <1>1, LeadingIs, Zenon
    <2> QED
      BY <1>1, <2>1, Zenon
  <1>L. Leading(b, A, u0, u1, u2, ur, v1, v2, vr, U, E)
    BY <1>2
  <1>4. u0 \in 0 .. b - 1 /\ u1 \in 0 .. b - 1 /\ v1 \in 1 .. b - 1 /\ E \in Nat /\ U < b * E
    BY <1>2, Zenon DEF Leading
  <1>5. nn = u0 * b + u1
    BY <1>1, <1>2, Zenon DEF COMBINE
  <1>6. CASE u0 = v1
    <2>1. u1 + v1 \in Nat /\ b - 1 \in 0 .. b - 1 /\ (b - 1) + 1 = b
      BY <1>1, <1>4
    <2>2. (b - 1) * v1 + (u1 + v1) = u0 * b + u1
      BY <1>4, <1>6
    <2>3. NotTooSmall(u, v, vo, p, b - 1, u1 + v1, U)
      BY <1>1, <1>2, <1>4, <2>1, <2>2, Zenon DEF NotTooSmall
    <2>4. Outcome(u, v, vo, p, b - 1, u1 + v1, U)
      BY <1>0, <2>1, <2>3, Outcomes, Zenon
    <2> QED
      BY <1>1, <1>2, <1>6, <2>1, <2>4, Zenon
  <1>7. CASE u0 # v1
    <2>1. u0 < v1
      <3>1. u0 <= v1
        BY <1>2, FirstDigitFits, Zenon
      <3> QED
        BY <1>4, <1>7, <3>1
    <2>2. PICK N \in Nat : N = nn /\ N = u0 * b + u1 /\ N < b * v1
      <3>1. (u0 + 1) * b <= v1 * b
        BY <1>4, <2>1, Multiplied
      <3>2. (u0 + 1) * b = u0 * b + b /\ u0 * b \in Nat /\ v1 * b \in Nat /\ v1 * b = b * v1
        BY <1>4
      <3> QED
        BY <1>4, <1>5, <3>1, <3>2
    <2>3. PICK h \in 0 .. b - 1, r \in 0 .. v1 - 1 :
            h = N \div v1 /\ r = N % v1 /\ N = h * v1 + r
      <3>1. v1 \in Nat /\ v1 > 0
        BY <1>4
      <3> QED
        BY <2>2, <3>1, SplitAt
    <2>4. u0 * b + u1 < (h + 1) * v1
      BY <1>4, <2>2, <2>3
    <2>5. U < (h + 1) * E
      <3>1. h \in Nat
        BY <2>3
      <3> QED
        BY <1>L, <2>4, <3>1, TrialLarge, Zenon
    <2>6. r \in 0 .. b - 1
      BY <1>4, <2>3
    <2>7. Trying(u, v, vo, p, h, r, U)
      BY <1>0, <1>1, <1>2, <2>2, <2>3, <2>5, <2>6, Zenon DEF Trying, NotTooSmall
    <2> QED
      BY <1>2, <1>7, <2>2, <2>3, <2>7, Zenon
  <1> QED
    BY <1>6, <1>7, Zenon

\* D4 and D6 while they run, and the digit found: q times the divisor at place p
\* is what can be taken away from U.
Fits(v, vo, p, q, U) ==
  /\ q \in 0 .. B - 1 /\ U < (q + 1) * PartOf(v, vo, p, 0)
  /\ q * PartOf(v, vo, p, 0) <= U

SubtractPhase(u, v, vo, p, i, q, t, U) ==
  /\ Placed(v, vo, p) /\ Window(u, p) /\ U \in Nat /\ Close(v, vo, p, q, U)
  /\ i \in 0 .. 4 - vo /\ t \in 0 .. B - 1
  /\ Subtracting(u, v, vo, p, i, q, t, U)

AddPhase(u, v, vo, p, i, q, t, U) ==
  /\ Placed(v, vo, p) /\ Window(u, p) /\ U \in Nat /\ Fits(v, vo, p, q, U)
  /\ i \in 0 .. 4 - vo /\ t \in 0 .. 1
  /\ Adding(u, v, vo, p, i, t, U - (q + 1) * PartOf(v, vo, p, 0) + B * Weight(4 - p))

Found(u, v, vo, p, q, U) ==
  /\ Placed(v, vo, p) /\ Window(u, p) /\ U \in Nat /\ Fits(v, vo, p, q, U)
  /\ Value(u) = U - q * PartOf(v, vo, p, 0)

\* The numbers that the phases are about.
LEMMA PlaceIs ==
  ASSUME NEW v, NEW vo, NEW p, Placed(v, vo, p)
  PROVE  /\ vo \in 0 .. 2 /\ p \in 0 .. 2 /\ p \in 0 .. vo
         /\ 0 \in 0 .. 4 - vo /\ 4 - vo \in 0 .. 4 - vo
         /\ PartOf(v, vo, p, 0) \in Nat /\ PartOf(v, vo, p, 0) < Weight(4 - p)
         /\ PartOf(v, vo, p, 4 - vo) = 0 /\ PartOf(v, vo, p, 0) = Weight(vo - p) * Value(v)
         /\ \A i \in 0 .. 4 : Weight(i) \in Nat
         /\ 4 - p \in 0 .. 4 /\ 4 - (p + (4 - vo)) \in 0 .. 4
  <1>1. vo \in 0 .. 2 /\ p \in 0 .. vo /\ p \in 0 .. 2 /\ 0 \in 0 .. 4 - vo /\ p + 0 = p
          /\ 4 - vo \in 0 .. 4 - vo /\ 4 - p \in 0 .. 4 /\ 4 - (p + (4 - vo)) \in 0 .. 4
    BY DEF Placed
  <1>2. /\ PartOf(v, vo, p, 4 - vo) = 0
        /\ \A i \in 0 .. 4 - vo : /\ PartOf(v, vo, p, i) \in Nat
                                  /\ PartOf(v, vo, p, i) < Weight(4 - (p + i))
        /\ PartOf(v, vo, p, 0) = Weight(vo - p) * Value(v)
    BY PartIs, Zenon
  <1>3. PartOf(v, vo, p, 0) \in Nat /\ PartOf(v, vo, p, 0) < Weight(4 - (p + 0))
    BY <1>1, <1>2, Zenon
  <1>4. PartOf(v, vo, p, 0) < Weight(4 - p)
    BY <1>1, <1>3, Zenon
  <1> QED
    BY <1>1, <1>2, <1>3, <1>4, WeightPositive, Zenon

LEMMA SubtractStarts ==
  ASSUME NEW u, NEW v, NEW vo, NEW p, NEW U, NEW q, Tried(u, v, vo, p, q, U)
  PROVE  SubtractPhase(u, v, vo, p, 4 - vo, q, 0, U)
  <1>1. Placed(v, vo, p) /\ Window(u, p) /\ U \in Nat /\ Value(u) = U /\ Close(v, vo, p, q, U)
    BY Zenon DEF Tried, Looking
  <1>2. 0 \in 0 .. B - 1 /\ q \in Int
    BY <1>1, BIs DEF Close
  <1>3. PICK W \in Nat : W = Weight(4 - (p + (4 - vo)))
    BY <1>1, PlaceIs
  <1>4. U - 0 * W = U - q * 0
    BY <1>1, <1>2
  <1>5. PartOf(v, vo, p, 4 - vo) = 0 /\ 4 - vo \in 0 .. 4 - vo
    BY <1>1, PlaceIs, Zenon
  <1>6. Subtracting(u, v, vo, p, 4 - vo, q, 0, U)
    BY <1>1, <1>3, <1>4, <1>5, Zenon DEF Subtracting
  <1> QED
    BY <1>1, <1>2, <1>5, <1>6, Zenon DEF SubtractPhase

LEMMA SubtractGoes ==
  ASSUME NEW u, NEW v, NEW vo, NEW p, NEW i, NEW q, NEW t, NEW U,
         SubtractPhase(u, v, vo, p, i, q, t, U), i > 0,
         NEW s, s = UInt(u[p + i] - v[vo + i] * q - t),
         NEW w, w = [u EXCEPT ![p + i] = LHALF(s)]
  PROVE  SubtractPhase(w, v, vo, p, i - 1, q, (B - HHALF(s)) % B, U)
  <1>1. /\ Placed(v, vo, p) /\ Window(u, p) /\ U \in Nat /\ Close(v, vo, p, q, U)
        /\ i \in 0 .. 4 - vo /\ t \in 0 .. B - 1
        /\ Subtracting(u, v, vo, p, i, q, t, U)
    BY Zenon DEF SubtractPhase
  <1>2. i \in 1 .. 4 - vo /\ i - 1 \in 0 .. 4 - vo /\ U \in Int
    <2>1. vo \in 0 .. 2
      BY <1>1, PlaceIs, Zenon
    <2> QED
      BY <1>1, <2>1
  <1>3. q \in 0 .. B - 1
    BY <1>1, Zenon DEF Close
  <1>4. /\ Window(w, p) /\ (B - HHALF(s)) % B \in 0 .. B - 1
        /\ Subtracting(w, v, vo, p, i - 1, q, (B - HHALF(s)) % B, U)
    BY <1>1, <1>2, <1>3, SubtractRound, Zenon
  <1> QED
    BY <1>1, <1>2, <1>4, Zenon DEF SubtractPhase

LEMMA SubtractEnds ==
  ASSUME NEW u, NEW v, NEW vo, NEW p, NEW q, NEW t, NEW U,
         SubtractPhase(u, v, vo, p, 0, q, t, U),
         NEW s, s = UInt(u[p] - 0 - t),
         NEW w, w = [u EXCEPT ![p] = LHALF(s)]
  PROVE  /\ HHALF(s) = 0 => Found(w, v, vo, p, q, U)
         /\ HHALF(s) # 0 => AddPhase(w, v, vo, p, 4 - vo, q - 1, 0, U)
  <1>1. /\ Placed(v, vo, p) /\ Window(u, p) /\ U \in Nat /\ Close(v, vo, p, q, U)
        /\ t \in 0 .. B - 1
        /\ Subtracting(u, v, vo, p, 0, q, t, U)
    BY Zenon DEF SubtractPhase
  <1>2. PICK b \in Nat, W \in Nat, e \in Nat :
          b = B /\ W = Weight(4 - p) /\ e = PartOf(v, vo, p, 0)
    BY <1>1, BIs, PlaceIs
  <1>3. q \in 0 .. b - 1 /\ U < (q + 1) * e /\ (q - 1) * e <= U
    BY <1>1, <1>2, Zenon DEF Close
  <1>4. /\ Window(w, p)
        /\ HHALF(s) = 0 => Value(w) = U - q * e
        /\ HHALF(s) # 0 => Value(w) = U - q * e + b * W /\ U < q * e
    <2>1. U \in Int
      BY <1>1
    <2>2. q \in 0 .. B - 1
      BY <1>2, <1>3, Zenon
    <2>3. Subtracted(w, v, vo, p, q, HHALF(s), U)
      BY <1>1, <2>1, <2>2, SubtractLast, Zenon
    <2> QED
      BY <1>2, <2>3, Zenon DEF Subtracted
  <1>5. PICK z \in Nat : z = Value(w)
    <2>1. p \in 0 .. 2
      BY <1>1, PlaceIs, Zenon
    <2> QED
      BY <1>4, <2>1, WindowIs
  <1>6. q \in Int /\ U \in Int
    BY <1>1, <1>3
  <1>7. CASE HHALF(s) = 0
    <2>1. z = U - q * e
      BY <1>4, <1>5, <1>7, Zenon
    <2>2. q * e <= U
      BY <1>6, <2>1
    <2>3. Fits(v, vo, p, q, U)
      BY <1>2, <1>3, <2>2, Zenon DEF Fits
    <2> QED
      BY <1>1, <1>2, <1>4, <1>5, <1>7, <2>1, <2>3, Zenon DEF Found
  <1>8. CASE HHALF(s) # 0
    <2>1. z = U - q * e + b * W /\ U < q * e
      BY <1>4, <1>5, <1>8, Zenon
    <2>2. q > 0
      <3>1. SUFFICES ASSUME q = 0 PROVE FALSE
        BY <1>3
      <3>2. 0 * e = 0
        OBVIOUS
      <3> QED
        BY <1>1, <2>1, <3>1, <3>2
    <2>3. q - 1 \in 0 .. b - 1 /\ (q - 1) + 1 = q
      BY <1>3, <2>2
    <2>4. Fits(v, vo, p, q - 1, U)
      BY <1>2, <1>3, <2>1, <2>3, Zenon DEF Fits
    <2>5. Adding(w, v, vo, p, 4 - vo, 0, U - ((q - 1) + 1) * e + b * W)
      <3>1. PICK W2 \in Nat : W2 = Weight(4 - (p + (4 - vo)))
        BY <1>1, PlaceIs
      <3>2. PartOf(v, vo, p, 4 - vo) = 0
        BY <1>1, PlaceIs, Zenon
      <3>3. PICK Y \in Int : Y = U - q * e + b * W
        BY <1>6
      <3>4. z + 0 * W2 = Y + 0
        BY <2>1, <3>3
      <3>5. Adding(w, v, vo, p, 4 - vo, 0, Y)
        BY <1>5, <3>1, <3>2, <3>4, Zenon DEF Adding
      <3> QED
        BY <2>3, <3>3, <3>5, Zenon
    <2>6. 4 - vo \in 0 .. 4 - vo
      BY <1>1, PlaceIs, Zenon
    <2>7. 0 \in 0 .. 1
      OBVIOUS
    <2> QED
      BY <1>1, <1>2, <1>4, <1>8, <2>4, <2>5, <2>6, <2>7, Zenon DEF AddPhase
  <1> QED
    BY <1>7, <1>8, Zenon

LEMMA AddGoes ==
  ASSUME NEW u, NEW v, NEW vo, NEW p, NEW i, NEW q, NEW t, NEW U,
         AddPhase(u, v, vo, p, i, q, t, U), i > 0,
         NEW s, s = t + u[p + i] + v[vo + i],
         NEW w, w = [u EXCEPT ![p + i] = LHALF(s)]
  PROVE  AddPhase(w, v, vo, p, i - 1, q, HHALF(s), U)
  <1>0. PICK Y : Y = U - (q + 1) * PartOf(v, vo, p, 0) + B * Weight(4 - p)
    OBVIOUS
  <1>1. /\ Placed(v, vo, p) /\ Window(u, p) /\ U \in Nat /\ Fits(v, vo, p, q, U)
        /\ i \in 0 .. 4 - vo /\ t \in 0 .. 1
        /\ Adding(u, v, vo, p, i, t, Y)
    BY <1>0, Zenon DEF AddPhase
  <1>2. i \in 1 .. 4 - vo /\ i - 1 \in 0 .. 4 - vo
    <2>1. vo \in 0 .. 2
      BY <1>1, PlaceIs, Zenon
    <2> QED
      BY <1>1, <2>1
  <1>3. Y \in Int
    <2>1. PICK b \in Nat, W \in Nat, e \in Nat :
            b = B /\ W = Weight(4 - p) /\ e = PartOf(v, vo, p, 0)
      BY <1>1, BIs, PlaceIs
    <2>2. q \in Int /\ U \in Int
      BY <1>1, BIs DEF Fits
    <2>3. U - (q + 1) * e + b * W \in Int
      BY <2>2
    <2> QED
      BY <1>0, <2>1, <2>3, Zenon
  <1>4. /\ Window(w, p) /\ HHALF(s) \in 0 .. 1
        /\ Adding(w, v, vo, p, i - 1, HHALF(s), Y)
    BY <1>1, <1>2, <1>3, AddRound, Zenon
  <1> QED
    BY <1>0, <1>1, <1>2, <1>4, Zenon DEF AddPhase

LEMMA AddEnds ==
  ASSUME NEW u, NEW v, NEW vo, NEW p, NEW q, NEW t, NEW U,
         AddPhase(u, v, vo, p, 0, q, t, U),
         NEW s, s = t + u[p] + 0,
         NEW w, w = [u EXCEPT ![p] = LHALF(s)]
  PROVE  Found(w, v, vo, p, q, U)
  <1>0. PICK Y : Y = U - (q + 1) * PartOf(v, vo, p, 0) + B * Weight(4 - p)
    OBVIOUS
  <1>1. /\ Placed(v, vo, p) /\ Window(u, p) /\ U \in Nat /\ Fits(v, vo, p, q, U)
        /\ t \in 0 .. 1
        /\ Adding(u, v, vo, p, 0, t, Y)
    BY <1>0, Zenon DEF AddPhase
  <1>2. PICK b \in Nat, W \in Nat, e \in Nat :
          b = B /\ W = Weight(4 - p) /\ e = PartOf(v, vo, p, 0)
    BY <1>1, BIs, PlaceIs
  <1>3. q \in 0 .. b - 1 /\ q * e <= U
    BY <1>1, <1>2, Zenon DEF Fits
  <1>4. PICK bW \in Nat, qe \in Nat : bW = b * W /\ qe = q * e /\ (q + 1) * e = qe + e
    <2>1. q \in Nat
      BY <1>3
    <2> QED
      BY <2>1
  <1>5. Y = U - (qe + e) + bW /\ Y \in Int /\ bW <= Y + e /\ Y + e - bW = U - qe
    <2>1. Y = U - (qe + e) + bW
      BY <1>0, <1>2, <1>4, Zenon
    <2>2. qe <= U
      BY <1>3, <1>4, Zenon
    <2> QED
      BY <1>1, <2>1, <2>2
  <1>6. Window(w, p) /\ Value(w) = Y + e - B * Weight(4 - p)
    <2>1. B * Weight(4 - p) <= Y + PartOf(v, vo, p, 0)
      BY <1>2, <1>4, <1>5, Zenon
    <2>2. Y \in Int
      BY <1>5
    <2>3. Added(w, v, vo, p, Y)
      BY <1>1, <2>1, <2>2, AddLast, Zenon
    <2> QED
      BY <1>2, <2>3, Zenon DEF Added
  <1>7. Value(w) = U - q * e
    BY <1>2, <1>4, <1>5, <1>6, Zenon
  <1> QED
    BY <1>1, <1>2, <1>6, <1>7, Zenon DEF Found

-----------------------------------------------------------------------------
(***************************************************************************)
(* Between two digits: the quotient found so far times the divisor, and    *)
(* U, make up the dividend, and U is smaller than the divisor at the place *)
(* of the digit that was found last.                                       *)
(***************************************************************************)
\* The digits of q from place k on are still to be found.
QuotientRow(q, k) == /\ q \in [0 .. 4 -> Nat] /\ q[0] = 0
                     /\ \A i \in k .. 4 : q[i] = 0

Balanced(uo, vo, d, j, v, q, uq, vq, U) ==
  /\ vo \in 0 .. 2 /\ uo \in 0 .. vo /\ d \in 0 .. HalfBits - 1
  /\ j \in 0 .. (vo - uo) + 1 /\ uq \in Nat /\ vq \in Nat /\ vq > 0
  /\ v \in DigitRows /\ (\A k \in 0 .. vo : v[k] = 0) /\ v[vo + 1] # 0
  /\ Value(v) = vq * Bit[d]
  /\ QuotientRow(q, 4 - (vo - uo) + j)
  /\ U \in Nat /\ Quad(q) * Value(v) + U = uq * Bit[d]
  /\ U < Weight((vo - uo) + 1 - j) * Value(v)

LEMMA PlacedThere ==
  ASSUME NEW uo, NEW vo, NEW d, NEW j, NEW v, NEW q, NEW uq, NEW vq, NEW U,
         Balanced(uo, vo, d, j, v, q, uq, vq, U), j <= vo - uo
  PROVE  Placed(v, vo, uo + j) /\ U < B * PartOf(v, vo, uo + j, 0)
  <1>1. /\ vo \in 0 .. 2 /\ uo \in 0 .. vo /\ j \in 0 .. (vo - uo) + 1
        /\ v \in DigitRows /\ (\A k \in 0 .. vo : v[k] = 0) /\ v[vo + 1] # 0
        /\ U < Weight((vo - uo) + 1 - j) * Value(v)
    BY Zenon DEF Balanced
  <1>2. PICK p \in 0 .. vo, k \in 0 .. 3 : p = uo + j /\ k = vo - p /\ (vo - uo) + 1 - j = k + 1
    <2>1. vo \in 0 .. 2 /\ uo \in 0 .. vo /\ j \in 0 .. (vo - uo) + 1
      BY <1>1
    <2>2. uo + j \in 0 .. vo /\ vo - (uo + j) \in 0 .. 3 /\ (vo - uo) + 1 - j = (vo - (uo + j)) + 1
      BY <2>1
    <2> QED
      BY <2>2
  <1>3. Placed(v, vo, p)
    BY <1>1, Zenon DEF Placed
  <1>4. PICK b \in Nat, w \in Nat, x \in Nat : b = B /\ w = Weight(k) /\ x = Value(v)
    <2>1. k \in 0 .. 4
      OBVIOUS
    <2> QED
      BY <1>1, <2>1, BIs, WeightPositive, RestBound
  <1>5. Weight(k + 1) = b * w
    BY <1>4, WeightStep, Zenon
  <1>6. PartOf(v, vo, p, 0) = w * x
    <2>1. PartOf(v, vo, p, 0) = Weight(vo - p) * Value(v)
      BY <1>3, PlaceIs, Zenon
    <2> QED
      BY <1>2, <1>4, <2>1, Zenon
  <1>7. (b * w) * x = b * (w * x)
    OBVIOUS
  <1>8. U < B * PartOf(v, vo, p, 0)
    <2>1. U < (b * w) * x
      BY <1>1, <1>2, <1>4, <1>5, Zenon
    <2> QED
      BY <1>4, <1>6, <1>7, <2>1, Zenon
  <1> QED
    BY <1>2, <1>3, <1>8, Zenon

\* D7: the digit that was found is stored.
LEMMA DigitStored ==
  ASSUME NEW q, NEW k \in 1 .. 4, QuotientRow(q, k), NEW x \in Nat,
         NEW w, w = [q EXCEPT ![k] = x]
  PROVE  QuotientRow(w, k + 1) /\ Quad(w) = Quad(q) + x * Weight(4 - k)
  <1>1. /\ q \in [0 .. 4 -> Nat] /\ q \in [0 .. 4 -> Int] /\ q[0] = 0 /\ q[k] = 0
        /\ k \in 0 .. 4 /\ x \in Int
    BY DEF QuotientRow
  <1>2. QuotientRow(w, k + 1) /\ w \in [0 .. 4 -> Int] /\ w[0] = 0
    BY <1>1 DEF QuotientRow
  <1>3. Value(w) = Value(q) + (x - q[k]) * Weight(4 - k)
    BY <1>1, DigitSet, Zenon
  <1>4. Quad(w) = Value(w) /\ Quad(q) = Value(q)
    BY <1>1, <1>2, QuadIs
  <1>5. x - q[k] = x
    BY <1>1
  <1> QED
    BY <1>2, <1>3, <1>4, <1>5, Zenon

LEMMA QuotientNat ==
  ASSUME NEW q \in [0 .. 4 -> Nat]
  PROVE  Quad(q) \in Nat
  <1>1. PICK b \in Nat : b = B
    BY BIs
  <1>2. PICK p1 \in Nat, p2 \in Nat, p3 \in Nat, p4 \in Nat :
          p1 = q[1] /\ p2 = q[2] /\ p3 = q[3] /\ p4 = q[4]
    OBVIOUS
  <1>3. Quad(q) = ((p1 * b + p2) * b + p3) * b + p4
    BY <1>1, <1>2, Zenon DEF Quad, COMBINE
  <1>4. ((p1 * b + p2) * b + p3) * b + p4 \in Nat
    OBVIOUS
  <1> QED
    BY <1>3, <1>4, Zenon

LEMMA NextBalanced ==
  ASSUME NEW uo, NEW vo, NEW d, NEW j, NEW v, NEW q, NEW uq, NEW vq, NEW U, NEW u, NEW x,
         Balanced(uo, vo, d, j, v, q, uq, vq, U), j <= vo - uo,
         Found(u, v, vo, uo + j, x, U),
         NEW w, w = [q EXCEPT ![4 - (vo - uo) + j] = x]
  PROVE  /\ Balanced(uo, vo, d, j + 1, v, w, uq, vq, Value(u))
         /\ Window(u, uo + (j + 1))
  <1>1. /\ vo \in 0 .. 2 /\ uo \in 0 .. vo /\ j \in 0 .. (vo - uo) + 1 /\ d \in 0 .. HalfBits - 1
        /\ uq \in Nat /\ vq \in Nat /\ vq > 0
        /\ v \in DigitRows /\ (\A k \in 0 .. vo : v[k] = 0) /\ v[vo + 1] # 0
        /\ Value(v) = vq * Bit[d]
        /\ QuotientRow(q, 4 - (vo - uo) + j) /\ U \in Nat
        /\ Quad(q) * Value(v) + U = uq * Bit[d]
    BY Zenon DEF Balanced
  <1>2. PICK p \in 0 .. 2, m \in 0 .. 2, k \in 1 .. 4 :
          /\ p = uo + j /\ m = vo - p /\ k = 4 - (vo - uo) + j /\ m = 4 - k
          /\ j + 1 \in 0 .. (vo - uo) + 1 /\ (vo - uo) + 1 - (j + 1) = m
          /\ k + 1 = 4 - (vo - uo) + (j + 1) /\ p + 1 = uo + (j + 1)
    BY <1>1
  <1>3. /\ Placed(v, vo, p) /\ Window(u, p) /\ x \in 0 .. B - 1
        /\ U < (x + 1) * PartOf(v, vo, p, 0) /\ Value(u) = U - x * PartOf(v, vo, p, 0)
    BY <1>2, Zenon DEF Found, Fits
  <1>4. PICK wm \in Nat, y \in Nat, z \in Nat, qq \in Nat, g \in Nat :
          wm = Weight(m) /\ y = Value(v) /\ z = Value(u) /\ qq = Quad(q) /\ g = uq * Bit[d]
    <2>1. m \in 0 .. 4 /\ u \in DigitRows /\ q \in [0 .. 4 -> Nat] /\ d \in 0 .. HalfBits
      BY <1>1, <1>3, HalfBitsAssumption DEF Window, QuotientRow
    <2>2. Bit[d] \in Nat
      BY <2>1, BitIs
    <2>3. uq * Bit[d] \in Nat
      BY <1>1, <2>2
    <2>4. Weight(m) \in Nat /\ Value(v) \in Nat /\ Value(u) \in Nat /\ Quad(q) \in Nat
      BY <1>1, <2>1, WeightPositive, RestBound, QuotientNat
    <2> QED
      BY <2>3, <2>4, Zenon
  <1>5. PartOf(v, vo, p, 0) = wm * y
    <2>1. PartOf(v, vo, p, 0) = Weight(vo - p) * Value(v)
      BY <1>3, PlaceIs, Zenon
    <2> QED
      BY <1>2, <1>4, <2>1, Zenon
  <1>6. x \in Nat
    BY <1>3, BIs
  <1>7. z = U - x * (wm * y) /\ U < (x + 1) * (wm * y)
    BY <1>3, <1>4, <1>5, Zenon
  <1>8. QuotientRow(w, k + 1) /\ Quad(w) = qq + x * wm
    <2>1. QuotientRow(q, k) /\ w = [q EXCEPT ![k] = x]
      BY <1>1, <1>2, Zenon
    <2>2. QuotientRow(w, k + 1) /\ Quad(w) = Quad(q) + x * Weight(4 - k)
      BY <1>6, <2>1, DigitStored, Zenon
    <2> QED
      BY <1>2, <1>4, <2>2, Zenon
  <1>9. (qq + x * wm) * y + z = g
    <2>1. qq * y + U = g
      BY <1>1, <1>4, Zenon
    <2>2. (qq + x * wm) * y = qq * y + x * (wm * y)
      BY <1>6
    <2>3. qq * y \in Int /\ x * (wm * y) \in Int /\ U \in Int
      BY <1>1, <1>6
    <2>4. PICK e \in Int, a \in Int, h \in Int :
            e = x * (wm * y) /\ a = qq * y /\ h = (qq + x * wm) * y
      BY <1>6, <2>3
    <2>5. z = U - e /\ a + U = g /\ h = a + e
      BY <1>7, <2>1, <2>2, <2>4, Zenon
    <2>6. h + z = g
      BY <2>3, <2>5
    <2> QED
      BY <2>4, <2>6, Zenon
  <1>10. z < wm * y
    <2>1. (x + 1) * (wm * y) = x * (wm * y) + wm * y /\ x * (wm * y) \in Int /\ wm * y \in Int
      BY <1>6
    <2> QED
      BY <1>1, <1>7, <2>1
  <1>11. Balanced(uo, vo, d, j + 1, v, w, uq, vq, z)
    <2>1. QuotientRow(w, 4 - (vo - uo) + (j + 1)) /\ z < Weight((vo - uo) + 1 - (j + 1)) * Value(v)
      BY <1>2, <1>4, <1>8, <1>10, Zenon
    <2>2. Quad(w) * Value(v) + z = uq * Bit[d]
      BY <1>4, <1>8, <1>9, Zenon
    <2> QED
      BY <1>1, <1>2, <2>1, <2>2, Zenon DEF Balanced
  <1>12. Window(u, p + 1)
    <2>1. PartOf(v, vo, p, 0) < Weight(4 - p)
      BY <1>3, PlaceIs, Zenon
    <2>2. PICK W \in Nat : W = Weight(4 - p)
      BY WeightPositive
    <2>3. wm * y < W
      BY <1>5, <2>1, <2>2, Zenon
    <2>4. z < W
      BY <1>10, <2>3
    <2>5. Value(u) < Weight(4 - p)
      BY <1>4, <2>2, <2>4, Zenon
    <2>6. u \in DigitRows /\ p \in 0 .. 4
      BY <1>3 DEF Window
    <2>7. \A i \in 0 .. p : u[i] = 0
      BY <2>5, <2>6, SmallLead, Zenon
    <2>8. (p + 1) - 1 = p
      OBVIOUS
    <2> QED
      BY <2>6, <2>7, <2>8 DEF Window
  <1> QED
    BY <1>2, <1>4, <1>11, <1>12, Zenon

-----------------------------------------------------------------------------
(***************************************************************************)
(* The frames of the loops, and what holds of them when U is what was left *)
(* of the dividend at the last digit.                                      *)
(***************************************************************************)
Places == {"loop", "trial", "subtract", "add", "finish"}

DivisionFrames == [pc : Places,
           m : Int, n : Int, d : Int, j : Int, uo : Int, vo : Int, qo : Int,
           q : [0 .. 4 -> Int], qhat : Int, rhat : Int, i : Int, t : Int,
           u : [0 .. 4 -> Int], v : [0 .. 4 -> Int]]

Common(f, uq, vq, U) ==
  /\ f \in DivisionFrames
  /\ f.n = 4 - f.vo /\ f.m = f.vo - f.uo /\ f.qo = 4 - (f.vo - f.uo)
  /\ Balanced(f.uo, f.vo, f.d, f.j, f.v, f.q, uq, vq, U)

Phase(f, U) ==
  /\ f.pc = "finish" => f.j = f.m + 1 /\ f.u \in DigitRows /\ Value(f.u) = U
  /\ f.pc # "finish" => f.j <= f.vo - f.uo
  /\ f.pc = "loop" => Looking(f.u, f.v, f.vo, f.uo + f.j, U)
  /\ f.pc = "trial" => /\ Trying(f.u, f.v, f.vo, f.uo + f.j, f.qhat, f.rhat, U)
                       /\ f.i = f.n /\ f.t = 0
  /\ f.pc = "subtract" => SubtractPhase(f.u, f.v, f.vo, f.uo + f.j, f.i, f.qhat, f.t, U)
  /\ f.pc = "add" => AddPhase(f.u, f.v, f.vo, f.uo + f.j, f.i, f.qhat, f.t, U)

UnderWay(f, uq, vq, U) == Common(f, uq, vq, U) /\ Phase(f, U)

\* D3 changes nothing but the trial quotient and the place.
TrialSet(f, g, h, r, c, k, t) ==
  /\ g \in DivisionFrames /\ g.n = f.n /\ g.m = f.m /\ g.qo = f.qo /\ g.uo = f.uo /\ g.vo = f.vo
  /\ g.d = f.d /\ g.j = f.j /\ g.v = f.v /\ g.q = f.q /\ g.u = f.u
  /\ g.qhat = h /\ g.rhat = r /\ g.i = k /\ g.t = t /\ g.pc = c

LEMMA TrialFrame ==
  ASSUME NEW f \in DivisionFrames, NEW h \in Int, NEW r \in Int, NEW c \in Places, NEW k \in Int, NEW t \in Int,
         NEW g, g = [f EXCEPT !.qhat = h, !.rhat = r, !.pc = c, !.i = k, !.t = t]
  PROVE  TrialSet(f, g, h, r, c, k, t)
  BY DEF DivisionFrames, TrialSet

LEMMA PlaceFrame ==
  ASSUME NEW f \in DivisionFrames, NEW c \in Places, NEW g, g = [f EXCEPT !.pc = c]
  PROVE  TrialSet(f, g, f.qhat, f.rhat, c, f.i, f.t)
  BY DEF DivisionFrames, TrialSet

\* The trial quotient goes on to the next trial or to D4.
LEMMA Retried ==
  ASSUME NEW f, NEW uq, NEW vq, NEW U, Common(f, uq, vq, U), f.j <= f.vo - f.uo,
         NEW qhat \in Int, NEW rhat \in Int,
         rhat + vi(f, 1) \in Nat,
         Outcome(f.u, f.v, f.vo, f.uo + f.j, qhat - 1, rhat + vi(f, 1), U),
         NEW g, g = qhat_too_big(f, qhat, rhat)
  PROVE  UnderWay(g, uq, vq, U)
  <1>0. PICK r \in Nat, h \in Int : r = rhat + vi(f, 1) /\ h = qhat - 1
    OBVIOUS
  <1>1. f \in DivisionFrames
    BY DEF Common
  <1>2. g = [f EXCEPT !.qhat = h, !.rhat = r, !.pc = IF r >= B THEN "subtract" ELSE "trial",
                      !.i = f.n, !.t = 0]
    BY <1>0 DEF qhat_too_big
  <1>3. /\ g \in DivisionFrames /\ g.n = f.n /\ g.m = f.m /\ g.qo = f.qo /\ g.uo = f.uo /\ g.vo = f.vo
        /\ g.d = f.d /\ g.j = f.j /\ g.v = f.v /\ g.q = f.q /\ g.u = f.u
        /\ g.qhat = h /\ g.rhat = r /\ g.i = f.n /\ g.t = 0
        /\ (r >= B => g.pc = "subtract") /\ (~(r >= B) => g.pc = "trial")
    <2>1. PICK c \in Places : c = IF r >= B THEN "subtract" ELSE "trial"
      BY DEF Places
    <2>2. g = [f EXCEPT !.qhat = h, !.rhat = r, !.pc = c, !.i = f.n, !.t = 0]
      BY <1>2, <2>1, Zenon
    <2>3. r \in Int /\ f.n \in Int /\ 0 \in Int
      BY <1>1 DEF DivisionFrames
    <2>4. TrialSet(f, g, h, r, c, f.n, 0)
      BY <1>1, <2>2, <2>3, TrialFrame, Zenon
    <2>5. (r >= B => c = "subtract") /\ (~(r >= B) => c = "trial")
      BY <2>1
    <2> QED
      BY <2>4, <2>5, Zenon DEF TrialSet
  <1>4. Common(g, uq, vq, U) /\ f.n = 4 - f.vo
    BY <1>3, Zenon DEF Common
  <1>5. Outcome(g.u, g.v, g.vo, g.uo + g.j, h, r, U) /\ g.j <= g.vo - g.uo
    BY <1>0, <1>3, Zenon
  <1>6. CASE r >= B
    <2>1. Tried(g.u, g.v, g.vo, g.uo + g.j, h, U)
      BY <1>5, <1>6, Zenon DEF Outcome
    <2>2. SubtractPhase(g.u, g.v, g.vo, g.uo + g.j, 4 - g.vo, h, 0, U)
      BY <2>1, SubtractStarts, Zenon
    <2>3. SubtractPhase(g.u, g.v, g.vo, g.uo + g.j, g.i, g.qhat, g.t, U) /\ g.pc = "subtract"
      BY <1>3, <1>4, <1>6, <2>2, Zenon
    <2>4. Phase(g, U)
      BY <1>5, <2>3 DEF Phase
    <2> QED
      BY <1>4, <2>4, Zenon DEF UnderWay
  <1>7. CASE ~(r >= B)
    <2>1. Trying(g.u, g.v, g.vo, g.uo + g.j, h, r, U)
      BY <1>5, <1>7, Zenon DEF Outcome
    <2>2. /\ Trying(g.u, g.v, g.vo, g.uo + g.j, g.qhat, g.rhat, U) /\ g.pc = "trial"
          /\ g.i = g.n /\ g.t = 0
      BY <1>3, <1>7, <2>1, Zenon
    <2>3. Phase(g, U)
      BY <1>5, <2>2 DEF Phase
    <2> QED
      BY <1>4, <2>3, Zenon DEF UnderWay
  <1> QED
    BY <1>6, <1>7, Zenon

LEMMA FirstTrialStep ==
  ASSUME NEW f, NEW uq, NEW vq, NEW U, UnderWay(f, uq, vq, U), f.pc = "loop",
         NEW g, g = first_trial(f)
  PROVE  UnderWay(g, uq, vq, U)
  <1>1. f \in DivisionFrames /\ Common(f, uq, vq, U) /\ f.n = 4 - f.vo
    BY Zenon DEF UnderWay, Common
  <1>2. Looking(f.u, f.v, f.vo, f.uo + f.j, U) /\ f.j <= f.vo - f.uo
    BY DEF UnderWay, Phase
  <1>3. PICK p \in Int : p = f.uo + f.j /\ p + 0 = p
    BY <1>1 DEF DivisionFrames
  <1>4. /\ uj(f, 0) = f.u[p] /\ uj(f, 1) = f.u[p + 1]
        /\ vi(f, 1) = f.v[f.vo + 1]
    BY <1>3, Zenon DEF uj, vi
  <1>5. PICK nn : nn = COMBINE(uj(f, 0), uj(f, 1)) /\ nn = COMBINE(f.u[p], f.u[p + 1])
    BY <1>4, Zenon
  <1>6. /\ f.u[p] = f.v[f.vo + 1] =>
             /\ f.u[p + 1] + f.v[f.vo + 1] \in Nat
             /\ Outcome(f.u, f.v, f.vo, p, B - 1, f.u[p + 1] + f.v[f.vo + 1], U)
        /\ f.u[p] # f.v[f.vo + 1] =>
             Trying(f.u, f.v, f.vo, p, nn \div f.v[f.vo + 1], nn % f.v[f.vo + 1], U)
    <2>1. Looking(f.u, f.v, f.vo, p, U)
      BY <1>2, <1>3, Zenon
    <2>2. nn = COMBINE(f.u[p], f.u[p + 1])
      BY <1>5
    <2> QED
      BY <2>1, <2>2, FirstTrial, Zenon
  <1>7. p \in 0 .. 2 /\ f.u \in DigitRows
    <2>1. Placed(f.v, f.vo, p) /\ Window(f.u, p)
      BY <1>2, <1>3, Zenon DEF Looking
    <2> QED
      BY <2>1, PlaceIs, Zenon DEF Window
  <1>8. CASE uj(f, 0) = vi(f, 1)
    <2>1. g = qhat_too_big(f, B, uj(f, 1))
      BY <1>8, Zenon DEF first_trial
    <2>2. uj(f, 1) \in Int /\ B \in Int
      BY <1>4, <1>7, BIs DEF DigitRows
    <2>3. uj(f, 1) + vi(f, 1) \in Nat
            /\ Outcome(f.u, f.v, f.vo, f.uo + f.j, B - 1, uj(f, 1) + vi(f, 1), U)
      BY <1>3, <1>4, <1>6, <1>8, Zenon
    <2> QED
      BY <1>1, <1>2, <2>1, <2>2, <2>3, Retried, Zenon
  <1>9. CASE uj(f, 0) # vi(f, 1)
    <2>1. PICK h, r : h = nn \div vi(f, 1) /\ r = nn % vi(f, 1)
      OBVIOUS
    <2>2. Trying(f.u, f.v, f.vo, p, h, r, U)
      BY <1>4, <1>6, <1>9, <2>1, Zenon
    <2>3. h \in Int /\ r \in Int
      BY <2>2, BIs DEF Trying, NotTooSmall
    <2>4. g = [f EXCEPT !.qhat = h, !.rhat = r, !.pc = "trial", !.i = f.n, !.t = 0]
      BY <1>5, <1>9, <2>1 DEF first_trial
    <2>5. /\ g \in DivisionFrames /\ g.n = f.n /\ g.m = f.m /\ g.qo = f.qo /\ g.uo = f.uo /\ g.vo = f.vo
          /\ g.d = f.d /\ g.j = f.j /\ g.v = f.v /\ g.q = f.q /\ g.u = f.u
          /\ g.qhat = h /\ g.rhat = r /\ g.i = f.n /\ g.t = 0 /\ g.pc = "trial"
      <3>1. f.n \in Int /\ 0 \in Int /\ "trial" \in Places
        BY <1>1 DEF DivisionFrames, Places
      <3>2. TrialSet(f, g, h, r, "trial", f.n, 0)
        BY <1>1, <2>3, <2>4, <3>1, TrialFrame, Zenon
      <3> QED
        BY <3>2, Zenon DEF TrialSet
    <2>6. Common(g, uq, vq, U)
      BY <1>1, <2>5, Zenon DEF Common
    <2>7. Trying(g.u, g.v, g.vo, g.uo + g.j, g.qhat, g.rhat, U)
            /\ g.j <= g.vo - g.uo /\ g.i = g.n /\ g.t = 0
      BY <1>2, <1>3, <2>2, <2>5, Zenon
    <2>8. Phase(g, U)
      BY <2>5, <2>7 DEF Phase
    <2> QED
      BY <2>6, <2>8, Zenon DEF UnderWay
  <1> QED
    BY <1>8, <1>9, Zenon

LEMMA TrialStep ==
  ASSUME NEW f, NEW uq, NEW vq, NEW U, UnderWay(f, uq, vq, U), f.pc = "trial",
         NEW g, g = trial(f)
  PROVE  UnderWay(g, uq, vq, U)
  <1>1. f \in DivisionFrames /\ Common(f, uq, vq, U) /\ f.n = 4 - f.vo
    BY Zenon DEF UnderWay, Common
  <1>2. /\ Trying(f.u, f.v, f.vo, f.uo + f.j, f.qhat, f.rhat, U) /\ f.j <= f.vo - f.uo
        /\ f.i = f.n /\ f.t = 0
    BY DEF UnderWay, Phase
  <1>3. PICK p : p = f.uo + f.j
    OBVIOUS
  <1>4. Trying(f.u, f.v, f.vo, p, f.qhat, f.rhat, U) /\ Looking(f.u, f.v, f.vo, p, U)
          /\ NotTooSmall(f.u, f.v, f.vo, p, f.qhat, f.rhat, U)
          /\ f.qhat \in 0 .. B - 1 /\ f.rhat \in 0 .. B - 1
    BY <1>2, <1>3, Zenon DEF Trying, NotTooSmall
  <1>5. PICK b \in Nat : b = B /\ b > 1
    BY BIs
  <1>6. p \in 0 .. 2 /\ f.u \in DigitRows /\ f.v \in DigitRows /\ f.vo \in 0 .. 2
    <2>1. Placed(f.v, f.vo, p) /\ Window(f.u, p)
      BY <1>4, Zenon DEF Looking
    <2> QED
      BY <2>1, PlaceIs, Zenon DEF Window, Placed
  <1>7. PICK v2 \in 0 .. b - 1, qh \in 0 .. b - 1, rh \in Nat : v2 = f.v[f.vo + 2] /\ qh = f.qhat /\ rh = f.rhat
    <2>1. f.vo + 2 \in 0 .. 4
      BY <1>6
    <2>2. f.v[f.vo + 2] \in 0 .. B - 1
      BY <1>6, <2>1 DEF DigitRows
    <2>3. f.rhat \in Nat
      BY <1>4, BIs
    <2> QED
      BY <1>4, <1>5, <2>2, <2>3, Zenon
  <1>8. UInt(vi(f, 2) * f.qhat) = v2 * qh /\ COMBINE(f.rhat, uj(f, 2)) = f.rhat * B + f.u[p + 2]
    <2>1. (v2 * qh) % (b * b) = v2 * qh
      BY <1>5, ProductFits
    <2> QED
      BY <1>3, <1>5, <1>7, <2>1, Zenon DEF UInt, vi, uj, COMBINE
  <1>9. CASE UInt(vi(f, 2) * f.qhat) > COMBINE(f.rhat, uj(f, 2))
    <2>1. g = qhat_too_big(f, f.qhat, f.rhat)
      BY <1>9, Zenon DEF trial
    <2>2. f.v[f.vo + 2] * f.qhat > f.rhat * B + f.u[p + 2]
      BY <1>7, <1>8, <1>9, Zenon
    <2>3. f.rhat + f.v[f.vo + 1] \in Nat
            /\ Outcome(f.u, f.v, f.vo, p, f.qhat - 1, f.rhat + f.v[f.vo + 1], U)
      BY <1>4, <2>2, Decremented, Zenon
    <2>4. f.rhat + vi(f, 1) \in Nat
            /\ Outcome(f.u, f.v, f.vo, f.uo + f.j, f.qhat - 1, f.rhat + vi(f, 1), U)
      BY <1>3, <2>3, Zenon DEF vi
    <2>5. f.qhat \in Int /\ f.rhat \in Int
      BY <1>1 DEF DivisionFrames
    <2> QED
      BY <1>1, <1>2, <2>1, <2>4, <2>5, Retried, Zenon
  <1>10. CASE ~(UInt(vi(f, 2) * f.qhat) > COMBINE(f.rhat, uj(f, 2)))
    <2>1. g = [f EXCEPT !.pc = "subtract"]
      BY <1>10, Zenon DEF trial
    <2>2. f.v[f.vo + 2] * f.qhat <= f.rhat * B + f.u[p + 2]
      <3>1. PICK x \in Nat, y \in Nat : x = v2 * qh /\ y = rh * b + f.u[p + 2]
        <4>1. p + 2 \in 0 .. 4
          BY <1>6
        <4>2. PICK c \in Nat : c = f.u[p + 2]
          BY <1>6, <4>1, BIs DEF DigitRows
        <4>3. v2 * qh \in Nat /\ rh * b + c \in Nat
          BY <1>5
        <4> QED
          BY <4>2, <4>3, Zenon
      <3>2. ~(x > y)
        BY <1>5, <1>7, <1>8, <1>10, <3>1, Zenon
      <3>3. x <= y
        BY <3>2
      <3> QED
        BY <1>5, <1>7, <3>1, <3>3, Zenon
    <2>3. Tried(f.u, f.v, f.vo, p, f.qhat, U)
      <3>1. f.rhat \in Nat
        BY <1>4, BIs
      <3> QED
        BY <1>4, <2>2, <3>1, CloseEnough, Zenon
    <2>4. SubtractPhase(f.u, f.v, f.vo, p, 4 - f.vo, f.qhat, 0, U)
      BY <2>3, SubtractStarts, Zenon
    <2>5. /\ g \in DivisionFrames /\ g.n = f.n /\ g.m = f.m /\ g.qo = f.qo /\ g.uo = f.uo /\ g.vo = f.vo
          /\ g.d = f.d /\ g.j = f.j /\ g.v = f.v /\ g.q = f.q /\ g.u = f.u
          /\ g.qhat = f.qhat /\ g.i = f.i /\ g.t = f.t /\ g.pc = "subtract"
      <3>1. "subtract" \in Places
        BY DEF Places
      <3>2. TrialSet(f, g, f.qhat, f.rhat, "subtract", f.i, f.t)
        BY <1>1, <2>1, <3>1, PlaceFrame, Zenon
      <3> QED
        BY <3>2, Zenon DEF TrialSet
    <2>6. Common(g, uq, vq, U)
      BY <1>1, <2>5, Zenon DEF Common
    <2>7. SubtractPhase(g.u, g.v, g.vo, g.uo + g.j, g.i, g.qhat, g.t, U) /\ g.j <= g.vo - g.uo
      BY <1>1, <1>2, <1>3, <2>4, <2>5, Zenon
    <2>8. Phase(g, U)
      BY <2>5, <2>7 DEF Phase
    <2> QED
      BY <2>6, <2>8, Zenon DEF UnderWay
  <1> QED
    BY <1>9, <1>10, Zenon

\* What D4 to D7 change of a frame.
Updated(f, g, c, j, q, h, k, t, u) ==
  /\ g \in DivisionFrames /\ g.n = f.n /\ g.m = f.m /\ g.qo = f.qo /\ g.uo = f.uo /\ g.vo = f.vo
  /\ g.d = f.d /\ g.v = f.v
  /\ g.pc = c /\ g.j = j /\ g.q = q /\ g.qhat = h /\ g.i = k /\ g.t = t /\ g.u = u

LEMMA WindowFrame ==
  ASSUME NEW f \in DivisionFrames, NEW k, NEW l, NEW w \in [0 .. 4 -> Int], w = [f.u EXCEPT ![k] = l],
         NEW g, g = [f EXCEPT !.u[k] = l]
  PROVE  Updated(f, g, f.pc, f.j, f.q, f.qhat, f.i, f.t, w)
  <1>1. g = [f EXCEPT !.u = w]
    OBVIOUS
  <1> QED
    BY <1>1 DEF DivisionFrames, Updated

LEMMA RoundFrame ==
  ASSUME NEW f \in DivisionFrames, NEW t \in Int, NEW k \in Int, NEW g, g = [f EXCEPT !.t = t, !.i = k]
  PROVE  Updated(f, g, f.pc, f.j, f.q, f.qhat, k, t, f.u)
  BY DEF DivisionFrames, Updated

LEMMA BackFrame ==
  ASSUME NEW f \in DivisionFrames, NEW h \in Int, NEW c \in Places, NEW t \in Int, NEW k \in Int,
         NEW g, g = [f EXCEPT !.qhat = h, !.pc = c, !.i = k, !.t = t]
  PROVE  Updated(f, g, c, f.j, f.q, h, k, t, f.u)
  BY DEF DivisionFrames, Updated

LEMMA DigitFrame ==
  ASSUME NEW f \in DivisionFrames, NEW j \in Int, NEW c \in Places, NEW k, NEW x,
         NEW w \in [0 .. 4 -> Int], w = [f.q EXCEPT ![k] = x],
         NEW g, g = [f EXCEPT !.q[k] = x, !.j = j, !.pc = c]
  PROVE  Updated(f, g, c, j, w, f.qhat, f.i, f.t, f.u)
  <1>1. g = [f EXCEPT !.q = w, !.j = j, !.pc = c]
    BY DEF DivisionFrames
  <1> QED
    BY <1>1 DEF DivisionFrames, Updated

LEMMA CommonKept ==
  ASSUME NEW f, NEW g, NEW uq, NEW vq, NEW U, NEW c, NEW h, NEW k, NEW t, NEW u,
         Common(f, uq, vq, U), Updated(f, g, c, f.j, f.q, h, k, t, u)
  PROVE  Common(g, uq, vq, U)
  BY Zenon DEF Common, Updated

LEMMA NextDigitStep ==
  ASSUME NEW f, NEW uq, NEW vq, NEW U, Common(f, uq, vq, U), f.j <= f.vo - f.uo,
         Found(f.u, f.v, f.vo, f.uo + f.j, f.qhat, U), NEW g, g = next_digit(f)
  PROVE  \E U1 : UnderWay(g, uq, vq, U1)
  <1>1. /\ f \in DivisionFrames /\ f.n = 4 - f.vo /\ f.m = f.vo - f.uo /\ f.qo = 4 - (f.vo - f.uo)
        /\ Balanced(f.uo, f.vo, f.d, f.j, f.v, f.q, uq, vq, U)
    BY Zenon DEF Common
  <1>2. PICK w : w = [f.q EXCEPT ![4 - (f.vo - f.uo) + f.j] = f.qhat]
    OBVIOUS
  <1>3. PICK U1 : U1 = Value(f.u)
    OBVIOUS
  <1>4. /\ Balanced(f.uo, f.vo, f.d, f.j + 1, f.v, w, uq, vq, U1)
        /\ Window(f.u, f.uo + (f.j + 1))
    BY <1>1, <1>2, <1>3, NextBalanced, Zenon
  <1>5. w \in [0 .. 4 -> Int] /\ f.u \in DigitRows
    BY <1>4 DEF Balanced, QuotientRow, Window
  <1>6. f.j + 1 \in Int /\ f.m \in Int /\ f.j \in Int
    BY <1>1 DEF DivisionFrames
  <1>7. PICK c \in Places : c = IF f.j + 1 <= f.m THEN "loop" ELSE "finish"
    BY DEF Places
  <1>8. Updated(f, g, c, f.j + 1, w, f.qhat, f.i, f.t, f.u)
    <2>1. PICK k : k = f.qo + f.j
      OBVIOUS
    <2>2. w = [f.q EXCEPT ![k] = f.qhat]
      BY <1>1, <1>2, <2>1, Zenon
    <2>3. g = [f EXCEPT !.q[k] = f.qhat, !.j = f.j + 1, !.pc = c]
      BY <1>7, <2>1, Zenon DEF next_digit
    <2> QED
      BY <1>1, <1>5, <1>6, <2>2, <2>3, DigitFrame, Zenon
  <1>9. /\ g \in DivisionFrames /\ g.n = f.n /\ g.m = f.m /\ g.qo = f.qo /\ g.uo = f.uo /\ g.vo = f.vo
        /\ g.d = f.d /\ g.v = f.v /\ g.pc = c /\ g.j = f.j + 1 /\ g.q = w /\ g.u = f.u
    BY <1>8, Zenon DEF Updated
  <1>10. Common(g, uq, vq, U1) /\ Balanced(g.uo, g.vo, g.d, g.j, g.v, g.q, uq, vq, U1)
    BY <1>1, <1>4, <1>9, Zenon DEF Common
  <1>11. U1 \in Nat
    BY <1>4, Zenon DEF Balanced
  <1>12. CASE f.j + 1 <= f.m
    <2>1. g.pc = "loop" /\ g.j <= g.vo - g.uo
      BY <1>1, <1>7, <1>9, <1>12
    <2>2. Placed(g.v, g.vo, g.uo + g.j) /\ U1 < B * PartOf(g.v, g.vo, g.uo + g.j, 0)
      BY <1>10, <2>1, PlacedThere, Zenon
    <2>3. Looking(g.u, g.v, g.vo, g.uo + g.j, U1)
      BY <1>3, <1>4, <1>9, <1>11, <2>2, Zenon DEF Looking
    <2>4. Phase(g, U1)
      BY <2>1, <2>3 DEF Phase
    <2> QED
      BY <1>10, <2>4, Zenon DEF UnderWay
  <1>13. CASE ~(f.j + 1 <= f.m)
    <2>1. g.pc = "finish"
      BY <1>7, <1>9, <1>13
    <2>2. f.j + 1 = f.m + 1
      <3>1. f.j <= f.m
        BY <1>1, Zenon
      <3> QED
        BY <1>6, <1>13, <3>1
    <2>3. g.j = g.m + 1 /\ g.u \in DigitRows /\ Value(g.u) = U1
      BY <1>3, <1>5, <1>9, <2>2, Zenon
    <2>4. Phase(g, U1)
      BY <2>1, <2>3 DEF Phase
    <2> QED
      BY <1>10, <2>4, Zenon DEF UnderWay
  <1> QED
    BY <1>12, <1>13, Zenon

LEMMA SubtractStep ==
  ASSUME NEW f, NEW uq, NEW vq, NEW U, UnderWay(f, uq, vq, U), f.pc = "subtract",
         NEW g, g = subtract(f)
  PROVE  \E U1 : UnderWay(g, uq, vq, U1)
  <1>1. f \in DivisionFrames /\ Common(f, uq, vq, U) /\ f.n = 4 - f.vo
    BY Zenon DEF UnderWay, Common
  <1>2. PICK p : p = f.uo + f.j
    OBVIOUS
  <1>3. SubtractPhase(f.u, f.v, f.vo, p, f.i, f.qhat, f.t, U) /\ f.j <= f.vo - f.uo
    <2>1. SubtractPhase(f.u, f.v, f.vo, f.uo + f.j, f.i, f.qhat, f.t, U) /\ f.j <= f.vo - f.uo
      BY DEF UnderWay, Phase
    <2> QED
      BY <1>2, <2>1, Zenon
  <1>4. PICK s : s = UInt(uj(f, f.i) - (IF f.i > 0 THEN vi(f, f.i) * f.qhat ELSE 0) - f.t)
    OBVIOUS
  <1>5. PICK w, h : w = [f.u EXCEPT ![p + f.i] = LHALF(s)]
                      /\ h = [f EXCEPT !.u[f.uo + f.j + f.i] = LHALF(s)]
    OBVIOUS
  <1>6. /\ f.i > 0 => g = [h EXCEPT !.t = (B - HHALF(s)) % B, !.i = f.i - 1]
        /\ ~(f.i > 0) => g = test_remainder(h, HHALF(s) # 0)
    BY <1>4, <1>5, Zenon DEF subtract
  <1>7. ASSUME Window(w, p)
        PROVE  Updated(f, h, f.pc, f.j, f.q, f.qhat, f.i, f.t, w)
    <2>1. w \in [0 .. 4 -> Int]
      BY <1>7, BIs DEF Window, DigitRows
    <2>2. PICK k, l : k = p + f.i /\ l = LHALF(s)
      OBVIOUS
    <2>3. w = [f.u EXCEPT ![k] = l] /\ h = [f EXCEPT !.u[k] = l]
      BY <1>2, <1>5, <2>2, Zenon
    <2> QED
      BY <1>1, <2>1, <2>3, WindowFrame, Zenon
  <1>8. CASE f.i > 0
    <2>1. s = UInt(f.u[p + f.i] - f.v[f.vo + f.i] * f.qhat - f.t)
      BY <1>2, <1>4, <1>8, Zenon DEF uj, vi
    <2>2. SubtractPhase(w, f.v, f.vo, p, f.i - 1, f.qhat, (B - HHALF(s)) % B, U)
      <3>1. w = [f.u EXCEPT ![p + f.i] = LHALF(s)]
        BY <1>5
      <3> QED
        BY <1>3, <1>8, <2>1, <3>1, SubtractGoes, Zenon
    <2>3. Window(w, p) /\ (B - HHALF(s)) % B \in 0 .. B - 1 /\ f.i - 1 \in 0 .. 4 - f.vo
      BY <2>2, Zenon DEF SubtractPhase
    <2>4. PICK t, k : t = (B - HHALF(s)) % B /\ k = f.i - 1
      OBVIOUS
    <2>5. t \in Int /\ k \in Int
      <3>1. f.i \in Int /\ t \in 0 .. B - 1
        BY <1>1, <2>3, <2>4 DEF DivisionFrames
      <3> QED
        BY <2>4, <3>1, BIs
    <2>6. Updated(f, h, f.pc, f.j, f.q, f.qhat, f.i, f.t, w)
      BY <1>7, <2>3, Zenon
    <2>7. h \in DivisionFrames
      BY <2>6, Zenon DEF Updated
    <2>8. Updated(h, g, h.pc, h.j, h.q, h.qhat, k, t, h.u)
      <3>1. g = [h EXCEPT !.t = t, !.i = k]
        BY <1>6, <1>8, <2>4, Zenon
      <3> QED
        BY <2>5, <2>7, <3>1, RoundFrame, Zenon
    <2>9. Updated(f, g, "subtract", f.j, f.q, f.qhat, k, t, w)
      BY <2>6, <2>8, Zenon DEF Updated
    <2>10. Common(g, uq, vq, U)
      BY <1>1, <2>9, CommonKept, Zenon
    <2>11. /\ g.pc = "subtract" /\ g.j <= g.vo - g.uo
           /\ SubtractPhase(g.u, g.v, g.vo, g.uo + g.j, g.i, g.qhat, g.t, U)
      BY <1>2, <1>3, <2>2, <2>4, <2>9, Zenon DEF Updated
    <2>12. Phase(g, U)
      BY <2>11 DEF Phase
    <2> QED
      BY <2>10, <2>12, Zenon DEF UnderWay
  <1>9. CASE ~(f.i > 0)
    <2>0. f.i = 0 /\ p + 0 = p /\ f.uo + f.j + f.i = p
      <3>1. f.i \in 0 .. 4 - f.vo /\ Placed(f.v, f.vo, p)
        BY <1>3, Zenon DEF SubtractPhase
      <3>2. f.i = 0
        BY <1>9, <3>1
      <3>3. p + 0 = p
        BY <3>1, PlaceIs
      <3> QED
        BY <1>2, <3>2, <3>3, Zenon
    <2>1. s = UInt(f.u[p] - 0 - f.t)
      BY <1>4, <1>9, <2>0, Zenon DEF uj
    <2>2. w = [f.u EXCEPT ![p] = LHALF(s)]
      BY <1>5, <2>0, Zenon
    <2>3. /\ HHALF(s) = 0 => Found(w, f.v, f.vo, p, f.qhat, U)
          /\ HHALF(s) # 0 => AddPhase(w, f.v, f.vo, p, 4 - f.vo, f.qhat - 1, 0, U)
      <3>1. SubtractPhase(f.u, f.v, f.vo, p, 0, f.qhat, f.t, U)
        BY <1>3, <2>0, Zenon
      <3> QED
        BY <2>1, <2>2, <3>1, SubtractEnds, Zenon
    <2>4. Window(w, p)
      BY <2>3, Zenon DEF Found, AddPhase
    <2>5. Updated(f, h, f.pc, f.j, f.q, f.qhat, f.i, f.t, w)
      BY <1>7, <2>4, Zenon
    <2>6. /\ h \in DivisionFrames /\ h.n = f.n /\ h.uo = f.uo /\ h.vo = f.vo /\ h.v = f.v
          /\ h.j = f.j /\ h.q = f.q /\ h.qhat = f.qhat /\ h.u = w
      BY <2>5, Zenon DEF Updated
    <2>7. Common(h, uq, vq, U)
      BY <1>1, <2>5, CommonKept, Zenon
    <2>8. CASE HHALF(s) = 0
      <3>1. g = next_digit(h)
        BY <1>6, <1>9, <2>8, Zenon DEF test_remainder
      <3>2. Found(h.u, h.v, h.vo, h.uo + h.j, h.qhat, U) /\ h.j <= h.vo - h.uo
        BY <1>2, <1>3, <2>3, <2>6, <2>8, Zenon
      <3> QED
        BY <2>7, <3>1, <3>2, NextDigitStep, Zenon
    <2>9. CASE HHALF(s) # 0
      <3>1. PICK x, k : x = h.qhat - 1 /\ k = h.n
        OBVIOUS
      <3>2. g = [h EXCEPT !.qhat = x, !.pc = "add", !.i = k, !.t = 0]
        BY <1>6, <1>9, <2>9, <3>1, Zenon DEF test_remainder
      <3>3. x \in Int /\ k \in Int /\ "add" \in Places /\ 0 \in Int
        BY <2>6, <3>1 DEF DivisionFrames, Places
      <3>4. Updated(h, g, "add", h.j, h.q, x, k, 0, h.u)
        BY <2>6, <3>2, <3>3, BackFrame, Zenon
      <3>5. Common(g, uq, vq, U)
        BY <2>7, <3>4, CommonKept, Zenon
      <3>6. /\ g.pc = "add" /\ g.j = f.j /\ g.vo = f.vo /\ g.uo = f.uo /\ g.v = f.v /\ g.u = w
            /\ g.i = 4 - f.vo /\ g.t = 0 /\ g.qhat = f.qhat - 1
        BY <1>1, <2>6, <3>1, <3>4, Zenon DEF Updated
      <3>7. AddPhase(g.u, g.v, g.vo, g.uo + g.j, g.i, g.qhat, g.t, U) /\ g.j <= g.vo - g.uo
        BY <1>2, <1>3, <2>3, <2>9, <3>6, Zenon
      <3>8. Phase(g, U)
        BY <3>6, <3>7 DEF Phase
      <3> QED
        BY <3>5, <3>8, Zenon DEF UnderWay
    <2> QED
      BY <2>8, <2>9, Zenon
  <1> QED
    BY <1>8, <1>9, Zenon

LEMMA AddStep ==
  ASSUME NEW f, NEW uq, NEW vq, NEW U, UnderWay(f, uq, vq, U), f.pc = "add",
         NEW g, g = add(f)
  PROVE  \E U1 : UnderWay(g, uq, vq, U1)
  <1>1. f \in DivisionFrames /\ Common(f, uq, vq, U) /\ f.n = 4 - f.vo
    BY Zenon DEF UnderWay, Common
  <1>2. PICK p : p = f.uo + f.j
    OBVIOUS
  <1>3. AddPhase(f.u, f.v, f.vo, p, f.i, f.qhat, f.t, U) /\ f.j <= f.vo - f.uo
    <2>1. AddPhase(f.u, f.v, f.vo, f.uo + f.j, f.i, f.qhat, f.t, U) /\ f.j <= f.vo - f.uo
      BY DEF UnderWay, Phase
    <2> QED
      BY <1>2, <2>1, Zenon
  <1>4. PICK s : s = f.t + uj(f, f.i) + (IF f.i > 0 THEN vi(f, f.i) ELSE 0)
    OBVIOUS
  <1>5. PICK w, h : w = [f.u EXCEPT ![p + f.i] = LHALF(s)]
                      /\ h = [f EXCEPT !.u[f.uo + f.j + f.i] = LHALF(s)]
    OBVIOUS
  <1>6. /\ f.i > 0 => g = [h EXCEPT !.t = HHALF(s), !.i = f.i - 1]
        /\ ~(f.i > 0) => g = next_digit(h)
    BY <1>4, <1>5, Zenon DEF add
  <1>7. ASSUME Window(w, p)
        PROVE  Updated(f, h, f.pc, f.j, f.q, f.qhat, f.i, f.t, w)
    <2>1. w \in [0 .. 4 -> Int]
      BY <1>7, BIs DEF Window, DigitRows
    <2>2. PICK k, l : k = p + f.i /\ l = LHALF(s)
      OBVIOUS
    <2>3. w = [f.u EXCEPT ![k] = l] /\ h = [f EXCEPT !.u[k] = l]
      BY <1>2, <1>5, <2>2, Zenon
    <2> QED
      BY <1>1, <2>1, <2>3, WindowFrame, Zenon
  <1>8. CASE f.i > 0
    <2>1. s = f.t + f.u[p + f.i] + f.v[f.vo + f.i]
      BY <1>2, <1>4, <1>8, Zenon DEF uj, vi
    <2>2. AddPhase(w, f.v, f.vo, p, f.i - 1, f.qhat, HHALF(s), U)
      <3>1. w = [f.u EXCEPT ![p + f.i] = LHALF(s)]
        BY <1>5
      <3> QED
        BY <1>3, <1>8, <2>1, <3>1, AddGoes, Zenon
    <2>3. Window(w, p) /\ HHALF(s) \in 0 .. 1
      BY <2>2, Zenon DEF AddPhase
    <2>4. PICK t, k : t = HHALF(s) /\ k = f.i - 1
      OBVIOUS
    <2>5. t \in Int /\ k \in Int
      <3>1. f.i \in Int /\ t \in 0 .. 1
        BY <1>1, <2>3, <2>4 DEF DivisionFrames
      <3> QED
        BY <2>4, <3>1
    <2>6. Updated(f, h, f.pc, f.j, f.q, f.qhat, f.i, f.t, w)
      BY <1>7, <2>3, Zenon
    <2>7. h \in DivisionFrames
      BY <2>6, Zenon DEF Updated
    <2>8. Updated(h, g, h.pc, h.j, h.q, h.qhat, k, t, h.u)
      <3>1. g = [h EXCEPT !.t = t, !.i = k]
        BY <1>6, <1>8, <2>4, Zenon
      <3> QED
        BY <2>5, <2>7, <3>1, RoundFrame, Zenon
    <2>9. Updated(f, g, "add", f.j, f.q, f.qhat, k, t, w)
      BY <2>6, <2>8, Zenon DEF Updated
    <2>10. Common(g, uq, vq, U)
      BY <1>1, <2>9, CommonKept, Zenon
    <2>11. /\ g.pc = "add" /\ g.j <= g.vo - g.uo
           /\ AddPhase(g.u, g.v, g.vo, g.uo + g.j, g.i, g.qhat, g.t, U)
      BY <1>2, <1>3, <2>2, <2>4, <2>9, Zenon DEF Updated
    <2>12. Phase(g, U)
      BY <2>11 DEF Phase
    <2> QED
      BY <2>10, <2>12, Zenon DEF UnderWay
  <1>9. CASE ~(f.i > 0)
    <2>0. f.i = 0 /\ p + 0 = p /\ f.uo + f.j + f.i = p
      <3>1. f.i \in 0 .. 4 - f.vo /\ Placed(f.v, f.vo, p)
        BY <1>3, Zenon DEF AddPhase
      <3>2. f.i = 0
        BY <1>9, <3>1
      <3>3. p + 0 = p
        BY <3>1, PlaceIs
      <3> QED
        BY <1>2, <3>2, <3>3, Zenon
    <2>1. s = f.t + f.u[p] + 0
      BY <1>4, <1>9, <2>0, Zenon DEF uj
    <2>2. w = [f.u EXCEPT ![p] = LHALF(s)]
      BY <1>5, <2>0, Zenon
    <2>3. Found(w, f.v, f.vo, p, f.qhat, U)
      <3>1. AddPhase(f.u, f.v, f.vo, p, 0, f.qhat, f.t, U)
        BY <1>3, <2>0, Zenon
      <3> QED
        BY <2>1, <2>2, <3>1, AddEnds, Zenon
    <2>4. Window(w, p)
      BY <2>3, Zenon DEF Found
    <2>5. Updated(f, h, f.pc, f.j, f.q, f.qhat, f.i, f.t, w)
      BY <1>7, <2>4, Zenon
    <2>6. /\ h \in DivisionFrames /\ h.n = f.n /\ h.uo = f.uo /\ h.vo = f.vo /\ h.v = f.v
          /\ h.j = f.j /\ h.q = f.q /\ h.qhat = f.qhat /\ h.u = w
      BY <2>5, Zenon DEF Updated
    <2>7. Common(h, uq, vq, U)
      BY <1>1, <2>5, CommonKept, Zenon
    <2>8. Found(h.u, h.v, h.vo, h.uo + h.j, h.qhat, U) /\ h.j <= h.vo - h.uo
      BY <1>2, <1>3, <2>3, <2>6, Zenon
    <2>9. g = next_digit(h)
      BY <1>6, <1>9, Zenon
    <2> QED
      BY <2>7, <2>8, <2>9, NextDigitStep, Zenon
  <1> QED
    BY <1>8, <1>9, Zenon

-----------------------------------------------------------------------------
(***************************************************************************)
(* D8: the remainder.                                                      *)
(***************************************************************************)
LEMMA BelowWeight ==
  ASSUME NEW p \in DigitRows, NEW k \in 0 .. 4, \A i \in 0 .. k : p[i] = 0
  PROVE  Value(p) \in Nat /\ Value(p) < Weight(4 - k)
  <1>1. p \in [0 .. 4 -> Int]
    BY BIs DEF DigitRows
  <1>2. Value(p) = Rest(p, k)
    BY <1>1, ZerosLead
  <1> QED
    BY <1>2, RestBound, Zenon

LEMMA AtLeastWeight ==
  ASSUME NEW p \in DigitRows, NEW k \in 0 .. 4, p[k] # 0
  PROVE  Weight(4 - k) <= Value(p)
  <1>1. PICK w \in Nat, x \in Nat, y \in Nat : w = Weight(4 - k) /\ x = p[k] /\ y = Value(p) /\ x > 0
    <2>1. 4 - k \in 0 .. 4
      OBVIOUS
    <2> QED
      BY <2>1, BIs, WeightPositive, RestBound DEF DigitRows
  <1>2. x * w <= y
    BY <1>1, DigitCounts, Zenon
  <1>3. w <= x * w
    BY <1>1
  <1>4. w <= y
    <2>1. x * w \in Int
      OBVIOUS
    <2> QED
      BY <1>2, <1>3, <2>1
  <1> QED
    BY <1>1, <1>4, Zenon

\* U is the remainder R, shifted.
Left(uq, vq, g, qq, U) == qq * (vq * g) + U = uq * g /\ U < vq * g
LeftIs(uq, vq, g, qq, U, R) == U = R * g /\ qq * vq + R = uq /\ R < vq

LEMMA WhatIsLeft ==
  ASSUME NEW uq \in Nat, NEW vq \in Nat, NEW g \in Nat, g > 0, NEW qq \in Nat, NEW U \in Nat,
         Left(uq, vq, g, qq, U)
  PROVE  \E R \in Nat : LeftIs(uq, vq, g, qq, U, R)
  <1>0. qq * (vq * g) + U = uq * g /\ U < vq * g
    BY DEF Left
  <1>1. PICK R \in Int : R = uq - qq * vq /\ qq * vq + R = uq
    <2>1. qq * vq \in Int
      OBVIOUS
    <2> QED
      BY <2>1
  <1>2. R * g = U
    <2>1. (uq - qq * vq) * g = uq * g - qq * (vq * g)
      OBVIOUS
    <2>2. PICK a \in Int, c \in Int : a = uq * g /\ c = qq * (vq * g)
      OBVIOUS
    <2>3. R * g = a - c /\ c + U = a
      BY <1>0, <1>1, <2>1, <2>2, Zenon
    <2> QED
      BY <2>2, <2>3
  <1>3. R >= 0
    <2>1. SUFFICES ASSUME R + 1 <= 0 PROVE FALSE
      OBVIOUS
    <2>2. (R + 1) * g <= 0 * g
      BY <2>1, Multiplied
    <2>3. (R + 1) * g = R * g + g /\ 0 * g = 0
      OBVIOUS
    <2>4. U + g <= 0
      BY <1>2, <2>2, <2>3, Zenon
    <2> QED
      BY <2>4
  <1>4. R < vq
    <2>1. R * g < vq * g
      BY <1>0, <1>2, Zenon
    <2> QED
      BY <2>1, Divided
  <1>5. R \in Nat
    BY <1>3
  <1> QED
    BY <1>1, <1>2, <1>4, <1>5, Zenon DEF LeftIs

\* A finished division: Euclid's equation.
Exact(f, uq, vq) ==
  f.pc = "done" /\ f.quot * vq + f.rem = uq /\ f.rem < vq

LEMMA FinishStep ==
  ASSUME NEW f, NEW uq, NEW vq, NEW U, UnderWay(f, uq, vq, U), f.pc = "finish"
  PROVE  Exact(Finished(f), uq, vq)
  <1>1. /\ f \in DivisionFrames /\ f.n = 4 - f.vo /\ f.m = f.vo - f.uo
        /\ Balanced(f.uo, f.vo, f.d, f.j, f.v, f.q, uq, vq, U)
    BY Zenon DEF UnderWay, Common
  <1>2. f.j = f.m + 1 /\ f.u \in DigitRows /\ Value(f.u) = U
    BY DEF UnderWay, Phase
  <1>3. PICK u, v, q, d, vo, uo :
          u = f.u /\ v = f.v /\ q = f.q /\ d = f.d /\ vo = f.vo /\ uo = f.uo
    OBVIOUS
  <1>4. /\ vo \in 0 .. 2 /\ uo \in 0 .. vo /\ d \in 0 .. HalfBits - 1
        /\ uq \in Nat /\ vq \in Nat /\ vq > 0 /\ u \in DigitRows /\ Value(u) = U
        /\ v \in DigitRows /\ (\A k \in 0 .. vo : v[k] = 0)
        /\ Value(v) = vq * Bit[d]
        /\ U \in Nat /\ Quad(q) * Value(v) + U = uq * Bit[d] /\ q \in [0 .. 4 -> Nat]
        /\ U < Weight((vo - uo) + 1 - f.j) * Value(v)
    BY <1>1, <1>2, <1>3, Zenon DEF Balanced, QuotientRow
  <1>5. f.uo + f.m = vo /\ f.uo + f.m + f.n = 4 /\ (vo - uo) + 1 - f.j = 0
    <2>1. /\ vo \in Int /\ uo \in Int /\ f.n = 4 - vo /\ f.m = vo - uo /\ f.j = (vo - uo) + 1
          /\ f.uo = uo
      <3>1. vo \in Int /\ uo \in Int
        BY <1>4
      <3> QED
        BY <1>1, <1>2, <1>3, <3>1, Zenon
    <2> QED
      BY <2>1
  <1>6. d \in 0 .. HalfBits
    BY <1>4, HalfBitsAssumption
  <1>7. PICK g \in Nat, qq \in Nat, y \in Nat : g = Bit[d] /\ g > 0 /\ qq = Quad(q) /\ y = Value(v)
    BY <1>4, <1>6, BitIs, QuotientNat, RestBound
  <1>8. y = vq * g /\ qq * (vq * g) + U = uq * g /\ U < vq * g
    <2>1. y = vq * g /\ qq * y + U = uq * g
      BY <1>4, <1>7, Zenon
    <2>2. U < 1 * y
      BY <1>4, <1>5, <1>7, WeightIs, Zenon
    <2>3. 1 * y = y
      OBVIOUS
    <2> QED
      BY <2>1, <2>2, <2>3, Zenon
  <1>9. PICK R \in Nat : U = R * g /\ qq * vq + R = uq /\ R < vq
    <2>1. g > 0 /\ uq \in Nat /\ vq \in Nat /\ U \in Nat
      BY <1>4, <1>7
    <2>2. Left(uq, vq, g, qq, U)
      BY <1>8, Zenon DEF Left
    <2>3. PICK R \in Nat : LeftIs(uq, vq, g, qq, U, R)
      BY <2>1, <2>2, WhatIsLeft, Zenon
    <2> QED
      BY <2>3, Zenon DEF LeftIs
  <1>10. \A i \in 0 .. vo : u[i] = 0
    <2>1. vo \in 0 .. 4 /\ 4 - vo \in 0 .. 4
      BY <1>4
    <2>2. Value(v) < Weight(4 - vo)
      BY <1>4, <2>1, BelowWeight
    <2>3. PICK W \in Nat : W = Weight(4 - vo)
      BY <2>1, WeightPositive
    <2>4. U < y /\ y < W
      BY <1>7, <1>8, <2>2, <2>3, Zenon
    <2>5. U < W
      BY <1>4, <2>4
    <2>6. Value(u) < Weight(4 - vo)
      BY <1>4, <2>3, <2>5, Zenon
    <2> QED
      BY <1>4, <2>1, <2>6, SmallLead
  <1>11. umoddi3(f) = R
    <2>1. CASE d = 0
      <3>1. Remainder(f) = u
        BY <1>3, <2>1, Zenon DEF Remainder
      <3>2. u \in [0 .. 4 -> Int] /\ u[0] = 0
        BY <1>4, <1>10, BIs DEF DigitRows
      <3>3. Quad(u) = U
        BY <1>4, <3>2, QuadIs
      <3>4. g = 1
        BY <1>7, <2>1, BitIs, Zenon
      <3>5. R * 1 = R
        OBVIOUS
      <3> QED
        BY <1>9, <3>1, <3>3, <3>4, <3>5, Zenon DEF umoddi3
    <2>2. CASE d # 0
      <3>1. PICK r : r = Remainder(f)
        OBVIOUS
      <3>2. r = ShiftedBack(u, vo, d)
        BY <1>3, <1>5, <2>2, <3>1, Zenon DEF Remainder, ShiftedBack
      <3>3. vo \in 0 .. 4
        BY <1>4
      <3>4. Value(u) = R * Bit[d]
        BY <1>4, <1>7, <1>9, Zenon
      <3>5. Quad(r) = R
        <4>1. u \in DigitRows
          BY <1>4
        <4> QED
          BY <1>6, <1>10, <3>2, <3>3, <3>4, <4>1, RemainderIs
      <3> QED
        BY <3>1, <3>5, Zenon DEF umoddi3
    <2> QED
      BY <2>1, <2>2, Zenon
  <1>12. udivdi3(f) = qq
    BY <1>3, <1>7, Zenon DEF udivdi3
  <1>13. PICK h : h = Finished(f)
    OBVIOUS
  <1>14. h.pc = "done" /\ h.quot = qq /\ h.rem = R
    BY <1>11, <1>12, <1>13 DEF Finished, Answer
  <1> QED
    BY <1>9, <1>13, <1>14, Zenon DEF Exact

-----------------------------------------------------------------------------
(***************************************************************************)
(* D1: the frame with which the loop starts.                               *)
(***************************************************************************)
ShiftedRow(p, w, from, d) ==
  /\ w \in DigitRows /\ Value(w) = Value(p) * Bit[d]
  /\ \A i \in 0 .. from - 1 : w[i] = 0

LEMMA NormalisedRow ==
  ASSUME NEW p \in DigitRows, NEW from \in 0 .. 4, NEW len, len = 4 - from,
         NEW d \in 0 .. HalfBits, \A i \in 0 .. from - 1 : p[i] = 0,
         p[from] * Bit[d] < B, NEW w, w = IF d > 0 THEN shl(p, from, len, d) ELSE p
  PROVE  ShiftedRow(p, w, from, d)
  <1>1. CASE d > 0
    <2>1. w = shl(p, from, len, d)
      BY <1>1, Zenon
    <2>2. /\ shl(p, from, len, d) \in DigitRows
          /\ Value(shl(p, from, len, d)) = Value(p) * Bit[d]
          /\ \A i \in 0 .. from - 1 : shl(p, from, len, d)[i] = 0
      BY ShlMultiplies, Zenon
    <2> QED
      BY <2>1, <2>2, Zenon DEF ShiftedRow
  <1>2. CASE ~(d > 0)
    <2>1. w = p
      BY <1>2, Zenon
    <2>2. d = 0
      BY <1>2, HalfBitsAssumption
    <2>3. Bit[d] = 1
      BY <2>2, BitIs, Zenon
    <2>4. Value(p) * 1 = Value(p)
      <3>1. PICK x \in Nat : x = Value(p)
        BY RestBound
      <3>2. x * 1 = x
        OBVIOUS
      <3> QED
        BY <3>1, <3>2, Zenon
    <2> QED
      BY <2>1, <2>3, <2>4, Zenon DEF ShiftedRow
  <1> QED
    BY <1>1, <1>2, Zenon

\* The dividend has no fewer digits than the divisor, and the divisor has two.
LEMMA PlacesIs ==
  ASSUME NEW u \in DigitRows, NEW v \in DigitRows, NEW uo \in 0 .. 3, NEW vo \in 0 .. 3,
         \A i \in 0 .. uo : u[i] = 0, \A i \in 0 .. vo : v[i] = 0, v[vo + 1] # 0,
         Value(v) <= Value(u), B <= Value(v)
  PROVE  /\ vo \in 0 .. 2 /\ uo \in 0 .. vo
         /\ Value(u) < Weight((vo - uo) + 1) * Value(v)
  <1>1. PICK x \in Nat, y \in Nat : x = Value(u) /\ y = Value(v)
    BY RestBound
  <1>2. uo \in 0 .. 4 /\ vo \in 0 .. 4 /\ vo + 1 \in 0 .. 4
    OBVIOUS
  <1>3. x < Weight(4 - uo) /\ y < Weight(4 - vo)
    BY <1>1, <1>2, BelowWeight
  <1>4. Weight(4 - (vo + 1)) <= y
    BY <1>1, <1>2, AtLeastWeight
  <1>5. vo # 3
    <2>1. SUFFICES ASSUME vo = 3 PROVE FALSE
      OBVIOUS
    <2>2. 4 - vo = 1
      BY <2>1
    <2>3. y < B /\ B <= y
      BY <1>1, <1>3, <2>2, WeightIs, Zenon
    <2> QED
      BY <2>3, BIs
  <1>6. uo <= vo
    <2>1. SUFFICES ASSUME vo + 1 <= uo PROVE FALSE
      OBVIOUS
    <2>2. PICK w1 \in Nat, w2 \in Nat : w1 = Weight(4 - uo) /\ w2 = Weight(4 - (vo + 1))
      <3>1. 4 - uo \in 0 .. 4 /\ 4 - (vo + 1) \in 0 .. 4
        OBVIOUS
      <3> QED
        BY <3>1, WeightPositive
    <2>3. w1 <= w2
      <3>1. 4 - uo \in 0 .. 4 /\ 4 - (vo + 1) \in 0 .. 4 /\ 4 - uo <= 4 - (vo + 1)
        BY <2>1
      <3> QED
        BY <1>2, <2>1, <2>2, <3>1, WeightGrows
    <2>4. x < w1 /\ w2 <= y /\ y <= x
      BY <1>1, <1>3, <1>4, <2>2, Zenon
    <2> QED
      BY <2>3, <2>4
  <1>7. x < Weight((vo - uo) + 1) * y
    <2>1. PICK a \in 0 .. 4, c \in 0 .. 4 : a = (vo - uo) + 1 /\ c = 4 - (vo + 1) /\ a + c = 4 - uo
      BY <1>5, <1>6
    <2>2. PICK wa \in Nat, wc \in Nat : wa = Weight(a) /\ wc = Weight(c)
      BY WeightPositive
    <2>3. Weight(4 - uo) = wa * wc
      <3>1. a + c <= 4
        BY <2>1
      <3>2. Weight(a + c) = Weight(a) * Weight(c)
        BY <3>1, WeightProduct
      <3> QED
        BY <2>1, <2>2, <3>2, Zenon
    <2>4. wc <= y /\ x < wa * wc
      BY <1>3, <1>4, <2>1, <2>2, <2>3, Zenon
    <2>5. wc * wa <= y * wa
      BY <2>4, Multiplied
    <2>6. wc * wa = wa * wc /\ y * wa = wa * y /\ wa * y \in Int /\ wa * wc \in Int
      OBVIOUS
    <2>7. x < wa * y
      BY <2>4, <2>5, <2>6
    <2> QED
      BY <2>1, <2>2, <2>7, Zenon
  <1> QED
    BY <1>1, <1>5, <1>6, <1>7

LEMMA NothingFound ==
  ASSUME NEW k \in Nat, NEW q, q = [i \in 0 .. 4 |-> 0]
  PROVE  QuotientRow(q, k) /\ Quad(q) = 0
  <1>1. /\ q \in [0 .. 4 -> Nat] /\ \A i \in 0 .. 4 : q[i] = 0
        /\ q[0] = 0 /\ q[1] = 0 /\ q[2] = 0 /\ q[3] = 0 /\ q[4] = 0
    OBVIOUS
  <1>2. \A i \in k .. 4 : q[i] = 0
    BY <1>1
  <1>3. PICK b \in Nat : b = B
    BY BIs
  <1>4. ((0 * b + 0) * b + 0) * b + 0 = 0
    OBVIOUS
  <1>5. Quad(q) = 0
    BY <1>1, <1>3, <1>4, Zenon DEF Quad, COMBINE
  <1> QED
    BY <1>1, <1>2, <1>5, Zenon DEF QuotientRow

\* The parts of the frame that D1 makes.
ShiftOf(v, vo) == CHOOSE s \in 0 .. HalfBits - 1 : v[vo + 1] * Bit[s] \in B \div 2 .. B - 1

FrameOf(u, v, uo, vo, n, m, d, q) ==
  [pc |-> "loop", m |-> m, n |-> n, d |-> d, j |-> 0, uo |-> uo, vo |-> vo,
   qo |-> 4 - m, q |-> q, qhat |-> 0, rhat |-> 0, i |-> 0, t |-> 0,
   u |-> IF d > 0 THEN shl(u, uo, m + n, d) ELSE u,
   v |-> IF d > 0 THEN shl(v, vo + 1, n - 1, d) ELSE v]

LEMMA NormalisedParts ==
  ASSUME NEW uq, NEW vq
  PROVE  Normalised(uq, vq) =
           FrameOf(Digits(uq), Digits(vq), LeadingZeros(Digits(uq)), LeadingZeros(Digits(vq)),
                   4 - LeadingZeros(Digits(vq)),
                   LeadingZeros(Digits(vq)) - LeadingZeros(Digits(uq)),
                   ShiftOf(Digits(vq), LeadingZeros(Digits(vq))), [i \in 0 .. 4 |-> 0])
  BY DEF Normalised, FrameOf, ShiftOf

LEMMA NormalisedStarts ==
  ASSUME NEW uq \in Nat, NEW vq \in Nat, uq < Weight(4), vq < Weight(4), vq <= uq, B <= vq,
         NEW f, f = Normalised(uq, vq)
  PROVE  \E U : UnderWay(f, uq, vq, U)
  <1>1. PICK u, v : u = Digits(uq) /\ v = Digits(vq)
    OBVIOUS
  <1>2. /\ u \in DigitRows /\ u[0] = 0 /\ Value(u) = uq
        /\ v \in DigitRows /\ v[0] = 0 /\ Value(v) = vq
    BY <1>1, DigitsOK
  <1>3. PICK uo, vo : uo = LeadingZeros(u) /\ vo = LeadingZeros(v)
    OBVIOUS
  <1>4. uq > 0 /\ vq > 0 /\ Value(u) > 0 /\ Value(v) > 0
    BY <1>2, BIs
  <1>5. uo \in 0 .. 3 /\ \A i \in 0 .. uo : u[i] = 0
    BY <1>2, <1>3, <1>4, LeadingZerosIs
  <1>6. vo \in 0 .. 3 /\ v[vo + 1] # 0 /\ \A i \in 0 .. vo : v[i] = 0
    BY <1>2, <1>3, <1>4, LeadingZerosIs
  <1>7. vo \in 0 .. 2 /\ uo \in 0 .. vo /\ uq < Weight((vo - uo) + 1) * vq
    <2>1. Value(v) <= Value(u) /\ B <= Value(v)
      BY <1>2, Zenon
    <2>2. vo \in 0 .. 2 /\ uo \in 0 .. vo /\ Value(u) < Weight((vo - uo) + 1) * Value(v)
      BY <1>2, <1>5, <1>6, <2>1, PlacesIs
    <2> QED
      BY <1>2, <2>2, Zenon
  <1>8. PICK n, m : n = 4 - vo /\ m = vo - uo
    OBVIOUS
  <1>9. /\ n \in Int /\ m \in Int /\ m + n = 4 - uo /\ n - 1 = 4 - (vo + 1) /\ 4 - m \in Int
        /\ m + 1 \in 0 .. 4 /\ vo + 1 \in 0 .. 4 /\ uo \in 0 .. 4 /\ (vo + 1) - 1 = vo
    BY <1>7, <1>8
  <1>10. PICK d : d = ShiftOf(v, vo)
    OBVIOUS
  <1>11. d \in 0 .. HalfBits - 1 /\ v[vo + 1] * Bit[d] \in B \div 2 .. B - 1
    <2>1. v[vo + 1] \in 1 .. B - 1
      BY <1>2, <1>6, <1>9 DEF DigitRows
    <2>2. \E s \in 0 .. HalfBits - 1 : v[vo + 1] * Bit[s] \in B \div 2 .. B - 1
      BY <2>1, HasShift
    <2> QED
      BY <1>10, <2>2, Zenon DEF ShiftOf
  <1>12. d \in 0 .. HalfBits /\ v[vo + 1] * Bit[d] < B
    <2>1. d \in 0 .. HalfBits
      BY <1>11, HalfBitsAssumption
    <2>2. PICK x : x = v[vo + 1] * Bit[d]
      OBVIOUS
    <2>3. x \in B \div 2 .. B - 1
      BY <1>11, <2>2, Zenon
    <2>4. x < B
      BY <2>3, BIs
    <2> QED
      BY <2>1, <2>2, <2>4, Zenon
  <1>13. PICK su, sv, q :
           /\ su = IF d > 0 THEN shl(u, uo, m + n, d) ELSE u
           /\ sv = IF d > 0 THEN shl(v, vo + 1, n - 1, d) ELSE v
           /\ q = [i \in 0 .. 4 |-> 0]
    OBVIOUS
  <1>14. f = [pc |-> "loop", m |-> m, n |-> n, d |-> d, j |-> 0, uo |-> uo, vo |-> vo,
              qo |-> 4 - m, q |-> q, qhat |-> 0, rhat |-> 0, i |-> 0, t |-> 0,
              u |-> su, v |-> sv]
    <2>1. Normalised(uq, vq) =
            FrameOf(Digits(uq), Digits(vq), LeadingZeros(Digits(uq)), LeadingZeros(Digits(vq)),
                    4 - LeadingZeros(Digits(vq)),
                    LeadingZeros(Digits(vq)) - LeadingZeros(Digits(uq)),
                    ShiftOf(Digits(vq), LeadingZeros(Digits(vq))), [i \in 0 .. 4 |-> 0])
      BY NormalisedParts
    <2>2. f = FrameOf(u, v, uo, vo, n, m, d, q)
      BY <1>1, <1>3, <1>8, <1>10, <1>13, <2>1, Zenon
    <2> QED
      BY <1>13, <2>2, Zenon DEF FrameOf
  <1>15. PICK g \in Nat : g = Bit[d] /\ g > 0
    BY <1>12, BitIs
  <1>16. ShiftedRow(u, su, uo, d)
    <2>1. u[uo] = 0 /\ \A i \in 0 .. uo - 1 : u[i] = 0
      BY <1>5
    <2>2. u[uo] * Bit[d] < B
      <3>1. 0 * g < B
        BY BIs
      <3> QED
        BY <1>15, <2>1, <3>1, Zenon
    <2>3. PICK len : len = m + n
      OBVIOUS
    <2>4. len = 4 - uo /\ su = IF d > 0 THEN shl(u, uo, len, d) ELSE u
      BY <1>9, <1>13, <2>3, Zenon
    <2> QED
      BY <1>2, <1>9, <1>12, <2>1, <2>2, <2>4, NormalisedRow, Zenon
  <1>17. ShiftedRow(v, sv, vo + 1, d)
    <2>1. PICK len, from : len = n - 1 /\ from = vo + 1
      OBVIOUS
    <2>2. /\ len = 4 - from /\ from \in 0 .. 4
          /\ v[from] * Bit[d] < B
      BY <1>9, <1>12, <2>1, Zenon
    <2>3. \A i \in 0 .. from - 1 : v[i] = 0
      BY <1>6, <1>9, <2>1, Zenon
    <2>4. sv = IF d > 0 THEN shl(v, from, len, d) ELSE v
      BY <1>13, <2>1, Zenon
    <2>5. d \in 0 .. HalfBits /\ v \in DigitRows
      BY <1>2, <1>12, Zenon
    <2>6. ShiftedRow(v, sv, from, d)
      BY <2>2, <2>3, <2>4, <2>5, NormalisedRow, Zenon
    <2> QED
      BY <2>1, <2>6, Zenon
  <1>18. /\ su \in DigitRows /\ Value(su) = uq * g /\ (\A i \in 0 .. uo - 1 : su[i] = 0)
         /\ sv \in DigitRows /\ Value(sv) = vq * g /\ (\A i \in 0 .. vo : sv[i] = 0)
    BY <1>2, <1>9, <1>15, <1>16, <1>17, Zenon DEF ShiftedRow
  <1>19. sv[vo + 1] # 0
    <2>1. SUFFICES ASSUME sv[vo + 1] = 0 PROVE FALSE
      OBVIOUS
    <2>2. \A i \in 0 .. vo + 1 : sv[i] = 0
      BY <1>7, <1>18, <2>1
    <2>3. Value(sv) < Weight(4 - (vo + 1))
      BY <1>9, <1>18, <2>2, BelowWeight
    <2>4. Weight(4 - (vo + 1)) <= Value(v)
      BY <1>2, <1>6, <1>9, AtLeastWeight
    <2>5. PICK W \in Nat : W = Weight(4 - (vo + 1))
      <3>1. 4 - (vo + 1) \in 0 .. 4
        BY <1>7
      <3> QED
        BY <3>1, WeightPositive
    <2>6. vq * g < W /\ W <= vq
      BY <1>2, <1>18, <2>3, <2>4, <2>5, Zenon
    <2>7. vq <= vq * g /\ vq * g \in Int
      BY <1>15
    <2> QED
      BY <2>6, <2>7
  <1>20. PICK U \in Nat : U = uq * g
    OBVIOUS
  <1>21. Balanced(uo, vo, d, 0, sv, q, uq, vq, U)
    <2>1. QuotientRow(q, 4 - (vo - uo) + 0) /\ Quad(q) = 0
      <3>1. 4 - (vo - uo) + 0 \in Nat /\ q = [i \in 0 .. 4 |-> 0]
        BY <1>7, <1>13
      <3> QED
        BY <3>1, NothingFound
    <2>2. 0 \in 0 .. (vo - uo) + 1 /\ (vo - uo) + 1 - 0 = (vo - uo) + 1
      BY <1>7
    <2>3. Quad(q) * Value(sv) + U = uq * Bit[d]
      <3>1. 0 * (vq * g) + U = U
        BY <1>20
      <3> QED
        BY <1>15, <1>18, <1>20, <2>1, <3>1, Zenon
    <2>4. U < Weight((vo - uo) + 1 - 0) * Value(sv)
      <3>1. PICK w \in Nat : w = Weight((vo - uo) + 1)
        BY <1>8, <1>9, WeightPositive
      <3>2. uq < w * vq
        BY <1>7, <3>1, Zenon
      <3>3. uq * g < w * (vq * g)
        <4>1. (uq + 1) * g <= (w * vq) * g
          BY <3>2, Multiplied
        <4>2. (uq + 1) * g = uq * g + g /\ (w * vq) * g = w * (vq * g) /\ uq * g \in Int /\ w * (vq * g) \in Int
          OBVIOUS
        <4> QED
          BY <1>15, <4>1, <4>2
      <3> QED
        BY <1>18, <1>20, <2>2, <3>1, <3>3, Zenon
    <2>5. Value(sv) = vq * Bit[d]
      BY <1>15, <1>18, Zenon
    <2> QED
      BY <1>4, <1>7, <1>11, <1>18, <1>19, <2>1, <2>2, <2>3, <2>4, <2>5, Zenon DEF Balanced
  <1>22. /\ f.pc = "loop" /\ f.m = m /\ f.n = n /\ f.d = d /\ f.j = 0 /\ f.uo = uo /\ f.vo = vo
         /\ f.qo = 4 - m /\ f.q = q /\ f.u = su /\ f.v = sv
    BY <1>14
  <1>23. f \in DivisionFrames
    <2>1. su \in [0 .. 4 -> Int] /\ sv \in [0 .. 4 -> Int] /\ q \in [0 .. 4 -> Int]
      BY <1>13, <1>18, BIs DEF DigitRows
    <2>2. "loop" \in Places /\ d \in Int /\ uo \in Int /\ vo \in Int /\ 0 \in Int
      BY <1>7, <1>11 DEF Places
    <2> QED
      BY <1>9, <1>14, <2>1, <2>2 DEF DivisionFrames
  <1>24. Common(f, uq, vq, U)
    BY <1>8, <1>21, <1>22, <1>23, Zenon DEF Common
  <1>25. f.j <= f.vo - f.uo /\ uo + 0 = uo
    <2>1. 0 <= vo - uo /\ uo + 0 = uo
      BY <1>7
    <2> QED
      BY <1>22, <2>1, Zenon
  <1>26. Looking(f.u, f.v, f.vo, f.uo + f.j, U)
    <2>1. Balanced(f.uo, f.vo, f.d, f.j, f.v, f.q, uq, vq, U)
      BY <1>21, <1>22, Zenon
    <2>2. Placed(f.v, f.vo, f.uo + f.j) /\ U < B * PartOf(f.v, f.vo, f.uo + f.j, 0)
      BY <1>25, <2>1, PlacedThere, Zenon
    <2>3. Window(su, uo)
      BY <1>18, Zenon DEF Window
    <2>4. Window(f.u, f.uo + f.j) /\ Value(f.u) = U
      BY <1>18, <1>20, <1>22, <1>25, <2>3, Zenon
    <2> QED
      BY <2>2, <2>4, Zenon DEF Looking
  <1>27. Phase(f, U)
    BY <1>22, <1>25, <1>26 DEF Phase
  <1> QED
    BY <1>24, <1>27, Zenon DEF UnderWay

-----------------------------------------------------------------------------
(***************************************************************************)
(* The whole division.                                                     *)
(***************************************************************************)
\* What holds of the frame f of the division of uq by vq at every step.
DivisionOK(f, uq, vq) ==
  \/ f.pc = "trap" /\ vq = 0
  \/ Exact(f, uq, vq)
  \/ \E U : UnderWay(f, uq, vq, U)

LEMMA DivisionStarts ==
  ASSUME NEW uq \in Nat, NEW vq \in Nat, uq < Weight(4), vq < Weight(4),
         NEW f, f = qdivrem(uq, vq)
  PROVE  DivisionOK(f, uq, vq)
  <1>1. CASE vq = 0
    <2>1. f = [pc |-> "trap"]
      BY <1>1, Zenon DEF qdivrem
    <2> QED
      BY <1>1, <2>1 DEF DivisionOK
  <1>2. CASE vq # 0 /\ uq < vq
    <2>1. f = Answer(0, uq)
      BY <1>2, Zenon DEF qdivrem
    <2>2. f.pc = "done" /\ f.quot = 0 /\ f.rem = uq
      BY <2>1 DEF Answer
    <2>3. 0 * vq + uq = uq
      OBVIOUS
    <2> QED
      BY <1>2, <2>2, <2>3, Zenon DEF DivisionOK, Exact
  <1>3. CASE vq # 0 /\ ~(uq < vq) /\ vq < B
    <2>1. f = OneDigit(uq, vq)
      BY <1>3, Zenon DEF qdivrem
    <2>2. vq > 0
      BY <1>3
    <2>3. /\ OneDigit(uq, vq).quot * vq + OneDigit(uq, vq).rem = uq
          /\ OneDigit(uq, vq).rem < vq /\ OneDigit(uq, vq).pc = "done"
      BY <2>2, OneDigitDivides, Zenon
    <2> QED
      BY <2>1, <2>3, Zenon DEF DivisionOK, Exact
  <1>4. CASE vq # 0 /\ ~(uq < vq) /\ ~(vq < B)
    <2>1. f = Normalised(uq, vq)
      BY <1>4, Zenon DEF qdivrem
    <2>2. vq <= uq /\ B <= vq
      BY <1>4, BIs
    <2>3. \E U : UnderWay(f, uq, vq, U)
      BY <2>1, <2>2, NormalisedStarts, Zenon
    <2> QED
      BY <2>3, Zenon DEF DivisionOK
  <1> QED
    BY <1>1, <1>2, <1>3, <1>4, Zenon

LEMMA DivisionStep ==
  ASSUME NEW f, NEW uq, NEW vq, DivisionOK(f, uq, vq), f.pc \notin {"trap", "done"},
         NEW g, g = program_d(f)
  PROVE  DivisionOK(g, uq, vq)
  <1>1. PICK U : UnderWay(f, uq, vq, U)
    BY Zenon DEF DivisionOK, Exact
  <1>2. f.pc \in Places
    BY <1>1 DEF UnderWay, Common, DivisionFrames
  <1>3. CASE f.pc = "loop"
    <2>1. g = first_trial(f)
      BY <1>3 DEF program_d
    <2> QED
      BY <1>1, <1>3, <2>1, FirstTrialStep, Zenon DEF DivisionOK
  <1>4. CASE f.pc = "trial"
    <2>1. g = trial(f)
      BY <1>4 DEF program_d
    <2> QED
      BY <1>1, <1>4, <2>1, TrialStep, Zenon DEF DivisionOK
  <1>5. CASE f.pc = "subtract"
    <2>1. g = subtract(f)
      BY <1>5 DEF program_d
    <2> QED
      BY <1>1, <1>5, <2>1, SubtractStep, Zenon DEF DivisionOK
  <1>6. CASE f.pc = "add"
    <2>1. g = add(f)
      BY <1>6 DEF program_d
    <2> QED
      BY <1>1, <1>6, <2>1, AddStep, Zenon DEF DivisionOK
  <1>7. CASE f.pc = "finish"
    <2>1. g = Finished(f)
      BY <1>7 DEF program_d
    <2>2. Exact(g, uq, vq)
      BY <1>1, <1>7, <2>1, FinishStep, Zenon
    <2> QED
      BY <2>2, Zenon DEF DivisionOK
  <1> QED
    BY <1>2, <1>3, <1>4, <1>5, <1>6, <1>7 DEF Places

\* Between two digits the frame accounts for the whole dividend.
LEMMA DivisionSoFar ==
  ASSUME NEW f, NEW uq, NEW vq, DivisionOK(f, uq, vq), f.pc \in {"loop", "finish"}
  PROVE  SoFarExact(f, uq, vq)
  <1>1. PICK U : UnderWay(f, uq, vq, U)
    BY Zenon DEF DivisionOK, Exact
  <1>2. f.m = f.vo - f.uo /\ Balanced(f.uo, f.vo, f.d, f.j, f.v, f.q, uq, vq, U)
    BY <1>1, Zenon DEF UnderWay, Common
  <1>3. Value(f.u) = U
    <2>1. CASE f.pc = "loop"
      BY <1>1, <2>1 DEF UnderWay, Phase, Looking
    <2>2. CASE f.pc = "finish"
      BY <1>1, <2>2 DEF UnderWay, Phase
    <2> QED
      BY <2>1, <2>2
  <1>4. PICK d, k, w, qq :
          d = f.d /\ k = f.m + 1 - f.j /\ w = Weight(f.m + 1 - f.j) /\ qq = Quad(f.q)
    OBVIOUS
  <1>5. /\ f.vo \in 0 .. 2 /\ f.uo \in 0 .. f.vo /\ d \in 0 .. HalfBits - 1
        /\ f.j \in 0 .. (f.vo - f.uo) + 1 /\ uq \in Nat /\ vq \in Nat
        /\ f.q \in [0 .. 4 -> Nat] /\ Value(f.v) = vq * Bit[d] /\ U \in Nat
        /\ qq * Value(f.v) + U = uq * Bit[d] /\ U < w * Value(f.v)
    BY <1>2, <1>4, Zenon DEF Balanced, QuotientRow
  <1>6. k \in 0 .. 4
    <2>1. /\ f.vo \in 0 .. 2 /\ f.uo \in 0 .. f.vo /\ f.j \in 0 .. (f.vo - f.uo) + 1
          /\ k = (f.vo - f.uo) + 1 - f.j
      BY <1>2, <1>4, <1>5, Zenon
    <2>2. PICK a \in 0 .. 2 : a = f.vo
      BY <2>1
    <2>3. PICK c \in 0 .. a : c = f.uo
      BY <2>1, <2>2
    <2>4. PICK j \in 0 .. (a - c) + 1 : j = f.j
      BY <2>1, <2>2, <2>3
    <2>5. k = (a - c) + 1 - j
      BY <2>1, <2>2, <2>3, <2>4, Zenon
    <2> QED
      BY <2>5
  <1>7. w \in Nat /\ qq \in Nat
    BY <1>4, <1>5, <1>6, WeightPositive, QuotientNat
  <1>8. PICK g \in Nat : g = Bit[d]
    <2>1. d \in 0 .. HalfBits
      BY <1>5, HalfBitsAssumption
    <2> QED
      BY <2>1, BitIs
  <1>9. qq * (vq * g) + U = uq * g /\ U < w * (vq * g)
    BY <1>5, <1>8, Zenon
  <1>10. qq * (vq * g) = qq * vq * g /\ w * (vq * g) = w * vq * g
    BY <1>5, <1>7
  <1>11. qq * vq * g + U = uq * g /\ U < w * vq * g
    BY <1>9, <1>10, Zenon
  <1> QED
    BY <1>3, <1>4, <1>8, <1>11, Zenon DEF SoFarExact

-----------------------------------------------------------------------------
(***************************************************************************)
(* bcopy()                                                                 *)
(***************************************************************************)
Addresses == 0 .. MemSize - 1

\* The bytes of the target at the offsets from first to last - 1 are copied.
Copied(m, from, to, first, last) ==
  m = [i \in Addresses |-> IF i \in to + first .. to + last - 1
                            THEN from + (i - to) ELSE i]

\* Source and target lie in the memory.
InMemory(from, to, bytes) ==
  /\ from \in Nat /\ to \in Nat /\ bytes \in Nat
  /\ from + bytes <= MemSize /\ to + bytes <= MemSize

CopyLocations == {"words", "bytes", "backwards", "ret"}

\* What is left to copy while the pointers go up, with words and bytes to go.
GoingUp(f, from, to, bytes) ==
  /\ f \in [mem : [Addresses -> Int], esi : Int, edi : Int, ecx : Nat,
            bytes : 0 .. 3, pc : CopyLocations]
  /\ ~MustCopyBackwards(from, to, bytes)
  /\ LET done == bytes - (IF f.pc = "words" THEN 4 * f.ecx + f.bytes ELSE f.ecx)
     IN /\ done \in 0 .. bytes /\ f.esi = from + done /\ f.edi = to + done
        /\ Copied(f.mem, from, to, 0, done)

GoingDown(f, from, to, bytes) ==
  /\ f \in [mem : [Addresses -> Int], esi : Int, edi : Int, ecx : Nat, pc : CopyLocations]
  /\ MustCopyBackwards(from, to, bytes)
  /\ f.ecx <= bytes
  /\ f.esi = from + f.ecx - 1 /\ f.edi = to + f.ecx - 1
  /\ Copied(f.mem, from, to, f.ecx, bytes)

CopyOK(f, from, to, bytes) ==
  /\ InMemory(from, to, bytes)
  /\ f.pc \in CopyLocations
  /\ f.pc \in {"words", "bytes"} => GoingUp(f, from, to, bytes)
  /\ f.pc = "backwards" => GoingDown(f, from, to, bytes)
  /\ f.pc = "ret" => Copied(f.mem, from, to, 0, bytes)

LEMMA CopyStarts ==
  ASSUME NEW from \in Nat, NEW to \in Nat, NEW bytes \in Nat,
         InMemory(from, to, bytes)
  PROVE  CopyOK(bcopy(from, to, bytes), from, to, bytes)
  <1>0. MemSize \in Nat
    BY LibcAssumption
  <1>1. PICK f : f = bcopy(from, to, bytes)
    OBVIOUS
  <1>2. PICK m : m = [i \in Addresses |-> i]
    OBVIOUS
  <1>3. m \in [Addresses -> Int] /\ \A k \in Int : Copied(m, from, to, k, k)
    BY <1>0, <1>2 DEF Copied, InMemory, Addresses
  <1>4. CASE from = to /\ bytes > 0
    <2>1. f = [mem |-> m, pc |-> "ret"]
      BY <1>1, <1>2, <1>4 DEF bcopy, Addresses
    <2>2. Copied(m, from, to, 0, bytes)
      BY <1>0, <1>2, <1>4 DEF Copied, InMemory, Addresses
    <2> QED
      BY <1>1, <2>1, <2>2 DEF CopyOK, CopyLocations
  <1>5. CASE /\ ~(from = to /\ bytes > 0)
             /\ MustCopyBackwards(from, to, bytes)
    <2>1. f = [mem |-> m, esi |-> from + bytes - 1, edi |-> to + bytes - 1,
               ecx |-> bytes, pc |-> "backwards"]
      BY <1>1, <1>2, <1>5, Zenon DEF bcopy, Addresses
    <2>2. GoingDown(f, from, to, bytes)
      BY <1>0, <1>3, <1>5, <2>1 DEF GoingDown, InMemory, Addresses, CopyLocations
    <2> QED
      BY <1>1, <2>1, <2>2 DEF CopyOK, CopyLocations
  <1>6. CASE /\ ~(from = to /\ bytes > 0)
             /\ ~MustCopyBackwards(from, to, bytes)
    <2>1. f = [mem |-> m, esi |-> from, edi |-> to, ecx |-> bytes \div 4,
               bytes |-> bytes % 4, pc |-> "words"]
      BY <1>1, <1>2, <1>6, Zenon DEF bcopy, Addresses
    <2>2. PICK q \in Nat, r \in 0 .. 3 : q = bytes \div 4 /\ r = bytes % 4
      OBVIOUS
    <2>4. 4 * q + r = bytes
      BY <2>2
    <2>3. GoingUp(f, from, to, bytes)
      <3>1. f \in [mem : [Addresses -> Int], esi : Int, edi : Int, ecx : Nat,
                   bytes : 0 .. 3, pc : CopyLocations]
        BY <1>0, <1>3, <2>1, <2>2 DEF InMemory, CopyLocations
      <3>2. bytes - (4 * f.ecx + f.bytes) = 0 /\ f.pc = "words" /\ f.mem = m
        BY <2>1, <2>2, <2>4 DEF InMemory
      <3>3. f.esi = from + 0 /\ f.edi = to + 0 /\ 0 \in 0 .. bytes
        BY <1>0, <2>1 DEF InMemory, Addresses
      <3> QED
        BY <1>3, <1>6, <3>1, <3>2, <3>3 DEF GoingUp
    <2> QED
      BY <1>1, <2>1, <2>3 DEF CopyOK, CopyLocations
  <1> QED
    BY <1>4, <1>5, <1>6

\* The memory after a round of a rep.
Moved(mem, esi, edi, len) ==
  [i \in Addresses |-> IF i \in edi .. edi + len - 1 THEN mem[esi + (i - edi)]
                       ELSE mem[i]]

\* A round upwards copies len bytes that no earlier round has overwritten.
LEMMA MovedUp ==
  ASSUME NEW from \in Nat, NEW to \in Nat, NEW bytes \in Nat,
         InMemory(from, to, bytes), ~MustCopyBackwards(from, to, bytes),
         NEW mem \in [Addresses -> Int], NEW done \in Nat, NEW len \in Nat,
         done + len <= bytes, Copied(mem, from, to, 0, done)
  PROVE  /\ Moved(mem, from + done, to + done, len) \in [Addresses -> Int]
         /\ Copied(Moved(mem, from + done, to + done, len), from, to, 0, done + len)
  <1>0. MemSize \in Nat
    BY LibcAssumption
  <1>1. \A k \in Addresses : mem[k] = IF k \in to .. to + done - 1
                                      THEN from + (k - to) ELSE k
    BY DEF Copied
  <1>2. ASSUME NEW i \in Addresses
        PROVE  Moved(mem, from + done, to + done, len)[i]
                 = IF i \in to .. to + (done + len) - 1 THEN from + (i - to) ELSE i
    <2>1. PICK k \in Int : k = from + done + (i - (to + done))
      BY <1>0 DEF Addresses
    <2>2. CASE i \in to + done .. to + done + len - 1
      <3>1. k \in Addresses /\ k \notin to .. to + done - 1
        BY <1>0, <2>1, <2>2 DEF InMemory, Addresses, MustCopyBackwards
      <3>2. Moved(mem, from + done, to + done, len)[i] = mem[k]
        BY <2>1, <2>2 DEF Moved
      <3>3. mem[k] = k
        BY <1>1, <3>1
      <3> QED
        BY <1>0, <2>1, <2>2, <3>2, <3>3 DEF Addresses
    <2>3. CASE i \notin to + done .. to + done + len - 1
      <3>1. Moved(mem, from + done, to + done, len)[i] = mem[i]
        BY <2>3 DEF Moved
      <3> QED
        BY <1>0, <1>1, <2>3, <3>1 DEF Addresses
    <2> QED
      BY <2>2, <2>3
  <1>3. DOMAIN Moved(mem, from + done, to + done, len) = Addresses
    BY DEF Moved
  <1>4. Moved(mem, from + done, to + done, len)
          = [i \in Addresses |-> IF i \in to + 0 .. to + (done + len) - 1
                                  THEN from + (i - to) ELSE i]
    BY <1>2, <1>3 DEF Moved
  <1>5. \A i \in Addresses : i \in Int /\ from + (i - to) \in Int
    BY <1>0 DEF Addresses
  <1> QED
    BY <1>4, <1>5 DEF Copied

\* A round downwards copies a byte that no earlier round has overwritten.
LEMMA MovedDown ==
  ASSUME NEW from \in Nat, NEW to \in Nat, NEW bytes \in Nat,
         InMemory(from, to, bytes), MustCopyBackwards(from, to, bytes),
         NEW mem \in [Addresses -> Int], NEW ecx \in 1 .. bytes,
         Copied(mem, from, to, ecx, bytes)
  PROVE  /\ Moved(mem, from + ecx - 1, to + ecx - 1, 1) \in [Addresses -> Int]
         /\ Copied(Moved(mem, from + ecx - 1, to + ecx - 1, 1), from, to, ecx - 1, bytes)
  <1>0. MemSize \in Nat
    BY LibcAssumption
  <1>1. \A k \in Addresses : mem[k] = IF k \in to + ecx .. to + bytes - 1
                                      THEN from + (k - to) ELSE k
    BY DEF Copied
  <1>2. ASSUME NEW i \in Addresses
        PROVE  Moved(mem, from + ecx - 1, to + ecx - 1, 1)[i]
                 = IF i \in to + (ecx - 1) .. to + bytes - 1 THEN from + (i - to) ELSE i
    <2>1. PICK k \in Int : k = from + ecx - 1 + (i - (to + ecx - 1))
      BY <1>0 DEF Addresses
    <2>2. CASE i = to + ecx - 1
      <3>1. k \in Addresses /\ k \notin to + ecx .. to + bytes - 1
        BY <1>0, <2>1, <2>2 DEF InMemory, Addresses, MustCopyBackwards
      <3>2. Moved(mem, from + ecx - 1, to + ecx - 1, 1)[i] = mem[k]
        BY <2>1, <2>2 DEF Moved
      <3>3. mem[k] = k
        BY <1>1, <3>1
      <3> QED
        BY <1>0, <2>1, <2>2, <3>2, <3>3 DEF Addresses
    <2>3. CASE i # to + ecx - 1
      <3>1. Moved(mem, from + ecx - 1, to + ecx - 1, 1)[i] = mem[i]
        BY <1>0, <2>3 DEF Moved, Addresses
      <3> QED
        BY <1>0, <1>1, <2>3, <3>1 DEF Addresses
    <2> QED
      BY <2>2, <2>3
  <1>3. Moved(mem, from + ecx - 1, to + ecx - 1, 1)
          = [i \in Addresses |-> IF i \in to + (ecx - 1) .. to + bytes - 1
                                  THEN from + (i - to) ELSE i]
    BY <1>2 DEF Moved
  <1>4. \A i \in Addresses : i \in Int /\ from + (i - to) \in Int
    BY <1>0 DEF Addresses
  <1> QED
    BY <1>3, <1>4 DEF Copied

LEMMA CopyStep ==
  ASSUME NEW from \in Nat, NEW to \in Nat, NEW bytes \in Nat, NEW f, NEW g,
         CopyOK(f, from, to, bytes),
         \/ f.pc = "words" /\ g = IF f.ecx > 0 THEN Move(f, 4, 4)
                                  ELSE [f EXCEPT !.ecx = f.bytes, !.pc = "bytes"]
         \/ /\ f.pc \in {"bytes", "backwards"}
            /\ g = IF f.ecx > 0 THEN Move(f, 1, IF f.pc = "bytes" THEN 1 ELSE -1)
                   ELSE [f EXCEPT !.pc = "ret"]
  PROVE  CopyOK(g, from, to, bytes)
  <1>0. InMemory(from, to, bytes)
    BY DEF CopyOK
  <1>1. CASE f.pc \in {"words", "bytes"}
    <2>1. GoingUp(f, from, to, bytes)
      BY <1>1 DEF CopyOK
    <2>2. PICK mem \in [Addresses -> Int], esi \in Int, edi \in Int, ecx \in Nat,
               more \in 0 .. 3, pc \in CopyLocations :
            f = [mem |-> mem, esi |-> esi, edi |-> edi, ecx |-> ecx, bytes |-> more,
                 pc |-> pc]
      <3>1. f \in [mem : [Addresses -> Int], esi : Int, edi : Int, ecx : Nat,
                   bytes : 0 .. 3, pc : CopyLocations]
        BY <2>1 DEF GoingUp
      <3>2. f = [mem |-> f.mem, esi |-> f.esi, edi |-> f.edi, ecx |-> f.ecx,
                 bytes |-> f.bytes, pc |-> f.pc]
        BY <3>1
      <3> QED
        BY <3>1, <3>2
    <2>3. PICK done \in 0 .. bytes :
            /\ done = bytes - (IF pc = "words" THEN 4 * ecx + more ELSE ecx)
            /\ esi = from + done /\ edi = to + done /\ Copied(mem, from, to, 0, done)
      BY <2>1, <2>2 DEF GoingUp
    <2>4. ~MustCopyBackwards(from, to, bytes)
      BY <2>1 DEF GoingUp
    <2>5. CASE ecx > 0
      <3>1. PICK len \in {1, 4} : len = IF pc = "words" THEN 4 ELSE 1
        OBVIOUS
      <3>2. g = Move(f, len, len)
        BY <1>1, <2>2, <2>5, <3>1
      <3>3. g = [mem |-> Moved(mem, esi, edi, len), esi |-> esi + len,
                 edi |-> edi + len, ecx |-> ecx - 1, bytes |-> more, pc |-> pc]
        BY <2>2, <3>2 DEF Move, Moved
      <3>4. done + len <= bytes
        BY <2>3, <2>5, <3>1
      <3>5. /\ Moved(mem, esi, edi, len) \in [Addresses -> Int]
            /\ Copied(Moved(mem, esi, edi, len), from, to, 0, done + len)
        BY <1>0, <2>3, <2>4, <3>1, <3>4, MovedUp
      <3>6. g \in [mem : [Addresses -> Int], esi : Int, edi : Int, ecx : Nat,
                   bytes : 0 .. 3, pc : CopyLocations]
        BY <2>5, <3>1, <3>3, <3>5
      <3>7. /\ done + len = bytes - (IF g.pc = "words" THEN 4 * g.ecx + g.bytes ELSE g.ecx)
            /\ g.esi = from + (done + len) /\ g.edi = to + (done + len)
            /\ done + len \in 0 .. bytes /\ Copied(g.mem, from, to, 0, done + len)
        BY <2>3, <2>5, <3>1, <3>3, <3>4, <3>5
      <3>8. GoingUp(g, from, to, bytes)
        BY <2>4, <3>6, <3>7 DEF GoingUp
      <3> QED
        BY <1>0, <1>1, <2>2, <3>3, <3>8 DEF CopyOK
    <2>6. CASE ecx = 0 /\ pc = "words"
      <3>1. g = [mem |-> mem, esi |-> esi, edi |-> edi, ecx |-> more, bytes |-> more,
                 pc |-> "bytes"]
        <4>1. g = [f EXCEPT !.ecx = f.bytes, !.pc = "bytes"]
          BY <2>2, <2>6
        <4> QED
          BY <2>2, <4>1
      <3>2. g \in [mem : [Addresses -> Int], esi : Int, edi : Int, ecx : Nat,
                   bytes : 0 .. 3, pc : CopyLocations]
        BY <3>1 DEF CopyLocations
      <3>3. GoingUp(g, from, to, bytes)
        BY <2>3, <2>4, <2>6, <3>1, <3>2 DEF GoingUp
      <3> QED
        BY <1>0, <3>1, <3>3 DEF CopyOK, CopyLocations
    <2>7. CASE ecx = 0 /\ pc # "words"
      <3>1. g = [mem |-> mem, esi |-> esi, edi |-> edi, ecx |-> ecx, bytes |-> more,
                 pc |-> "ret"]
        BY <1>1, <2>2, <2>7
      <3>2. done = bytes
        BY <2>3, <2>7
      <3> QED
        BY <1>0, <2>3, <3>1, <3>2 DEF CopyOK, CopyLocations
    <2> QED
      BY <2>5, <2>6, <2>7
  <1>2. CASE f.pc = "backwards"
    <2>1. GoingDown(f, from, to, bytes)
      BY <1>2 DEF CopyOK
    <2>2. PICK mem \in [Addresses -> Int], esi \in Int, edi \in Int, ecx \in Nat :
            f = [mem |-> mem, esi |-> esi, edi |-> edi, ecx |-> ecx,
                 pc |-> "backwards"]
      <3>1. f \in [mem : [Addresses -> Int], esi : Int, edi : Int, ecx : Nat,
                   pc : CopyLocations]
        BY <2>1 DEF GoingDown
      <3>2. f = [mem |-> f.mem, esi |-> f.esi, edi |-> f.edi, ecx |-> f.ecx,
                 pc |-> f.pc]
        BY <3>1
      <3> QED
        BY <1>2, <3>1, <3>2
    <2>3. /\ ecx <= bytes /\ esi = from + ecx - 1 /\ edi = to + ecx - 1
          /\ Copied(mem, from, to, ecx, bytes) /\ MustCopyBackwards(from, to, bytes)
      BY <2>1, <2>2 DEF GoingDown
    <2>4. CASE ecx > 0
      <3>1. g = [mem |-> Moved(mem, esi, edi, 1), esi |-> esi - 1, edi |-> edi - 1,
                 ecx |-> ecx - 1, pc |-> "backwards"]
        <4>1. g = Move(f, 1, -1)
          BY <2>2, <2>4
        <4> QED
          BY <2>2, <4>1 DEF Move, Moved
      <3>2. /\ Moved(mem, esi, edi, 1) \in [Addresses -> Int]
            /\ Copied(Moved(mem, esi, edi, 1), from, to, ecx - 1, bytes)
        BY <1>0, <2>3, <2>4, MovedDown
      <3>3. GoingDown(g, from, to, bytes)
        BY <2>3, <2>4, <3>1, <3>2 DEF GoingDown, CopyLocations
      <3> QED
        BY <1>0, <3>1, <3>3 DEF CopyOK, CopyLocations
    <2>5. CASE ecx = 0
      <3>1. g = [mem |-> mem, esi |-> esi, edi |-> edi, ecx |-> ecx, pc |-> "ret"]
        BY <2>2, <2>5
      <3> QED
        BY <1>0, <2>3, <2>5, <3>1 DEF CopyOK, CopyLocations
    <2> QED
      BY <2>4, <2>5
  <1> QED
    BY <1>1, <1>2

-----------------------------------------------------------------------------
(***************************************************************************)
(* strtok()                                                                *)
(***************************************************************************)
\* k is the first place from p on where str has one of the characters.
IsFirst(str, p, chars, k) ==
  /\ k \in p .. Len(str) /\ str[k] \in chars
  /\ \A i \in p .. k - 1 : str[i] \notin chars

LEMMA FirstIs ==
  ASSUME NEW str, Len(str) \in Nat, NEW p \in Nat, NEW chars, NEW k,
         IsFirst(str, p, chars, k)
  PROVE  FirstFrom(str, p, chars) = k
  <1>1. \A h : IsFirst(str, p, chars, h) => h = k
    BY DEF IsFirst
  <1>2. FirstFrom(str, p, chars) = CHOOSE h \in p .. Len(str) : IsFirst(str, p, chars, h)
    BY DEF FirstFrom, IsFirst
  <1>3. k \in p .. Len(str)
    BY DEF IsFirst
  <1> QED
    BY <1>1, <1>2, <1>3

LEMMA FirstExists ==
  ASSUME NEW str, Len(str) \in Nat, NEW p \in Nat, NEW chars,
         NEW e \in p .. Len(str), str[e] \in chars
  PROVE  IsFirst(str, p, chars, FirstFrom(str, p, chars))
  <1>1. PICK S : S = {i \in p .. Len(str) : str[i] \in chars}
    OBVIOUS
  <1>2. S \in SUBSET Nat /\ e \in S
    BY <1>1
  <1>3. PICK k \in S : \A i \in S : k <= i
    BY <1>2, LeastOf
  <1>4. IsFirst(str, p, chars, k)
    BY <1>1, <1>3 DEF IsFirst
  <1> QED
    BY <1>4, FirstIs

\* The string in memory before the first call, the starts of its runs between
\* delimiters, where a run ends, and where the next call looks on.
Text(s) == Append(s, NUL)
Starts(s, delim) == {i \in 1 .. Len(s) : /\ s[i] \notin delim
                                         /\ i = 1 \/ s[i - 1] \in delim}
EndOf(s, delim, p) == FirstFrom(Text(s), p, delim \cup {NUL})
Front(s, last, toks) == IF toks = <<>> THEN 1
                        ELSE IF last = NULL THEN Len(s) + 1 ELSE last
Given(toks) == {toks[i] : i \in {k \in DOMAIN toks : toks[k] # NULL}}

IsString(s, delim) == /\ s \in Seq(Characters(s)) /\ NUL \notin Characters(s)
                      /\ NUL \notin delim

\* Behind the front the memory is the text; in front of it every run was given,
\* and stands there with its NUL behind it.
TokensOK(str, last, toks, s, delim) ==
  /\ IsString(s, delim)
  /\ str \in Seq(Characters(s) \cup {NUL}) /\ Len(str) = Len(s) + 1
  /\ last # NULL => (last \in 2 .. Len(s) + 1 /\ s[last - 1] \in delim)
  /\ toks \in Seq(Nat \cup {NULL})
  /\ (toks = <<>> \/ \E i \in DOMAIN toks : toks[i] = NULL) => last = NULL
  /\ \A i \in Front(s, last, toks) .. Len(s) + 1 : str[i] = Text(s)[i]
  /\ Given(toks) = {p \in Starts(s, delim) : p < Front(s, last, toks)}
  /\ \A i, j \in DOMAIN toks :
       (i < j /\ toks[j] # NULL) => toks[i] # NULL /\ toks[i] < toks[j]
  /\ \A p \in Given(toks) : /\ IsFirst(str, p, {NUL}, EndOf(s, delim, p))
                            /\ last # NULL => EndOf(s, delim, p) < last

\* The text is the string with NUL behind it and nowhere else.
LEMMA TextIs ==
  ASSUME NEW s, NEW delim, IsString(s, delim)
  PROVE  /\ Len(s) \in Nat
         /\ Text(s) \in Seq(Characters(s) \cup {NUL})
         /\ Len(Text(s)) = Len(s) + 1
         /\ \A i \in 1 .. Len(s) : Text(s)[i] = s[i] /\ s[i] # NUL
         /\ Text(s)[Len(s) + 1] = NUL
  <1>1. s \in Seq(Characters(s) \cup {NUL}) /\ NUL \in Characters(s) \cup {NUL}
    BY DEF IsString
  <1>2. \A i \in 1 .. Len(s) : s[i] # NUL
    BY DEF IsString, Characters
  <1> QED
    BY <1>1, <1>2, AppendProperties DEF Text

LEMMA TokensStart ==
  ASSUME NEW s, NEW delim, IsString(s, delim)
  PROVE  TokensOK(Text(s), NULL, <<>>, s, delim)
  <1>1. Given(<<>>) = {} /\ <<>> \in Seq(Nat \cup {NULL}) /\ DOMAIN <<>> = {}
    BY DEF Given
  <1>2. Front(s, NULL, <<>>) = 1
    BY DEF Front
  <1>3. {p \in Starts(s, delim) : p < Front(s, NULL, <<>>)} = {}
    BY <1>2, TextIs DEF Starts
  <1>4. \A i, j \in DOMAIN <<>> : FALSE
    BY <1>1, Zenon
  <1>5. /\ Text(s) \in Seq(Characters(s) \cup {NUL}) /\ Len(Text(s)) = Len(s) + 1
    BY TextIs
  <1> QED
    BY <1>1, <1>2, <1>3, <1>4, <1>5 DEF TokensOK

\* A token more: the tokens returned so far and their order.
LEMMA OneMore ==
  ASSUME NEW toks \in Seq(Nat \cup {NULL}), NEW t \in Nat \cup {NULL}
  PROVE  /\ Append(toks, t) \in Seq(Nat \cup {NULL}) /\ Append(toks, t) # <<>>
         /\ Given(Append(toks, t)) = Given(toks) \cup (IF t = NULL THEN {} ELSE {t})
         /\ DOMAIN Append(toks, t) = DOMAIN toks \cup {Len(toks) + 1}
         /\ Len(toks) + 1 \notin DOMAIN toks
         /\ Append(toks, t)[Len(toks) + 1] = t
         /\ \A i \in DOMAIN toks : Append(toks, t)[i] = toks[i] /\ i < Len(toks) + 1
  <1>1. PICK more : more = Append(toks, t)
    OBVIOUS
  <1>2. /\ more \in Seq(Nat \cup {NULL}) /\ Len(more) = Len(toks) + 1
        /\ \A i \in 1 .. Len(toks) : more[i] = toks[i]
        /\ more[Len(toks) + 1] = t /\ Len(toks) \in Nat
    BY <1>1, AppendProperties
  <1>3. DOMAIN toks = 1 .. Len(toks) /\ DOMAIN more = 1 .. Len(toks) + 1
    BY <1>2
  <1>4. DOMAIN more = DOMAIN toks \cup {Len(toks) + 1} /\ Len(toks) + 1 \notin DOMAIN toks
    BY <1>2, <1>3
  <1>5. \A i \in DOMAIN toks : more[i] = toks[i]
    BY <1>2, <1>3
  <1>6. more[Len(toks) + 1] = t
    BY <1>2
  <1>7. Given(more) = Given(toks) \cup (IF t = NULL THEN {} ELSE {t})
    BY <1>4, <1>5, <1>6, Zenon DEF Given
  <1>8. more # <<>> /\ \A i \in DOMAIN toks : i < Len(toks) + 1
    BY <1>2, <1>3
  <1> QED
    BY <1>1, <1>2, <1>4, <1>5, <1>6, <1>7, <1>8

\* A call when nothing but delimiters is left.
LEMMA NoToken ==
  ASSUME NEW str, NEW last, NEW toks, NEW s, NEW delim,
         TokensOK(str, last, toks, s, delim),
         \A i \in Front(s, last, toks) .. Len(s) : s[i] \in delim
  PROVE  TokensOK(str, NULL, Append(toks, NULL), s, delim)
  <1>0. /\ NULL \notin Nat /\ Len(s) \in Nat /\ toks \in Seq(Nat \cup {NULL})
        /\ Front(s, last, toks) \in 1 .. Len(s) + 1
    BY LibcAssumption, TextIs DEF TokensOK, Front
  <1>1. PICK more : more = Append(toks, NULL)
    OBVIOUS
  <1>2. /\ more \in Seq(Nat \cup {NULL}) /\ more # <<>> /\ Given(more) = Given(toks)
        /\ DOMAIN more = DOMAIN toks \cup {Len(toks) + 1}
        /\ more[Len(toks) + 1] = NULL
        /\ \A i \in DOMAIN toks : more[i] = toks[i] /\ i < Len(toks) + 1
    <2>1. NULL \in Nat \cup {NULL}
      OBVIOUS
    <2>2. Given(more) = Given(toks) \cup {}
      BY <1>0, <1>1, <2>1, OneMore, Zenon
    <2> QED
      BY <1>0, <1>1, <2>1, <2>2, OneMore, Zenon
  <1>3. Front(s, NULL, more) = Len(s) + 1
    BY <1>2 DEF Front
  <1>4. {p \in Starts(s, delim) : p < Front(s, NULL, more)}
          = {p \in Starts(s, delim) : p < Front(s, last, toks)}
    BY <1>0, <1>3 DEF Starts
  <1>5. \A i, j \in DOMAIN more :
          (i < j /\ more[j] # NULL) => more[i] # NULL /\ more[i] < more[j]
    <2> SUFFICES ASSUME NEW i \in DOMAIN more, NEW j \in DOMAIN more, i < j,
                        more[j] # NULL
                 PROVE  more[i] # NULL /\ more[i] < more[j]
      OBVIOUS
    <2>1. j \in DOMAIN toks /\ i \in DOMAIN toks
      BY <1>0, <1>2
    <2> QED
      BY <1>2, <2>1 DEF TokensOK
  <1>6. \A i \in Front(s, NULL, more) .. Len(s) + 1 : str[i] = Text(s)[i]
    BY <1>0, <1>3 DEF TokensOK
  <1>7. /\ IsString(s, delim) /\ Given(toks) = {p \in Starts(s, delim) : p < Front(s, last, toks)}
        /\ str \in Seq(Characters(s) \cup {NUL}) /\ Len(str) = Len(s) + 1
        /\ \A p \in Given(toks) : IsFirst(str, p, {NUL}, EndOf(s, delim, p))
    BY DEF TokensOK
  <1> QED
    BY <1>1, <1>2, <1>3, <1>4, <1>5, <1>6, <1>7 DEF TokensOK

\* A call that finds the token at tok, which ends at k.
LEMMA FoundToken ==
  ASSUME NEW str, NEW last, NEW toks, NEW s, NEW delim, NEW p \in Nat, NEW tok, NEW k,
         TokensOK(str, last, toks, s, delim), p = Front(s, last, toks),
         toks = <<>> \/ last # NULL,
         tok \in p .. Len(s), s[tok] \notin delim,
         \A i \in p .. tok - 1 : s[i] \in delim,
         IsFirst(str, tok, delim \cup {NUL}, k)
  PROVE  IF str[k] = NUL
         THEN TokensOK(str, NULL, Append(toks, tok), s, delim)
         ELSE TokensOK([str EXCEPT ![k] = NUL], k + 1, Append(toks, tok), s, delim)
  <1> USE DEF IsFirst
  <1>0. /\ NULL \notin Nat /\ Len(s) \in Nat /\ toks \in Seq(Nat \cup {NULL})
        /\ p \in 1 .. Len(s) + 1 /\ Len(str) = Len(s) + 1 /\ IsString(s, delim)
        /\ tok \in Nat /\ k \in tok .. Len(s) + 1
    BY LibcAssumption, TextIs DEF TokensOK, Front
  <1>1. PICK more : more = Append(toks, tok)
    OBVIOUS
  <1>2. /\ more \in Seq(Nat \cup {NULL}) /\ more # <<>>
        /\ Given(more) = Given(toks) \cup {tok}
        /\ DOMAIN more = DOMAIN toks \cup {Len(toks) + 1}
        /\ more[Len(toks) + 1] = tok
        /\ \A i \in DOMAIN toks : more[i] = toks[i] /\ i < Len(toks) + 1
    <2>1. tok \in Nat \cup {NULL} /\ tok # NULL
      BY <1>0
    <2>2. Given(more) = Given(toks) \cup (IF tok = NULL THEN {} ELSE {tok})
      BY <1>0, <1>1, <2>1, OneMore
    <2>3. Given(more) = Given(toks) \cup {tok}
      BY <2>1, <2>2, Zenon
    <2> QED
      BY <1>0, <1>1, <2>1, <2>3, OneMore
  <1>3. /\ \A i \in p .. Len(s) + 1 : str[i] = Text(s)[i]
        /\ \A i \in 1 .. Len(s) : Text(s)[i] = s[i] /\ s[i] # NUL
        /\ Text(s)[Len(s) + 1] = NUL /\ Len(Text(s)) = Len(s) + 1
    BY <1>0, TextIs DEF TokensOK
  <1>4. /\ tok < k /\ (k <= Len(s) => str[k] = s[k])
        /\ \A i \in tok .. k - 1 : str[i] = s[i] /\ s[i] \notin delim /\ s[i] # NUL
        /\ str[k] = NUL <=> k = Len(s) + 1
        /\ k <= Len(s) => s[k] \in delim
    <2>1. \A i \in tok .. Len(s) : str[i] = s[i] /\ s[i] # NUL
      BY <1>0, <1>3
    <2>2. str[Len(s) + 1] = NUL
      BY <1>0, <1>3
    <2>3. k # tok
      BY <1>0, <2>1
    <2>4. \A i \in tok .. k - 1 : i \in tok .. Len(s) /\ str[i] \notin delim \cup {NUL}
      BY <1>0
    <2> QED
      BY <1>0, <2>1, <2>2, <2>3, <2>4
  <1>5. EndOf(s, delim, tok) = k
    <2>1. \A i \in tok .. k : Text(s)[i] = str[i]
      BY <1>0, <1>3
    <2>2. IsFirst(Text(s), tok, delim \cup {NUL}, k)
      <3>1. k \in tok .. Len(Text(s)) /\ Text(s)[k] \in delim \cup {NUL}
        BY <1>0, <1>3, <2>1
      <3>2. \A i \in tok .. k - 1 : Text(s)[i] \notin delim \cup {NUL}
        BY <1>0, <2>1
      <3> QED
        BY <3>1, <3>2
    <2>3. Len(Text(s)) \in Nat
      BY <1>0, <1>3
    <2>4. FirstFrom(Text(s), tok, delim \cup {NUL}) = k
      BY <1>0, <2>2, <2>3, FirstIs, Zenon
    <2> QED
      BY <2>4 DEF EndOf
  <1>6. ASSUME NEW q \in Starts(s, delim), q >= p, q <= k
        PROVE  q = tok
    BY <1>0, <1>4, <1>6 DEF Starts
  <1>7. tok \in Starts(s, delim)
    <2>1. CASE tok = p
      BY <1>0, <2>1 DEF TokensOK, Front, Starts
    <2>2. CASE tok # p
      BY <1>0, <2>2 DEF Starts
    <2> QED
      BY <2>1, <2>2
  <1>8. \A t \in Given(toks) : t \in Nat /\ t < p
    BY <1>0 DEF TokensOK, Starts
  <1>9. \A i \in DOMAIN toks : toks[i] # NULL /\ toks[i] \in Given(toks)
    <2>1. CASE toks = <<>>
      BY <2>1
    <2>2. CASE last # NULL
      BY <2>2 DEF TokensOK, Given
    <2> QED
      BY <2>1, <2>2
  <1>10. \A i, j \in DOMAIN more :
           (i < j /\ more[j] # NULL) => more[i] # NULL /\ more[i] < more[j]
    <2> SUFFICES ASSUME NEW i \in DOMAIN more, NEW j \in DOMAIN more, i < j,
                        more[j] # NULL
                 PROVE  more[i] # NULL /\ more[i] < more[j]
      OBVIOUS
    <2>0. \A h \in DOMAIN toks : h \in Nat
      BY <1>0
    <2>1. i \in DOMAIN toks
      BY <1>0, <1>2, <2>0
    <2>2. CASE j \in DOMAIN toks
      BY <1>2, <2>1, <2>2 DEF TokensOK
    <2>3. CASE j = Len(toks) + 1
      <3>1. toks[i] < p
        BY <1>8, <1>9, <2>1
      <3> QED
        BY <1>0, <1>2, <1>8, <1>9, <2>1, <2>3, <3>1
    <2> QED
      BY <1>2, <2>2, <2>3
  <1>11. Given(more) = {q \in Starts(s, delim) : q <= k}
    <2>1. Given(toks) = {q \in Starts(s, delim) : q < p}
      BY DEF TokensOK
    <2>2. \A q \in Starts(s, delim) : q <= k <=> q < p \/ q = tok
      <3> SUFFICES ASSUME NEW q \in Starts(s, delim)
                   PROVE  q <= k <=> q < p \/ q = tok
        OBVIOUS
      <3>1. q \in Nat
        BY DEF Starts
      <3> QED
        BY <1>0, <1>4, <1>6, <3>1
    <2> QED
      BY <1>2, <1>7, <2>1, <2>2
  <1>12. \A q \in Given(toks) : EndOf(s, delim, q) < p
    <2>1. CASE toks = <<>>
      BY <1>9, <2>1 DEF Given
    <2>2. CASE last # NULL
      BY <1>0, <2>2 DEF TokensOK, Front
    <2> QED
      BY <2>1, <2>2
  <1>13. \A i \in DOMAIN more : more[i] # NULL
    BY <1>0, <1>2, <1>9
  <1>14. \A q \in Given(toks) : IsFirst(str, q, {NUL}, EndOf(s, delim, q))
    BY DEF TokensOK
  <1> USE DEF Front
  <1>15. CASE str[k] = NUL
    <2>1. k = Len(s) + 1 /\ Front(s, NULL, more) = Len(s) + 1
      BY <1>2, <1>4, <1>15
    <2>2. Given(more) = {q \in Starts(s, delim) : q < Front(s, NULL, more)}
      BY <1>0, <1>11, <2>1 DEF Starts
    <2>3. \A i \in Front(s, NULL, more) .. Len(s) + 1 : str[i] = Text(s)[i]
      BY <1>0, <1>3, <2>1
    <2>4. \A q \in Given(more) : IsFirst(str, q, {NUL}, EndOf(s, delim, q))
      BY <1>0, <1>2, <1>4, <1>5, <1>14, <1>15
    <2>5. str \in Seq(Characters(s) \cup {NUL})
      BY DEF TokensOK
    <2>6. TokensOK(str, NULL, more, s, delim)
      BY <1>0, <1>2, <1>10, <2>2, <2>3, <2>4, <2>5 DEF TokensOK
    <2> QED
      BY <1>1, <1>15, <2>6
  <1>16. CASE str[k] # NUL
    <2>1. PICK cut : cut = [str EXCEPT ![k] = NUL]
      OBVIOUS
    <2>2. k <= Len(s) /\ k + 1 # NULL /\ k + 1 \in 2 .. Len(s) + 1 /\ s[k + 1 - 1] \in delim
      BY <1>0, <1>4, <1>16
    <2>3. /\ cut \in Seq(Characters(s) \cup {NUL}) /\ Len(cut) = Len(s) + 1
          /\ cut[k] = NUL
          /\ \A i \in 1 .. Len(s) + 1 : i # k => cut[i] = str[i]
      BY <1>0, <2>1, <2>2 DEF TokensOK
    <2>4. Front(s, k + 1, more) = k + 1
      BY <1>2, <2>2
    <2>5. Given(more) = {q \in Starts(s, delim) : q < Front(s, k + 1, more)}
      BY <1>0, <1>11, <2>4 DEF Starts
    <2>6. \A i \in Front(s, k + 1, more) .. Len(s) + 1 : cut[i] = Text(s)[i]
      BY <1>0, <1>3, <1>4, <2>3, <2>4
    <2>7. ASSUME NEW q \in Given(more)
          PROVE  /\ IsFirst(cut, q, {NUL}, EndOf(s, delim, q))
                 /\ EndOf(s, delim, q) < k + 1
      <3>1. CASE q = tok
        BY <1>0, <1>4, <1>5, <2>3, <3>1
      <3>2. CASE q \in Given(toks)
        <4>1. IsFirst(str, q, {NUL}, EndOf(s, delim, q)) /\ EndOf(s, delim, q) < p /\ q \in 1 .. Len(s)
          BY <1>12, <1>14, <3>2 DEF TokensOK, Starts
        <4> QED
          BY <1>0, <1>4, <2>3, <4>1
      <3> QED
        BY <1>2, <3>1, <3>2
    <2>8. TokensOK(cut, k + 1, more, s, delim)
      BY <1>0, <1>2, <1>10, <1>13, <2>2, <2>3, <2>5, <2>6, <2>7 DEF TokensOK
    <2> QED
      BY <1>1, <1>16, <2>1, <2>8
  <1> QED
    BY <1>15, <1>16

LEMMA TokensStep ==
  ASSUME NEW str, NEW last, NEW toks, NEW s, NEW delim,
         TokensOK(str, last, toks, s, delim), NEW f, NEW g,
         f = [str |-> str, last |-> last, toks |-> toks],
         g = strtok(f, IF toks = <<>> THEN 1 ELSE NULL, delim)
  PROVE  /\ g = [str |-> g.str, last |-> g.last, toks |-> g.toks]
         /\ TokensOK(g.str, g.last, g.toks, s, delim)
  <1>0. /\ NULL \notin Nat /\ Len(s) \in Nat /\ IsString(s, delim)
        /\ Len(str) = Len(s) + 1 /\ 1 # NULL
        /\ toks = <<>> => last = NULL
    BY LibcAssumption, TextIs DEF TokensOK
  <1>1. PICK p : p = IF toks = <<>> THEN 1 ELSE last
    OBVIOUS
  <1>2. PICK tok : tok = FirstFrom(str, p, Characters(str) \ delim)
    OBVIOUS
  <1>3. PICK none : none = [f EXCEPT !.last = NULL, !.toks = Append(f.toks, NULL)]
    OBVIOUS
  <1>4. none = [str |-> str, last |-> NULL, toks |-> Append(toks, NULL)]
    BY <1>3
  <1>5. g = IF p = NULL THEN none
            ELSE IF str[tok] = NUL THEN none
            ELSE CutToken(f, tok, FirstFrom(str, tok, delim \cup {NUL}))
    <2>1. f.str = str /\ f.last = last /\ f.toks = toks
      OBVIOUS
    <2>2. (IF (IF toks = <<>> THEN 1 ELSE NULL) = NULL THEN f.last
           ELSE (IF toks = <<>> THEN 1 ELSE NULL)) = p
      BY <1>0, <1>1, <2>1
    <2> QED
      BY <1>2, <1>3, <2>1, <2>2, Zenon DEF strtok
  <1>6. CASE p = NULL
    <2>1. Front(s, last, toks) = Len(s) + 1
      BY <1>0, <1>1, <1>6 DEF Front
    <2>2. TokensOK(str, NULL, Append(toks, NULL), s, delim)
      BY <1>0, <2>1, NoToken
    <2>3. g = [str |-> str, last |-> NULL, toks |-> Append(toks, NULL)]
      BY <1>4, <1>5, <1>6
    <2>4. g.str = str /\ g.last = NULL /\ g.toks = Append(toks, NULL)
      BY <2>3
    <2> QED
      BY <2>2, <2>3, <2>4, Zenon
  <1>7. CASE p # NULL
    <2>1. /\ p = Front(s, last, toks) /\ p \in 1 .. Len(s) + 1
          /\ toks = <<>> \/ last # NULL
      BY <1>0, <1>1, <1>7 DEF Front, TokensOK
    <2>2. /\ \A i \in p .. Len(s) + 1 : str[i] = Text(s)[i]
          /\ \A i \in 1 .. Len(s) : Text(s)[i] = s[i] /\ s[i] # NUL
          /\ Text(s)[Len(s) + 1] = NUL
      BY <1>0, <2>1, TextIs DEF TokensOK
    <2>3. /\ \A i \in p .. Len(s) : str[i] = s[i] /\ s[i] # NUL
          /\ str[Len(s) + 1] = NUL
          /\ \A i \in 1 .. Len(s) + 1 : str[i] \in Characters(str)
      BY <1>0, <2>1, <2>2 DEF Characters
    <2>4. IsFirst(str, p, Characters(str) \ delim, tok)
      <3>1. str[Len(s) + 1] \in Characters(str) \ delim /\ Len(s) + 1 \in p .. Len(str)
        BY <1>0, <2>1, <2>3 DEF IsString
      <3> QED
        <4>1. Len(str) \in Nat /\ p \in Nat
          BY <1>0, <2>1
        <4> QED
          BY <1>2, <3>1, <4>1, FirstExists, Zenon
    <2>5. /\ tok \in p .. Len(s) + 1 /\ str[tok] \notin delim
          /\ \A i \in p .. tok - 1 : s[i] \in delim
      <3>1. tok \in p .. Len(s) + 1 /\ str[tok] \notin delim
        BY <1>0, <2>4 DEF IsFirst
      <3>2. ASSUME NEW i \in p .. tok - 1
            PROVE  s[i] \in delim
        <4>1. i \in 1 .. Len(s) + 1 /\ i \in p .. Len(s)
          BY <1>0, <2>1, <3>1
        <4>2. str[i] \notin Characters(str) \ delim
          BY <2>4 DEF IsFirst
        <4> QED
          BY <2>3, <4>1, <4>2
      <3> QED
        BY <3>1, <3>2
    <2>6. CASE str[tok] = NUL
      <3>1. tok = Len(s) + 1
        BY <1>0, <2>3, <2>5, <2>6
      <3>2. TokensOK(str, NULL, Append(toks, NULL), s, delim)
        BY <1>0, <2>1, <2>5, <3>1, NoToken
      <3>3. g = [str |-> str, last |-> NULL, toks |-> Append(toks, NULL)]
        BY <1>4, <1>5, <2>6
      <3>4. g.str = str /\ g.last = NULL /\ g.toks = Append(toks, NULL)
        BY <3>3
      <3> QED
        BY <3>2, <3>3, <3>4, Zenon
    <2>7. CASE str[tok] # NUL
      <3>1. tok \in p .. Len(s) /\ s[tok] \notin delim
        BY <1>0, <2>1, <2>3, <2>5, <2>7
      <3>2. PICK k : k = FirstFrom(str, tok, delim \cup {NUL})
        OBVIOUS
      <3>3. IsFirst(str, tok, delim \cup {NUL}, k)
        <4>1. tok \in Nat /\ Len(s) + 1 \in tok .. Len(str) /\ Len(str) \in Nat
              /\ str[Len(s) + 1] \in delim \cup {NUL}
          BY <1>0, <2>1, <2>3, <3>1
        <4> QED
          BY <3>2, <4>1, FirstExists
      <3>4. IF str[k] = NUL
            THEN TokensOK(str, NULL, Append(toks, tok), s, delim)
            ELSE TokensOK([str EXCEPT ![k] = NUL], k + 1, Append(toks, tok), s, delim)
        <4>1. p \in Nat
          BY <1>0, <2>1
        <4> QED
          BY <2>1, <2>5, <3>1, <3>3, <4>1, FoundToken, Zenon
      <3>5. g = CutToken(f, tok, k)
        BY <1>5, <1>7, <2>7, <3>2
      <3>6. CASE str[k] = NUL
        <4>1. g = [str |-> str, last |-> NULL, toks |-> Append(toks, tok)]
          BY <3>5, <3>6 DEF CutToken
        <4>2. g.str = str /\ g.last = NULL /\ g.toks = Append(toks, tok)
          BY <4>1
        <4> QED
          BY <3>4, <3>6, <4>1, <4>2, Zenon
      <3>7. CASE str[k] # NUL
        <4>1. PICK cut : cut = [str EXCEPT ![k] = NUL]
          OBVIOUS
        <4>2. g = [str |-> cut, last |-> k + 1, toks |-> Append(toks, tok)]
          BY <3>5, <3>7, <4>1 DEF CutToken
        <4>3. g.str = cut /\ g.last = k + 1 /\ g.toks = Append(toks, tok)
          BY <4>2
        <4>4. TokensOK(cut, k + 1, Append(toks, tok), s, delim)
          BY <3>4, <3>7, <4>1, Zenon
        <4> QED
          BY <4>2, <4>3, <4>4, Zenon
      <3> QED
        BY <3>6, <3>7
    <2> QED
      BY <2>6, <2>7
  <1> QED
    BY <1>6, <1>7

\* What TokensExact says follows.
LEMMA TokensDone ==
  ASSUME NEW str, NEW last, NEW toks, call.fn = "strtok", frame.str = str,
         frame.toks = toks, TokensOK(str, last, toks, call.s, call.delim)
  PROVE  TokensExact
  <1>1. PICK s, delim : s = call.s /\ delim = call.delim
    OBVIOUS
  <1>0. TokensOK(str, last, toks, s, delim)
    BY <1>1
  <1>2. RunStarts = Starts(s, delim) /\ Len(s) \in Nat /\ Len(str) = Len(s) + 1
    BY <1>0, <1>1, TextIs DEF RunStarts, Starts, TokensOK
  <1>3. /\ Given(toks) = {p \in Starts(s, delim) : p < Front(s, last, toks)}
        /\ \A i, j \in DOMAIN toks :
             (i < j /\ toks[j] # NULL) => toks[i] # NULL /\ toks[i] < toks[j]
        /\ \A p \in Given(toks) : IsFirst(str, p, {NUL}, EndOf(s, delim, p))
        /\ Front(s, last, toks) \in Nat
    <2>1. Front(s, last, toks) \in Nat
      BY <1>0, <1>2 DEF TokensOK, Front
    <2> QED
      BY <1>0, <2>1, Zenon DEF TokensOK
  <1>4. \A p \in Starts(s, delim) \ Given(toks) : \A t \in Given(toks) : t < p
    BY <1>3 DEF Starts
  <1>5. (\E i \in DOMAIN toks : toks[i] = NULL) => Given(toks) = Starts(s, delim)
    <2> SUFFICES ASSUME NEW i \in DOMAIN toks, toks[i] = NULL
                 PROVE  Given(toks) = Starts(s, delim)
      OBVIOUS
    <2>1. last = NULL /\ toks # <<>>
      BY <1>0 DEF TokensOK
    <2>2. Front(s, last, toks) = Len(s) + 1
      BY <2>1 DEF Front
    <2> QED
      BY <1>2, <1>3, <2>2 DEF Starts
  <1>6. \A p \in Given(toks) : FirstFrom(str, p, {NUL}) = EndOf(s, delim, p)
    <2> SUFFICES ASSUME NEW p \in Given(toks)
                 PROVE  FirstFrom(str, p, {NUL}) = EndOf(s, delim, p)
      OBVIOUS
    <2>1. p \in Starts(s, delim) /\ IsFirst(str, p, {NUL}, EndOf(s, delim, p))
      BY <1>3
    <2>2. p \in Nat /\ Len(str) \in Nat
      BY <1>2, <2>1 DEF Starts
    <2> QED
      BY <2>1, <2>2, FirstIs, Zenon
  <1>7. Given(toks) \subseteq Starts(s, delim)
    BY <1>3
  <1> QED
    BY <1>1, <1>2, <1>3, <1>4, <1>5, <1>6, <1>7, Zenon
    DEF TokensExact, Given, EndOf, Text

-----------------------------------------------------------------------------
(***************************************************************************)
(* qsort().  N is the length of the array a0 that is sorted.               *)
(***************************************************************************)
Span(r) == r.lo .. r.lo + r.n - 1
Pieces(N) == {r \in [lo : Nat, n : Nat] : r.lo + r.n <= N}
InOne(todo, i, j) == \E k \in DOMAIN todo : {i, j} \subseteq Span(todo[k])

\* The ranges that are still to be sorted lie in the array and are disjoint.
TodoOK(todo, N) ==
  /\ todo \in Seq(Pieces(N))
  /\ \A j, k \in DOMAIN todo : j # k => Span(todo[j]) \cap Span(todo[k]) = {}

Ordered(a, todo, N) ==
  \A i, j \in 0 .. N - 1 : i < j => a[i] <= a[j] \/ InOne(todo, i, j)

Occurs(a, x) == Cardinality({i \in DOMAIN a : a[i] = x})

ArrayOK(a, todo, a0, N) ==
  /\ N \in Nat /\ a0 \in [0 .. N - 1 -> Int] /\ a \in [0 .. N - 1 -> Int]
  /\ TodoOK(todo, N)
  /\ Ordered(a, todo, N)
  /\ \A x \in Int : Occurs(a, x) = Occurs(a0, x)

\* Pushing and popping ranges.
LEMMA Pushed ==
  ASSUME NEW N \in Nat, NEW r \in Pieces(N), NEW todo, TodoOK(todo, N),
         \A k \in DOMAIN todo : Span(r) \cap Span(todo[k]) = {}
  PROVE  /\ TodoOK(<<r>> \o todo, N)
         /\ \A i, j : InOne(<<r>> \o todo, i, j)
                        <=> {i, j} \subseteq Span(r) \/ InOne(todo, i, j)
         /\ \A S : (\A k \in DOMAIN todo : S \cap Span(todo[k]) = {}) /\ S \cap Span(r) = {}
                     => \A k \in DOMAIN (<<r>> \o todo) : S \cap Span((<<r>> \o todo)[k]) = {}
  <1>1. PICK more : more = <<r>> \o todo
    OBVIOUS
  <1>2. /\ <<r>> \in Seq(Pieces(N)) /\ Len(<<r>>) = 1 /\ todo \in Seq(Pieces(N))
        /\ <<r>>[1] = r
    BY DEF TodoOK
  <1>3. /\ more \in Seq(Pieces(N)) /\ Len(more) = 1 + Len(todo)
        /\ \A i \in 1 .. 1 + Len(todo) :
             more[i] = IF i <= 1 THEN <<r>>[i] ELSE todo[i - 1]
    BY <1>1, <1>2, ConcatProperties
  <1>4. DOMAIN todo = 1 .. Len(todo) /\ DOMAIN more = 1 .. 1 + Len(todo) /\ Len(todo) \in Nat
    BY <1>2, <1>3
  <1>5. 1 \in DOMAIN more /\ more[1] = r
    BY <1>2, <1>3, <1>4
  <1>6. \A k \in DOMAIN more : k = 1 \/ (k - 1 \in DOMAIN todo /\ more[k] = todo[k - 1])
    BY <1>3, <1>4
  <1>7. \A k \in DOMAIN todo : k + 1 \in DOMAIN more /\ more[k + 1] = todo[k]
    BY <1>3, <1>4
  <1>8. ASSUME NEW j \in DOMAIN more, NEW k \in DOMAIN more, j # k
        PROVE  Span(more[j]) \cap Span(more[k]) = {}
    <2>1. CASE j = 1
      BY <1>5, <1>6, <1>8, <2>1
    <2>2. CASE k = 1
      BY <1>5, <1>6, <1>8, <2>2
    <2>3. CASE j # 1 /\ k # 1
      <3>1. j - 1 # k - 1 /\ j - 1 \in DOMAIN todo /\ k - 1 \in DOMAIN todo
        BY <1>4, <1>6, <1>8, <2>3
      <3> QED
        BY <1>6, <2>3, <3>1 DEF TodoOK
    <2> QED
      BY <2>1, <2>2, <2>3
  <1>9. \A i, j : InOne(more, i, j) <=> {i, j} \subseteq Span(r) \/ InOne(todo, i, j)
    BY <1>5, <1>6, <1>7 DEF InOne
  <1>10. \A S : (\A k \in DOMAIN todo : S \cap Span(todo[k]) = {}) /\ S \cap Span(r) = {}
                  => \A k \in DOMAIN more : S \cap Span(more[k]) = {}
    BY <1>5, <1>6
  <1> QED
    BY <1>1, <1>3, <1>8, <1>9, <1>10 DEF TodoOK

LEMMA Popped ==
  ASSUME NEW N \in Nat, NEW todo, TodoOK(todo, N), todo # <<>>
  PROVE  /\ Head(todo) \in Pieces(N) /\ TodoOK(Tail(todo), N)
         /\ \A i, j : InOne(todo, i, j)
                        <=> {i, j} \subseteq Span(Head(todo)) \/ InOne(Tail(todo), i, j)
         /\ \A k \in DOMAIN Tail(todo) : Span(Head(todo)) \cap Span(Tail(todo)[k]) = {}
  <1>1. PICK r, rest : r = Head(todo) /\ rest = Tail(todo)
    OBVIOUS
  <1>2. todo \in Seq(Pieces(N))
    BY DEF TodoOK
  <1>3. /\ r \in Pieces(N) /\ rest \in Seq(Pieces(N)) /\ Len(rest) = Len(todo) - 1
        /\ \A i \in 1 .. Len(rest) : rest[i] = todo[i + 1]
    BY <1>1, <1>2, HeadTailProperties
  <1>4. /\ r = todo[1] /\ DOMAIN todo = 1 .. Len(todo) /\ DOMAIN rest = 1 .. Len(rest)
        /\ Len(todo) \in Nat \ {0}
    BY <1>1, <1>2, <1>3, EmptySeq
  <1>5. \A k \in DOMAIN rest : /\ k + 1 \in DOMAIN todo /\ k + 1 # 1
                               /\ rest[k] = todo[k + 1]
    BY <1>3, <1>4
  <1>6. \A k \in DOMAIN todo : k = 1 \/ (k - 1 \in DOMAIN rest /\ rest[k - 1] = todo[k])
    BY <1>3, <1>4
  <1>7. 1 \in DOMAIN todo
    BY <1>4
  <1>8. \A k \in DOMAIN rest : Span(r) \cap Span(rest[k]) = {}
    BY <1>4, <1>5, <1>7 DEF TodoOK
  <1>9. \A j, k \in DOMAIN rest : j # k => Span(rest[j]) \cap Span(rest[k]) = {}
    <2> SUFFICES ASSUME NEW j \in DOMAIN rest, NEW k \in DOMAIN rest, j # k
                 PROVE  Span(rest[j]) \cap Span(rest[k]) = {}
      OBVIOUS
    <2>1. j + 1 # k + 1
      BY <1>4
    <2> QED
      BY <1>5, <2>1 DEF TodoOK
  <1>10. \A i, j : InOne(todo, i, j) <=> {i, j} \subseteq Span(r) \/ InOne(rest, i, j)
    BY <1>4, <1>5, <1>6, <1>7 DEF InOne
  <1> QED
    BY <1>1, <1>3, <1>8, <1>9, <1>10 DEF TodoOK

LEMMA PieceIs ==
  ASSUME NEW N \in Nat, NEW todo, TodoOK(todo, N), todo # <<>>
  PROVE  \E lo, n \in Nat : /\ Head(todo) = [lo |-> lo, n |-> n] /\ lo + n <= N
                            /\ Head(todo).lo = lo /\ Head(todo).n = n
                            /\ Span(Head(todo)) = lo .. lo + n - 1
  <1>1. PICK r : r = Head(todo)
    OBVIOUS
  <1>2. r \in [lo : Nat, n : Nat] /\ r.lo + r.n <= N
    BY <1>1, Popped DEF Pieces
  <1>3. r = [lo |-> r.lo, n |-> r.n] /\ r.lo \in Nat /\ r.n \in Nat
    BY <1>2
  <1> QED
    BY <1>1, <1>2, <1>3 DEF Span

\* Exchanging elements within the first of the ranges keeps what is known.
LEMMA Shuffled ==
  ASSUME NEW a, NEW b, NEW todo, NEW a0, NEW N, ArrayOK(a, todo, a0, N), todo # <<>>,
         NEW p \in [0 .. N - 1 -> 0 .. N - 1],
         \A i \in 0 .. N - 1 : p[p[i]] = i,
         \A i \in Span(Head(todo)) : p[i] \in Span(Head(todo)),
         \A i \in 0 .. N - 1 : i \notin Span(Head(todo)) => p[i] = i,
         b = [i \in 0 .. N - 1 |-> a[p[i]]]
  PROVE  ArrayOK(b, todo, a0, N)
  <1>1. /\ N \in Nat /\ TodoOK(todo, N) /\ a \in [0 .. N - 1 -> Int]
        /\ b \in [0 .. N - 1 -> Int]
    BY DEF ArrayOK
  <1>2. PICK r : r = Head(todo)
    OBVIOUS
  <1>3. /\ r \in Pieces(N)
        /\ \A i, j : InOne(todo, i, j) <=> {i, j} \subseteq Span(r) \/ InOne(Tail(todo), i, j)
        /\ \A k \in DOMAIN Tail(todo) : Span(r) \cap Span(Tail(todo)[k]) = {}
    BY <1>1, <1>2, Popped
  <1>4. Ordered(b, todo, N)
    <2> SUFFICES ASSUME NEW i \in 0 .. N - 1, NEW j \in 0 .. N - 1, i < j,
                        ~InOne(todo, i, j)
                 PROVE  b[i] <= b[j]
      BY DEF Ordered
    <2>1. PICK x \in 0 .. N - 1, y \in 0 .. N - 1 : x = p[i] /\ y = p[j]
      OBVIOUS
    <2>2. b[i] = a[x] /\ b[j] = a[y]
      BY <2>1
    <2>3. ~(i \in Span(r) /\ j \in Span(r))
      BY <1>3
    <2>4. x < y
      <3>0. PICK lo \in Nat, n \in Nat : Span(r) = lo .. lo + n - 1
        BY <1>1, <1>2, PieceIs
      <3>1. CASE i \in Span(r)
        <4>1. x \in Span(r) /\ j \notin Span(r) /\ y = j
          BY <1>2, <2>1, <2>3, <3>1
        <4> QED
          BY <3>0, <3>1, <4>1
      <3>2. CASE j \in Span(r)
        <4>1. y \in Span(r) /\ i \notin Span(r) /\ x = i
          BY <1>2, <2>1, <2>3, <3>2
        <4> QED
          BY <3>0, <3>2, <4>1
      <3>3. CASE i \notin Span(r) /\ j \notin Span(r)
        BY <1>2, <2>1, <3>3
      <3> QED
        BY <3>1, <3>2, <3>3
    <2>5. ~InOne(todo, x, y)
      <3>1. ~InOne(Tail(todo), i, j)
        BY <1>3
      <3>2. ~(x \in Span(r) /\ y \in Span(r))
        BY <1>2, <2>1, <2>3
      <3>3. ~InOne(Tail(todo), x, y)
        <4>1. CASE x = i /\ y = j
          BY <3>1, <4>1
        <4>2. CASE x \in Span(r) \/ y \in Span(r)
          BY <1>3, <4>2 DEF InOne
        <4> QED
          BY <1>2, <2>1, <4>1, <4>2
      <3> QED
        BY <1>3, <3>2, <3>3
    <2> QED
      BY <2>2, <2>4, <2>5 DEF ArrayOK, Ordered
  <1>5. ASSUME NEW x \in Int
        PROVE  Occurs(b, x) = Occurs(a, x)
    <2>1. PICK S, T : /\ S = {i \in 0 .. N - 1 : b[i] = x}
                      /\ T = {i \in 0 .. N - 1 : a[i] = x}
      OBVIOUS
    <2>2. PICK h : h = [i \in S |-> p[i]]
      OBVIOUS
    <2>3. h \in [S -> T]
      BY <2>1, <2>2
    <2>4. \A i, j \in S : h[i] = h[j] => i = j
      BY <2>1, <2>2
    <2>5. \A k \in T : \E i \in S : h[i] = k
      <3> SUFFICES ASSUME NEW k \in T
                   PROVE  \E i \in S : h[i] = k
        OBVIOUS
      <3>1. k \in 0 .. N - 1 /\ p[k] \in 0 .. N - 1 /\ p[p[k]] = k
        BY <2>1
      <3>2. b[p[k]] = a[k]
        BY <3>1
      <3>3. p[k] \in S
        BY <2>1, <3>1, <3>2
      <3> QED
        BY <2>2, <3>1, <3>3
    <2>6. h \in Bijection(S, T)
      BY <2>3, <2>4, <2>5 DEF Bijection, Injection, Surjection, IsInjective
    <2>7. IsFiniteSet(S)
      <3>1. IsFiniteSet(0 .. N - 1)
        BY <1>1, FS_Interval
      <3> QED
        BY <2>1, <3>1, FS_Subset
    <2>8. Cardinality(T) = Cardinality(S)
      BY <2>6, <2>7, FS_Bijection DEF ExistsBijection
    <2>9. DOMAIN a = 0 .. N - 1 /\ DOMAIN b = 0 .. N - 1
      BY <1>1
    <2> QED
      BY <2>1, <2>8, <2>9 DEF Occurs
  <1> QED
    BY <1>1, <1>4, <1>5 DEF ArrayOK

LEMMA SwapKeeps ==
  ASSUME NEW a, NEW todo, NEW a0, NEW N, ArrayOK(a, todo, a0, N), todo # <<>>,
         NEW x \in Span(Head(todo)), NEW y \in Span(Head(todo))
  PROVE  ArrayOK(swap(a, x, y), todo, a0, N)
  <1>1. N \in Nat /\ TodoOK(todo, N) /\ a \in [0 .. N - 1 -> Int]
    BY DEF ArrayOK
  <1>2. Span(Head(todo)) \subseteq 0 .. N - 1
    BY <1>1, Popped DEF Span, Pieces
  <1>3. PICK p : p = [i \in 0 .. N - 1 |-> IF i = x THEN y ELSE IF i = y THEN x ELSE i]
    OBVIOUS
  <1>4. p \in [0 .. N - 1 -> 0 .. N - 1]
    BY <1>2, <1>3
  <1>5. \A i \in 0 .. N - 1 : p[p[i]] = i
    BY <1>2, <1>3
  <1>6. /\ \A i \in Span(Head(todo)) : p[i] \in Span(Head(todo))
        /\ \A i \in 0 .. N - 1 : i \notin Span(Head(todo)) => p[i] = i
    BY <1>2, <1>3
  <1>7. swap(a, x, y) = [i \in 0 .. N - 1 |-> a[p[i]]]
    BY <1>1, <1>2, <1>3 DEF swap
  <1>8. PICK b : b = swap(a, x, y)
    OBVIOUS
  <1>9. b = [i \in 0 .. N - 1 |-> a[p[i]]]
    BY <1>7, <1>8
  <1>10. ArrayOK(b, todo, a0, N)
    BY <1>4, <1>5, <1>6, <1>9, Shuffled
  <1> QED
    BY <1>8, <1>10

\* In b the elements of a at x and y have changed places.
Exchanged(a, b, x, y, lo, e) ==
  \A i \in lo .. e - 1 : b[i] = IF i = x THEN a[y] ELSE IF i = y THEN a[x] ELSE a[i]

LEMMA SwapIs ==
  ASSUME NEW N \in Nat, NEW a \in [0 .. N - 1 -> Int], NEW lo \in Nat, NEW e \in Nat,
         e <= N, NEW x \in lo .. e - 1, NEW y \in lo .. e - 1
  PROVE  Exchanged(a, swap(a, x, y), x, y, lo, e)
  <1>1. x \in 0 .. N - 1 /\ y \in 0 .. N - 1 /\ \A i \in lo .. e - 1 : i \in 0 .. N - 1
    OBVIOUS
  <1> QED
    BY <1>1 DEF swap, Exchanged

\* In b the r elements of a from x and from y on have changed places.
BlocksExchanged(a, b, x, y, r, lo, e) ==
  \A i \in lo .. e - 1 : b[i] = IF i \in x .. x + r - 1 THEN a[y + (i - x)]
                                ELSE IF i \in y .. y + r - 1 THEN a[x + (i - y)]
                                ELSE a[i]

LEMMA VecswapKeeps ==
  ASSUME NEW a, NEW todo, NEW a0, NEW N, ArrayOK(a, todo, a0, N), todo # <<>>,
         NEW lo \in Nat, NEW n \in Nat, Head(todo) = [lo |-> lo, n |-> n],
         NEW x \in Int, NEW y \in Int, NEW r \in Nat,
         lo <= x, x + r <= y, y + r <= lo + n
  PROVE  /\ ArrayOK(vecswap(a, x, y, r), todo, a0, N)
         /\ BlocksExchanged(a, vecswap(a, x, y, r), x, y, r, 0, N)
  <1>1. N \in Nat /\ TodoOK(todo, N) /\ a \in [0 .. N - 1 -> Int]
    BY DEF ArrayOK
  <1>2. lo + n <= N /\ Span(Head(todo)) = lo .. lo + n - 1
    <2>1. Head(todo) \in Pieces(N)
      BY <1>1, Popped
    <2> QED
      BY <2>1 DEF Pieces, Span
  <1>3. PICK e \in Nat : /\ e = lo + n /\ e <= N /\ Span(Head(todo)) = lo .. e - 1
                         /\ lo <= x /\ x + r <= y /\ y + r <= e
    BY <1>2
  <1>4. PICK p : p = [i \in 0 .. N - 1 |-> IF i \in x .. x + r - 1 THEN y + (i - x)
                                            ELSE IF i \in y .. y + r - 1 THEN x + (i - y)
                                            ELSE i]
    OBVIOUS
  <1>5. ASSUME NEW i \in 0 .. N - 1
        PROVE  /\ p[i] \in 0 .. N - 1 /\ p[p[i]] = i
               /\ i \in lo .. e - 1 => p[i] \in lo .. e - 1
               /\ i \notin lo .. e - 1 => p[i] = i
    <2>0. p[i] = IF i \in x .. x + r - 1 THEN y + (i - x)
                 ELSE IF i \in y .. y + r - 1 THEN x + (i - y) ELSE i
      BY <1>4
    <2>1. CASE i \in x .. x + r - 1
      <3>1. p[i] = y + (i - x) /\ p[i] \in y .. y + r - 1 /\ p[i] \notin x .. x + r - 1
        BY <1>1, <1>3, <2>0, <2>1
      <3>2. p[i] \in lo .. e - 1 /\ p[i] \in 0 .. N - 1 /\ i \in lo .. e - 1
        BY <1>1, <1>3, <2>1, <3>1
      <3>3. p[p[i]] = x + (p[i] - y)
        BY <1>4, <3>1, <3>2
      <3> QED
        BY <1>1, <1>3, <2>1, <3>1, <3>2, <3>3
    <2>2. CASE i \notin x .. x + r - 1 /\ i \in y .. y + r - 1
      <3>1. p[i] = x + (i - y) /\ p[i] \in x .. x + r - 1
        BY <1>1, <1>3, <2>0, <2>2
      <3>2. p[i] \in lo .. e - 1 /\ p[i] \in 0 .. N - 1 /\ i \in lo .. e - 1
        BY <1>1, <1>3, <2>2, <3>1
      <3>3. p[p[i]] = y + (p[i] - x)
        BY <1>4, <3>1, <3>2
      <3> QED
        BY <1>1, <1>3, <2>2, <3>1, <3>2, <3>3
    <2>3. CASE i \notin x .. x + r - 1 /\ i \notin y .. y + r - 1
      BY <2>0, <2>3
    <2> QED
      BY <2>1, <2>2, <2>3
  <1>6. p \in [0 .. N - 1 -> 0 .. N - 1]
    BY <1>4, <1>5
  <1>7. \A i \in 0 .. N - 1 : p[p[i]] = i
    BY <1>5
  <1>8. /\ \A i \in Span(Head(todo)) : p[i] \in Span(Head(todo))
        /\ \A i \in 0 .. N - 1 : i \notin Span(Head(todo)) => p[i] = i
    BY <1>1, <1>3, <1>5
  <1>9. ASSUME NEW i \in 0 .. N - 1
        PROVE  /\ vecswap(a, x, y, r)[i] = IF i \in x .. x + r - 1 THEN a[y + (i - x)]
                                           ELSE IF i \in y .. y + r - 1 THEN a[x + (i - y)]
                                           ELSE a[i]
               /\ vecswap(a, x, y, r)[i] = a[p[i]]
    BY <1>1, <1>4 DEF vecswap
  <1>10. vecswap(a, x, y, r) = [i \in 0 .. N - 1 |-> a[p[i]]]
    BY <1>1, <1>9 DEF vecswap
  <1>11. ArrayOK(vecswap(a, x, y, r), todo, a0, N)
    <2>1. PICK b : b = vecswap(a, x, y, r)
      OBVIOUS
    <2>2. b = [i \in 0 .. N - 1 |-> a[p[i]]]
      BY <1>10, <2>1
    <2>3. ArrayOK(b, todo, a0, N)
      BY <1>6, <1>7, <1>8, <2>2, Shuffled
    <2> QED
      BY <2>1, <2>3
  <1> QED
    BY <1>9, <1>11 DEF BlocksExchanged

\* Insertion: up to pm the range lo .. e - 1 is in order, but for the element
\* that sinks, at pl.
Sunk(a, lo, e, pm, pl) ==
  /\ lo + 1 <= pm /\ lo <= pl /\ pl <= pm /\ (pm >= e => pl = pm)
  /\ \A i, j \in lo .. e - 1 : (i < j /\ j <= pm /\ j # pl) => a[i] <= a[j]

LEMMA Sinks ==
  ASSUME NEW N \in Nat, NEW a \in [0 .. N - 1 -> Int], NEW lo \in Nat, NEW e \in Nat,
         e <= N, NEW pm \in Int, NEW pl \in Int, Sunk(a, lo, e, pm, pl), pm < e
  PROVE  /\ (pl > lo /\ a[pl - 1] > a[pl]) => Sunk(swap(a, pl, pl - 1), lo, e, pm, pl - 1)
         /\ ~(pl > lo /\ a[pl - 1] > a[pl]) => Sunk(a, lo, e, pm + 1, pm + 1)
  <1>0. lo + 1 <= pm /\ lo <= pl /\ pl <= pm
    BY DEF Sunk
  <1>1. ASSUME pl > lo, a[pl - 1] > a[pl]
        PROVE  Sunk(swap(a, pl, pl - 1), lo, e, pm, pl - 1)
    <2>1. PICK b : b = swap(a, pl, pl - 1)
      OBVIOUS
    <2>2. Exchanged(a, b, pl, pl - 1, lo, e)
      <3>1. pl \in lo .. e - 1 /\ pl - 1 \in lo .. e - 1
        BY <1>0, <1>1
      <3> QED
        BY <2>1, <3>1, SwapIs, Zenon
    <2>3. ASSUME NEW i \in lo .. e - 1, NEW j \in lo .. e - 1, i < j, j <= pm, j # pl - 1
          PROVE  b[i] <= b[j]
      <3>1. /\ a[i] \in Int /\ a[j] \in Int /\ a[pl] \in Int /\ a[pl - 1] \in Int
            /\ pl \in lo .. e - 1 /\ pl - 1 \in lo .. e - 1
        BY <1>0, <1>1
      <3>2. CASE j = pl
        <4>1. b[j] = a[pl - 1] /\ (i = pl - 1 => b[i] = a[pl])
          BY <1>0, <1>1, <2>2, <3>1, <3>2 DEF Exchanged
        <4>2. i # pl - 1 => b[i] = a[i] /\ a[i] <= a[pl - 1]
          BY <1>0, <1>1, <2>2, <2>3, <3>1, <3>2 DEF Sunk, Exchanged
        <4> QED
          BY <1>1, <3>1, <4>1, <4>2
      <3>3. CASE j # pl
        <4>1. b[j] = a[j] /\ a[i] <= a[j]
          BY <2>2, <2>3, <3>1, <3>3 DEF Sunk, Exchanged
        <4>2. pl < j => a[pl] <= a[j] /\ a[pl - 1] <= a[j]
          BY <2>3, <3>1, <3>3 DEF Sunk
        <4>3. i = pl \/ i = pl - 1 => pl < j
          BY <1>0, <2>3, <3>3
        <4> QED
          BY <2>2, <4>1, <4>2, <4>3 DEF Exchanged
      <3> QED
        BY <3>2, <3>3
    <2> QED
      BY <1>0, <1>1, <2>1, <2>3 DEF Sunk
  <1>2. ASSUME ~(pl > lo /\ a[pl - 1] > a[pl])
        PROVE  Sunk(a, lo, e, pm + 1, pm + 1)
    <2>1. ASSUME NEW i \in lo .. e - 1, NEW j \in lo .. e - 1, i < j, j <= pm
          PROVE  a[i] <= a[j]
      <3>1. CASE j = pl
        <4>1. a[pl - 1] <= a[pl] /\ pl - 1 \in lo .. e - 1 /\ a[i] \in Int
              /\ a[pl - 1] \in Int /\ a[pl] \in Int
          BY <1>0, <1>2, <2>1, <3>1
        <4>2. i # pl - 1 => a[i] <= a[pl - 1]
          BY <1>0, <2>1, <3>1, <4>1 DEF Sunk
        <4> QED
          BY <3>1, <4>1, <4>2
      <3>2. CASE j # pl
        BY <2>1, <3>2 DEF Sunk
      <3> QED
        BY <3>1, <3>2
    <2> QED
      BY <1>0, <2>1 DEF Sunk
  <1> QED
    BY <1>1, <1>2

\* The scans: the pivot at lo and the elements equal to it from lo to pa and
\* behind pd, smaller ones from pa to pb, larger ones behind pc.
Scanned(a, lo, e, pa, pb, pc, pd) ==
  /\ lo < pa /\ pa <= pb /\ pb <= pc + 1 /\ pc <= pd /\ pd < e
  /\ \A i \in lo .. pa - 1 : a[i] = a[lo]
  /\ \A i \in pa .. pb - 1 : a[i] < a[lo]
  /\ \A i \in pc + 1 .. pd : a[i] > a[lo]
  /\ \A i \in pd + 1 .. e - 1 : a[i] = a[lo]

LEMMA ScansUp ==
  ASSUME NEW N \in Nat, NEW a \in [0 .. N - 1 -> Int], NEW lo \in Nat, NEW e \in Nat,
         e <= N, NEW pa \in Int, NEW pb \in Int, NEW pc \in Int, NEW pd \in Int,
         Scanned(a, lo, e, pa, pb, pc, pd), pb <= pc
  PROVE  /\ a[pb] < a[lo] => Scanned(a, lo, e, pa, pb + 1, pc, pd)
         /\ a[pb] = a[lo] => Scanned(swap(a, pa, pb), lo, e, pa + 1, pb + 1, pc, pd)
  <1>0. lo < pa /\ pa <= pb /\ pc <= pd /\ pd < e
    BY DEF Scanned
  <1>1. a[pb] < a[lo] => Scanned(a, lo, e, pa, pb + 1, pc, pd)
    BY <1>0 DEF Scanned
  <1>2. ASSUME a[pb] = a[lo]
        PROVE  Scanned(swap(a, pa, pb), lo, e, pa + 1, pb + 1, pc, pd)
    <2>1. PICK b : b = swap(a, pa, pb)
      OBVIOUS
    <2>2. Exchanged(a, b, pa, pb, lo, e)
      <3>1. pa \in lo .. e - 1 /\ pb \in lo .. e - 1
        BY <1>0
      <3> QED
        BY <2>1, <3>1, SwapIs, Zenon
    <2>3. b[lo] = a[lo] /\ b[pa] = a[lo]
      BY <1>0, <1>2, <2>2 DEF Exchanged
    <2>4. pa < pb => b[pb] = a[pa] /\ a[pa] < a[lo]
      BY <1>0, <2>2 DEF Scanned, Exchanged
    <2>5. \A i \in lo .. e - 1 : i # pa /\ i # pb => b[i] = a[i]
      BY <2>2 DEF Exchanged
    <2>6. \A i \in lo .. pa + 1 - 1 : b[i] = b[lo]
      BY <1>0, <2>3, <2>5 DEF Scanned
    <2>7. \A i \in pa + 1 .. pb + 1 - 1 : b[i] < b[lo]
      BY <1>0, <2>3, <2>4, <2>5 DEF Scanned
    <2>8. \A i \in pc + 1 .. pd : b[i] > b[lo]
      BY <1>0, <2>3, <2>5 DEF Scanned
    <2>9. \A i \in pd + 1 .. e - 1 : b[i] = b[lo]
      BY <1>0, <2>3, <2>5 DEF Scanned
    <2> QED
      BY <1>0, <2>1, <2>6, <2>7, <2>8, <2>9 DEF Scanned
  <1> QED
    BY <1>1, <1>2

LEMMA ScansDown ==
  ASSUME NEW N \in Nat, NEW a \in [0 .. N - 1 -> Int], NEW lo \in Nat, NEW e \in Nat,
         e <= N, NEW pa \in Int, NEW pb \in Int, NEW pc \in Int, NEW pd \in Int,
         Scanned(a, lo, e, pa, pb, pc, pd), pb <= pc, a[pb] > a[lo], a[pc] > a[lo]
  PROVE  Scanned(a, lo, e, pa, pb, pc - 1, pd)
  <1>0. lo < pa /\ pa <= pb /\ pc <= pd /\ pd < e
    BY DEF Scanned
  <1> QED
    BY <1>0 DEF Scanned

\* An element equal to the pivot goes to the right end.
Lowered(a, b, lo, e, pa, pb, pc, pd) ==
  /\ Scanned(b, lo, e, pa, pb, pc - 1, pd - 1)
  /\ b[lo] = a[lo] /\ b[pb] = a[pb]

LEMMA MovesToEnd ==
  ASSUME NEW N \in Nat, NEW a \in [0 .. N - 1 -> Int], NEW lo \in Nat, NEW e \in Nat,
         e <= N, NEW pa \in Int, NEW pb \in Int, NEW pc \in Int, NEW pd \in Int,
         Scanned(a, lo, e, pa, pb, pc, pd), pb <= pc, a[pb] > a[lo], a[pc] = a[lo]
  PROVE  Lowered(a, swap(a, pc, pd), lo, e, pa, pb, pc, pd)
  <1>0. lo < pa /\ pa <= pb /\ pc <= pd /\ pd < e
    BY DEF Scanned
  <1>1. PICK b : b = swap(a, pc, pd)
    OBVIOUS
  <1>2. Exchanged(a, b, pc, pd, lo, e)
    <2>1. pc \in lo .. e - 1 /\ pd \in lo .. e - 1
      BY <1>0
    <2> QED
      BY <1>1, <2>1, SwapIs, Zenon
  <1>10. pb # pc
    <2>1. a[pb] \in Int /\ a[lo] \in Int
      BY <1>0
    <2> QED
      BY <2>1
  <1>3. b[lo] = a[lo] /\ b[pd] = a[lo] /\ b[pb] = a[pb]
    BY <1>0, <1>2, <1>10 DEF Exchanged
  <1>4. pc < pd => b[pc] = a[pd] /\ a[pd] > a[lo]
    BY <1>0, <1>2 DEF Scanned, Exchanged
  <1>5. \A i \in lo .. e - 1 : i # pc /\ i # pd => b[i] = a[i]
    BY <1>2 DEF Exchanged
  <1>6. \A i \in lo .. pa - 1 : b[i] = b[lo]
    BY <1>0, <1>3, <1>5 DEF Scanned
  <1>7. \A i \in pa .. pb - 1 : b[i] < b[lo]
    BY <1>0, <1>3, <1>5 DEF Scanned
  <1>8. \A i \in pc - 1 + 1 .. pd - 1 : b[i] > b[lo]
    BY <1>0, <1>3, <1>4, <1>5 DEF Scanned
  <1>9. \A i \in pd - 1 + 1 .. e - 1 : b[i] = b[lo]
    BY <1>0, <1>3, <1>5 DEF Scanned
  <1> QED
    BY <1>0, <1>1, <1>3, <1>6, <1>7, <1>8, <1>9 DEF Scanned, Lowered

LEMMA SidesChange ==
  ASSUME NEW N \in Nat, NEW a \in [0 .. N - 1 -> Int], NEW lo \in Nat, NEW e \in Nat,
         e <= N, NEW pa \in Int, NEW pb \in Int, NEW pc \in Int, NEW pd \in Int,
         Scanned(a, lo, e, pa, pb, pc, pd), pb <= pc, a[pb] > a[lo], a[pc] < a[lo]
  PROVE  Scanned(swap(a, pb, pc), lo, e, pa, pb + 1, pc - 1, pd)
  <1>0. lo < pa /\ pa <= pb /\ pc <= pd /\ pd < e
    BY DEF Scanned
  <1>1. PICK b : b = swap(a, pb, pc)
    OBVIOUS
  <1>2. Exchanged(a, b, pb, pc, lo, e)
    <2>1. pb \in lo .. e - 1 /\ pc \in lo .. e - 1
      BY <1>0
    <2> QED
      BY <1>1, <2>1, SwapIs, Zenon
  <1>3. pb < pc
    <2>1. a[pb] \in Int /\ a[lo] \in Int /\ a[pc] \in Int
      BY <1>0
    <2> QED
      BY <2>1
  <1>4. b[lo] = a[lo] /\ b[pb] < a[lo] /\ b[pc] > a[lo]
    BY <1>0, <1>2, <1>3 DEF Exchanged
  <1>5. \A i \in lo .. e - 1 : i # pb /\ i # pc => b[i] = a[i]
    BY <1>2 DEF Exchanged
  <1>6. \A i \in lo .. pa - 1 : b[i] = b[lo]
    BY <1>0, <1>4, <1>5 DEF Scanned
  <1>7. \A i \in pa .. pb + 1 - 1 : b[i] < b[lo]
    BY <1>0, <1>4, <1>5 DEF Scanned
  <1>8. \A i \in pc - 1 + 1 .. pd : b[i] > b[lo]
    BY <1>0, <1>4, <1>5 DEF Scanned
  <1>9. \A i \in pd + 1 .. e - 1 : b[i] = b[lo]
    BY <1>0, <1>4, <1>5 DEF Scanned
  <1> QED
    BY <1>0, <1>1, <1>3, <1>6, <1>7, <1>8, <1>9 DEF Scanned

\* The elements equal to the pivot have been gathered between x and y.
Gathered(b, v, lo, x, y, e) ==
  /\ lo <= x /\ x <= y /\ y <= e
  /\ \A i \in lo .. x - 1 : b[i] < v
  /\ \A i \in x .. y - 1 : b[i] = v
  /\ \A i \in y .. e - 1 : b[i] > v

LeftGathered(c, v, lo, x, pb, pd, e) ==
  /\ \A i \in lo .. x - 1 : c[i] < v
  /\ \A i \in x .. pb - 1 : c[i] = v
  /\ \A i \in pb .. pd : c[i] > v
  /\ \A i \in pd + 1 .. e - 1 : c[i] = v

LEMMA GathersLeft ==
  ASSUME NEW a, NEW c, NEW lo \in Int, NEW e \in Int, NEW pa \in Int, NEW pb \in Int,
         NEW pc \in Int, NEW pd \in Int, NEW l \in Int,
         Scanned(a, lo, e, pa, pb, pc, pd), pb > pc, l = Smaller(pa - lo, pb - pa),
         BlocksExchanged(a, c, lo, pb - l, l, lo, e)
  PROVE  LeftGathered(c, a[lo], lo, lo + (pb - pa), pb, pd, e)
  <1> USE DEF BlocksExchanged, LeftGathered
  <1>0. lo < pa /\ pa <= pb /\ pb = pc + 1 /\ pc <= pd /\ pd < e
    BY DEF Scanned
  <1>1. \A i \in pb .. e - 1 : c[i] = a[i]
    BY <1>0 DEF Smaller
  <1>2. (\A i \in pb .. pd : c[i] > a[lo]) /\ (\A i \in pd + 1 .. e - 1 : c[i] = a[lo])
    BY <1>0, <1>1 DEF Scanned
  <1>3. CASE pa - lo < pb - pa
    <2>1. l = pa - lo
      BY <1>3 DEF Smaller
    <2>2. ASSUME NEW i \in lo .. pa - 1
          PROVE  c[i] < a[lo]
      <3>1. c[i] = a[pb - l + (i - lo)]
        BY <1>0, <2>1
      <3>2. pb - l + (i - lo) \in pa .. pb - 1
        BY <1>0, <1>3, <2>1
      <3> QED
        BY <3>1, <3>2 DEF Scanned
    <2>3. \A i \in pa .. pb - l - 1 : c[i] < a[lo]
      BY <1>0, <2>1 DEF Scanned
    <2>4. ASSUME NEW i \in pb - l .. pb - 1
          PROVE  c[i] = a[lo]
      <3>1. c[i] = a[lo + (i - (pb - l))]
        BY <1>0, <1>3, <2>1
      <3>2. lo + (i - (pb - l)) \in lo .. pa - 1
        BY <1>0, <1>3, <2>1
      <3> QED
        BY <3>1, <3>2 DEF Scanned
    <2>5. lo + (pb - pa) = pb - l
      BY <2>1
    <2> QED
      BY <1>0, <1>2, <2>1, <2>2, <2>3, <2>4, <2>5
  <1>4. CASE pa - lo >= pb - pa
    <2>1. l = pb - pa
      BY <1>4 DEF Smaller
    <2>2. ASSUME NEW i \in lo .. lo + l - 1
          PROVE  c[i] < a[lo]
      <3>1. c[i] = a[pb - l + (i - lo)]
        BY <1>0, <1>4, <2>1
      <3>2. pb - l + (i - lo) \in pa .. pb - 1
        BY <1>0, <1>4, <2>1
      <3> QED
        BY <3>1, <3>2 DEF Scanned
    <2>3. \A i \in lo + l .. pa - 1 : c[i] = a[lo]
      BY <1>0, <2>1 DEF Scanned
    <2>4. ASSUME NEW i \in pa .. pb - 1
          PROVE  c[i] = a[lo]
      <3>1. c[i] = a[lo + (i - (pb - l))]
        BY <1>0, <1>4, <2>1
      <3>2. lo + (i - (pb - l)) \in lo .. pa - 1
        BY <1>0, <1>4, <2>1
      <3> QED
        BY <3>1, <3>2 DEF Scanned
    <2> QED
      BY <1>0, <1>2, <2>1, <2>2, <2>3, <2>4
  <1> QED
    BY <1>3, <1>4

LEMMA GathersRight ==
  ASSUME NEW b, NEW c, NEW v, NEW lo \in Int, NEW e \in Int, NEW x \in Int, NEW pb \in Int,
         NEW pc \in Int, NEW pd \in Int, NEW r \in Int,
         lo <= x, x <= pb, pb = pc + 1, pc <= pd, pd < e,
         r = Smaller(pd - pc, e - pd - 1),
         LeftGathered(c, v, lo, x, pb, pd, e), BlocksExchanged(c, b, pb, e - r, r, lo, e)
  PROVE  Gathered(b, v, lo, x, e - (pd - pc), e)
  <1> USE DEF BlocksExchanged, LeftGathered
  <1>1. \A i \in lo .. pb - 1 : b[i] = c[i]
    BY DEF Smaller
  <1>2. (\A i \in lo .. x - 1 : b[i] < v) /\ (\A i \in x .. pb - 1 : b[i] = v)
    BY <1>1
  <1>3. CASE pd - pc < e - pd - 1
    <2>1. r = pd - pc
      BY <1>3 DEF Smaller
    <2>2. ASSUME NEW i \in pb .. pd
          PROVE  b[i] = v
      <3>1. b[i] = c[e - r + (i - pb)] /\ e - r + (i - pb) \in pd + 1 .. e - 1
        BY <1>3, <2>1
      <3> QED
        BY <3>1
    <2>3. \A i \in pd + 1 .. e - r - 1 : b[i] = v
      BY <2>1
    <2>4. ASSUME NEW i \in e - r .. e - 1
          PROVE  b[i] > v
      <3>1. b[i] = c[pb + (i - (e - r))] /\ pb + (i - (e - r)) \in pb .. pd
        BY <1>3, <2>1
      <3> QED
        BY <3>1
    <2>5. e - (pd - pc) = e - r
      BY <2>1
    <2>6. \A i \in x .. e - r - 1 : b[i] = v
      BY <1>2, <2>2, <2>3
    <2> QED
      BY <1>2, <1>3, <2>1, <2>4, <2>5, <2>6 DEF Gathered
  <1>4. CASE pd - pc >= e - pd - 1
    <2>1. r = e - pd - 1
      BY <1>4 DEF Smaller
    <2>2. ASSUME NEW i \in pb .. pb + r - 1
          PROVE  b[i] = v
      <3>1. b[i] = c[e - r + (i - pb)] /\ e - r + (i - pb) \in pd + 1 .. e - 1
        BY <1>4, <2>1
      <3> QED
        BY <3>1
    <2>3. \A i \in pb + r .. pd : b[i] > v
      BY <2>1
    <2>4. ASSUME NEW i \in pd + 1 .. e - 1
          PROVE  b[i] > v
      <3>0. i \notin pb .. pb + r - 1 /\ i \in e - r .. e - r + r - 1 /\ i \in lo .. e - 1
        BY <1>4, <2>1
      <3>1. b[i] = c[pb + (i - (e - r))] /\ pb + (i - (e - r)) \in pb .. pd
        BY <1>4, <2>1, <3>0
      <3> QED
        BY <3>1
    <2>5. e - (pd - pc) = pb + r
      BY <2>1
    <2>6. \A i \in x .. pb + r - 1 : b[i] = v
      BY <1>2, <2>2
    <2>7. \A i \in pb + r .. e - 1 : b[i] > v
      BY <2>1, <2>3, <2>4
    <2> QED
      BY <1>2, <1>4, <2>1, <2>5, <2>6, <2>7 DEF Gathered
  <1> QED
    BY <1>3, <1>4

\* The blocks to exchange lie apart, within the range.
Fit(lo, n, e, pa, pb, l, r) ==
  /\ l \in Nat /\ r \in Nat
  /\ lo + l <= pb - l /\ pb - l + l <= lo + n /\ pb - l \in Int
  /\ pb + r <= e - r /\ e - r + r <= lo + n /\ lo <= pb /\ e - r \in Int
  /\ lo + (pb - pa) \in Int /\ lo <= lo + (pb - pa) /\ lo + (pb - pa) <= pb

LEMMA BlocksFit ==
  ASSUME NEW lo \in Nat, NEW n \in Nat, NEW e \in Nat, e = lo + n, NEW pa \in Int,
         NEW pb \in Int, NEW pc \in Int, NEW pd \in Int,
         lo < pa, pa <= pb, pb = pc + 1, pc <= pd, pd < e,
         NEW l, l = Smaller(pa - lo, pb - pa), NEW r, r = Smaller(pd - pc, e - pd - 1)
  PROVE  Fit(lo, n, e, pa, pb, l, r)
  <1>1. l \in Nat /\ l <= pa - lo /\ l <= pb - pa
    BY DEF Smaller
  <1>2. r \in Nat /\ r <= pd - pc /\ r <= e - pd - 1
    BY DEF Smaller
  <1> QED
    BY <1>1, <1>2 DEF Fit

LEMMA Gathers ==
  ASSUME NEW a, NEW todo, NEW a0, NEW N, ArrayOK(a, todo, a0, N), todo # <<>>,
         NEW lo \in Nat, NEW n \in Nat, Head(todo) = [lo |-> lo, n |-> n],
         NEW pa \in Int, NEW pb \in Int, NEW pc \in Int, NEW pd \in Int,
         NEW e \in Nat, e = lo + n, Scanned(a, lo, e, pa, pb, pc, pd), pb > pc,
         NEW l, l = Smaller(pa - lo, pb - pa), NEW r, r = Smaller(pd - pc, e - pd - 1),
         NEW b, b = vecswap(vecswap(a, lo, pb - l, l), pb, e - r, r)
  PROVE  /\ ArrayOK(b, todo, a0, N)
         /\ Gathered(b, a[lo], lo, lo + (pb - pa), e - (pd - pc), e)
  <1>0. lo < pa /\ pa <= pb /\ pb = pc + 1 /\ pc <= pd /\ pd < e
    BY DEF Scanned
  <1>1. N \in Nat /\ TodoOK(todo, N) /\ e <= N
    <2>1. N \in Nat /\ TodoOK(todo, N)
      BY DEF ArrayOK
    <2>2. Head(todo) \in Pieces(N)
      BY <2>1, Popped
    <2> QED
      BY <2>1, <2>2 DEF Pieces
  <1>2. /\ l \in Nat /\ r \in Nat
        /\ lo + l <= pb - l /\ pb - l + l <= lo + n /\ pb - l \in Int
        /\ pb + r <= e - r /\ e - r + r <= lo + n /\ lo <= pb /\ e - r \in Int
        /\ lo + (pb - pa) \in Int /\ lo <= lo + (pb - pa) /\ lo + (pb - pa) <= pb
    <2>1. Fit(lo, n, e, pa, pb, l, r)
      BY <1>0, BlocksFit
    <2> QED
      BY <2>1, Zenon DEF Fit
  <1>3. lo \in Int /\ lo <= lo /\ e \in Int /\ l \in Int /\ r \in Int
    BY <1>2
  <1>6. PICK c : c = vecswap(a, lo, pb - l, l)
    OBVIOUS
  <1>7. b = vecswap(c, pb, e - r, r)
    BY <1>6
  <1>8. ArrayOK(c, todo, a0, N) /\ BlocksExchanged(a, c, lo, pb - l, l, 0, N)
    BY <1>2, <1>3, <1>6, VecswapKeeps, Zenon
  <1>9. ArrayOK(b, todo, a0, N) /\ BlocksExchanged(c, b, pb, e - r, r, 0, N)
    <2>1. /\ ArrayOK(vecswap(c, pb, e - r, r), todo, a0, N)
          /\ BlocksExchanged(c, vecswap(c, pb, e - r, r), pb, e - r, r, 0, N)
      BY <1>2, <1>8, VecswapKeeps, Zenon
    <2> QED
      BY <1>7, <2>1, Zenon
  <1>10. /\ BlocksExchanged(a, c, lo, pb - l, l, lo, e)
         /\ BlocksExchanged(c, b, pb, e - r, r, lo, e)
    <2>1. \A i \in lo .. e - 1 : i \in 0 .. N - 1
      BY <1>1
    <2> QED
      BY <1>8, <1>9, <2>1 DEF BlocksExchanged
  <1>11. LeftGathered(c, a[lo], lo, lo + (pb - pa), pb, pd, e)
    BY <1>3, <1>10, GathersLeft, Zenon
  <1>12. Gathered(b, a[lo], lo, lo + (pb - pa), e - (pd - pc), e)
    BY <1>0, <1>2, <1>3, <1>10, <1>11, GathersRight, Zenon
  <1> QED
    BY <1>9, <1>12

\* The first range is done once its elements are in order.
LEMMA RangeSorted ==
  ASSUME NEW a, NEW todo, NEW a0, NEW N, ArrayOK(a, todo, a0, N), todo # <<>>,
         \A i, j \in Span(Head(todo)) : i < j => a[i] <= a[j]
  PROVE  ArrayOK(a, Tail(todo), a0, N)
  <1>1. N \in Nat /\ TodoOK(todo, N)
    BY DEF ArrayOK
  <1>2. /\ TodoOK(Tail(todo), N)
        /\ \A i, j : InOne(todo, i, j)
                       <=> {i, j} \subseteq Span(Head(todo)) \/ InOne(Tail(todo), i, j)
    BY <1>1, Popped
  <1>3. Ordered(a, Tail(todo), N)
    BY <1>2 DEF ArrayOK, Ordered
  <1> QED
    BY <1>2, <1>3 DEF ArrayOK

\* The range is split at the elements equal to the pivot; a part of one element
\* needs no sorting.
Split(first, len) == IF len > 1 THEN <<[lo |-> first, n |-> len]>> ELSE <<>>

Clear(S, todo) == \A k \in DOMAIN todo : S \cap Span(todo[k]) = {}

LEMMA PartPushed ==
  ASSUME NEW N \in Nat, NEW first \in Nat, NEW e \in Nat, first <= e, e <= N,
         NEW todo, TodoOK(todo, N), Clear(first .. e - 1, todo)
  PROVE  /\ Split(first, e - first) \in Seq(Pieces(N))
         /\ TodoOK(Split(first, e - first) \o todo, N)
         /\ \A i, j : InOne(todo, i, j) => InOne(Split(first, e - first) \o todo, i, j)
         /\ \A i, j \in first .. e - 1 :
              i # j => InOne(Split(first, e - first) \o todo, i, j)
         /\ \A S : (Clear(S, todo) /\ S \cap (first .. e - 1) = {})
                     => Clear(S, Split(first, e - first) \o todo)
  <1>1. CASE e - first > 1
    <2>1. PICK r : r = [lo |-> first, n |-> e - first]
      OBVIOUS
    <2>2. r \in Pieces(N) /\ Span(r) = first .. e - 1
      BY <2>1 DEF Pieces, Span
    <2>3. Split(first, e - first) = <<r>> /\ <<r>> \in Seq(Pieces(N))
      BY <1>1, <2>1, <2>2 DEF Split
    <2>4. /\ TodoOK(<<r>> \o todo, N)
          /\ \A i, j : InOne(<<r>> \o todo, i, j)
                         <=> {i, j} \subseteq Span(r) \/ InOne(todo, i, j)
          /\ \A S : (\A k \in DOMAIN todo : S \cap Span(todo[k]) = {}) /\ S \cap Span(r) = {}
                      => \A k \in DOMAIN (<<r>> \o todo) : S \cap Span((<<r>> \o todo)[k]) = {}
      BY <2>2, Pushed DEF Clear
    <2>5. PICK more : more = <<r>> \o todo
      OBVIOUS
    <2>6. more = Split(first, e - first) \o todo
      BY <2>3, <2>5
    <2>7. /\ TodoOK(more, N)
          /\ \A i, j : InOne(todo, i, j) => InOne(more, i, j)
          /\ \A i, j \in first .. e - 1 : i # j => InOne(more, i, j)
      BY <2>2, <2>4, <2>5
    <2>8. \A S : (Clear(S, todo) /\ S \cap (first .. e - 1) = {}) => Clear(S, more)
      BY <2>2, <2>4, <2>5, Zenon DEF Clear
    <2> QED
      BY <2>3, <2>6, <2>7, <2>8, Zenon
  <1>2. CASE e - first <= 1
    <2>1. Split(first, e - first) = <<>> /\ <<>> \in Seq(Pieces(N))
      BY <1>2 DEF Split
    <2>2. Split(first, e - first) \o todo = todo
      BY <2>1, ConcatEmptySeq DEF TodoOK
    <2>3. \A i, j \in first .. e - 1 : i = j
      BY <1>2
    <2> QED
      BY <2>1, <2>2, <2>3, Zenon
  <1> QED
    BY <1>1, <1>2

Reassociates(S, x, y, z) == x \o y \o z = x \o (y \o z)

LEMMA Reassociated ==
  ASSUME NEW S, NEW x \in Seq(S), NEW y \in Seq(S), NEW z \in Seq(S)
  PROVE  Reassociates(S, x, y, z)
  BY ConcatAssociative DEF Reassociates

LEMMA RangeSplit ==
  ASSUME NEW b, NEW todo, NEW a0, NEW N, ArrayOK(b, todo, a0, N), todo # <<>>,
         NEW lo \in Nat, NEW n \in Nat, Head(todo) = [lo |-> lo, n |-> n],
         NEW e \in Nat, e = lo + n, NEW x \in Int, NEW y \in Int, NEW v \in Int,
         Gathered(b, v, lo, x, y, e)
  PROVE  ArrayOK(b, Split(lo, x - lo) \o Split(y, e - y) \o Tail(todo), a0, N)
  <1>0. lo <= x /\ x <= y /\ y <= e
    BY DEF Gathered
  <1>1. N \in Nat /\ TodoOK(todo, N) /\ b \in [0 .. N - 1 -> Int]
    BY DEF ArrayOK
  <1>2. PICK rest : rest = Tail(todo)
    OBVIOUS
  <1>3. Span(Head(todo)) = lo .. e - 1
    BY DEF Span
  <1>4. /\ TodoOK(rest, N) /\ e <= N
        /\ \A i, j : InOne(todo, i, j) <=> {i, j} \subseteq lo .. e - 1 \/ InOne(rest, i, j)
        /\ \A k \in DOMAIN rest : (lo .. e - 1) \cap Span(rest[k]) = {}
    <2>1. Head(todo) \in Pieces(N)
      BY <1>1, Popped
    <2>2. e <= N
      BY <2>1 DEF Pieces
    <2> QED
      BY <1>1, <1>2, <1>3, <2>2, Popped
  <1>5. PICK upper : upper = Split(y, e - y) \o rest
    OBVIOUS
  <1>6. /\ Split(y, e - y) \in Seq(Pieces(N)) /\ TodoOK(upper, N)
        /\ \A i, j : InOne(rest, i, j) => InOne(upper, i, j)
        /\ \A i, j \in y .. e - 1 : i # j => InOne(upper, i, j)
        /\ Clear(lo .. x - 1, upper)
    <2>1. y \in Nat /\ (lo .. x - 1) \cap (y .. e - 1) = {}
      BY <1>0
    <2>2. \A i : (i \in y .. e - 1 \/ i \in lo .. x - 1) => i \in lo .. e - 1
      BY <1>0
    <2>3. Clear(y .. e - 1, rest) /\ Clear(lo .. x - 1, rest)
      BY <1>4, <2>2, Zenon DEF Clear
    <2>4. /\ Split(y, e - y) \in Seq(Pieces(N)) /\ TodoOK(upper, N)
          /\ \A i, j : InOne(rest, i, j) => InOne(upper, i, j)
          /\ \A i, j \in y .. e - 1 : i # j => InOne(upper, i, j)
      BY <1>0, <1>1, <1>4, <1>5, <2>1, <2>3, PartPushed, Zenon
    <2>5. Clear(lo .. x - 1, upper)
      BY <1>0, <1>1, <1>4, <1>5, <2>1, <2>3, PartPushed, Zenon
    <2> QED
      BY <2>4, <2>5, Zenon
  <1>7. PICK all : all = Split(lo, x - lo) \o upper
    OBVIOUS
  <1>8. /\ Split(lo, x - lo) \in Seq(Pieces(N)) /\ TodoOK(all, N)
        /\ \A i, j : InOne(upper, i, j) => InOne(all, i, j)
        /\ \A i, j \in lo .. x - 1 : i # j => InOne(all, i, j)
    <2>1. x \in Nat /\ x <= N
      BY <1>0, <1>1, <1>4
    <2> QED
      BY <1>0, <1>1, <1>6, <1>7, <2>1, PartPushed, Zenon
  <1>9. Split(lo, x - lo) \o Split(y, e - y) \o Tail(todo) = all
    <2>1. rest \in Seq(Pieces(N))
      BY <1>4 DEF TodoOK
    <2>2. PICK s, u : s = Split(lo, x - lo) /\ u = Split(y, e - y)
      OBVIOUS
    <2>3. s \in Seq(Pieces(N)) /\ u \in Seq(Pieces(N))
      BY <1>6, <1>8, <2>2
    <2>4. Reassociates(Pieces(N), s, u, rest)
      BY <2>1, <2>3, Reassociated, Zenon
    <2> QED
      BY <1>2, <1>5, <1>7, <2>2, <2>4, Zenon DEF Reassociates
  <1>10. Ordered(b, all, N)
    <2> SUFFICES ASSUME NEW i \in 0 .. N - 1, NEW j \in 0 .. N - 1, i < j, ~InOne(all, i, j)
                 PROVE  b[i] <= b[j]
      BY DEF Ordered
    <2>0. b[i] \in Int /\ b[j] \in Int /\ ~InOne(rest, i, j)
      BY <1>1, <1>6, <1>8
    <2>1. CASE ~({i, j} \subseteq lo .. e - 1)
      BY <1>4, <2>0, <2>1 DEF ArrayOK, Ordered
    <2>2. CASE i \in lo .. e - 1 /\ j \in lo .. e - 1
      <3>1. ~(i \in lo .. x - 1 /\ j \in lo .. x - 1)
        BY <1>8
      <3>2. ~(i \in y .. e - 1 /\ j \in y .. e - 1)
        BY <1>6, <1>8
      <3>3. CASE i \in lo .. x - 1
        <4>1. b[i] < v /\ (j \in x .. y - 1 \/ j \in y .. e - 1)
          BY <1>0, <2>2, <3>1, <3>3 DEF Gathered
        <4>2. b[j] = v \/ b[j] > v
          BY <4>1 DEF Gathered
        <4> QED
          BY <2>0, <4>1, <4>2
      <3>4. CASE i \in x .. y - 1
        <4>1. b[i] = v /\ (j \in x .. y - 1 \/ j \in y .. e - 1)
          BY <1>0, <2>2, <3>4 DEF Gathered
        <4>2. b[j] = v \/ b[j] > v
          BY <4>1 DEF Gathered
        <4> QED
          BY <2>0, <4>1, <4>2
      <3>5. i \notin y .. e - 1
        BY <1>0, <2>2, <3>2
      <3> QED
        BY <1>0, <2>2, <3>3, <3>4, <3>5
    <2> QED
      BY <2>1, <2>2
  <1>11. ArrayOK(b, all, a0, N)
    BY <1>8, <1>10 DEF ArrayOK
  <1> QED
    BY <1>9, <1>11

\* What holds between two rounds, for the loop at that qsort() is in.
LoopOK(at, a, lo, e, pa, pb, pc, pd, pm, pl) ==
  /\ at = "insertion" => Sunk(a, lo, e, pm, pl)
  /\ at \in {"up", "down", "meet"} => Scanned(a, lo, e, pa, pb, pc, pd)
  /\ (at \in {"down", "meet"} /\ pb <= pc) => a[pb] > a[lo]
  /\ (at = "meet" /\ pb <= pc) => a[pc] < a[lo]

Frames(N) == [at : {"pass", "insertion", "up", "down", "meet"}, a : [0 .. N - 1 -> Int],
              todo : Seq(Pieces(N)), pa : Int, pb : Int, pc : Int, pd : Int,
              swapped : BOOLEAN, pm : Int, pl : Int]

SortOK(f, a0, N) ==
  /\ f \in Frames(N)
  /\ ArrayOK(f.a, f.todo, a0, N)
  /\ f.at # "pass" =>
       /\ f.todo # <<>>
       /\ LoopOK(f.at, f.a, First(f).lo, End(f), f.pa, f.pb, f.pc, f.pd, f.pm, f.pl)

LEMMA SortStarts ==
  ASSUME NEW N \in Nat, NEW a0 \in [0 .. N - 1 -> Int]
  PROVE  SortOK(sort_all(a0), a0, N)
  <1>1. PICK f : f = sort_all(a0)
    OBVIOUS
  <1>2. PICK r : r = [lo |-> 0, n |-> N]
    OBVIOUS
  <1>3. r \in Pieces(N) /\ Span(r) = 0 .. N - 1
    BY <1>2 DEF Pieces, Span
  <1>4. Cardinality(DOMAIN a0) = N
    <2>1. Cardinality(0 .. N - 1) = IF 0 > N - 1 THEN 0 ELSE N - 1 - 0 + 1
      BY FS_Interval
    <2> QED
      BY <2>1
  <1>5. f = [at |-> "pass", a |-> a0, todo |-> <<r>>, pa |-> 0, pb |-> 0, pc |-> 0,
             pd |-> 0, swapped |-> FALSE, pm |-> 0, pl |-> 0]
    BY <1>1, <1>2, <1>4 DEF sort_all
  <1>6. <<r>> \in Seq(Pieces(N)) /\ DOMAIN <<r>> = {1} /\ <<r>>[1] = r
    BY <1>3
  <1>7. ArrayOK(a0, <<r>>, a0, N)
    <2>1. TodoOK(<<r>>, N)
      BY <1>6 DEF TodoOK
    <2>2. Ordered(a0, <<r>>, N)
      BY <1>3, <1>6 DEF Ordered, InOne
    <2> QED
      BY <2>1, <2>2 DEF ArrayOK
  <1>8. f \in Frames(N)
    BY <1>5, <1>6 DEF Frames
  <1> QED
    BY <1>1, <1>5, <1>7, <1>8 DEF SortOK

\* cmp() and the median of three.
LEMMA CmpIs ==
  ASSUME NEW a, NEW i, NEW j, a[i] \in Int, a[j] \in Int
  PROVE  /\ cmp(a, i, j) > 0 <=> a[i] > a[j]
         /\ cmp(a, i, j) < 0 <=> a[i] < a[j]
         /\ cmp(a, i, j) = 0 <=> a[i] = a[j]
  BY DEF cmp

LEMMA PivotIs ==
  ASSUME NEW a, NEW lo \in Nat, NEW n \in Nat, n >= 7
  PROVE  Pivot(a, lo, n) \in lo .. lo + n - 1
  <1>1. \A x, y, z \in lo .. lo + n - 1 : med3(a, x, y, z) \in lo .. lo + n - 1
    BY Zenon DEF med3
  <1>2. PICK h \in Nat, d \in Nat : h = n \div 2 /\ d = n \div 8
    OBVIOUS
  <1>3. 2 * h <= n /\ n <= 2 * h + 1 /\ 8 * d <= n
    BY <1>2
  <1>4. PICK mid \in Nat, last \in Nat : mid = lo + h /\ last = lo + n - 1
    OBVIOUS
  <1>5. {lo, mid, last, lo + d, lo + 2 * d, mid - d, mid + d, last - 2 * d, last - d}
          \subseteq lo .. lo + n - 1
    BY <1>3, <1>4
  <1>6. Pivot(a, lo, n) =
          IF n <= 7 THEN mid
          ELSE IF n <= 40 THEN med3(a, lo, mid, last)
          ELSE med3(a, med3(a, lo, lo + d, lo + 2 * d), med3(a, mid - d, mid, mid + d),
                    med3(a, last - 2 * d, last - d, last))
    BY <1>2, <1>4 DEF Pivot
  <1>7. /\ med3(a, lo, mid, last) \in lo .. lo + n - 1
        /\ med3(a, lo, lo + d, lo + 2 * d) \in lo .. lo + n - 1
        /\ med3(a, mid - d, mid, mid + d) \in lo .. lo + n - 1
        /\ med3(a, last - 2 * d, last - d, last) \in lo .. lo + n - 1
    BY <1>1, <1>5, Zenon
  <1>8. med3(a, med3(a, lo, lo + d, lo + 2 * d), med3(a, mid - d, mid, mid + d),
             med3(a, last - 2 * d, last - d, last)) \in lo .. lo + n - 1
    BY <1>1, <1>7, Zenon
  <1> QED
    BY <1>5, <1>6, <1>7, <1>8, Zenon

Frame(at, a, todo, pa, pb, pc, pd, swapped, pm, pl) ==
  [at |-> at, a |-> a, todo |-> todo, pa |-> pa, pb |-> pb, pc |-> pc, pd |-> pd,
   swapped |-> swapped, pm |-> pm, pl |-> pl]

\* What SortOK() says of a frame with these contents, within and between passes.
Ready(at, a, todo, pa, pb, pc, pd, swapped, pm, pl, lo, e, a0, N) ==
  /\ at \in {"insertion", "up", "down", "meet"} /\ ArrayOK(a, todo, a0, N) /\ todo # <<>>
  /\ pa \in Int /\ pb \in Int /\ pc \in Int /\ pd \in Int
  /\ swapped \in BOOLEAN /\ pm \in Int /\ pl \in Int
  /\ lo = Head(todo).lo /\ e = Head(todo).lo + Head(todo).n
  /\ LoopOK(at, a, lo, e, pa, pb, pc, pd, pm, pl)

Rests(a, todo, pa, pb, pc, pd, swapped, pm, pl, a0, N) ==
  /\ ArrayOK(a, todo, a0, N)
  /\ pa \in Int /\ pb \in Int /\ pc \in Int /\ pd \in Int
  /\ swapped \in BOOLEAN /\ pm \in Int /\ pl \in Int

LEMMA InLoop ==
  ASSUME NEW at, NEW a, NEW todo, NEW pa, NEW pb, NEW pc, NEW pd, NEW swapped, NEW pm,
         NEW pl, NEW lo, NEW e, NEW a0, NEW N,
         Ready(at, a, todo, pa, pb, pc, pd, swapped, pm, pl, lo, e, a0, N)
  PROVE  SortOK(Frame(at, a, todo, pa, pb, pc, pd, swapped, pm, pl), a0, N)
  <1>1. PICK f : f = Frame(at, a, todo, pa, pb, pc, pd, swapped, pm, pl)
    OBVIOUS
  <1>2. a \in [0 .. N - 1 -> Int] /\ todo \in Seq(Pieces(N))
    BY DEF Ready, ArrayOK, TodoOK
  <1>3. f \in Frames(N)
    BY <1>1, <1>2 DEF Frame, Frames, Ready
  <1>4. /\ f.at = at /\ f.a = a /\ f.todo = todo /\ f.pa = pa /\ f.pb = pb /\ f.pc = pc
        /\ f.pd = pd /\ f.pm = pm /\ f.pl = pl
    BY <1>1 DEF Frame
  <1>5. First(f).lo = lo /\ End(f) = e
    BY <1>4, Zenon DEF First, End, Ready
  <1> QED
    BY <1>1, <1>3, <1>4, <1>5, Zenon DEF SortOK, Ready

LEMMA BetweenPasses ==
  ASSUME NEW a, NEW todo, NEW pa, NEW pb, NEW pc, NEW pd, NEW swapped, NEW pm, NEW pl,
         NEW a0, NEW N, Rests(a, todo, pa, pb, pc, pd, swapped, pm, pl, a0, N)
  PROVE  SortOK(Frame("pass", a, todo, pa, pb, pc, pd, swapped, pm, pl), a0, N)
  <1>1. PICK f : f = Frame("pass", a, todo, pa, pb, pc, pd, swapped, pm, pl)
    OBVIOUS
  <1>2. a \in [0 .. N - 1 -> Int] /\ todo \in Seq(Pieces(N))
    BY DEF Rests, ArrayOK, TodoOK
  <1>3. f \in Frames(N) /\ f.at = "pass" /\ f.a = a /\ f.todo = todo
    BY <1>1, <1>2 DEF Frame, Frames, Rests
  <1> QED
    BY <1>1, <1>3, Zenon DEF SortOK, Rests

\* Insertion starts with the second element of the range.
LEMMA InsertionStarts ==
  ASSUME NEW a, NEW lo \in Nat, NEW e \in Nat
  PROVE  Sunk(a, lo, e, lo + 1, lo + 1)
  BY DEF Sunk

\* Every round of every loop keeps what is known.
LEMMA SortStep ==
  ASSUME NEW f, NEW g, NEW a0, NEW N, SortOK(f, a0, N), f.todo # <<>>, g = qsort(f)
  PROVE  SortOK(g, a0, N)
  <1>0. f \in Frames(N)
    BY DEF SortOK
  <1>1. PICK at, a, todo, pa, pb, pc, pd, swapped, pm, pl :
          /\ f.at = at /\ f.a = a /\ f.todo = todo /\ f.pa = pa /\ f.pb = pb /\ f.pc = pc
          /\ f.pd = pd /\ f.swapped = swapped /\ f.pm = pm /\ f.pl = pl
    BY Zenon
  <1>2. /\ f.at = at /\ f.a = a /\ f.todo = todo /\ f.pa = pa /\ f.pb = pb /\ f.pc = pc
        /\ f.pd = pd /\ f.swapped = swapped /\ f.pm = pm /\ f.pl = pl
        /\ at \in {"pass", "insertion", "up", "down", "meet"}
        /\ pa \in Int /\ pb \in Int /\ pc \in Int /\ pd \in Int /\ swapped \in BOOLEAN
        /\ pm \in Int /\ pl \in Int
    BY <1>0, <1>1 DEF Frames
  <1>14. pa \in Int /\ pb \in Int /\ pc \in Int /\ pd \in Int /\ pm \in Int /\ pl \in Int
    BY <1>2
  <1>13. f = Frame(at, a, todo, pa, pb, pc, pd, swapped, pm, pl)
    BY <1>0, <1>2 DEF Frames, Frame
  <1>3. ArrayOK(a, todo, a0, N) /\ todo # <<>> /\ N \in Nat /\ TodoOK(todo, N)
        /\ a \in [0 .. N - 1 -> Int]
    BY <1>2 DEF SortOK, ArrayOK
  <1>4. PICK lo \in Nat, n \in Nat : /\ Head(todo) = [lo |-> lo, n |-> n] /\ lo + n <= N
                                    /\ Span(Head(todo)) = lo .. lo + n - 1
    BY <1>3, PieceIs
  <1>5. PICK e \in Nat : e = lo + n /\ e <= N /\ Span(Head(todo)) = lo .. e - 1
    BY <1>4
  <1>6. /\ First(f) = [lo |-> lo, n |-> n] /\ First(f).lo = lo /\ First(f).n = n /\ End(f) = e
        /\ Head(todo).lo = lo /\ Head(todo).lo + Head(todo).n = e
    BY <1>2, <1>4, <1>5 DEF First, End
  <1>7. at # "pass" => LoopOK(at, a, lo, e, pa, pb, pc, pd, pm, pl)
    BY <1>2, <1>6 DEF SortOK
  <1>8. CASE at = "pass"
    <2>1. g = pass(f)
      BY <1>2, <1>8 DEF qsort
    <2>2. CASE n < 7
      <3>1. g = Frame("insertion", a, todo, pa, pb, pc, pd, swapped, lo + 1, lo + 1)
        <4>1. g = EnterInsertion(f)
          BY <1>6, <2>1, <2>2 DEF pass
        <4> QED
          BY <1>6, <1>13, <4>1 DEF Frame, EnterInsertion
      <3>2. LoopOK("insertion", a, lo, e, pa, pb, pc, pd, lo + 1, lo + 1)
        BY InsertionStarts DEF LoopOK
      <3> QED
        <4>1. lo + 1 \in Int
          BY <1>2
        <4>2. Ready("insertion", a, todo, pa, pb, pc, pd, swapped, lo + 1, lo + 1,
                   lo, e, a0, N)
          BY <1>2, <1>3, <1>6, <3>2, <4>1, Zenon DEF Ready
        <4> QED
          BY <3>1, <4>2, InLoop, Zenon
    <2>3. CASE n >= 7
      <3>1. PICK p \in lo .. e - 1 : p = Pivot(a, lo, n)
        <4>1. Pivot(a, lo, n) \in lo .. lo + n - 1
          BY <2>3, PivotIs
        <4> QED
          BY <1>5, <4>1
      <3>2. PICK b : b = swap(a, lo, p)
        OBVIOUS
      <3>3. lo \in lo .. e - 1
        BY <1>5, <2>3
      <3>4. ArrayOK(b, todo, a0, N)
        BY <1>2, <1>3, <1>5, <3>1, <3>2, <3>3, SwapKeeps
      <3>5. g = Frame("up", b, todo, lo + 1, lo + 1, e - 1, e - 1, FALSE, pm, pl)
        <4>1. g = [f EXCEPT !.at = "up", !.a = b, !.pa = lo + 1, !.pb = lo + 1,
                            !.pc = e - 1, !.pd = e - 1, !.swapped = FALSE]
          <5>1. pass(f) = [f EXCEPT !.at = "up", !.a = b, !.pa = lo + 1, !.pb = lo + 1,
                                    !.pc = lo + n - 1, !.pd = lo + n - 1,
                                    !.swapped = FALSE]
            <6>1. ~(n < 7)
              BY <2>3
            <6> QED
              BY <1>2, <1>6, <3>1, <3>2, <6>1, Zenon DEF pass
          <5>2. lo + n - 1 = e - 1
            BY <1>5
          <5> QED
            BY <2>1, <5>1, <5>2, Zenon
        <4> QED
          BY <1>8, <1>13, <1>14, <4>1 DEF Frame
      <3>6. Scanned(b, lo, e, lo + 1, lo + 1, e - 1, e - 1)
        BY <1>5, <2>3 DEF Scanned
      <3>7. LoopOK("up", b, lo, e, lo + 1, lo + 1, e - 1, e - 1, pm, pl)
        BY <3>6 DEF LoopOK
      <3> QED
        <4>1. lo + 1 \in Int /\ e - 1 \in Int
          BY <1>2
        <4>2. Ready("up", b, todo, lo + 1, lo + 1, e - 1, e - 1, FALSE, pm, pl,
                   lo, e, a0, N)
          BY <1>2, <1>3, <1>6, <3>4, <3>7, <4>1, Zenon DEF Ready
        <4> QED
          BY <3>5, <4>2, InLoop, Zenon
    <2> QED
      BY <2>2, <2>3
  <1>9. CASE at = "insertion"
    <2>1. g = insertion(f) /\ Sunk(a, lo, e, pm, pl)
      BY <1>2, <1>7, <1>9 DEF qsort, LoopOK
    <2>2. CASE pm >= e
      <3>1. g = Frame("pass", a, Tail(todo), pa, pb, pc, pd, swapped, pm, pl)
        BY <1>13, <1>2, <1>6, <2>1, <2>2 DEF insertion, Frame
      <3>2. \A i, j \in Span(Head(todo)) : i < j => a[i] <= a[j]
        BY <1>5, <1>14, <2>1, <2>2 DEF Sunk
      <3>3. ArrayOK(a, Tail(todo), a0, N)
        BY <1>3, <3>2, RangeSorted
      <3> QED
        <4>1. Rests(a, Tail(todo), pa, pb, pc, pd, swapped, pm, pl,
                   a0, N)
          BY <1>2, <3>3, Zenon DEF Rests
        <4> QED
          BY <3>1, <4>1, BetweenPasses, Zenon
    <2>3. CASE pm < e
      <3>0. lo <= pl /\ pl <= pm
        BY <2>1 DEF Sunk
      <3>1. pl > lo => (cmp(a, pl - 1, pl) > 0 <=> a[pl - 1] > a[pl])
        <4> SUFFICES ASSUME pl > lo
                     PROVE  cmp(a, pl - 1, pl) > 0 <=> a[pl - 1] > a[pl]
          OBVIOUS
        <4>1. a[pl - 1] \in Int /\ a[pl] \in Int
          BY <1>2, <1>3, <1>5, <2>3, <3>0
        <4> QED
          BY <4>1, CmpIs
      <3>2. CASE pl > lo /\ a[pl - 1] > a[pl]
        <4>1. g = Frame("insertion", swap(a, pl, pl - 1), todo, pa, pb, pc, pd, swapped,
                        pm, pl - 1)
          <5>1. g = [f EXCEPT !.a = swap(a, pl, pl - 1), !.pl = pl - 1]
            BY <1>2, <1>6, <2>1, <2>3, <3>1, <3>2 DEF insertion
          <5> QED
            BY <1>9, <1>13, <1>14, <5>1 DEF Frame
        <4>2. ArrayOK(swap(a, pl, pl - 1), todo, a0, N)
          <5>1. pl \in lo .. e - 1 /\ pl - 1 \in lo .. e - 1
            BY <1>5, <1>14, <2>3, <3>0, <3>2
          <5> QED
            BY <1>3, <1>5, <5>1, SwapKeeps
        <4>3. Sunk(swap(a, pl, pl - 1), lo, e, pm, pl - 1)
          BY <1>2, <1>3, <1>5, <2>1, <2>3, <3>2, Sinks
        <4>4. LoopOK("insertion", swap(a, pl, pl - 1), lo, e, pa, pb, pc, pd, pm, pl - 1)
          BY <4>3 DEF LoopOK
        <4> QED
          <5>1. pl - 1 \in Int
            BY <1>2
          <5>2. Ready("insertion", swap(a, pl, pl - 1), todo, pa, pb, pc, pd, swapped, pm, pl - 1,
                     lo, e, a0, N)
            BY <1>2, <1>3, <1>6, <4>2, <4>4, <5>1, Zenon DEF Ready
          <5> QED
            BY <4>1, <5>2, InLoop, Zenon
      <3>3. CASE ~(pl > lo /\ a[pl - 1] > a[pl])
        <4>1. g = Frame("insertion", a, todo, pa, pb, pc, pd, swapped, pm + 1, pm + 1)
          <5>1. g = [f EXCEPT !.pm = pm + 1, !.pl = pm + 1]
            BY <1>2, <1>6, <2>1, <2>3, <3>1, <3>3 DEF insertion
          <5> QED
            BY <1>9, <1>13, <1>14, <5>1 DEF Frame
        <4>2. Sunk(a, lo, e, pm + 1, pm + 1)
          BY <1>2, <1>3, <1>5, <2>1, <2>3, <3>3, Sinks
        <4>3. LoopOK("insertion", a, lo, e, pa, pb, pc, pd, pm + 1, pm + 1)
          BY <4>2 DEF LoopOK
        <4> QED
          <5>1. pm + 1 \in Int
            BY <1>2
          <5>2. Ready("insertion", a, todo, pa, pb, pc, pd, swapped, pm + 1, pm + 1,
                     lo, e, a0, N)
            BY <1>2, <1>3, <1>6, <4>3, <5>1, Zenon DEF Ready
          <5> QED
            BY <4>1, <5>2, InLoop, Zenon
      <3> QED
        BY <3>2, <3>3
    <2> QED
      BY <1>5, <1>14, <2>2, <2>3
  <1>10. CASE at = "up"
    <2>1. g = up(f) /\ Scanned(a, lo, e, pa, pb, pc, pd)
      BY <1>2, <1>7, <1>10 DEF qsort, LoopOK
    <2>2. lo < pa /\ pa <= pb /\ pb <= pc + 1 /\ pc <= pd /\ pd < e
      BY <2>1 DEF Scanned
    <2>3. lo \in lo .. e - 1 /\ (pb <= pc => pa \in lo .. e - 1 /\ pb \in lo .. e - 1)
      BY <1>5, <1>14, <2>2
    <2>4. pb <= pc => /\ a[pb] \in Int /\ a[lo] \in Int
                      /\ cmp(a, pb, lo) > 0 <=> a[pb] > a[lo]
                      /\ cmp(a, pb, lo) = 0 <=> a[pb] = a[lo]
      <3>1. pb <= pc => a[pb] \in Int /\ a[lo] \in Int
        BY <1>2, <1>3, <1>5, <2>3
      <3> QED
        BY <3>1, CmpIs
    <2>5. CASE pb > pc \/ cmp(a, pb, lo) > 0
      <3>1. g = Frame("down", a, todo, pa, pb, pc, pd, swapped, pm, pl)
        BY <1>13, <1>2, <1>6, <2>1, <2>5 DEF up, Frame
      <3>2. LoopOK("down", a, lo, e, pa, pb, pc, pd, pm, pl)
        BY <1>14, <2>1, <2>4, <2>5 DEF LoopOK
      <3> QED
        <4>1. Ready("down", a, todo, pa, pb, pc, pd, swapped, pm, pl,
                   lo, e, a0, N)
          BY <1>2, <1>3, <1>6, <3>2, Zenon DEF Ready
        <4> QED
          BY <3>1, <4>1, InLoop, Zenon
    <2>6. CASE ~(pb > pc \/ cmp(a, pb, lo) > 0) /\ cmp(a, pb, lo) = 0
      <3>0. pb <= pc /\ a[pb] = a[lo]
        BY <1>14, <2>4, <2>6
      <3>1. PICK b : b = swap(a, pa, pb)
        OBVIOUS
      <3>2. g = Frame("up", b, todo, pa + 1, pb + 1, pc, pd, TRUE, pm, pl)
        <4>1. g = [f EXCEPT !.a = b, !.pa = pa + 1, !.pb = pb + 1, !.swapped = TRUE]
          BY <1>2, <1>6, <2>1, <2>6, <3>1 DEF up
        <4> QED
          BY <1>10, <1>13, <1>14, <4>1 DEF Frame
      <3>3. ArrayOK(b, todo, a0, N)
        BY <1>2, <1>3, <1>5, <2>3, <3>0, <3>1, SwapKeeps
      <3>4. Scanned(b, lo, e, pa + 1, pb + 1, pc, pd)
        BY <1>2, <1>3, <1>5, <2>1, <3>0, <3>1, ScansUp
      <3>5. LoopOK("up", b, lo, e, pa + 1, pb + 1, pc, pd, pm, pl)
        BY <3>4 DEF LoopOK
      <3> QED
        <4>1. pa + 1 \in Int /\ pb + 1 \in Int
          BY <1>2
        <4>2. Ready("up", b, todo, pa + 1, pb + 1, pc, pd, TRUE, pm, pl,
                   lo, e, a0, N)
          BY <1>2, <1>3, <1>6, <3>3, <3>5, <4>1, Zenon DEF Ready
        <4> QED
          BY <3>2, <4>2, InLoop, Zenon
    <2>7. CASE ~(pb > pc \/ cmp(a, pb, lo) > 0) /\ cmp(a, pb, lo) # 0
      <3>0. pb <= pc /\ a[pb] < a[lo]
        BY <1>14, <2>4, <2>7
      <3>1. g = Frame("up", a, todo, pa, pb + 1, pc, pd, swapped, pm, pl)
        <4>1. g = [f EXCEPT !.pb = pb + 1]
          BY <1>2, <1>6, <2>1, <2>7 DEF up
        <4> QED
          BY <1>10, <1>13, <1>14, <4>1 DEF Frame
      <3>2. Scanned(a, lo, e, pa, pb + 1, pc, pd)
        BY <1>2, <1>3, <1>5, <2>1, <3>0, ScansUp
      <3>3. LoopOK("up", a, lo, e, pa, pb + 1, pc, pd, pm, pl)
        BY <3>2 DEF LoopOK
      <3> QED
        <4>1. pb + 1 \in Int
          BY <1>2
        <4>2. Ready("up", a, todo, pa, pb + 1, pc, pd, swapped, pm, pl,
                   lo, e, a0, N)
          BY <1>2, <1>3, <1>6, <3>3, <4>1, Zenon DEF Ready
        <4> QED
          BY <3>1, <4>2, InLoop, Zenon
    <2> QED
      BY <2>5, <2>6, <2>7
  <1>11. CASE at = "down"
    <2>1. /\ g = down(f) /\ Scanned(a, lo, e, pa, pb, pc, pd)
          /\ pb <= pc => a[pb] > a[lo]
      BY <1>2, <1>7, <1>11 DEF qsort, LoopOK
    <2>2. lo < pa /\ pa <= pb /\ pb <= pc + 1 /\ pc <= pd /\ pd < e
      BY <2>1 DEF Scanned
    <2>3. lo \in lo .. e - 1 /\ pd \in lo .. e - 1 /\ (pb <= pc => pc \in lo .. e - 1)
      BY <1>5, <1>14, <2>2
    <2>4. pb <= pc => /\ a[pc] \in Int /\ a[lo] \in Int
                      /\ cmp(a, pc, lo) < 0 <=> a[pc] < a[lo]
                      /\ cmp(a, pc, lo) = 0 <=> a[pc] = a[lo]
      <3>1. pb <= pc => a[pc] \in Int /\ a[lo] \in Int
        BY <1>2, <1>3, <1>5, <2>3
      <3> QED
        BY <3>1, CmpIs
    <2>5. CASE pb > pc \/ cmp(a, pc, lo) < 0
      <3>1. g = Frame("meet", a, todo, pa, pb, pc, pd, swapped, pm, pl)
        BY <1>13, <1>2, <1>6, <2>1, <2>5 DEF down, Frame
      <3>2. LoopOK("meet", a, lo, e, pa, pb, pc, pd, pm, pl)
        BY <1>14, <2>1, <2>4, <2>5 DEF LoopOK
      <3> QED
        <4>1. Ready("meet", a, todo, pa, pb, pc, pd, swapped, pm, pl,
                   lo, e, a0, N)
          BY <1>2, <1>3, <1>6, <3>2, Zenon DEF Ready
        <4> QED
          BY <3>1, <4>1, InLoop, Zenon
    <2>6. CASE ~(pb > pc \/ cmp(a, pc, lo) < 0) /\ cmp(a, pc, lo) = 0
      <3>0. pb <= pc /\ a[pc] = a[lo] /\ a[pb] > a[lo]
        BY <1>14, <2>1, <2>4, <2>6
      <3>1. PICK b : b = swap(a, pc, pd)
        OBVIOUS
      <3>2. g = Frame("down", b, todo, pa, pb, pc - 1, pd - 1, TRUE, pm, pl)
        <4>1. g = [f EXCEPT !.a = b, !.pd = pd - 1, !.pc = pc - 1, !.swapped = TRUE]
          BY <1>2, <1>6, <2>1, <2>6, <3>1 DEF down
        <4> QED
          BY <1>11, <1>13, <1>14, <4>1 DEF Frame
      <3>3. ArrayOK(b, todo, a0, N)
        BY <1>2, <1>3, <1>5, <2>3, <3>0, <3>1, SwapKeeps
      <3>4. /\ Scanned(b, lo, e, pa, pb, pc - 1, pd - 1)
            /\ b[lo] = a[lo] /\ b[pb] = a[pb]
        <4>1. Lowered(a, swap(a, pc, pd), lo, e, pa, pb, pc, pd)
          BY <1>3, <1>5, <1>14, <2>1, <3>0, MovesToEnd, Zenon
        <4> QED
          BY <3>1, <4>1, Zenon DEF Lowered
      <3>5. LoopOK("down", b, lo, e, pa, pb, pc - 1, pd - 1, pm, pl)
        BY <3>0, <3>4 DEF LoopOK
      <3> QED
        <4>1. pc - 1 \in Int /\ pd - 1 \in Int
          BY <1>2
        <4>2. Ready("down", b, todo, pa, pb, pc - 1, pd - 1, TRUE, pm, pl,
                   lo, e, a0, N)
          BY <1>2, <1>3, <1>6, <3>3, <3>5, <4>1, Zenon DEF Ready
        <4> QED
          BY <3>2, <4>2, InLoop, Zenon
    <2>7. CASE ~(pb > pc \/ cmp(a, pc, lo) < 0) /\ cmp(a, pc, lo) # 0
      <3>0. pb <= pc /\ a[pc] > a[lo] /\ a[pb] > a[lo]
        BY <1>14, <2>1, <2>4, <2>7
      <3>1. g = Frame("down", a, todo, pa, pb, pc - 1, pd, swapped, pm, pl)
        <4>1. g = [f EXCEPT !.pc = pc - 1]
          BY <1>2, <1>6, <2>1, <2>7 DEF down
        <4> QED
          BY <1>11, <1>13, <1>14, <4>1 DEF Frame
      <3>2. Scanned(a, lo, e, pa, pb, pc - 1, pd)
        BY <1>2, <1>3, <1>5, <2>1, <3>0, ScansDown
      <3>3. LoopOK("down", a, lo, e, pa, pb, pc - 1, pd, pm, pl)
        BY <3>0, <3>2 DEF LoopOK
      <3> QED
        <4>1. pc - 1 \in Int
          BY <1>2
        <4>2. Ready("down", a, todo, pa, pb, pc - 1, pd, swapped, pm, pl,
                   lo, e, a0, N)
          BY <1>2, <1>3, <1>6, <3>3, <4>1, Zenon DEF Ready
        <4> QED
          BY <3>1, <4>2, InLoop, Zenon
    <2> QED
      BY <2>5, <2>6, <2>7
  <1>12. CASE at = "meet"
    <2>1. /\ g = meet(f) /\ Scanned(a, lo, e, pa, pb, pc, pd)
          /\ pb <= pc => a[pb] > a[lo] /\ a[pc] < a[lo]
      BY <1>2, <1>7, <1>12 DEF qsort, LoopOK
    <2>2. lo < pa /\ pa <= pb /\ pb <= pc + 1 /\ pc <= pd /\ pd < e
      BY <2>1 DEF Scanned
    <2>3. CASE pb <= pc
      <3>0. pb \in lo .. e - 1 /\ pc \in lo .. e - 1
        BY <1>5, <1>14, <2>2, <2>3
      <3>1. PICK b : b = swap(a, pb, pc)
        OBVIOUS
      <3>2. g = Frame("up", b, todo, pa, pb + 1, pc - 1, pd, TRUE, pm, pl)
        BY <1>13, <1>2, <1>6, <2>1, <2>3, <3>1 DEF meet, Frame
      <3>3. ArrayOK(b, todo, a0, N)
        BY <1>2, <1>3, <1>5, <3>0, <3>1, SwapKeeps
      <3>4. Scanned(b, lo, e, pa, pb + 1, pc - 1, pd)
        BY <1>2, <1>3, <1>5, <2>1, <2>3, <3>1, SidesChange
      <3>5. LoopOK("up", b, lo, e, pa, pb + 1, pc - 1, pd, pm, pl)
        BY <3>4 DEF LoopOK
      <3> QED
        <4>1. pb + 1 \in Int /\ pc - 1 \in Int
          BY <1>2
        <4>2. Ready("up", b, todo, pa, pb + 1, pc - 1, pd, TRUE, pm, pl,
                   lo, e, a0, N)
          BY <1>2, <1>3, <1>6, <3>3, <3>5, <4>1, Zenon DEF Ready
        <4> QED
          BY <3>2, <4>2, InLoop, Zenon
    <2>4. CASE pb > pc /\ ~swapped
      <3>1. g = Frame("insertion", a, todo, pa, pb, pc, pd, swapped, lo + 1, lo + 1)
        <4>1. g = EnterInsertion(f)
          BY <1>2, <1>6, <2>1, <2>4 DEF meet
        <4> QED
          BY <1>6, <1>13, <4>1 DEF Frame, EnterInsertion
      <3>2. LoopOK("insertion", a, lo, e, pa, pb, pc, pd, lo + 1, lo + 1)
        BY InsertionStarts DEF LoopOK
      <3> QED
        <4>1. lo + 1 \in Int
          BY <1>2
        <4>2. Ready("insertion", a, todo, pa, pb, pc, pd, swapped, lo + 1, lo + 1,
                   lo, e, a0, N)
          BY <1>2, <1>3, <1>6, <3>2, <4>1, Zenon DEF Ready
        <4> QED
          BY <3>1, <4>2, InLoop, Zenon
    <2>5. CASE pb > pc /\ swapped
      <3>1. PICK l, r : /\ l = Smaller(pa - lo, pb - pa)
                        /\ r = Smaller(pd - pc, e - pd - 1)
        OBVIOUS
      <3>2. PICK b : b = vecswap(vecswap(a, lo, pb - l, l), pb, e - r, r)
        OBVIOUS
      <3>3. GatherEqual(f, lo, n) = b
        <4>1. /\ r = Smaller(pd - pc, lo + n - pd - 1)
              /\ b = vecswap(vecswap(a, lo, pb - l, l), pb, lo + n - r, r)
          <5>1. r = Smaller(pd - pc, lo + n - pd - 1)
            <6>1. lo + n - pd - 1 = e - pd - 1
              BY <1>5, <1>14
            <6> QED
              BY <3>1, <6>1, Zenon
          <5>2. r \in Int
            BY <1>14, <3>1 DEF Smaller
          <5>3. lo + n - r = e - r
            BY <1>5, <5>2
          <5> QED
            BY <3>2, <5>1, <5>3, Zenon
        <4> QED
          BY <1>2, <3>1, <4>1, Zenon DEF GatherEqual
      <3>4. PICK x \in Int, y \in Int : x = lo + (pb - pa) /\ y = e - (pd - pc)
        BY <1>14
      <3>10. PICK more : more = Split(lo, x - lo) \o Split(y, e - y) \o Tail(todo)
        OBVIOUS
      <3>5. x - lo = pb - pa /\ e - y = pd - pc
        BY <1>14, <3>4
      <3>6. g = Frame("pass", b, more, pa, pb, pc, pd, swapped, pm, pl)
        <4>1. g = [f EXCEPT !.at = "pass", !.a = b, !.todo = more]
          <5>1. ~(pb <= pc) /\ lo + n - (pd - pc) = y
            BY <1>5, <1>14, <2>5, <3>4
          <5>2. more = Split(lo, pb - pa) \o Split(lo + n - (pd - pc), pd - pc) \o Tail(todo)
            BY <3>5, <3>10, <5>1
          <5> QED
            BY <1>2, <1>6, <2>1, <2>5, <3>3, <5>1, <5>2, Zenon DEF meet, Split
        <4> QED
          BY <1>12, <1>13, <1>14, <4>1 DEF Frame
      <3>7. ArrayOK(b, todo, a0, N) /\ Gathered(b, a[lo], lo, x, y, e)
        BY <1>3, <1>4, <1>5, <1>14, <2>1, <2>5, <3>1, <3>2, <3>4, Gathers, Zenon
      <3>8. a[lo] \in Int
        BY <1>2, <1>3, <1>5, <2>2
      <3>9. ArrayOK(b, more, a0, N)
        BY <1>3, <1>4, <1>5, <3>4, <3>7, <3>8, <3>10, RangeSplit
      <3> QED
        <4>1. Rests(b, more, pa, pb, pc, pd, swapped, pm, pl,
                   a0, N)
          BY <1>2, <3>9, Zenon DEF Rests
        <4> QED
          BY <3>6, <4>1, BetweenPasses, Zenon
    <2> QED
      BY <1>14, <2>3, <2>4, <2>5
  <1> QED
    BY <1>2, <1>8, <1>9, <1>10, <1>11, <1>12

\* What SortedOutsideRanges says follows.
LEMMA SortDone ==
  ASSUME NEW f, NEW a0, NEW N, SortOK(f, a0, N)
  PROVE  InOrderAcross(f, a0)
  <1>1. ArrayOK(f.a, f.todo, a0, N)
    BY DEF SortOK
  <1>2. DOMAIN a0 = 0 .. N - 1 /\ \A i \in DOMAIN a0 : a0[i] \in Int
    BY <1>1 DEF ArrayOK
  <1>3. \A i, j \in DOMAIN a0 : i < j => f.a[i] <= f.a[j] \/ InOne(f.todo, i, j)
    BY <1>1, <1>2 DEF ArrayOK, Ordered
  <1>4. \A i \in DOMAIN a0 : Occurs(f.a, a0[i]) = Occurs(a0, a0[i])
    BY <1>1, <1>2 DEF ArrayOK
  <1> QED
    BY <1>3, <1>4 DEF InOrderAcross, InOne, Span, Occurs

-----------------------------------------------------------------------------
(***************************************************************************)
(* The specification: what is known of each routine at every step.         *)
(***************************************************************************)
Copying == call.fn = "bcopy" => CopyOK(frame, call.from, call.to, call.bytes)

Tokenising ==
  call.fn = "strtok" =>
    /\ frame = [str |-> frame.str, last |-> frame.last, toks |-> frame.toks]
    /\ TokensOK(frame.str, frame.last, frame.toks, call.s, call.delim)

Sorts == call.fn = "qsort" => SortOK(frame, call.a, Cardinality(DOMAIN call.a))

Divides == call.fn = "qdivrem" => DivisionOK(frame, call.u, call.v)

LibcInv == call \in Calls /\ Copying /\ Tokenising /\ Sorts /\ Divides

\* The arguments of a call.
LEMMA ArgumentsOK ==
  ASSUME call \in Calls
  PROVE  /\ call.fn \in {"qdivrem", "qsort", "strtok", "bcopy"}
         /\ call.fn = "qdivrem" => call.u \in Dividends /\ call.v \in Divisors
         /\ call.fn = "qsort" => call.a \in Arrays
         /\ call.fn = "strtok" => call.s \in Strings /\ call.delim \in Delims
         /\ call.fn = "bcopy" => /\ call.from \in Nat /\ call.to \in Nat
                                 /\ call.bytes \in Nat
                                 /\ InMemory(call.from, call.to, call.bytes)
  <1>1. CASE call \in [fn : {"qdivrem"}, u : Dividends, v : Divisors]
    BY <1>1
  <1>2. CASE call \in [fn : {"qsort"}, a : Arrays]
    BY <1>2
  <1>3. CASE call \in [fn : {"strtok"}, s : Strings, delim : Delims]
    BY <1>3
  <1>4. CASE call \in {c \in [fn : {"bcopy"}, from : 0 .. MemSize - 1,
                             to : 0 .. MemSize - 1, bytes : 0 .. MemSize] :
                         c.from + c.bytes <= MemSize /\ c.to + c.bytes <= MemSize}
    <2>1. /\ call.fn = "bcopy" /\ call.from \in 0 .. MemSize - 1
          /\ call.to \in 0 .. MemSize - 1 /\ call.bytes \in 0 .. MemSize
          /\ call.from + call.bytes <= MemSize /\ call.to + call.bytes <= MemSize
      BY <1>4
    <2> QED
      BY <2>1, LibcAssumption DEF InMemory
  <1> QED
    BY <1>1, <1>2, <1>3, <1>4, Zenon DEF Calls

LEMMA LibcStarts == Init => LibcInv
  <1> SUFFICES ASSUME Init PROVE LibcInv
    OBVIOUS
  <1>0. call \in Calls /\ frame = Entered(call)
    BY DEF Init
  <1>1. Copying
    <2> SUFFICES ASSUME call.fn = "bcopy"
                 PROVE  CopyOK(frame, call.from, call.to, call.bytes)
      BY DEF Copying
    <2>1. frame = bcopy(call.from, call.to, call.bytes)
      BY <1>0 DEF Entered
    <2> QED
      BY <1>0, <2>1, ArgumentsOK, CopyStarts
  <1>2. Tokenising
    <2> SUFFICES ASSUME call.fn = "strtok"
                 PROVE  /\ frame = [str |-> frame.str, last |-> frame.last,
                                    toks |-> frame.toks]
                        /\ TokensOK(frame.str, frame.last, frame.toks, call.s, call.delim)
      BY DEF Tokenising
    <2>1. frame = [str |-> Append(call.s, NUL), last |-> NULL, toks |-> <<>>]
      BY <1>0 DEF Entered
    <2>2. IsString(call.s, call.delim)
      BY <1>0, ArgumentsOK, LibcAssumption DEF IsString
    <2>3. TokensOK(Text(call.s), NULL, <<>>, call.s, call.delim)
      BY <2>2, TokensStart
    <2>4. frame.str = Text(call.s) /\ frame.last = NULL /\ frame.toks = <<>>
      BY <2>1 DEF Text
    <2> QED
      BY <2>1, <2>3, <2>4
  <1>3. Sorts
    <2> SUFFICES ASSUME call.fn = "qsort"
                 PROVE  SortOK(frame, call.a, Cardinality(DOMAIN call.a))
      BY DEF Sorts
    <2>1. frame = sort_all(call.a)
      BY <1>0 DEF Entered
    <2>2. PICK N : N = Cardinality(DOMAIN call.a)
      OBVIOUS
    <2>3. IsFiniteSet(DOMAIN call.a) /\ call.a \in [0 .. N - 1 -> Int]
      BY <1>0, <2>2, ArgumentsOK, LibcAssumption
    <2>4. N \in Nat
      BY <2>2, <2>3, FS_CardinalityType
    <2> QED
      BY <2>1, <2>2, <2>3, <2>4, SortStarts
  <1>4. Divides
    <2> SUFFICES ASSUME call.fn = "qdivrem"
                 PROVE  DivisionOK(frame, call.u, call.v)
      BY DEF Divides
    <2>1. frame = qdivrem(call.u, call.v)
      BY <1>0 DEF Entered
    <2>2. PICK w \in Nat : w = Weight(4)
      BY WeightPositive
    <2>3. call.u \in 0 .. w - 1 /\ call.v \in 0 .. w - 1
      BY <1>0, <2>2, ArgumentsOK, LibcAssumption
    <2>4. /\ call.u \in Nat /\ call.v \in Nat
          /\ call.u < w /\ call.v < w
      BY <2>3
    <2>5. call.u < Weight(4) /\ call.v < Weight(4)
      BY <2>2, <2>4, Zenon
    <2> QED
      BY <2>1, <2>4, <2>5, DivisionStarts, Zenon
  <1> QED
    BY <1>0, <1>1, <1>2, <1>3, <1>4 DEF LibcInv

LEMMA LibcSteps == LibcInv /\ [Next]_vars => LibcInv'
  <1> SUFFICES ASSUME LibcInv, [Next]_vars PROVE LibcInv'
    OBVIOUS
  <1>0. /\ call \in Calls /\ Copying /\ Tokenising /\ Sorts /\ Divides
        /\ call' = call
    BY DEF LibcInv, Next, vars, divide, sort, tokenise, movsl, movsb
  <1>1. Copying'
    <2> SUFFICES ASSUME call.fn = "bcopy"
                 PROVE  CopyOK(frame', call.from, call.to, call.bytes)
      BY <1>0 DEF Copying
    <2>1. CopyOK(frame, call.from, call.to, call.bytes)
      BY <1>0 DEF Copying
    <2>2. CASE UNCHANGED vars
      BY <2>1, <2>2 DEF vars
    <2>3. CASE movsl \/ movsb
      BY <1>0, <2>1, <2>3, ArgumentsOK, CopyStep, Zenon DEF movsl, movsb
    <2> QED
      BY <2>2, <2>3 DEF Next, divide, sort, tokenise
  <1>2. Tokenising'
    <2> SUFFICES ASSUME call.fn = "strtok"
                 PROVE  /\ frame' = [str |-> frame'.str, last |-> frame'.last,
                                     toks |-> frame'.toks]
                        /\ TokensOK(frame'.str, frame'.last, frame'.toks, call.s, call.delim)
      BY <1>0 DEF Tokenising
    <2>1. /\ frame = [str |-> frame.str, last |-> frame.last, toks |-> frame.toks]
          /\ TokensOK(frame.str, frame.last, frame.toks, call.s, call.delim)
      BY <1>0, Zenon DEF Tokenising
    <2>2. CASE UNCHANGED vars
      <3>1. frame' = frame
        BY <2>2 DEF vars
      <3> QED
        BY <2>1, <3>1, Zenon
    <2>3. CASE tokenise
      <3>1. frame' = strtok(frame, IF frame.toks = <<>> THEN 1 ELSE NULL, call.delim)
        BY <2>3, Zenon DEF tokenise
      <3>2. PICK f, g, str, last, toks, s, delim :
              /\ f = frame /\ g = frame' /\ str = frame.str /\ last = frame.last
              /\ toks = frame.toks /\ s = call.s /\ delim = call.delim
        BY Zenon
      <3>3. /\ f = [str |-> str, last |-> last, toks |-> toks]
            /\ g = strtok(f, IF toks = <<>> THEN 1 ELSE NULL, delim)
            /\ TokensOK(str, last, toks, s, delim)
        BY <2>1, <3>1, <3>2, Zenon
      <3>4. /\ g = [str |-> g.str, last |-> g.last, toks |-> g.toks]
            /\ TokensOK(g.str, g.last, g.toks, s, delim)
        BY <3>3, TokensStep
      <3> QED
        BY <3>2, <3>4, Zenon
    <2> QED
      BY <2>2, <2>3 DEF Next, divide, sort, movsl, movsb
  <1>3. Sorts'
    <2> SUFFICES ASSUME call.fn = "qsort"
                 PROVE  SortOK(frame', call.a, Cardinality(DOMAIN call.a))
      BY <1>0 DEF Sorts
    <2>1. SortOK(frame, call.a, Cardinality(DOMAIN call.a))
      BY <1>0 DEF Sorts
    <2>2. CASE UNCHANGED vars
      BY <2>1, <2>2 DEF vars
    <2>3. CASE sort
      BY <2>1, <2>3, SortStep, Zenon DEF sort
    <2> QED
      BY <2>2, <2>3 DEF Next, divide, tokenise, movsl, movsb
  <1>4. Divides'
    <2> SUFFICES ASSUME call.fn = "qdivrem"
                 PROVE  DivisionOK(frame', call.u, call.v)
      BY <1>0 DEF Divides
    <2>1. DivisionOK(frame, call.u, call.v)
      BY <1>0 DEF Divides
    <2>2. CASE UNCHANGED vars
      <3>1. frame' = frame
        BY <2>2 DEF vars
      <3> QED
        BY <2>1, <3>1, Zenon
    <2>3. CASE divide
      <3>1. frame' = program_d(frame) /\ frame.pc \notin {"trap", "done"}
        BY <2>3, Zenon DEF divide
      <3> QED
        BY <2>1, <3>1, DivisionStep, Zenon
    <2> QED
      BY <2>2, <2>3 DEF Next, sort, tokenise, movsl, movsb
  <1> QED
    BY <1>0, <1>1, <1>2, <1>3, <1>4 DEF LibcInv

LEMMA LibcKept == Spec => []LibcInv
  BY LibcStarts, LibcSteps, PTL DEF Spec

\* However source and target overlap, bcopy(), and with it memcpy() and memmove(),
\* leaves in the target what the source held at the call and changes no other
\* byte, for a memory and a count of any size.
THEOREM CopyIsExact == Spec => []CopyExact
  <1>1. LibcInv => CopyExact
    <2> SUFFICES ASSUME LibcInv, call.fn = "bcopy", frame.pc = "ret",
                        NEW i \in 0 .. MemSize - 1
                 PROVE  frame.mem[i] = IF i \in call.to .. call.to + call.bytes - 1
                                       THEN call.from + (i - call.to) ELSE i
      BY DEF CopyExact
    <2>1. Copied(frame.mem, call.from, call.to, 0, call.bytes)
      BY DEF LibcInv, Copying, CopyOK
    <2>2. call.from \in Nat /\ call.to \in Nat /\ call.bytes \in Nat
      BY ArgumentsOK DEF LibcInv
    <2> QED
      BY <2>1, <2>2 DEF Copied, Addresses
  <1> QED
    BY <1>1, LibcKept, PTL

\* strtok() cuts a string of any length at any delimiters into exactly the runs
\* between them, one a call and from left to right, and keeps the tokens it has
\* returned intact.
THEOREM TokensAreExact == Spec => []TokensExact
  <1>1. LibcInv => TokensExact
    <2> SUFFICES ASSUME LibcInv, call.fn = "strtok" PROVE TokensExact
      BY DEF TokensExact
    <2>1. TokensOK(frame.str, frame.last, frame.toks, call.s, call.delim)
      BY DEF LibcInv, Tokenising
    <2> QED
      BY <2>1, TokensDone
  <1> QED
    BY <1>1, LibcKept, PTL

\* qsort() sorts arrays of every length and content: whatever pivots it picks,
\* only elements of one range that is still to be sorted may be out of order,
\* and every value occurs as often as before.
THEOREM QsortSorts == Spec => []SortedOutsideRanges
  <1>1. LibcInv => SortedOutsideRanges
    BY SortDone DEF LibcInv, Sorts, SortedOutsideRanges
  <1> QED
    BY <1>1, LibcKept, PTL

\* __qdivrem() divides whatever the width of a digit is: the trial quotients of
\* D3, the wrapped subtraction of D4 and the correction of D6 leave before every
\* digit what the digits found so far account for, and at the end quotient and
\* remainder are those of integer division; it traps for a divisor of 0 only.
THEOREM QdivremDivides == Spec => []DivisionExact
  <1>1. LibcInv => DivisionExact
    <2> SUFFICES ASSUME LibcInv, call.fn = "qdivrem" PROVE DivisionExact
      BY DEF DivisionExact
    <2>1. DivisionOK(frame, call.u, call.v)
      BY DEF LibcInv, Divides
    <2>2. CASE frame.pc = "trap"
      <3>1. call.v = 0
        <4>1. \A U : ~UnderWay(frame, call.u, call.v, U)
          BY <2>2 DEF UnderWay, Common, DivisionFrames, Places
        <4> QED
          BY <2>1, <2>2, <4>1 DEF DivisionOK, Exact
      <3> QED
        BY <2>2, <3>1 DEF DivisionExact
    <2>3. CASE frame.pc = "done"
      <3>1. Exact(frame, call.u, call.v)
        <4>1. \A U : ~UnderWay(frame, call.u, call.v, U)
          BY <2>3 DEF UnderWay, Common, DivisionFrames, Places
        <4> QED
          BY <2>1, <2>3, <4>1 DEF DivisionOK
      <3>2. frame.quot * call.v + frame.rem = call.u /\ frame.rem < call.v
        BY <3>1, Zenon DEF Exact
      <3> QED
        BY <2>3, <3>2 DEF DivisionExact
    <2>4. CASE frame.pc \in {"loop", "finish"}
      <3>1. SoFarExact(frame, call.u, call.v)
        BY <2>1, <2>4, DivisionSoFar, Zenon
      <3> QED
        BY <2>4, <3>1 DEF DivisionExact
    <2>5. CASE frame.pc \notin {"trap", "done", "loop", "finish"}
      BY <2>5 DEF DivisionExact
    <2> QED
      BY <2>2, <2>3, <2>4, <2>5
  <1> QED
    BY <1>1, LibcKept, PTL
=============================================================================
