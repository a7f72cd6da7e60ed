---------------------------- MODULE ProgramProofs ----------------------------
(***************************************************************************)
(* Proofs about Programs.tla, for any number of threads and any arguments  *)
(* of the programs: the screen of nibbles, the screen of beady_test, and   *)
(* the zombie queue of thread groups under every program.                  *)
(***************************************************************************)
EXTENDS Programs, FiniteSetTheorems, SequenceTheorems, NaturalsInduction,
        WellFoundedInduction, TLAPS

-----------------------------------------------------------------------------
(***************************************************************************)
(* nibbles: the ring of the snake's positions                              *)
(***************************************************************************)
Entries == 0 .. SNAKE_MAX_LENGTH - 1

LEMMA RingIs ==
  /\ \A i \in Entries : Ring(i) = i
  /\ \A i \in Entries : Ring(i - SNAKE_MAX_LENGTH) = i
  /\ Ring(SNAKE_MAX_LENGTH) = 0
  <1> DEFINE M == SNAKE_MAX_LENGTH
  <1>1. M \in Nat /\ M > 0
    BY NibblesAssumption
  <1> HIDE DEF M
  <1>2. \A i \in 0 .. M - 1 : (i + M) % M = i /\ (i - M + M) % M = i
    BY <1>1
  <1>3. (M + M) % M = 0
    BY <1>1
  <1> QED
    BY <1>2, <1>3 DEF M, Ring, Entries

\* The entry k places behind start.
LEMMA PlaceIs ==
  ASSUME NEW start \in Entries, NEW k \in 0 .. SNAKE_MAX_LENGTH
  PROVE  /\ Ring(start - k) \in Entries
         /\ Ring(start - k) = IF k <= start THEN start - k
                              ELSE start - k + SNAKE_MAX_LENGTH
  <1>1. CASE k <= start
    <2>1. start - k \in Entries
      BY <1>1, NibblesAssumption DEF Entries
    <2> QED
      BY <1>1, <2>1, RingIs
  <1>2. CASE k > start
    <2>1. /\ start - k + SNAKE_MAX_LENGTH \in Entries
          /\ start - k = (start - k + SNAKE_MAX_LENGTH) - SNAKE_MAX_LENGTH
      BY <1>2, NibblesAssumption DEF Entries
    <2>2. ~(k <= start)
      BY <1>2 DEF Entries
    <2> QED
      BY <2>1, <2>2, RingIs
  <1> QED
    BY <1>1, <1>2 DEF Entries

\* What is k places behind the new head was k - 1 places behind the old one.
LEMMA PlacesShift ==
  ASSUME NEW start \in Entries
  PROVE  LET new == Ring(start + 1)
         IN /\ new \in Entries
            /\ Ring(new - 0) = new
            /\ \A k \in 1 .. SNAKE_MAX_LENGTH :
                 /\ Ring(new - k) = Ring(start - (k - 1))
                 /\ k < SNAKE_MAX_LENGTH => Ring(start - (k - 1)) # new
  <1> DEFINE new == Ring(start + 1)
  <1>1. new = IF start + 1 = SNAKE_MAX_LENGTH THEN 0 ELSE start + 1
    BY RingIs, NibblesAssumption DEF Entries
  <1>2. new \in Entries
    BY <1>1, NibblesAssumption DEF Entries
  <1> HIDE DEF new
  <1>3. Ring(new - 0) = new
    BY <1>2, RingIs, NibblesAssumption DEF Entries
  <1>4. ASSUME NEW k \in 1 .. SNAKE_MAX_LENGTH
        PROVE  /\ Ring(new - k) = Ring(start - (k - 1))
               /\ k < SNAKE_MAX_LENGTH => Ring(start - (k - 1)) # new
    <2>1. k \in 0 .. SNAKE_MAX_LENGTH /\ k - 1 \in 0 .. SNAKE_MAX_LENGTH
      BY NibblesAssumption
    <2>2. Ring(new - k) = IF k <= new THEN new - k ELSE new - k + SNAKE_MAX_LENGTH
      BY <1>2, <2>1, PlaceIs
    <2>3. Ring(start - (k - 1)) = IF k - 1 <= start THEN start - (k - 1)
                                  ELSE start - (k - 1) + SNAKE_MAX_LENGTH
      BY <2>1, PlaceIs
    <2> QED
      BY <1>1, <2>2, <2>3, NibblesAssumption DEF Entries
  <1> QED
    BY <1>2, <1>3, <1>4 DEF new

LEMMA LeastOf ==
  ASSUME NEW S \in SUBSET Nat, S # {}
  PROVE  \E x \in S : \A y \in S : x <= y
  <1> DEFINE R == {p \in Nat \X Nat : p[1] < p[2]}
  <1>1. IsWellFoundedOn(R, Nat)
    BY NatLessThanWellFounded DEF OpToRel
  <1> HIDE DEF R
  <1>2. PICK x \in S : \A y \in S : <<y, x>> \notin R
    BY <1>1, WFMin
  <1>3. \A y \in S : ~(y < x)
    BY <1>2 DEF R
  <1> QED
    BY <1>3

\* The snake and what is drawn of it.
SnakeParts(spot, start, n) == {spot[Ring(start - k)] : k \in 0 .. n - 1}

\* Where apples lie.
Lying(apples) == {apples[i] : i \in {j \in Spots : apples[j] # NoApple}}

SnakeFits(start, length, spot) ==
  /\ start \in Entries /\ length \in 1 .. SNAKE_MAX_LENGTH
  /\ DOMAIN spot = Entries /\ spot = [i \in Entries |-> spot[i]]

\* The snake touches itself only where it starts.
SnakeApart(start, length, spot) ==
  \A i, j \in 0 .. length - 1 :
    i < j /\ spot[Ring(start - i)] = spot[Ring(start - j)]
      => spot[Ring(start - i)] = StartSpot

NothingElse(start, length, spot, drawn, apples) ==
  drawn \subseteq SnakeParts(spot, start, length) \cup Lying(apples)

\* Nothing is missing, and the apples that must be seen are not on the snake.
AllDrawn(start, length, spot, drawn, apples, buried) ==
  /\ SnakeParts(spot, start, length - 1) \ {StartSpot} \subseteq drawn
  /\ Lying(apples) \ buried \subseteq drawn
  /\ (Lying(apples) \ buried) \cap SnakeParts(spot, start, length) = {}

\* The snake moves onto the place head and has a length of length2 then.
Crawls(start, length, spot, head, start2, length2, spot2) ==
  /\ start2 = Ring(start + 1)
  /\ spot2 = [spot EXCEPT ![start2] = head]
  /\ length2 \in length .. SNAKE_MAX_LENGTH

\* What that does to the ring: the head is new, the rest has moved on.
LEMMA SnakeCrawls ==
  ASSUME NEW start, NEW length, NEW spot, NEW head, NEW start2, NEW length2, NEW spot2,
         Crawls(start, length, spot, head, start2, length2, spot2),
         SnakeFits(start, length, spot)
  PROVE  /\ SnakeFits(start2, length2, spot2)
         /\ spot2[start2] = head /\ spot2[Ring(start2 - 0)] = head
         /\ \A k \in 1 .. SNAKE_MAX_LENGTH - 1 :
              spot2[Ring(start2 - k)] = spot[Ring(start - (k - 1))]
         /\ spot[Ring(start2 - length)] = spot[Ring(start - (length - 1))]
  <1> USE DEF Crawls
  <1>1. /\ start \in Entries /\ length \in 1 .. SNAKE_MAX_LENGTH
        /\ SNAKE_MAX_LENGTH \in Nat /\ start2 \in Entries
        /\ length2 \in 1 .. SNAKE_MAX_LENGTH
    BY PlacesShift, NibblesAssumption DEF SnakeFits
  <1>2. spot2[start2] = head /\ spot2[Ring(start2 - 0)] = head
    BY <1>1, PlacesShift DEF SnakeFits
  <1>3. ASSUME NEW k \in 1 .. SNAKE_MAX_LENGTH - 1
        PROVE  spot2[Ring(start2 - k)] = spot[Ring(start - (k - 1))]
    <2>1. k \in 1 .. SNAKE_MAX_LENGTH /\ k < SNAKE_MAX_LENGTH /\ k - 1 \in 0 .. SNAKE_MAX_LENGTH
      BY <1>1
    <2>2. Ring(start2 - k) = Ring(start - (k - 1)) /\ Ring(start - (k - 1)) # start2
      BY <1>1, <2>1, PlacesShift
    <2>3. Ring(start - (k - 1)) \in Entries
      BY <1>1, <2>1, PlaceIs
    <2> QED
      BY <2>2, <2>3 DEF SnakeFits
  <1>4. spot[Ring(start2 - length)] = spot[Ring(start - (length - 1))]
    BY <1>1, PlacesShift
  <1>5. SnakeFits(start2, length2, spot2)
    BY <1>1 DEF SnakeFits
  <1> QED
    BY <1>2, <1>3, <1>4, <1>5

\* A move draws nothing but the snake.
LEMMA MoveDraws ==
  ASSUME NEW start, NEW length, NEW spot, NEW head, NEW start2, NEW length2, NEW spot2,
         Crawls(start, length, spot, head, start2, length2, spot2),
         SnakeFits(start, length, spot),
         NEW drawn, NEW apples, NEW drawn2, NEW apples2,
         NothingElse(start, length, spot, drawn, apples),
         drawn2 = (drawn \ {spot[Ring(start2 - length)]}) \cup {head},
         Lying(apples2) = Lying(apples) \ {head}
  PROVE  NothingElse(start2, length2, spot2, drawn2, apples2)
  <1> DEFINE Old(k) == spot[Ring(start - k)]
             New(k) == spot2[Ring(start2 - k)]
  <1>1. /\ length \in 1 .. SNAKE_MAX_LENGTH /\ SNAKE_MAX_LENGTH \in Nat
        /\ length2 \in length .. SNAKE_MAX_LENGTH
    BY NibblesAssumption DEF SnakeFits, Crawls
  <1>2. /\ New(0) = head
        /\ \A k \in 1 .. SNAKE_MAX_LENGTH - 1 : New(k) = Old(k - 1)
        /\ spot[Ring(start2 - length)] = Old(length - 1)
    BY SnakeCrawls
  <1>3. drawn \subseteq {Old(k) : k \in 0 .. length - 1} \cup Lying(apples)
    BY DEF NothingElse, SnakeParts
  <1>4. SnakeParts(spot2, start2, length2) = {New(k) : k \in 0 .. length2 - 1}
    BY DEF SnakeParts
  <1> HIDE DEF Old, New
  <1>5. head \in {New(k) : k \in 0 .. length2 - 1}
    <2>1. 0 \in 0 .. length2 - 1
      BY <1>1
    <2> QED
      BY <1>2, <2>1
  <1>6. ASSUME NEW x \in drawn, x # Old(length - 1), x # head
        PROVE  x \in {New(k) : k \in 0 .. length2 - 1} \cup Lying(apples2)
    <2>1. CASE x \in Lying(apples)
      BY <1>6, <2>1
    <2>2. ASSUME NEW k \in 0 .. length - 1, x = Old(k)
          PROVE  x \in {New(i) : i \in 0 .. length2 - 1}
      <3>1. /\ k + 1 \in 1 .. SNAKE_MAX_LENGTH - 1 /\ k + 1 \in 0 .. length2 - 1
            /\ (k + 1) - 1 = k
        BY <1>1, <1>6, <2>2
      <3> QED
        BY <1>2, <2>2, <3>1
    <2> QED
      BY <1>3, <2>1, <2>2
  <1> QED
    BY <1>2, <1>4, <1>5, <1>6 DEF NothingElse

\* A snake that grows by one at most stays drawn, and off the apples.
LEMMA MoveErases ==
  ASSUME NEW start, NEW length, NEW spot, NEW head, NEW start2, NEW length2, NEW spot2,
         Crawls(start, length, spot, head, start2, length2, spot2),
         SnakeFits(start, length, spot), SnakeApart(start, length, spot),
         length2 <= length + 1,
         NEW drawn, NEW apples, NEW buried, NEW drawn2, NEW apples2, NEW buried2,
         AllDrawn(start, length, spot, drawn, apples, buried),
         drawn2 = (drawn \ {spot[Ring(start2 - length)]}) \cup {head},
         Lying(apples2) = Lying(apples) \ {head}, buried2 = buried \ {head}
  PROVE  /\ AllDrawn(start2, length2, spot2, drawn2, apples2, buried2)
         /\ head \notin {spot2[Ring(start2 - k)] : k \in 1 .. length2 - 1}
              => SnakeApart(start2, length2, spot2)
  <1> DEFINE Old(k) == spot[Ring(start - k)]
             New(k) == spot2[Ring(start2 - k)]
  <1>1. /\ length \in 1 .. SNAKE_MAX_LENGTH /\ SNAKE_MAX_LENGTH \in Nat
        /\ length2 \in length .. SNAKE_MAX_LENGTH /\ length2 <= length + 1
    BY NibblesAssumption DEF SnakeFits, Crawls
  <1>2. /\ New(0) = head
        /\ \A k \in 1 .. SNAKE_MAX_LENGTH - 1 : New(k) = Old(k - 1)
        /\ spot[Ring(start2 - length)] = Old(length - 1)
    BY SnakeCrawls
  <1>3. /\ {Old(k) : k \in 0 .. (length - 1) - 1} \ {StartSpot} \subseteq drawn
        /\ Lying(apples) \ buried \subseteq drawn
        /\ (Lying(apples) \ buried) \cap {Old(k) : k \in 0 .. length - 1} = {}
    BY DEF AllDrawn, SnakeParts
  <1>4. \A i, j \in 0 .. length - 1 : i < j /\ Old(i) = Old(j) => Old(i) = StartSpot
    BY DEF SnakeApart
  <1>5. /\ SnakeParts(spot2, start2, length2) = {New(k) : k \in 0 .. length2 - 1}
        /\ SnakeParts(spot2, start2, length2 - 1) = {New(k) : k \in 0 .. (length2 - 1) - 1}
    BY DEF SnakeParts
  <1> HIDE DEF Old, New
  <1>6. ASSUME NEW k \in 0 .. (length2 - 1) - 1, New(k) # StartSpot
        PROVE  New(k) \in drawn2
    <2>1. CASE k = 0
      BY <1>2, <2>1
    <2>2. CASE k # 0
      <3>1. /\ k \in 1 .. SNAKE_MAX_LENGTH - 1 /\ k - 1 \in 0 .. (length - 1) - 1
            /\ k - 1 \in 0 .. length - 1 /\ length - 1 \in 0 .. length - 1
            /\ k - 1 < length - 1
        BY <1>1, <2>2
      <3>2. New(k) = Old(k - 1) /\ Old(k - 1) # Old(length - 1) /\ Old(k - 1) \in drawn
        BY <1>2, <1>3, <1>4, <1>6, <3>1
      <3> QED
        BY <1>2, <3>2
    <2> QED
      BY <2>1, <2>2
  <1>7. Lying(apples2) \ buried2 = (Lying(apples) \ buried) \ {head}
    OBVIOUS
  <1>8. Lying(apples2) \ buried2 \subseteq drawn2
    <2>1. length - 1 \in 0 .. length - 1
      BY <1>1
    <2> QED
      BY <1>2, <1>3, <1>7, <2>1
  <1>9. (Lying(apples2) \ buried2) \cap {New(k) : k \in 0 .. length2 - 1} = {}
    <2> SUFFICES ASSUME NEW k \in 0 .. length2 - 1, New(k) \in Lying(apples2) \ buried2
                 PROVE  FALSE
      OBVIOUS
    <2>1. k # 0
      BY <1>2, <1>7
    <2>2. k \in 1 .. SNAKE_MAX_LENGTH - 1 /\ k - 1 \in 0 .. length - 1
      BY <1>1, <2>1
    <2> QED
      BY <1>2, <1>3, <1>7, <2>2
  <1>10. AllDrawn(start2, length2, spot2, drawn2, apples2, buried2)
    BY <1>5, <1>6, <1>8, <1>9 DEF AllDrawn
  <1>11. ASSUME head \notin {New(k) : k \in 1 .. length2 - 1},
                NEW i \in 0 .. length2 - 1, NEW j \in 0 .. length2 - 1,
                i < j, New(i) = New(j)
         PROVE  New(i) = StartSpot
    <2>1. j \in 1 .. length2 - 1 /\ j \in 1 .. SNAKE_MAX_LENGTH - 1 /\ j - 1 \in 0 .. length - 1
      BY <1>1, <1>11
    <2>2. i # 0
      BY <1>2, <1>11, <2>1
    <2>3. i \in 1 .. SNAKE_MAX_LENGTH - 1 /\ i - 1 \in 0 .. length - 1 /\ i - 1 < j - 1
      BY <1>1, <1>11, <2>1, <2>2
    <2>4. New(i) = Old(i - 1) /\ New(j) = Old(j - 1)
      BY <1>2, <2>1, <2>3
    <2> QED
      BY <1>4, <1>11, <2>1, <2>3, <2>4
  <1> QED
    BY <1>10, <1>11 DEF SnakeApart, New

GameFields == {"bad", "length", "start", "spot", "direction", "apples", "next_apple",
               "placed", "drawn", "dead", "last_key", "twice", "buried"}

\* A game in which the snake is well, or may be dead.
Shown(g) ==
  /\ DOMAIN g = GameFields /\ DOMAIN g.apples = Spots
  /\ SnakeFits(g.start, g.length, g.spot)
  /\ NothingElse(g.start, g.length, g.spot, g.drawn, g.apples)
  /\ ~g.twice => AllDrawn(g.start, g.length, g.spot, g.drawn, g.apples, g.buried)
Well(g) == Shown(g) /\ (~g.twice => SnakeApart(g.start, g.length, g.spot))

\* Two games that differ in nothing that is shown.
SameGame(g, h) ==
  /\ DOMAIN h = DOMAIN g /\ h.start = g.start /\ h.length = g.length
  /\ h.spot = g.spot /\ h.drawn = g.drawn /\ h.apples = g.apples
  /\ h.twice = g.twice /\ h.buried = g.buried

LEMMA SameShown ==
  ASSUME NEW g, NEW h, SameGame(g, h)
  PROVE  (Shown(g) => Shown(h)) /\ (Well(g) => Well(h))
  BY DEF SameGame, Shown, Well

LEMMA TurnKeeps ==
  ASSUME NEW g, Well(g)
  PROVE  Well(turn(g))
  <1>1. SameGame(g, turn(g))
    BY DEF turn, Well, Shown, GameFields, SameGame
  <1> QED
    BY <1>1, SameShown

LEMMA AppleKeeps ==
  ASSUME NEW g, Well(g), NEW place \in Places
  PROVE  Well(new_apple(g, place))
  <1> DEFINE h == new_apple(g, place)
             Free == Spots \ Valid(g)
             Least(i) == \A j \in Free : i <= j
  <1>1. CASE Valid(g) = Spots \/ g.placed = MaxApples
    BY <1>1 DEF new_apple
  <1>2. CASE ~(Valid(g) = Spots \/ g.placed = MaxApples)
    <2>1. Free \in SUBSET Nat /\ Free # {}
      BY <1>2, NibblesAssumption DEF Valid, Spots
    <2> HIDE DEF Free
    <2>2. \E i \in Free : Least(i)
      BY <2>1, LeastOf
    <2>3. PICK s : s = CHOOSE i \in Free : Least(i)
      OBVIOUS
    <2>4. s \in Free
      BY <2>2, <2>3
    <2>5. h = [g EXCEPT !.apples = [@ EXCEPT ![s] = place],
                        !.placed = @ + 1, !.drawn = @ \cup {place},
                        !.buried = IF place \in Snake(g) THEN @ \cup {place}
                                   ELSE @ \ {place}]
      BY <1>2, <2>3 DEF new_apple, Free
    <2>6. /\ DOMAIN h = DOMAIN g /\ h.start = g.start /\ h.length = g.length
          /\ h.spot = g.spot /\ h.drawn = g.drawn \cup {place}
          /\ h.apples = [g.apples EXCEPT ![s] = place] /\ h.twice = g.twice
          /\ h.buried = IF place \in Snake(g) THEN g.buried \cup {place}
                        ELSE g.buried \ {place}
      BY <2>5 DEF Well, Shown, GameFields
    <2> HIDE DEF h
    <2>7. place # NoApple
      BY DEF Places, NoApple
    <2>8. s \in Spots /\ g.apples[s] = NoApple /\ DOMAIN g.apples = Spots
      BY <2>4 DEF Free, Valid, Well, Shown
    <2>9. DOMAIN h.apples = Spots /\ Lying(h.apples) = Lying(g.apples) \cup {place}
      BY <2>6, <2>7, <2>8 DEF Lying
    <2>10. NothingElse(h.start, h.length, h.spot, h.drawn, h.apples)
      BY <2>6, <2>9 DEF Well, Shown, NothingElse
    <2>11. Snake(g) = SnakeParts(g.spot, g.start, g.length)
      BY DEF Snake, SnakeParts
    <2>12. ASSUME ~h.twice
           PROVE  AllDrawn(h.start, h.length, h.spot, h.drawn, h.apples, h.buried)
      <3>1. AllDrawn(g.start, g.length, g.spot, g.drawn, g.apples, g.buried)
        BY <2>6, <2>12 DEF Well, Shown
      <3>2. CASE place \in Snake(g)
        <4>1. Lying(h.apples) \ h.buried \subseteq Lying(g.apples) \ g.buried
          BY <2>6, <2>9, <3>2
        <4> QED
          BY <2>6, <3>1, <4>1 DEF AllDrawn
      <3>3. CASE place \notin Snake(g)
        <4>1. Lying(h.apples) \ h.buried = (Lying(g.apples) \ g.buried) \cup {place}
          BY <2>6, <2>9, <3>3
        <4> QED
          BY <2>6, <2>11, <3>1, <3>3, <4>1 DEF AllDrawn
      <3> QED
        BY <3>2, <3>3
    <2>13. Well(h)
      BY <2>6, <2>9, <2>10, <2>12 DEF Well, Shown
    <2> QED
      BY <2>13 DEF h
  <1> QED
    BY <1>1, <1>2

LEMMA MoveKeeps ==
  ASSUME NEW g, Well(g)
  PROVE  /\ Shown(move_snake(g))
         /\ ~snake_disaster(move_snake(g)) => Well(move_snake(g))
  <1> DEFINE h == move_snake(g)
             head == <<g.spot[g.start][1] + Toward[g.direction][1],
                       g.spot[g.start][2] + Toward[g.direction][2]>>
             eaten == {spot \in Spots : g.apples[spot] = head}
  <1>1. PICK hd : hd = head
    OBVIOUS
  <1>2. PICK c : c = Cardinality(eaten)
    OBVIOUS
  <1>3. c \in Nat
    <2>1. IsFiniteSet(Spots)
      BY FS_Interval, NibblesAssumption DEF Spots
    <2> QED
      BY <1>2, <2>1, FS_Subset, FS_CardinalityType
  <1>4. /\ DOMAIN h = DOMAIN g /\ h.start = Ring(g.start + 1)
        /\ h.spot = [g.spot EXCEPT ![h.start] = hd]
        /\ h.drawn = (g.drawn \ {g.spot[EndOfTail(g, h.start)]}) \cup {hd}
        /\ h.apples = [spot \in Spots |-> IF spot \in eaten THEN NoApple
                                          ELSE g.apples[spot]]
        /\ h.length = IF g.length + c > SNAKE_MAX_LENGTH THEN SNAKE_MAX_LENGTH
                      ELSE g.length + c
        /\ h.twice = (g.twice \/ c > 1)
        /\ h.buried = g.buried \ {hd}
    BY <1>1, <1>2 DEF move_snake, Well, Shown, GameFields
  <1>5. \A spot \in Spots : spot \in eaten <=> g.apples[spot] = hd
    BY <1>1
  <1> HIDE DEF h, head, eaten
  <1>6. DOMAIN h.apples = Spots /\ Lying(h.apples) = Lying(g.apples) \ {hd}
    BY <1>4, <1>5 DEF Lying
  <1>7. SnakeFits(g.start, g.length, g.spot)
    BY DEF Well, Shown
  <1>8. Crawls(g.start, g.length, g.spot, hd, h.start, h.length, h.spot)
    BY <1>3, <1>4, <1>7, NibblesAssumption DEF Crawls, SnakeFits
  <1>9. h.drawn = (g.drawn \ {g.spot[Ring(h.start - g.length)]}) \cup {hd}
    BY <1>4 DEF EndOfTail
  <1>10. SnakeFits(h.start, h.length, h.spot) /\ h.spot[h.start] = hd
    BY <1>7, <1>8, SnakeCrawls
  <1>11. NothingElse(h.start, h.length, h.spot, h.drawn, h.apples)
    <2>1. NothingElse(g.start, g.length, g.spot, g.drawn, g.apples)
      BY DEF Well, Shown
    <2> QED
      BY <1>6, <1>7, <1>8, <1>9, <2>1, MoveDraws
  <1>12. ASSUME ~h.twice
         PROVE  /\ AllDrawn(h.start, h.length, h.spot, h.drawn, h.apples, h.buried)
                /\ hd \notin {h.spot[Ring(h.start - k)] : k \in 1 .. h.length - 1}
                     => SnakeApart(h.start, h.length, h.spot)
    <2>1. ~g.twice /\ ~(c > 1)
      BY <1>4, <1>12
    <2>2. /\ SnakeApart(g.start, g.length, g.spot)
          /\ AllDrawn(g.start, g.length, g.spot, g.drawn, g.apples, g.buried)
      BY <2>1 DEF Well, Shown
    <2>3. h.length <= g.length + 1
      BY <1>3, <1>4, <1>7, <2>1, NibblesAssumption DEF SnakeFits
    <2>4. h.buried = g.buried \ {hd} /\ Lying(h.apples) = Lying(g.apples) \ {hd}
      BY <1>4, <1>6
    <2> QED
      BY <1>7, <1>8, <1>9, <2>2, <2>3, <2>4, MoveErases
  <1>13. Shown(h)
    BY <1>4, <1>6, <1>10, <1>11, <1>12 DEF Well, Shown
  <1>14. ~snake_disaster(h) => Well(h)
    BY <1>10, <1>12, <1>13 DEF snake_disaster, BitesItself, Behind, Well
  <1> QED
    BY <1>13, <1>14 DEF h

LEMMA GameStarts ==
  ASSUME NEW spot, NEW g, DOMAIN g = GameFields,
         \A x \in DOMAIN NewGame(spot) : g[x] = NewGame(spot)[x]
  PROVE  Well(g)
  <1>1. /\ g.length = SNAKE_MIN_LENGTH /\ g.start = SNAKE_MIN_LENGTH - 1
        /\ g.spot = [i \in Entries |->
                       IF i < SNAKE_MIN_LENGTH THEN StartSpot ELSE spot[i]]
        /\ g.drawn = {} /\ g.apples = [i \in Spots |-> NoApple]
    BY DEF NewGame, Entries
  <1>2. g.start \in Entries /\ g.length \in 1 .. SNAKE_MAX_LENGTH
    BY <1>1, NibblesAssumption DEF Entries
  <1>3. SnakeFits(g.start, g.length, g.spot)
    BY <1>1, <1>2 DEF SnakeFits
  <1>4. \A k \in 0 .. g.length - 1 : g.spot[Ring(g.start - k)] = StartSpot
    <2> SUFFICES ASSUME NEW k \in 0 .. g.length - 1
                 PROVE  g.spot[Ring(g.start - k)] = StartSpot
      OBVIOUS
    <2>0. k \in 0 .. SNAKE_MAX_LENGTH /\ k <= g.start
      BY <1>1, NibblesAssumption
    <2>1. Ring(g.start - k) \in Entries /\ Ring(g.start - k) = g.start - k
      BY <1>2, <2>0, PlaceIs
    <2>2. g.start - k < SNAKE_MIN_LENGTH
      BY <1>1, NibblesAssumption
    <2> QED
      BY <1>1, <2>1, <2>2
  <1>5. SnakeApart(g.start, g.length, g.spot)
    BY <1>4 DEF SnakeApart
  <1>6. DOMAIN g.apples = Spots /\ Lying(g.apples) = {}
    BY <1>1 DEF Lying
  <1>7. /\ NothingElse(g.start, g.length, g.spot, g.drawn, g.apples)
        /\ AllDrawn(g.start, g.length, g.spot, g.drawn, g.apples, g.buried)
    <2>1. \A k \in 0 .. (g.length - 1) - 1 : g.spot[Ring(g.start - k)] = StartSpot
      BY <1>2, <1>4
    <2>2. SnakeParts(g.spot, g.start, g.length - 1) \subseteq {StartSpot}
      BY <2>1 DEF SnakeParts
    <2> QED
      BY <1>1, <1>6, <2>2 DEF NothingElse, AllDrawn
  <1> QED
    BY <1>3, <1>5, <1>6, <1>7 DEF Well, Shown

-----------------------------------------------------------------------------
(***************************************************************************)
(* Every step of nibbles keeps what the screen shows in line with the      *)
(* snake.                                                                  *)
(***************************************************************************)
SnakeInv ==
  prog = "nibbles" => Shown(data) /\ (data.dead = FALSE => Well(data))

\* Assignments that leave the game alone.
GameShown == {"start", "length", "spot", "drawn", "apples", "twice", "buried", "dead"}

LEMMA AssignKeeps ==
  ASSUME NEW g, NEW h, NEW values, h = Assign(g, values),
         DOMAIN values \cap GameShown = {},
         Shown(g) /\ (g.dead = FALSE => Well(g))
  PROVE  Shown(h) /\ (h.dead = FALSE => Well(h))
  <1>1. SameGame(g, h) /\ h.dead = g.dead
    BY DEF Assign, Shown, GameFields, GameShown, SameGame
  <1> QED
    BY <1>1, SameShown

LEMMA RoundKeeps ==
  ASSUME NEW t, play_game(t), Well(data)
  PROVE  Shown(data') /\ (data'.dead = FALSE => Well(data'))
  <1> DEFINE due == data.next_apple = 0
             Waits == IF due THEN APPLE_MIN_WAIT .. APPLE_MAX_WAIT
                      ELSE {data.next_apple}
             Ready(place) == IF due THEN new_apple(turn(data), place) ELSE turn(data)
  <1>1. PICK place \in IF due THEN Places ELSE {NoApple}, wait \in Waits :
          data' = Assign(data, [move_snake(Ready(place)) EXCEPT
                     !.next_apple = wait - 1,
                     !.dead = snake_disaster(move_snake(Ready(place)))])
    BY DEF play_game, Store
  <1> DEFINE g == Ready(place)
             h == move_snake(g)
             new == [h EXCEPT !.next_apple = wait - 1, !.dead = snake_disaster(h)]
  <1>2. Well(g)
    <2>1. Well(turn(data))
      BY TurnKeeps
    <2>2. CASE due
      <3>1. place \in Places
        BY <2>2
      <3> QED
        BY <2>1, <2>2, <3>1, AppleKeeps
    <2>3. CASE ~due
      BY <2>1, <2>3
    <2> QED
      BY <2>2, <2>3
  <1> HIDE DEF g
  <1>3. Shown(h) /\ (~snake_disaster(h) => Well(h))
    BY <1>2, MoveKeeps
  <1> HIDE DEF h
  <1>4. data' = Assign(data, new)
    BY <1>1 DEF g, h
  <1>5. SameGame(h, new) /\ new.dead = snake_disaster(h)
    BY <1>3 DEF Shown, GameFields, SameGame
  <1> HIDE DEF new
  <1>6. SameGame(h, data') /\ data'.dead = snake_disaster(h)
    BY <1>3, <1>4, <1>5 DEF Assign, Well, Shown, GameFields, SameGame
  <1> QED
    BY <1>3, <1>6, SameShown

-----------------------------------------------------------------------------
(***************************************************************************)
(* What a step of a program does to the threads, seen from the thread      *)
(* groups.  Programs have lines below 1000.                                *)
(***************************************************************************)
Lines == 0 .. 999
Grouped == {"agility_drill", "agility_drill_sem", "cvar_test", "beady_test",
            "mandelbrot"}

\* Callers return to lines of the program, or at the end to thrgrp_bottom().
StackOK(s) ==
  /\ s \in Seq(Nat)
  /\ s # <<>> /\ s[1] = TG(98) => Len(s) = 1
  /\ \A i \in 2 .. Len(s) : s[i] \in Lines \/ (i = Len(s) /\ s[i] = TG(98))

\* The program goes on, calls or returns, or enters thrgrp_join() or
\* thrgrp_destroy_group().
NextStack(s, r) ==
  /\ StackOK(r) /\ r # <<>>
  /\ \/ Head(r) \in Lines \cup {TG(170), TG(61)}
     \/ Head(r) = TG(98) /\ Len(s) > 1
  /\ r[Len(r)] = TG(98) => s[Len(s)] = TG(98) /\ Len(s) > 1

LEMMA LineGoesOn ==
  ASSUME NEW s, StackOK(s), s # <<>>, NEW n \in Lines
  PROVE  NextStack(s, <<n>> \o Tail(s))
  <1> DEFINE r == <<n>> \o Tail(s)
  <1>1. s \in Seq(Nat) /\ Len(s) \in Nat \ {0} /\ n \in Nat /\ n < 1000
    BY DEF StackOK, Lines
  <1>2. r \in Seq(Nat) /\ Len(r) = Len(s) /\ r[1] = n /\ \A i \in 2 .. Len(s) : r[i] = s[i]
    BY <1>1
  <1> HIDE DEF r
  <1>3. StackOK(r) /\ r # <<>> /\ Head(r) = n
    BY <1>1, <1>2 DEF StackOK, TG
  <1>4. r[Len(r)] = TG(98) => s[Len(s)] = TG(98) /\ Len(s) > 1
    BY <1>1, <1>2 DEF TG
  <1> QED
    BY <1>3, <1>4 DEF NextStack, r

LEMMA LineCalls ==
  ASSUME NEW s, StackOK(s), s # <<>>, NEW n \in Lines,
         NEW f \in Lines \cup {TG(170), TG(61)}
  PROVE  NextStack(s, <<f, n>> \o Tail(s))
  <1> DEFINE r == <<f, n>> \o Tail(s)
  <1>1. /\ s \in Seq(Nat) /\ Len(s) \in Nat \ {0} /\ n \in Nat /\ n < 1000
        /\ f \in Nat
    BY DEF StackOK, Lines, TG
  <1>2. /\ r \in Seq(Nat) /\ Len(r) = Len(s) + 1 /\ r[1] = f /\ r[2] = n
        /\ \A i \in 3 .. Len(s) + 1 : r[i] = s[i - 1]
    BY <1>1
  <1> HIDE DEF r
  <1>3. StackOK(r)
    <2> SUFFICES ASSUME NEW i \in 2 .. Len(r)
                 PROVE  r[i] \in Lines \/ (i = Len(r) /\ r[i] = TG(98))
      <3>1. r[1] # TG(98)
        BY <1>1, <1>2 DEF Lines, TG
      <3> QED
        BY <1>2, <3>1 DEF StackOK
    <2>1. CASE i = 2
      BY <1>2, <2>1
    <2>2. CASE i # 2
      <3>1. i - 1 \in 2 .. Len(s) /\ r[i] = s[i - 1] /\ i \in Nat
        BY <1>1, <1>2, <2>2
      <3>2. s[i - 1] \in Lines \/ (i - 1 = Len(s) /\ s[i - 1] = TG(98))
        BY <3>1 DEF StackOK
      <3>3. i - 1 = Len(s) => i = Len(r)
        BY <1>1, <1>2, <3>1
      <3> QED
        BY <3>1, <3>2, <3>3
    <2> QED
      BY <2>1, <2>2
  <1>4. r # <<>> /\ Head(r) = f
    BY <1>1, <1>2
  <1>5. r[Len(r)] = TG(98) => s[Len(s)] = TG(98) /\ Len(s) > 1
    <2>1. CASE Len(s) = 1
      BY <1>1, <1>2, <2>1 DEF TG
    <2>2. CASE Len(s) > 1
      <3>1. Len(s) + 1 \in 3 .. Len(s) + 1 /\ (Len(s) + 1) - 1 = Len(s)
        BY <1>1, <2>2
      <3> QED
        BY <1>2, <2>2, <3>1
    <2>3. Len(s) = 1 \/ Len(s) > 1
      <3>1. \A k \in Nat \ {0} : k = 1 \/ k > 1
        OBVIOUS
      <3> QED
        BY <1>1, <3>1, Zenon
    <2> QED
      BY <2>1, <2>2, <2>3
  <1> QED
    BY <1>3, <1>4, <1>5 DEF NextStack, r

LEMMA LineReturns ==
  ASSUME NEW s, StackOK(s), Len(s) > 1
  PROVE  NextStack(s, Tail(s))
  <1> DEFINE r == Tail(s)
  <1>1. s \in Seq(Nat) /\ Len(s) \in Nat /\ Len(s) > 1
    BY DEF StackOK
  <1>2. /\ r \in Seq(Nat) /\ Len(r) = Len(s) - 1
        /\ \A i \in 1 .. Len(s) - 1 : r[i] = s[i + 1]
    BY <1>1
  <1> HIDE DEF r
  <1>3. StackOK(r)
    <2> SUFFICES ASSUME NEW i \in 2 .. Len(r)
                 PROVE  r[i] \in Lines \/ (i = Len(r) /\ r[i] = TG(98))
      <3>1. r[1] = TG(98) => Len(r) = 1
        <4>1. 1 \in 1 .. Len(s) - 1 /\ 1 + 1 = 2 /\ 2 \in 2 .. Len(s)
          BY <1>1
        <4>2. r[1] = s[2] /\ (s[2] \in Lines \/ Len(s) = 2)
          BY <1>2, <4>1 DEF StackOK
        <4>3. TG(98) \notin Lines
          BY DEF Lines, TG
        <4> QED
          BY <1>1, <1>2, <4>2, <4>3
      <3> QED
        BY <1>2, <3>1 DEF StackOK
    <2>1. i + 1 \in 2 .. Len(s) /\ r[i] = s[i + 1] /\ i \in Nat
      BY <1>1, <1>2
    <2> QED
      BY <1>1, <1>2, <2>1 DEF StackOK
  <1>4. r # <<>> /\ Head(r) = s[2]
    BY <1>1, <1>2
  <1>5. r[Len(r)] = s[Len(s)]
    BY <1>1, <1>2
  <1>6. s[2] \in Lines \/ s[2] = TG(98)
    BY <1>1 DEF StackOK
  <1> QED
    BY <1>1, <1>3, <1>4, <1>5, <1>6 DEF NextStack, r

\* Thread t is in its program.
Able(t) ==
  /\ t \in Tids /\ DOMAIN stack = Tids /\ DOMAIN mine = Tids /\ DOMAIN life = Tids
  /\ stack[t] # <<>> /\ StackOK(stack[t])
  /\ Newest + 1 \in Tids => life[Newest + 1] = "free"

InProgram(t) == life[t] = "live" /\ Head(stack[t]) \in Lines

\* Of the local variables, t may change its own.
OwnLocals(t) ==
  /\ DOMAIN mine' = Tids
  /\ \A u \in Tids : DOMAIN mine'[u] = DOMAIN mine[u]
  /\ \A u \in Tids \ {t} : life[u] # "free" => mine'[u] = mine[u]

StackMoves(t) == \E r : NextStack(stack[t], r) /\ stack' = [stack EXCEPT ![t] = r]

Goes(t) == StackMoves(t) /\ life' = life /\ grp' = grp

\* Thread t makes a thread u, which starts in the program or, for a group, in
\* thrgrp_bottom().
Makes(t) ==
  \E u \in Tids : \E r :
    /\ u = Newest + 1 /\ NextStack(stack[t], r)
    /\ life' = [life EXCEPT ![u] = "live"]
    /\ \E f \in Lines :
         \/ /\ stack' = [stack EXCEPT ![t] = r, ![u] = <<f>>]
            /\ grp' = grp
         \/ /\ prog \in Grouped
            /\ stack' = [stack EXCEPT ![t] = r, ![u] = <<TG(81)>>]
            /\ grp' = [grp EXCEPT !.mem[u] = "args", !.func[u] = f]

Ends(t) ==
  /\ \E w \in {"exited", "gone"} : life' = [life EXCEPT ![t] = w]
  /\ stack' = [stack EXCEPT ![t] = <<>>] /\ grp' = grp

EndsAll ==
  /\ life' = [u \in Tids |-> IF life[u] = "live" THEN "gone" ELSE life[u]]
  /\ stack' = [u \in Tids |-> <<>>] /\ grp' = grp

\* The thread u that is joined is in no group.
Joins(t) ==
  \E u \in Tids :
    /\ life[u] = "exited" /\ grp.mem[u] = "none"
    /\ life' = [life EXCEPT ![u] = "reaped"]
    /\ StackMoves(t) /\ grp' = grp

Does(t) ==
  /\ prog' = prog
  /\ Goes(t) \/ Makes(t) \/ Ends(t) \/ EndsAll \/ Joins(t)

ProgramStep(t) == InProgram(t) /\ OwnLocals(t) /\ Does(t)

-----------------------------------------------------------------------------
(* The calls of the library from a program. *)

LEMMA AtLine ==
  ASSUME NEW t, NEW n \in Lines, At(t, n)
  PROVE  InProgram(t)
  BY DEF At, InProgram

LEMMA GotoMoves ==
  ASSUME NEW t, Able(t), NEW n \in Lines, Goto(t, n)
  PROVE  StackMoves(t)
  BY LineGoesOn DEF Goto, StackMoves, Able

LEMMA StepGoes ==
  ASSUME NEW t, Able(t), NEW n \in Lines, Step(t, n)
  PROVE  Goes(t) /\ prog' = prog
  BY GotoMoves DEF Step, Quiet, Goes

LEMMA CallGoes ==
  ASSUME NEW t, Able(t), NEW n \in Lines, NEW f \in Lines \cup {TG(170), TG(61)},
         Call(t, f, n)
  PROVE  Goes(t) /\ prog' = prog
  BY LineCalls DEF Call, Quiet, Goes, StackMoves, Able

LEMMA ReturnGoes ==
  ASSUME NEW t, Able(t), Return(t)
  PROVE  Goes(t) /\ prog' = prog
  BY LineReturns DEF Return, Quiet, Goes, StackMoves, Able

LEMMA MutexGoes ==
  ASSUME NEW t, Able(t), NEW n \in Lines, NEW m,
         mutex_lock(t, m, n) \/ mutex_unlock(t, m, n)
  PROVE  Goes(t) /\ prog' = prog
  BY GotoMoves DEF mutex_lock, mutex_unlock, Quiet, Goes

LEMMA CondGoes ==
  ASSUME NEW t, Able(t), NEW n \in Lines, NEW c,
         cond_signal(t, c, n) \/ cond_broadcast(t, c, n)
  PROVE  Goes(t) /\ prog' = prog
  BY GotoMoves DEF cond_signal, cond_broadcast, Quiet, Goes

LEMMA WaitGoes ==
  ASSUME NEW t, Able(t), NEW n \in Lines, NEW c, NEW m,
         cond_wait(t, c, m, n) \/ lock_and_wait(t, c, m, n)
  PROVE  Goes(t) /\ prog' = prog
  BY GotoMoves DEF cond_wait, lock_and_wait, Sleep, Quiet, Goes

LEMMA SemGoes ==
  ASSUME NEW t, Able(t), NEW n \in Lines, NEW s,
         sem_wait(t, s, n) \/ sem_signal(t, s, n)
  PROVE  Goes(t) /\ prog' = prog
  BY GotoMoves DEF sem_wait, sem_signal, Quiet, Goes

\* Thread Newest + 1 starts at f.
NewStackOf(t, n, f) ==
  \E u \in Tids : \E r :
    /\ u = Newest + 1 /\ NextStack(stack[t], r)
    /\ life' = [life EXCEPT ![u] = "live"]
    /\ stack' = [stack EXCEPT ![t] = r, ![u] = <<f>>]

LEMMA NewThreadIs ==
  ASSUME NEW t, Able(t), NEW x, NEW f, NEW a, NEW n \in Lines,
         NewThread(t, x, f, a, n)
  PROVE  NewStackOf(t, n, f) /\ prog' = prog /\ OwnLocals(t)
  <1> DEFINE u == Newest + 1
  <1>1. /\ u \in Tids /\ life' = [life EXCEPT ![u] = "live"]
        /\ stack' = [stack EXCEPT ![t] = <<n>> \o Tail(stack[t]), ![u] = <<f>>]
        /\ mine' = [mine EXCEPT ![t][x] = u, ![u].arg = a]
        /\ prog' = prog
    BY DEF NewThread
  <1> HIDE DEF u
  <1>2. NextStack(stack[t], <<n>> \o Tail(stack[t]))
    BY LineGoesOn DEF Able
  <1>3. NewStackOf(t, n, f)
    BY <1>1, <1>2 DEF NewStackOf, u
  <1>4. OwnLocals(t)
    BY <1>1 DEF OwnLocals, Able, u
  <1> QED
    BY <1>1, <1>3, <1>4

LEMMA CreateMakes ==
  ASSUME NEW t, Able(t), NEW x, NEW f \in Lines, NEW a, NEW n \in Lines,
         thr_create(t, x, f, a, n)
  PROVE  Makes(t) /\ prog' = prog /\ OwnLocals(t)
  <1>1. NewThread(t, x, f, a, n) /\ grp' = grp
    BY DEF thr_create
  <1>2. prog' = prog /\ OwnLocals(t) /\ NewStackOf(t, n, f)
    BY <1>1, NewThreadIs
  <1> QED
    BY <1>1, <1>2 DEF Makes, NewStackOf

LEMMA GroupMakes ==
  ASSUME NEW t, Able(t), NEW f \in Lines, NEW a, NEW n \in Lines,
         thrgrp_create(t, f, a, n), prog \in Grouped
  PROVE  Makes(t) /\ prog' = prog /\ OwnLocals(t)
  <1>1. /\ NewThread(t, "r", TG(81), a, n)
        /\ grp' = [grp EXCEPT !.mem[Newest + 1] = "args", !.func[Newest + 1] = f]
    BY DEF thrgrp_create
  <1>2. prog' = prog /\ OwnLocals(t) /\ NewStackOf(t, n, TG(81))
    BY <1>1, NewThreadIs
  <1> QED
    BY <1>1, <1>2 DEF Makes, NewStackOf

LEMMA ExitEnds ==
  ASSUME NEW t, Able(t), NEW v, thr_exit(t, v)
  PROVE  Ends(t) /\ prog' = prog
  BY DEF thr_exit, Ends

LEMMA VanishEnds ==
  ASSUME NEW t, Able(t), vanish(t)
  PROVE  Ends(t) /\ prog' = prog
  BY DEF vanish, Ends

LEMMA TaskEnds ==
  ASSUME NEW t, task_vanish(t)
  PROVE  EndsAll /\ prog' = prog
  BY DEF task_vanish, EndsAll

LEMMA JoinJoins ==
  ASSUME NEW t, Able(t), NEW u, NEW n \in Lines, thr_join(t, u, n),
         u \in Tids => grp.mem[u] = "none"
  PROVE  (Joins(t) \/ EndsAll) /\ prog' = prog /\ OwnLocals(t)
  <1>1. CASE task_vanish(t) /\ UNCHANGED mine
    BY <1>1, TaskEnds DEF OwnLocals, Able
  <1>2. CASE ~(task_vanish(t) /\ UNCHANGED mine)
    <2>1. /\ u \in Tids /\ life[u] = "exited" /\ life' = [life EXCEPT ![u] = "reaped"]
          /\ mine' = [mine EXCEPT ![t].r = 0, ![t].s = status[u]]
          /\ Goto(t, n) /\ prog' = prog /\ grp' = grp
      BY <1>2 DEF thr_join
    <2>2. Joins(t)
      BY <2>1, GotoMoves DEF Joins
    <2> QED
      BY <2>1, <2>2 DEF OwnLocals, Able
  <1> QED
    BY <1>1, <1>2

LEMMA KeepsLocals ==
  ASSUME NEW t, Able(t)
  PROVE  /\ Keep => OwnLocals(t)
         /\ \A g : Store(g) => OwnLocals(t)
         /\ \A l : Local(t, l) => OwnLocals(t)
         /\ \A g, l : Both(t, g, l) => OwnLocals(t)
  BY DEF Able, Keep, Store, Local, Both, OwnLocals, Assign

LEMMA LeaveLeaves ==
  ASSUME NEW t, Able(t), NEW v, Leave(t, v)
  PROVE  (Goes(t) \/ Ends(t)) /\ prog' = prog /\ OwnLocals(t)
  BY ReturnGoes, ExitEnds, KeepsLocals DEF Leave

\* The calls and assignments that steps of programs are made of.
Assigns(t) ==
  /\ Keep => OwnLocals(t)
  /\ mine' = mine => OwnLocals(t)
  /\ \A g : Store(g) => OwnLocals(t)
  /\ \A l : Local(t, l) => OwnLocals(t)
  /\ \A g, l : Both(t, g, l) => OwnLocals(t)
Jumps(t) ==
  /\ \A n \in Lines : At(t, n) => InProgram(t)
  /\ \A n \in Lines : Step(t, n) => Does(t)
  /\ \A n \in Lines : Goto(t, n) /\ Quiet => Does(t)
  /\ \A n \in Lines, f \in Lines : Call(t, f, n) => Does(t)
  /\ Return(t) => Does(t)
Locks(t) ==
  \A n \in Lines : \A m : /\ mutex_lock(t, m, n) => Does(t)
                          /\ mutex_unlock(t, m, n) => Does(t)
Waits(t) ==
  \A n \in Lines : \A c : /\ cond_signal(t, c, n) => Does(t)
                          /\ cond_broadcast(t, c, n) => Does(t)
                          /\ \A m : cond_wait(t, c, m, n) => Does(t)
                          /\ \A m : lock_and_wait(t, c, m, n) => Does(t)
Permits(t) ==
  \A n \in Lines : \A s : /\ sem_wait(t, s, n) => Does(t)
                          /\ sem_signal(t, s, n) => Does(t)
Exits(t) ==
  /\ \A v : thr_exit(t, v) => Does(t)
  /\ vanish(t) => Does(t)
  /\ \A v : Leave(t, v) => OwnLocals(t) /\ Does(t)
Creates(t) ==
  \A f \in Lines, n \in Lines : \A x, a :
    thr_create(t, x, f, a, n) => OwnLocals(t) /\ Does(t)

Vocabulary(t) == /\ Assigns(t) /\ Jumps(t) /\ Locks(t) /\ Waits(t) /\ Permits(t)
                 /\ Exits(t) /\ Creates(t)

LEMMA Calls ==
  ASSUME NEW t, Able(t)
  PROVE  Vocabulary(t)
  <1>1. Assigns(t)
    <2>1. mine' = mine => OwnLocals(t)
      BY DEF Able, OwnLocals
    <2> QED
      BY <2>1, KeepsLocals DEF Assigns
  <1>2. Jumps(t)
    <2>1. \A n \in Lines : Goto(t, n) /\ Quiet => Does(t)
      BY GotoMoves DEF Quiet, Goes, Does
    <2>2. \A n \in Lines, f \in Lines : Call(t, f, n) => Does(t)
      BY CallGoes DEF Does
    <2> QED
      BY <2>1, <2>2, AtLine, StepGoes, ReturnGoes DEF Jumps, Does
  <1>3. Locks(t)
    BY MutexGoes DEF Does, Locks
  <1>4. Waits(t)
    BY CondGoes, WaitGoes DEF Does, Waits
  <1>5. Permits(t)
    BY SemGoes DEF Does, Permits
  <1>6. Exits(t)
    BY ExitEnds, VanishEnds, LeaveLeaves DEF Does, Exits
  <1>7. Creates(t)
    BY CreateMakes DEF Does, Creates
  <1> QED
    BY <1>1, <1>2, <1>3, <1>4, <1>5, <1>6, <1>7 DEF Vocabulary

\* In a program that has groups.
Groups(t) ==
  /\ \A n \in Lines : /\ Call(t, TG(170), n) => Does(t)
                      /\ Call(t, TG(61), n) => Does(t)
  /\ \A f \in Lines, n \in Lines : \A a :
       thrgrp_create(t, f, a, n) => OwnLocals(t) /\ Does(t)

LEMMA GroupCalls ==
  ASSUME NEW t, Able(t), prog \in Grouped
  PROVE  Groups(t)
  BY CallGoes, GroupMakes DEF Does, Groups

\* In a program that has none.
NoGroup == prog \notin Grouped /\ \A u \in Tids : grp.mem[u] = "none"

Alone(t) ==
  /\ task_vanish(t) => Does(t)
  /\ \A n \in Lines : \A u : thr_join(t, u, n) => OwnLocals(t) /\ Does(t)

LEMMA AloneCalls ==
  ASSUME NEW t, Able(t), NoGroup
  PROVE  Alone(t)
  BY TaskEnds, JoinJoins DEF Does, Alone, NoGroup

-----------------------------------------------------------------------------
(* The steps of the programs. *)

\* juggle
LEMMA IncCount ==
  ASSUME NEW t, Able(t), inc_count(t)
  PROVE  ProgramStep(t)
  <1>1. Assigns(t) /\ Jumps(t) /\ Locks(t)
    BY Calls DEF Vocabulary
  <1>2. /\ 46 \in Lines /\ 47 \in Lines /\ 49 \in Lines
    BY DEF Lines
  <1> QED
    BY <1>1, <1>2, Zenon
    DEF inc_count, ProgramStep, Assigns, Jumps, Locks

LEMMA PrintCount ==
  ASSUME NEW t, Able(t), print_count(t)
  PROVE  ProgramStep(t)
  <1>1. Assigns(t) /\ Jumps(t)
    BY Calls DEF Vocabulary
  <1>2. /\ 64 \in Lines
    BY DEF Lines
  <1> QED
    BY <1>1, <1>2, Zenon
    DEF print_count, ProgramStep, Assigns, Jumps

LEMMA CatchBallSteps ==
  ASSUME NEW t, Able(t), NoGroup, NEW line \in 0 .. 900, NEW ball,
         NEW next \in Lines, NEW throws, CatchBall(t, line, ball, next, throws)
  PROVE  ProgramStep(t)
  <1>1. Assigns(t) /\ Jumps(t) /\ Alone(t)
    BY Calls, AloneCalls DEF Vocabulary
  <1>2. /\ line \in Lines /\ (line + 1) \in Lines
    BY DEF Lines
  <1> QED
    BY <1>1, <1>2, Zenon
    DEF CatchBall, ProgramStep, Assigns, Jumps, Alone

LEMMA Juggles ==
  ASSUME NEW t, Able(t), NoGroup, juggle(t)
  PROVE  ProgramStep(t)
  <1>1. Assigns(t) /\ Jumps(t) /\ Creates(t) /\ Exits(t) /\ Alone(t)
    BY Calls, AloneCalls DEF Vocabulary
  <1>2. /\ 46 \in Lines /\ 64 \in Lines /\ 95 \in Lines /\ 96 \in Lines
        /\ 98 \in Lines /\ 102 \in Lines /\ 109 \in Lines /\ 117 \in Lines
        /\ 124 \in Lines /\ 137 \in Lines /\ 142 \in Lines
    BY DEF Lines
  <1>3. (IF mine[t].arg > 0 /\ mine[t].i < n_throws THEN 102 ELSE 137) \in Lines
    BY <1>2, Zenon
  <1>4. /\ CatchBall(t, 117, "j", 124, mine[t].i) => ProgramStep(t)
        /\ CatchBall(t, 124, "z", 98, mine[t].i + 1) => ProgramStep(t)
    BY <1>2, CatchBallSteps
  <1> QED
    BY <1>1, <1>2, <1>3, <1>4, Zenon
    DEF juggle, ProgramStep, Assigns, Jumps, Creates, Exits, Alone

LEMMA JuggleMain ==
  ASSUME NEW t, Able(t), juggle_main(t)
  PROVE  ProgramStep(t)
  <1>1. Assigns(t) /\ Jumps(t) /\ Exits(t)
    BY Calls DEF Vocabulary
  <1>2. /\ 95 \in Lines /\ 199 \in Lines /\ 202 \in Lines
    BY DEF Lines
  <1> QED
    BY <1>1, <1>2, Zenon
    DEF juggle_main, ProgramStep, Assigns, Jumps, Exits

\* The programs that create and join.
LEMMA Cyclone ==
  ASSUME NEW t, Able(t), NoGroup, cyclone(t)
  PROVE  ProgramStep(t)
  <1>1. Assigns(t) /\ Jumps(t) /\ Creates(t) /\ Exits(t) /\ Alone(t)
    BY Calls, AloneCalls DEF Vocabulary
  <1>2. /\ 56 \in Lines /\ 63 \in Lines /\ 65 \in Lines /\ 67 \in Lines
        /\ 104 \in Lines /\ 105 \in Lines
    BY DEF Lines
  <1> QED
    BY <1>1, <1>2, Zenon
    DEF cyclone, ProgramStep, Assigns, Jumps, Creates, Exits, Alone

LEMMA Startle ==
  ASSUME NEW t, Able(t), NoGroup, startle(t)
  PROVE  ProgramStep(t)
  <1>1. Assigns(t) /\ Jumps(t) /\ Creates(t) /\ Alone(t)
    BY Calls, AloneCalls DEF Vocabulary
  <1>2. /\ 44 \in Lines /\ 51 \in Lines /\ 79 \in Lines /\ 82 \in Lines
    BY DEF Lines
  <1> QED
    BY <1>1, <1>2, Zenon
    DEF startle, ProgramStep, Assigns, Jumps, Creates, Alone

LEMMA JoinSpecific ==
  ASSUME NEW t, Able(t), NoGroup, join_specific_test(t)
  PROVE  ProgramStep(t)
  <1>1. Assigns(t) /\ Jumps(t) /\ Creates(t) /\ Exits(t) /\ Alone(t)
    BY Calls, AloneCalls DEF Vocabulary
  <1>2. /\ 48 \in Lines /\ 64 \in Lines /\ 73 \in Lines /\ 75 \in Lines
    BY DEF Lines
  <1> QED
    BY <1>1, <1>2, Zenon
    DEF join_specific_test, ProgramStep, Assigns, Jumps, Creates, Exits, Alone

LEMMA ExitJoin ==
  ASSUME NEW t, Able(t), NoGroup, thr_exit_join(t)
  PROVE  ProgramStep(t)
  <1>1. Assigns(t) /\ Jumps(t) /\ Creates(t) /\ Exits(t) /\ Alone(t)
    BY Calls, AloneCalls DEF Vocabulary
  <1>2. /\ 10 \in Lines /\ 11 \in Lines /\ 23 \in Lines /\ 27 \in Lines
    BY DEF Lines
  <1> QED
    BY <1>1, <1>2, Zenon
    DEF thr_exit_join, ProgramStep, Assigns, Jumps, Creates, Exits, Alone

LEMMA JoinExit ==
  ASSUME NEW t, Able(t), NoGroup, thr_join_exit(t)
  PROVE  ProgramStep(t)
  <1>1. Assigns(t) /\ Jumps(t) /\ Creates(t) /\ Exits(t) /\ Alone(t)
    BY Calls, AloneCalls DEF Vocabulary
  <1>2. /\ 16 \in Lines /\ 29 \in Lines /\ 30 \in Lines /\ 31 \in Lines
    BY DEF Lines
  <1> QED
    BY <1>1, <1>2, Zenon
    DEF thr_join_exit, ProgramStep, Assigns, Jumps, Creates, Exits, Alone

\* The largetests.
LEMMA ErrorSteps ==
  ASSUME NEW t, Able(t), NEW line \in Lines, line + 2 \in Lines, NEW barriers,
         NEW next \in Lines, SetError(t, line, barriers, next)
  PROVE  ProgramStep(t)
  <1>1. Assigns(t) /\ Jumps(t) /\ Locks(t) /\ Waits(t)
    BY Calls DEF Vocabulary
  <1>2. /\ line \in Lines /\ (line + 1) \in Lines /\ (line + 2) \in Lines
    BY DEF Lines
  <1> QED
    BY <1>1, <1>2, Zenon
    DEF SetError, ProgramStep, Assigns, Jumps, Locks, Waits

LEMMA BarrierSteps ==
  ASSUME NEW t, Able(t), barrier(t)
  PROVE  ProgramStep(t)
  <1>1. Assigns(t) /\ Jumps(t) /\ Locks(t) /\ Waits(t)
    BY Calls DEF Vocabulary
  <1>2. /\ 88 \in Lines /\ 89 \in Lines /\ 94 \in Lines /\ 102 \in Lines
        /\ 103 \in Lines
    BY DEF Lines
  <1> QED
    BY <1>1, <1>2, Zenon
    DEF barrier, ProgramStep, Assigns, Jumps, Locks, Waits

LEMMA LargeChildren ==
  ASSUME NEW t, Able(t), NEW k \in Lines, k + 49 \in Lines, NEW barriers,
         NEW child, NEW first \in Lines, first + 4 \in Lines,
         NEW next \in Lines, LargeChild(t, k, barriers, child, first, next)
  PROVE  ProgramStep(t)
  <1>1. Assigns(t) /\ Jumps(t) /\ Creates(t)
    BY Calls DEF Vocabulary
  <1>2. /\ k \in Lines /\ first \in Lines /\ (first + 1) \in Lines
        /\ (first + 2) \in Lines /\ (k + 49) \in Lines
    BY DEF Lines
  <1>3. (first + 2) + 2 \in Lines
    BY DEF Lines
  <1>4. SetError(t, first + 2, barriers, k + 49) => ProgramStep(t)
    BY <1>2, <1>3, ErrorSteps, Zenon
  <1> QED
    BY <1>1, <1>2, <1>3, <1>4, Zenon
    DEF LargeChild, ProgramStep, Assigns, Jumps, Creates

LEMMA LargeThread ==
  ASSUME NEW t, Able(t), NEW top \in 0 .. 800, NEW barriers,
         LargeThr(t, top, barriers)
  PROVE  ProgramStep(t)
  <1>1. Assigns(t) /\ Jumps(t) /\ Exits(t)
    BY Calls DEF Vocabulary
  <1>2. /\ top \in Lines /\ (top + 17) \in Lines /\ (top + 29) \in Lines
        /\ (top + 42) \in Lines /\ (top + 46) \in Lines
        /\ (top + 49) \in Lines /\ 88 \in Lines
    BY DEF Lines
  <1>3. (top + 17) + 4 \in Lines /\ (top + 29) + 4 \in Lines
    BY DEF Lines
  <1>4. LargeChild(t, top, barriers, 1, top + 17, top + 29) => ProgramStep(t)
    BY <1>2, <1>3, LargeChildren, Zenon
  <1>5. LargeChild(t, top, barriers, 2, top + 29, top + 42) => ProgramStep(t)
    BY <1>2, <1>3, LargeChildren, Zenon
  <1>6. (IF data.error = 0 /\ next_pow2(mine[t].arg) < pow2(data.round)
           THEN top + 17 ELSE top + 42) \in Lines
    BY <1>2, Zenon
  <1> QED
    BY <1>1, <1>2, <1>3, <1>4, <1>5, <1>6, Zenon
    DEF LargeThr, ProgramStep, Assigns, Jumps, Exits

LEMMA LargeSpawns ==
  ASSUME NEW t, Able(t), NEW k \in 0 .. 800, NEW thr \in Lines,
         LargeSpawn(t, k, thr)
  PROVE  ProgramStep(t)
  <1>1. Assigns(t) /\ Jumps(t) /\ Creates(t)
    BY Calls DEF Vocabulary
  <1>2. /\ (k + 11) \in Lines /\ (k + 24) \in Lines /\ (k + 29) \in Lines
        /\ (k + 35) \in Lines /\ (k + 100) \in Lines
    BY DEF Lines
  <1> QED
    BY <1>1, <1>2, Zenon
    DEF LargeSpawn, ProgramStep, Assigns, Jumps, Creates

LEMMA LargeReaps ==
  ASSUME NEW t, Able(t), NoGroup, NEW k \in 0 .. 800, NEW barriers,
         LargeReap(t, k, barriers)
  PROVE  ProgramStep(t)
  <1>1. Assigns(t) /\ Jumps(t) /\ Alone(t)
    BY Calls, AloneCalls DEF Vocabulary
  <1>2. /\ (k + 35) \in Lines /\ (k + 56) \in Lines /\ (k + 57) \in Lines
        /\ (k + 62) \in Lines /\ (k + 74) \in Lines
    BY DEF Lines
  <1>3. (k + 62) + 2 \in Lines
    BY DEF Lines
  <1>4. SetError(t, k + 62, barriers, k + 35) => ProgramStep(t)
    BY <1>2, <1>3, ErrorSteps, Zenon
  <1> QED
    BY <1>1, <1>2, <1>3, <1>4, Zenon
    DEF LargeReap, ProgramStep, Assigns, Jumps, Alone

LEMMA LargeEnds ==
  ASSUME NEW t, Able(t), NoGroup, NEW k \in 0 .. 800, LargeEnd(t, k)
  PROVE  ProgramStep(t)
  <1>1. Assigns(t) /\ Jumps(t) /\ Exits(t) /\ Alone(t)
    BY Calls, AloneCalls DEF Vocabulary
  <1>2. /\ (k + 11) \in Lines /\ (k + 74) \in Lines /\ (k + 78) \in Lines
        /\ (k + 79) \in Lines /\ (k + 100) \in Lines
    BY DEF Lines
  <1> QED
    BY <1>1, <1>2, Zenon
    DEF LargeEnd, ProgramStep, Assigns, Jumps, Exits, Alone

\* The drills.
LEMMA ChaseSteps ==
  ASSUME NEW t, Able(t), NEW top \in Lines, top + 16 \in Lines, NEW array,
         Chase(t, top, array)
  PROVE  ProgramStep(t)
  <1>1. Assigns(t) /\ Jumps(t) /\ Locks(t) /\ Permits(t) /\ Exits(t)
    BY Calls DEF Vocabulary
  <1>2. /\ top \in Lines /\ (top + 16) \in Lines
    BY DEF Lines
  <1> QED
    BY <1>1, <1>2, Zenon
    DEF Chase, Take, Give, ProgramStep, Assigns, Jumps, Locks, Permits, Exits

LEMMA DrillSteps ==
  ASSUME NEW t, Able(t), prog \in Grouped, NEW check \in 0 .. 900,
         NEW top \in Lines, Drill(t, check, top)
  PROVE  ProgramStep(t)
  <1>1. Assigns(t) /\ Jumps(t) /\ Exits(t) /\ Groups(t)
    BY Calls, GroupCalls DEF Vocabulary
  <1>2. /\ check \in Lines /\ (check + 23) \in Lines
        /\ (check + 26) \in Lines /\ (check + 27) \in Lines
    BY DEF Lines
  <1> QED
    BY <1>1, <1>2, Zenon
    DEF Drill, ProgramStep, Assigns, Jumps, Exits, Groups

\* racer
LEMMA PrintSteps ==
  ASSUME NEW t, Able(t), NEW top \in Lines, top + 2 \in Lines, NEW row,
         NEW next \in Lines, PrintAt(t, top, row, next)
  PROVE  ProgramStep(t)
  <1>1. Assigns(t) /\ Jumps(t) /\ Locks(t)
    BY Calls DEF Vocabulary
  <1>2. /\ top \in Lines /\ (top + 1) \in Lines /\ (top + 2) \in Lines
    BY DEF Lines
  <1> QED
    BY <1>1, <1>2, Zenon
    DEF PrintAt, ProgramStep, Assigns, Jumps, Locks

LEMMA RaceSteps ==
  ASSUME NEW t, Able(t), race(t)
  PROVE  ProgramStep(t)
  <1>1. Assigns(t) /\ Jumps(t) /\ Locks(t) /\ Permits(t)
    BY Calls DEF Vocabulary
  <1>2. /\ 76 \in Lines /\ 85 \in Lines /\ 87 \in Lines /\ 88 \in Lines
        /\ 90 \in Lines /\ 93 \in Lines /\ 98 \in Lines /\ 103 \in Lines
        /\ 112 \in Lines /\ 119 \in Lines /\ 125 \in Lines /\ 128 \in Lines
    BY DEF Lines
  <1>3. /\ 76 + 2 \in Lines /\ 93 + 2 \in Lines /\ 103 + 2 \in Lines
        /\ 112 + 2 \in Lines
    BY DEF Lines
  <1>4. /\ PrintAt(t, 76, mine[t].arg, 85) => ProgramStep(t)
        /\ PrintAt(t, 93, 24, 98) => ProgramStep(t)
        /\ PrintAt(t, 103, mine[t].arg, 112) => ProgramStep(t)
        /\ PrintAt(t, 112, mine[t].arg, 119) => ProgramStep(t)
    BY <1>2, <1>3, PrintSteps, Zenon
  <1> QED
    BY <1>1, <1>2, <1>3, <1>4, Zenon
    DEF race, ProgramStep, Assigns, Jumps, Locks, Permits

LEMMA BadSteps ==
  ASSUME NEW t, Able(t), bad(t)
  PROVE  ProgramStep(t)
  <1>1. Assigns(t) /\ Jumps(t)
    BY Calls DEF Vocabulary
  <1>2. /\ 143 \in Lines /\ 148 \in Lines
    BY DEF Lines
  <1>3. 143 + 2 \in Lines
    BY DEF Lines
  <1>4. PrintAt(t, 143, 24, 148) => ProgramStep(t)
    BY <1>2, <1>3, PrintSteps, Zenon
  <1> QED
    BY <1>1, <1>2, <1>3, <1>4, Zenon
    DEF bad, ProgramStep, Assigns, Jumps

LEMMA RacerMain ==
  ASSUME NEW t, Able(t), NoGroup, racer_main(t)
  PROVE  ProgramStep(t)
  <1>1. Assigns(t) /\ Jumps(t) /\ Creates(t) /\ Alone(t)
    BY Calls, AloneCalls DEF Vocabulary
  <1>2. /\ 76 \in Lines /\ 143 \in Lines /\ 193 \in Lines /\ 195 \in Lines
        /\ 196 \in Lines /\ 199 \in Lines
    BY DEF Lines
  <1> QED
    BY <1>1, <1>2, Zenon
    DEF racer_main, ProgramStep, Assigns, Jumps, Creates, Alone

\* The other tests of locks.
LEMMA MutexTest ==
  ASSUME NEW t, Able(t), mutex_test(t)
  PROVE  ProgramStep(t)
  <1>1. Assigns(t) /\ Jumps(t) /\ Locks(t) /\ Creates(t) /\ Exits(t)
    BY Calls DEF Vocabulary
  <1>2. /\ 32 \in Lines /\ 34 \in Lines /\ 38 \in Lines /\ 43 \in Lines
        /\ 45 \in Lines /\ 46 \in Lines /\ 57 \in Lines /\ 60 \in Lines
        /\ 62 \in Lines
    BY DEF Lines
  <1> QED
    BY <1>1, <1>2
    DEF mutex_test, ProgramStep, Assigns, Jumps, Locks, Creates, Exits

LEMMA Consumer ==
  ASSUME NEW t, Able(t), paradise_lost_consumer(t)
  PROVE  ProgramStep(t)
  <1>1. Assigns(t) /\ Jumps(t) /\ Locks(t) /\ Permits(t) /\ Exits(t)
    BY Calls DEF Vocabulary
  <1>2. /\ 35 \in Lines /\ 36 \in Lines /\ 39 \in Lines /\ 40 \in Lines
        /\ 53 \in Lines /\ 55 \in Lines /\ 60 \in Lines
    BY DEF Lines
  <1> QED
    BY <1>1, <1>2, Zenon
    DEF paradise_lost_consumer, consumer_wait, ProgramStep, Assigns, Jumps,
        Locks, Permits, Exits

LEMMA ParadiseMain ==
  ASSUME NEW t, Able(t), paradise_lost_main(t)
  PROVE  ProgramStep(t)
  <1>1. Assigns(t) /\ Jumps(t) /\ Permits(t) /\ Creates(t) /\ Exits(t)
    BY Calls DEF Vocabulary
  <1>2. /\ 53 \in Lines /\ 68 \in Lines /\ 69 \in Lines /\ 70 \in Lines
        /\ 86 \in Lines
    BY DEF Lines
  <1> QED
    BY <1>1, <1>2, Zenon
    DEF paradise_lost_main, ProgramStep, Assigns, Jumps, Permits, Creates,
        Exits

LEMMA BarSteps ==
  ASSUME NEW t, Able(t), NEW top \in Lines, top + 2 \in Lines, NEW bar,
         NEW left, NEW next \in Lines, barrier_sync(t, top, bar, left, next)
  PROVE  ProgramStep(t)
  <1>1. Assigns(t) /\ Jumps(t) /\ Permits(t)
    BY Calls DEF Vocabulary
  <1>2. /\ top \in Lines /\ (top + 1) \in Lines /\ (top + 2) \in Lines
    BY DEF Lines
  <1>3. (IF data[left] = 1 THEN top + 2 ELSE top + 1) \in Lines
    BY <1>2, Zenon
  <1> QED
    BY <1>1, <1>2, <1>3, Zenon
    DEF barrier_sync, ProgramStep, Assigns, Jumps, Permits

LEMMA SemThread ==
  ASSUME NEW t, Able(t), semaphore_test_thread(t)
  PROVE  ProgramStep(t)
  <1>1. Assigns(t) /\ Jumps(t) /\ Exits(t)
    BY Calls DEF Vocabulary
  <1>2. /\ 39 \in Lines /\ 46 \in Lines /\ 49 \in Lines /\ 51 \in Lines
        /\ 54 \in Lines
    BY DEF Lines
  <1>3. 46 + 2 \in Lines /\ 51 + 2 \in Lines
    BY DEF Lines
  <1>4. /\ barrier_sync(t, 46, "bar1", "left1", 49) => ProgramStep(t)
        /\ barrier_sync(t, 51, "bar2", "left2", 54) => ProgramStep(t)
    BY <1>2, <1>3, BarSteps, Zenon
  <1> QED
    BY <1>1, <1>2, <1>3, <1>4, Zenon
    DEF semaphore_test_thread, ProgramStep, Assigns, Jumps, Exits

LEMMA SemRun ==
  ASSUME NEW t, Able(t), NoGroup, semaphore_test_run(t)
  PROVE  ProgramStep(t)
  <1>1. Assigns(t) /\ Jumps(t) /\ Permits(t) /\ Creates(t) /\ Exits(t) /\ Alone(t)
    BY Calls, AloneCalls DEF Vocabulary
  <1>2. /\ 39 \in Lines /\ 84 \in Lines /\ 85 \in Lines /\ 88 \in Lines
        /\ 91 \in Lines /\ 94 \in Lines
    BY DEF Lines
  <1> QED
    BY <1>1, <1>2, Zenon
    DEF semaphore_test_run, ProgramStep, Assigns, Jumps, Permits, Creates,
        Exits, Alone

LEMMA SemMain ==
  ASSUME NEW t, Able(t), NoGroup, semaphore_test_main(t)
  PROVE  ProgramStep(t)
  <1>1. Assigns(t) /\ Jumps(t) /\ Permits(t) /\ Creates(t) /\ Exits(t) /\ Alone(t)
    BY Calls, AloneCalls DEF Vocabulary
  <1>2. /\ 84 \in Lines /\ 103 \in Lines /\ 105 \in Lines /\ 110 \in Lines
        /\ 111 \in Lines
    BY DEF Lines
  <1>3. (IF mine[t].i = 3 THEN 110 ELSE 105) \in Lines
    BY <1>2, Zenon
  <1> QED
    BY <1>1, <1>2, <1>3, Zenon
    DEF semaphore_test_main, ProgramStep, Assigns, Jumps, Permits, Creates,
        Exits, Alone

\* The tests of condition variables.
LEMMA NapSteps ==
  ASSUME NEW t, Able(t), NEW top \in Lines, top + 4 \in Lines, NEW m, NEW c,
         NEW slept, NEW signaled, NEW next \in Lines,
         Nap(t, top, m, c, slept, signaled, next)
  PROVE  ProgramStep(t)
  <1>1. Assigns(t) /\ Jumps(t) /\ Locks(t) /\ Waits(t)
    BY Calls DEF Vocabulary
  <1>2. /\ top \in Lines /\ (top + 1) \in Lines /\ (top + 3) \in Lines
        /\ (top + 4) \in Lines
    BY DEF Lines
  <1> QED
    BY <1>1, <1>2, Zenon
    DEF Nap, ProgramStep, Assigns, Jumps, Locks, Waits

LEMMA ParaguayThread ==
  ASSUME NEW t, Able(t), paraguay_thread1(t)
  PROVE  ProgramStep(t)
  <1>1. Assigns(t) /\ Jumps(t) /\ Exits(t)
    BY Calls DEF Vocabulary
  <1>2. /\ 43 \in Lines /\ 55 \in Lines /\ 70 \in Lines
    BY DEF Lines
  <1>3. 43 + 4 \in Lines /\ 55 + 4 \in Lines
    BY DEF Lines
  <1>4. /\ Nap(t, 43, "lock1", "cvar1", "slept1", "signaled1", 55) => ProgramStep(t)
        /\ Nap(t, 55, "lock2", "cvar2", "slept2", "signaled2", 70) => ProgramStep(t)
    BY <1>2, <1>3, NapSteps, Zenon
  <1> QED
    BY <1>1, <1>2, <1>3, <1>4, Zenon
    DEF paraguay_thread1, ProgramStep, Assigns, Jumps, Exits

LEMMA PokeSteps ==
  ASSUME NEW t, Able(t), NEW top \in Lines, top + 12 \in Lines, NEW m, NEW c,
         NEW slept, NEW signaled, NEW next \in Lines,
         Poke(t, top, m, c, slept, signaled, next)
  PROVE  ProgramStep(t)
  <1>1. Assigns(t) /\ Jumps(t) /\ Locks(t) /\ Waits(t)
    BY Calls DEF Vocabulary
  <1>2. /\ top \in Lines /\ (top + 1) \in Lines /\ (top + 12) \in Lines
    BY DEF Lines
  <1> QED
    BY <1>1, <1>2, Zenon
    DEF Poke, ProgramStep, Assigns, Jumps, Locks, Waits

LEMMA ParaguayMain ==
  ASSUME NEW t, Able(t), paraguay_main(t)
  PROVE  ProgramStep(t)
  <1>1. Assigns(t) /\ Jumps(t) /\ Creates(t) /\ Exits(t)
    BY Calls DEF Vocabulary
  <1>2. /\ 43 \in Lines /\ 86 \in Lines /\ 90 \in Lines /\ 109 \in Lines
        /\ 126 \in Lines
    BY DEF Lines
  <1>3. 90 + 12 \in Lines /\ 109 + 12 \in Lines
    BY DEF Lines
  <1>4. /\ Poke(t, 90, "lock1", "cvar1", "slept1", "signaled1", 109) => ProgramStep(t)
        /\ Poke(t, 109, "lock2", "cvar2", "slept2", "signaled2", 126) => ProgramStep(t)
    BY <1>2, <1>3, PokeSteps, Zenon
  <1> QED
    BY <1>1, <1>2, <1>3, <1>4, Zenon
    DEF paraguay_main, ProgramStep, Assigns, Jumps, Creates, Exits

LEMMA BroadcastTest ==
  ASSUME NEW t, Able(t), broadcast_test(t)
  PROVE  ProgramStep(t)
  <1>1. Assigns(t) /\ Jumps(t) /\ Locks(t) /\ Waits(t) /\ Creates(t) /\ Exits(t)
    BY Calls DEF Vocabulary
  <1>2. /\ 34 \in Lines /\ 35 \in Lines /\ 43 \in Lines /\ 55 \in Lines
        /\ 58 \in Lines /\ 59 \in Lines /\ 61 \in Lines /\ 63 \in Lines
    BY DEF Lines
  <1> QED
    BY <1>1, <1>2, Zenon
    DEF broadcast_test, ProgramStep, Assigns, Jumps, Locks, Waits, Creates,
        Exits

LEMMA SleeperSteps ==
  ASSUME NEW t, Able(t), cvar_sleeper(t)
  PROVE  ProgramStep(t)
  <1>1. Assigns(t) /\ Jumps(t) /\ Locks(t) /\ Waits(t) /\ Exits(t)
    BY Calls DEF Vocabulary
  <1>2. /\ 64 \in Lines /\ 66 \in Lines /\ 68 \in Lines /\ 74 \in Lines
    BY DEF Lines
  <1> QED
    BY <1>1, <1>2, Zenon
    DEF cvar_sleeper, ProgramStep, Assigns, Jumps, Locks, Waits, Exits

LEMMA ManiacSteps ==
  ASSUME NEW t, Able(t), maniac(t)
  PROVE  ProgramStep(t)
  <1>1. Assigns(t) /\ Jumps(t) /\ Locks(t) /\ Waits(t) /\ Exits(t)
    BY Calls DEF Vocabulary
  <1>2. /\ 82 \in Lines /\ 85 \in Lines /\ 89 \in Lines /\ 92 \in Lines
        /\ 96 \in Lines /\ 99 \in Lines /\ 103 \in Lines /\ 106 \in Lines
    BY DEF Lines
  <1> QED
    BY <1>1, <1>2, Zenon
    DEF maniac, ProgramStep, Assigns, Jumps, Locks, Waits, Exits

LEMMA InstigatorSteps ==
  ASSUME NEW t, Able(t), instigator(t)
  PROVE  ProgramStep(t)
  <1>1. Assigns(t) /\ Jumps(t) /\ Waits(t) /\ Exits(t)
    BY Calls DEF Vocabulary
  <1>2. /\ 111 \in Lines /\ 116 \in Lines
    BY DEF Lines
  <1> QED
    BY <1>1, <1>2, Zenon
    DEF instigator, ProgramStep, Assigns, Jumps, Waits, Exits

\* beady_test
LEMMA UpdateSteps ==
  ASSUME NEW t, Able(t), update(t)
  PROVE  ProgramStep(t)
  <1>1. Assigns(t) /\ Jumps(t) /\ Locks(t) /\ Waits(t) /\ Exits(t)
    BY Calls DEF Vocabulary
  <1>2. /\ 120 \in Lines /\ 128 \in Lines /\ 147 \in Lines /\ 150 \in Lines
    BY DEF Lines
  <1> QED
    BY <1>1, <1>2, Zenon
    DEF update, waitUpdate, ProgramStep, Assigns, Jumps, Locks, Waits, Exits

LEMMA ScheduleSteps ==
  ASSUME NEW t, Able(t), NEW line \in Lines, NEW next \in Lines,
         scheduleUpdate(t, line, next)
  PROVE  ProgramStep(t)
  <1>1. Assigns(t) /\ Jumps(t)
    BY Calls DEF Vocabulary
  <1>2. /\ line \in Lines
    BY DEF Lines
  <1> QED
    BY <1>1, <1>2, Zenon
    DEF scheduleUpdate, ProgramStep, Assigns, Jumps

LEMMA ControlSteps ==
  ASSUME NEW t, Able(t), controlThread(t)
  PROVE  ProgramStep(t)
  <1>1. Assigns(t) /\ Jumps(t) /\ Locks(t) /\ Waits(t) /\ Exits(t)
    BY Calls DEF Vocabulary
  <1>2. /\ 197 \in Lines /\ 206 \in Lines /\ 222 \in Lines /\ 224 \in Lines
    BY DEF Lines
  <1>3. scheduleUpdate(t, 206, 197) => ProgramStep(t)
    BY <1>2, ScheduleSteps, Zenon
  <1> QED
    BY <1>1, <1>2, <1>3, Zenon
    DEF controlThread, Move, ProgramStep, Assigns, Jumps, Locks, Waits, Exits

LEMMA TargetSteps ==
  ASSUME NEW t, Able(t), targetThread(t)
  PROVE  ProgramStep(t)
  <1>1. Assigns(t) /\ Jumps(t) /\ Locks(t) /\ Exits(t)
    BY Calls DEF Vocabulary
  <1>2. /\ 245 \in Lines /\ 272 \in Lines /\ 275 \in Lines
    BY DEF Lines
  <1>3. scheduleUpdate(t, 272, 275) => ProgramStep(t)
    BY <1>2, ScheduleSteps, Zenon
  <1> QED
    BY <1>1, <1>2, <1>3
    DEF targetThread, Move, ProgramStep, Assigns, Jumps, Locks, Exits

LEMMA ScoreSteps ==
  ASSUME NEW t, Able(t), scoreThread(t)
  PROVE  ProgramStep(t)
  <1>1. Assigns(t) /\ Jumps(t) /\ Exits(t)
    BY Calls DEF Vocabulary
  <1>2. /\ 299 \in Lines
    BY DEF Lines
  <1> QED
    BY <1>1, <1>2, Zenon
    DEF scoreThread, ProgramStep, Assigns, Jumps, Exits

LEMMA BeadyMain ==
  ASSUME NEW t, Able(t), prog \in Grouped, beady_main(t)
  PROVE  ProgramStep(t)
  <1>1. Assigns(t) /\ Jumps(t) /\ Locks(t) /\ Waits(t) /\ Exits(t) /\ Groups(t)
    BY Calls, GroupCalls DEF Vocabulary
  <1>2. /\ 355 \in Lines /\ 357 \in Lines /\ 360 \in Lines /\ 363 \in Lines
    BY DEF Lines
  <1> DEFINE start(n) == <<120, 197, 245, 299>>[n]
             back(n) == IF n = 4 THEN 355 ELSE 346 + n
  <1>3. \A n \in 1 .. 4 : 345 + n \in Lines /\ start(n) \in Lines /\ back(n) \in Lines
    BY DEF Lines
  <1>4. \/ \E n \in 1 .. 4 : At(t, 345 + n) /\ thrgrp_create(t, start(n), 0, back(n))
        \/ At(t, 355) /\ lock_and_wait(t, "gameOver", "worldLock", 357) /\ Keep
        \/ At(t, 357) /\ mutex_unlock(t, "worldLock", 360) /\ Keep
        \/ At(t, 360) /\ cond_signal(t, "updates", 363) /\ Keep
        \/ At(t, 363) /\ Call(t, TG(170), 363) /\ Local(t, [i |-> mine[t].i + 1])
        \/ At(t, 363) /\ thr_exit(t, 0) /\ Keep
    BY Zenon DEF beady_main
  <1> HIDE DEF start, back
  <1>5. ASSUME NEW n \in 1 .. 4, At(t, 345 + n), thrgrp_create(t, start(n), 0, back(n))
        PROVE  ProgramStep(t)
    <2>1. 345 + n \in Lines /\ start(n) \in Lines /\ back(n) \in Lines
      BY <1>3
    <2>2. InProgram(t)
      BY <1>1, <1>5, <2>1, Zenon DEF Jumps
    <2>3. OwnLocals(t) /\ Does(t)
      BY <1>1, <1>5, <2>1, Zenon DEF Groups
    <2> QED
      BY <2>2, <2>3 DEF ProgramStep
  <1>6. CASE \/ At(t, 355) /\ lock_and_wait(t, "gameOver", "worldLock", 357) /\ Keep
             \/ At(t, 357) /\ mutex_unlock(t, "worldLock", 360) /\ Keep
             \/ At(t, 360) /\ cond_signal(t, "updates", 363) /\ Keep
             \/ At(t, 363) /\ Call(t, TG(170), 363) /\ Local(t, [i |-> mine[t].i + 1])
             \/ At(t, 363) /\ thr_exit(t, 0) /\ Keep
    <2>1. InProgram(t)
      BY <1>1, <1>2, <1>6, Zenon DEF Jumps
    <2>2. OwnLocals(t)
      BY <1>1, <1>6, Zenon DEF Assigns
    <2>3. Does(t)
      BY <1>1, <1>2, <1>6, Zenon DEF Locks, Waits, Exits, Groups
    <2> QED
      BY <2>1, <2>2, <2>3 DEF ProgramStep
  <1> QED
    BY <1>4, <1>5, <1>6

\* mandelbrot
LEMMA PixelSteps ==
  ASSUME NEW t, Able(t), process_pixel(t)
  PROVE  ProgramStep(t)
  <1>1. Assigns(t) /\ Jumps(t) /\ Locks(t) /\ Waits(t)
    BY Calls DEF Vocabulary
  <1>2. /\ 204 \in Lines /\ 206 \in Lines /\ 219 \in Lines /\ 237 \in Lines
        /\ 240 \in Lines /\ 251 \in Lines /\ 253 \in Lines
    BY DEF Lines
  <1>3. (IF mine[t].j = 0 /\ data.trap = mine[t].i THEN 237 ELSE 251) \in Lines
    BY <1>2, Zenon
  <1>4. InProgram(t)
    BY <1>1, <1>2, Zenon DEF process_pixel, Jumps
  <1>5. OwnLocals(t)
    BY <1>1, Zenon DEF process_pixel, Assigns
  <1>6. Does(t)
    BY <1>1, <1>2, <1>3, Zenon DEF process_pixel, Jumps, Locks, Waits
  <1> QED
    BY <1>4, <1>5, <1>6 DEF ProgramStep

LEMMA WandererSteps ==
  ASSUME NEW t, Able(t), wanderer_main(t)
  PROVE  ProgramStep(t)
  <1>1. Assigns(t) /\ Jumps(t) /\ Exits(t)
    BY Calls DEF Vocabulary
  <1>2. /\ 204 \in Lines /\ 265 \in Lines
    BY DEF Lines
  <1> QED
    BY <1>1, <1>2, Zenon
    DEF wanderer_main, ProgramStep, Assigns, Jumps, Exits

LEMMA InputSteps ==
  ASSUME NEW t, Able(t), input_loop(t)
  PROVE  ProgramStep(t)
  <1>1. Assigns(t) /\ Jumps(t)
    BY Calls DEF Vocabulary
  <1>2. /\ 341 \in Lines /\ 498 \in Lines
    BY DEF Lines
  <1> QED
    BY <1>1, <1>2, Zenon
    DEF input_loop, ProgramStep, Assigns, Jumps

LEMMA MandelbrotMain ==
  ASSUME NEW t, Able(t), prog \in Grouped, mandelbrot_main(t)
  PROVE  ProgramStep(t)
  <1>1. Assigns(t) /\ Jumps(t) /\ Locks(t) /\ Waits(t) /\ Exits(t) /\ Groups(t)
    BY Calls, GroupCalls DEF Vocabulary
  <1>2. /\ 265 \in Lines /\ 341 \in Lines /\ 491 \in Lines /\ 498 \in Lines
        /\ 500 \in Lines /\ 502 \in Lines /\ 506 \in Lines /\ 511 \in Lines
        /\ 518 \in Lines
    BY DEF Lines
  <1> QED
    BY <1>1, <1>2
    DEF mandelbrot_main, mandelbrot_exit, ProgramStep, Assigns, Jumps, Locks,
        Waits, Exits, Groups

\* nibbles
LEMMA NibblesSteps ==
  ASSUME NEW t, Able(t), NoGroup, nibbles(t)
  PROVE  ProgramStep(t)
  <1>1. Assigns(t) /\ Jumps(t) /\ Alone(t)
    BY Calls, AloneCalls DEF Vocabulary
  <1>2. /\ 307 \in Lines /\ 365 \in Lines /\ 381 \in Lines
    BY DEF Lines
  <1>3. play_game(t) => At(t, 307) /\ Step(t, 307) /\ mine' = mine
    BY DEF play_game, Store
  <1> QED
    BY <1>1, <1>2, <1>3
    DEF nibbles, ProgramStep, Assigns, Jumps, Alone

LEMMA NibblesMain ==
  ASSUME NEW t, Able(t), nibbles_main(t)
  PROVE  ProgramStep(t)
  <1>1. Assigns(t) /\ Jumps(t) /\ Creates(t)
    BY Calls DEF Vocabulary
  <1>2. /\ 365 \in Lines /\ 412 \in Lines /\ 424 \in Lines /\ 460 \in Lines
    BY DEF Lines
  <1> QED
    BY <1>1, <1>2
    DEF nibbles_main, ProgramStep, Assigns, Jumps, Creates

LEMMA KeySteps ==
  ASSUME NEW t, Able(t), key_grab(t)
  PROVE  ProgramStep(t)
  <1>1. Assigns(t) /\ Jumps(t)
    BY Calls DEF Vocabulary
  <1>2. /\ 460 \in Lines
    BY DEF Lines
  <1> QED
    BY <1>1, <1>2, Zenon
    DEF key_grab, ProgramStep, Assigns, Jumps

\* cvar_test, whose main() joins two threads that are in no group.
LEMMA CvarMain ==
  ASSUME NEW t, Able(t), prog \in Grouped, cvar_main(t),
         2 \in Tids => grp.mem[2] = "none",
         mine[t].j \in Tids => grp.mem[mine[t].j] = "none"
  PROVE  ProgramStep(t)
  <1>1. Assigns(t) /\ Jumps(t) /\ Waits(t) /\ Exits(t) /\ Creates(t) /\ Groups(t)
    BY Calls, GroupCalls DEF Vocabulary
  <1>2. /\ 64 \in Lines /\ 82 \in Lines /\ 111 \in Lines /\ 140 \in Lines
        /\ 147 \in Lines /\ 163 \in Lines /\ 167 \in Lines /\ 169 \in Lines
        /\ 170 \in Lines /\ 171 \in Lines /\ 173 \in Lines
    BY DEF Lines
  <1>3. /\ thr_join(t, 2, 170) => OwnLocals(t) /\ Does(t)
        /\ thr_join(t, mine[t].j, 173) => OwnLocals(t) /\ Does(t)
    BY <1>2, JoinJoins DEF Does
  <1>4. InProgram(t)
    BY <1>1, <1>2, Zenon DEF cvar_main, Jumps
  <1>5. OwnLocals(t)
    BY <1>1, <1>2, <1>3, Zenon DEF cvar_main, Assigns, Creates, Groups
  <1>6. Does(t)
    BY <1>1, <1>2, <1>3, Zenon
    DEF cvar_main, Jumps, Waits, Exits, Creates, Groups
  <1> QED
    BY <1>4, <1>5, <1>6 DEF ProgramStep

-----------------------------------------------------------------------------
(***************************************************************************)
(* Every step is one of the library or one of a program.                   *)
(***************************************************************************)

\* The threads: they are created in the order of their numbers, and one that
\* runs is somewhere.
ThreadsInv ==
  /\ DOMAIN stack = Tids /\ DOMAIN mine = Tids /\ DOMAIN life = Tids
  /\ \A t \in Tids : DOMAIN mine[t] = DOMAIN Locals0
  /\ \E n \in Tids : \A t \in Tids : life[t] # "free" <=> t <= n
  /\ \A t \in Tids : life[t] = "live" => stack[t] # <<>> /\ StackOK(stack[t])

\* Only programs with groups use the memory of groups.
MemInv ==
  /\ DOMAIN grp.mem = Tids
  /\ \A t \in Tids : life[t] = "free" => grp.mem[t] = "none"
  /\ prog \notin Grouped => \A t \in Tids : grp.mem[t] = "none"

\* The two threads that cvar_test's main() joins itself are in no group: the
\* sleeper, thread 2, which is the first it creates, and the instigator.
CvarInv ==
  prog = "cvar_test" =>
    /\ 2 \in Tids =>
         /\ grp.mem[2] = "none"
         /\ life[2] = "free" => \A t \in Tids : life[t] = "live" => stack[t] = << 140 >>
    /\ \A t \in Tids : mine[t].j \in Tids =>
         grp.mem[mine[t].j] = "none" /\ life[mine[t].j] # "free"

LEMMA NewestIs ==
  ASSUME NEW n \in Tids, \A t \in Tids : life[t] # "free" <=> t <= n
  PROVE  Newest = n
  <1>1. n \in Nat /\ 1 <= n /\ n <= MaxThreads /\ MaxThreads \in Nat
    BY MaxThreadsAssumption DEF Tids
  <1>2. {t \in Tids : life[t] # "free"} = 1 .. n
    BY <1>1 DEF Tids
  <1>3. Cardinality(1 .. n) = n
    BY <1>1, FS_Interval
  <1> QED
    BY <1>2, <1>3 DEF Newest

LEMMA LiveAble ==
  ASSUME ThreadsInv, NEW t \in Tids, life[t] = "live"
  PROVE  Able(t)
  <1>1. PICK n \in Tids : \A u \in Tids : life[u] # "free" <=> u <= n
    BY DEF ThreadsInv
  <1>2. Newest = n
    BY <1>1, NewestIs
  <1>3. n + 1 \in Tids => life[n + 1] = "free"
    BY <1>1 DEF Tids
  <1> QED
    BY <1>2, <1>3 DEF ThreadsInv, Able

LEMMA OnlyLive ==
  ASSUME NEW t, ThreadStep(t), ~Library(t)
  PROVE  life[t] = "live"
  <1>1. (\/ inc_count(t) \/ print_count(t)
         \/ juggle(t) \/ juggle_main(t))
          => life[t] = "live"
    BY Zenon DEF inc_count, print_count, juggle, CatchBall, juggle_main, At
  <1>2. (agility_drill_chase(t) \/ agility_drill_main(t)) => life[t] = "live"
    BY Zenon DEF agility_drill_chase, Chase, agility_drill_main, Drill, At
  <1>3. (\/ agility_drill_sem_chase(t)
         \/ agility_drill_sem_main(t))
          => life[t] = "live"
    BY Zenon DEF agility_drill_sem_chase, Chase, agility_drill_sem_main, Drill,
       At
  <1>4. (race(t) \/ bad(t) \/ racer_main(t)) => life[t] = "live"
    BY Zenon DEF race, bad, PrintAt, racer_main, At
  <1>5. mutex_test(t) => life[t] = "live"
    BY Zenon DEF mutex_test, At
  <1>6. (\/ paradise_lost_consumer(t)
         \/ paradise_lost_main(t))
          => life[t] = "live"
    BY Zenon DEF paradise_lost_consumer, consumer_wait, paradise_lost_main, At
  <1>7. (\/ semaphore_test_thread(t) \/ semaphore_test_run(t)
         \/ semaphore_test_main(t))
          => life[t] = "live"
    BY Zenon DEF semaphore_test_thread, barrier_sync, semaphore_test_run,
       semaphore_test_main, At
  <1>8. cyclone(t) => life[t] = "live"
    BY Zenon DEF cyclone, At
  <1>9. startle(t) => life[t] = "live"
    BY Zenon DEF startle, At
  <1>10. join_specific_test(t) => life[t] = "live"
    BY Zenon DEF join_specific_test, At
  <1>11. thr_exit_join(t) => life[t] = "live"
    BY Zenon DEF thr_exit_join, At
  <1>12. thr_join_exit(t) => life[t] = "live"
    BY Zenon DEF thr_join_exit, At
  <1>13. (largetest_thr(t) \/ largetest_main(t)) => life[t] = "live"
    BY Zenon DEF largetest_thr, LargeThr, LargeChild, SetError, largetest_main,
       LargeMain, LargeSpawn, LargeReap, LargeEnd, At
  <1>14. (largetest2_thr(t) \/ largetest2_main(t)) => life[t] = "live"
    BY Zenon DEF largetest2_thr, LargeThr, LargeChild, SetError, barrier,
       largetest2_main, LargeMain, LargeSpawn, LargeReap, LargeEnd, At
  <1>15. (paraguay_thread1(t) \/ paraguay_main(t)) => life[t] = "live"
    BY Zenon DEF paraguay_thread1, Nap, paraguay_main, Poke, At
  <1>16. broadcast_test(t) => life[t] = "live"
    BY Zenon DEF broadcast_test, At
  <1>17. (\/ cvar_sleeper(t) \/ maniac(t)
         \/ instigator(t) \/ cvar_main(t))
          => life[t] = "live"
    BY Zenon DEF cvar_sleeper, maniac, instigator, cvar_main, At
  <1>18. (\/ update(t) \/ controlThread(t) \/ targetThread(t)
         \/ scoreThread(t) \/ beady_main(t))
          => life[t] = "live"
    BY Zenon DEF update, waitUpdate, controlThread, scheduleUpdate,
       targetThread, scoreThread, beady_main, At
  <1>19. (\/ process_pixel(t) \/ wanderer_main(t)
         \/ input_loop(t) \/ mandelbrot_main(t))
          => life[t] = "live"
    <2>1. process_pixel(t) => life[t] = "live"
      BY Zenon DEF process_pixel, At
    <2>2. wanderer_main(t) => life[t] = "live"
      BY Zenon DEF wanderer_main, At
    <2>3. input_loop(t) => life[t] = "live"
      BY Zenon DEF input_loop, At
    <2>4. mandelbrot_exit(t) => life[t] = "live"
      BY Zenon DEF mandelbrot_exit, At
    <2>5. mandelbrot_main(t) => life[t] = "live"
      BY <2>4, Zenon DEF mandelbrot_main, At
    <2> QED
      BY <2>1, <2>2, <2>3, <2>5, Zenon
  <1>20. (nibbles(t) \/ nibbles_main(t) \/ key_grab(t)) => life[t] = "live"
    BY Zenon DEF nibbles, play_game, nibbles_main, key_grab, At
  <1> QED
    BY <1>1, <1>2, <1>3, <1>4, <1>5, <1>6, <1>7, <1>8, <1>9, <1>10, <1>11, <1>12,
       <1>13, <1>14, <1>15, <1>16, <1>17, <1>18, <1>19, <1>20, Zenon
    DEF ThreadStep

\* What the lemmas above say of each program.
LEMMA ProgramSteps ==
  ASSUME ThreadsInv, MemInv, CvarInv, NEW t \in Tids, ThreadStep(t), ~Library(t)
  PROVE  ProgramStep(t) /\ life[t] = "live"
  <1>1. life[t] = "live"
    BY OnlyLive
  <1>2. Able(t)
    BY <1>1, LiveAble
  <1>3. /\ prog \notin Grouped => NoGroup
        /\ prog = "cvar_test" => /\ 2 \in Tids => grp.mem[2] = "none"
                                 /\ mine[t].j \in Tids => grp.mem[mine[t].j] = "none"
    BY DEF MemInv, NoGroup, CvarInv
  <1>4. CASE prog = "juggle"
    <2>1. inc_count(t) \/ print_count(t) \/ juggle(t) \/ juggle_main(t)
      BY <1>4 DEF ThreadStep
    <2>2. NoGroup
      BY <1>3, <1>4 DEF Grouped
    <2> QED
      BY <1>1, <1>2, <2>1, <2>2, IncCount, PrintCount, Juggles, JuggleMain
  <1>5. CASE prog = "agility_drill"
    <2>1. agility_drill_chase(t) \/ agility_drill_main(t)
      BY <1>5 DEF ThreadStep
    <2>2. prog \in Grouped
      BY <1>3, <1>5 DEF Grouped
    <2>3. 163 \in 0 .. 900 /\ 107 \in Lines /\ 107 + 16 \in Lines
      BY DEF Lines
    <2>4. Chase(t, 107, "mtxs") => ProgramStep(t)
      BY <1>2, <2>3, ChaseSteps, Zenon
    <2>5. Drill(t, 163, 107) => ProgramStep(t)
      BY <1>2, <2>2, <2>3, DrillSteps, Zenon
    <2> QED
      BY <1>1, <2>1, <2>4, <2>5 DEF agility_drill_chase, agility_drill_main
  <1>6. CASE prog = "agility_drill_sem"
    <2>1. agility_drill_sem_chase(t) \/ agility_drill_sem_main(t)
      BY <1>6 DEF ThreadStep
    <2>2. prog \in Grouped
      BY <1>3, <1>6 DEF Grouped
    <2>3. 164 \in 0 .. 900 /\ 108 \in Lines /\ 108 + 16 \in Lines
      BY DEF Lines
    <2>4. Chase(t, 108, "sems") => ProgramStep(t)
      BY <1>2, <2>3, ChaseSteps, Zenon
    <2>5. Drill(t, 164, 108) => ProgramStep(t)
      BY <1>2, <2>2, <2>3, DrillSteps, Zenon
    <2> QED
      BY <1>1, <2>1, <2>4, <2>5 DEF agility_drill_sem_chase, agility_drill_sem_main
  <1>7. CASE prog = "racer"
    <2>1. race(t) \/ bad(t) \/ racer_main(t)
      BY <1>7 DEF ThreadStep
    <2>2. NoGroup
      BY <1>3, <1>7 DEF Grouped
    <2> QED
      BY <1>1, <1>2, <2>1, <2>2, RaceSteps, BadSteps, RacerMain
  <1>8. CASE prog = "mutex_test"
    <2>1. mutex_test(t)
      BY <1>8 DEF ThreadStep
    <2>2. NoGroup
      BY <1>3, <1>8 DEF Grouped
    <2> QED
      BY <1>1, <1>2, <2>1, <2>2, MutexTest
  <1>9. CASE prog = "paradise_lost"
    <2>1. paradise_lost_consumer(t) \/ paradise_lost_main(t)
      BY <1>9 DEF ThreadStep
    <2>2. NoGroup
      BY <1>3, <1>9 DEF Grouped
    <2> QED
      BY <1>1, <1>2, <2>1, <2>2, Consumer, ParadiseMain
  <1>10. CASE prog = "semaphore_test"
    <2>1. \/ semaphore_test_thread(t) \/ semaphore_test_run(t)
          \/ semaphore_test_main(t)
      BY <1>10 DEF ThreadStep
    <2>2. NoGroup
      BY <1>3, <1>10 DEF Grouped
    <2> QED
      BY <1>1, <1>2, <2>1, <2>2, SemThread, SemRun, SemMain
  <1>11. CASE prog = "cyclone"
    <2>1. cyclone(t)
      BY <1>11 DEF ThreadStep
    <2>2. NoGroup
      BY <1>3, <1>11 DEF Grouped
    <2> QED
      BY <1>1, <1>2, <2>1, <2>2, Cyclone
  <1>12. CASE prog = "startle"
    <2>1. startle(t)
      BY <1>12 DEF ThreadStep
    <2>2. NoGroup
      BY <1>3, <1>12 DEF Grouped
    <2> QED
      BY <1>1, <1>2, <2>1, <2>2, Startle
  <1>13. CASE prog = "join_specific_test"
    <2>1. join_specific_test(t)
      BY <1>13 DEF ThreadStep
    <2>2. NoGroup
      BY <1>3, <1>13 DEF Grouped
    <2> QED
      BY <1>1, <1>2, <2>1, <2>2, JoinSpecific
  <1>14. CASE prog = "thr_exit_join"
    <2>1. thr_exit_join(t)
      BY <1>14 DEF ThreadStep
    <2>2. NoGroup
      BY <1>3, <1>14 DEF Grouped
    <2> QED
      BY <1>1, <1>2, <2>1, <2>2, ExitJoin
  <1>15. CASE prog = "thr_join_exit"
    <2>1. thr_join_exit(t)
      BY <1>15 DEF ThreadStep
    <2>2. NoGroup
      BY <1>3, <1>15 DEF Grouped
    <2> QED
      BY <1>1, <1>2, <2>1, <2>2, JoinExit
  <1>16. CASE prog = "largetest"
    <2>1. largetest_thr(t) \/ largetest_main(t)
      BY <1>16 DEF ThreadStep
    <2>2. NoGroup
      BY <1>3, <1>16 DEF Grouped
    <2>3. 131 \in 0 .. 800 /\ 185 \in 0 .. 800 /\ 131 \in Lines
      BY DEF Lines
    <2>4. LargeThr(t, 131, FALSE) => ProgramStep(t)
      BY <1>2, <2>3, LargeThread, Zenon
    <2>5. LargeSpawn(t, 185, 131) => ProgramStep(t)
      BY <1>2, <2>3, LargeSpawns, Zenon
    <2>6. LargeReap(t, 185, FALSE) => ProgramStep(t)
      BY <1>2, <2>2, <2>3, LargeReaps, Zenon
    <2>7. LargeEnd(t, 185) => ProgramStep(t)
      BY <1>2, <2>2, <2>3, LargeEnds, Zenon
    <2> QED
      BY <1>1, <1>2, <2>1, <2>4, <2>5, <2>6, <2>7
      DEF largetest_thr, largetest_main, LargeMain
  <1>17. CASE prog = "largetest2"
    <2>1. largetest2_thr(t) \/ largetest2_main(t)
      BY <1>17 DEF ThreadStep
    <2>2. NoGroup
      BY <1>3, <1>17 DEF Grouped
    <2>3. 154 \in 0 .. 800 /\ 207 \in 0 .. 800 /\ 154 \in Lines
      BY DEF Lines
    <2>4. LargeThr(t, 154, TRUE) => ProgramStep(t)
      BY <1>2, <2>3, LargeThread, Zenon
    <2>5. LargeSpawn(t, 207, 154) => ProgramStep(t)
      BY <1>2, <2>3, LargeSpawns, Zenon
    <2>6. LargeReap(t, 207, TRUE) => ProgramStep(t)
      BY <1>2, <2>2, <2>3, LargeReaps, Zenon
    <2>7. LargeEnd(t, 207) => ProgramStep(t)
      BY <1>2, <2>2, <2>3, LargeEnds, Zenon
    <2> QED
      BY <1>1, <1>2, <2>1, <2>4, <2>5, <2>6, <2>7, BarrierSteps
      DEF largetest2_thr, largetest2_main, LargeMain
  <1>18. CASE prog = "paraguay"
    <2>1. paraguay_thread1(t) \/ paraguay_main(t)
      BY <1>18 DEF ThreadStep
    <2>2. NoGroup
      BY <1>3, <1>18 DEF Grouped
    <2> QED
      BY <1>1, <1>2, <2>1, <2>2, ParaguayThread, ParaguayMain
  <1>19. CASE prog = "broadcast_test"
    <2>1. broadcast_test(t)
      BY <1>19 DEF ThreadStep
    <2>2. NoGroup
      BY <1>3, <1>19 DEF Grouped
    <2> QED
      BY <1>1, <1>2, <2>1, <2>2, BroadcastTest
  <1>20. CASE prog = "cvar_test"
    <2>1. cvar_sleeper(t) \/ maniac(t) \/ instigator(t) \/ cvar_main(t)
      BY <1>20 DEF ThreadStep
    <2>2. prog \in Grouped
      BY <1>3, <1>20 DEF Grouped
    <2> QED
      BY <1>1, <1>2, <1>3, <1>20, <2>1, <2>2, SleeperSteps, ManiacSteps, InstigatorSteps, CvarMain
  <1>21. CASE prog = "beady_test"
    <2>1. \/ update(t) \/ controlThread(t) \/ targetThread(t)
          \/ scoreThread(t) \/ beady_main(t)
      BY <1>21 DEF ThreadStep
    <2>2. prog \in Grouped
      BY <1>3, <1>21 DEF Grouped
    <2> QED
      BY <1>1, <1>2, <2>1, <2>2, UpdateSteps, ControlSteps, TargetSteps, ScoreSteps, BeadyMain
  <1>22. CASE prog = "mandelbrot"
    <2>1. \/ process_pixel(t) \/ wanderer_main(t)
          \/ input_loop(t) \/ mandelbrot_main(t)
      BY <1>22 DEF ThreadStep
    <2>2. prog \in Grouped
      BY <1>3, <1>22 DEF Grouped
    <2> QED
      BY <1>1, <1>2, <2>1, <2>2, PixelSteps, WandererSteps, InputSteps, MandelbrotMain
  <1>23. CASE prog = "nibbles"
    <2>1. nibbles(t) \/ nibbles_main(t) \/ key_grab(t)
      BY <1>23 DEF ThreadStep
    <2>2. NoGroup
      BY <1>3, <1>23 DEF Grouped
    <2> QED
      BY <1>1, <1>2, <2>1, <2>2, NibblesSteps, NibblesMain, KeySteps
  <1> QED
    BY <1>4, <1>5, <1>6, <1>7, <1>8, <1>9, <1>10, <1>11, <1>12, <1>13, <1>14, <1>15,
       <1>16, <1>17, <1>18, <1>19, <1>20, <1>21, <1>22, <1>23, Zenon
    DEF ThreadStep

-----------------------------------------------------------------------------
(***************************************************************************)
(* The zombie queue of thread groups.                                      *)
(***************************************************************************)

\* The elements on the queue of g, oldest first, are those of the threads Q.
Linked(g, Q) ==
  /\ Q \in Seq(Tids)
  /\ \A i, j \in 1 .. Len(Q) : Q[i] = Q[j] => i = j
  /\ Q = <<>> => g.in = NULL /\ g.out = NULL
  /\ Q # <<>> => g.out = Q[1] /\ g.in = Q[Len(Q)]
  /\ \A i \in 1 .. Len(Q) - 1 : g.next[Q[i]] = Q[i + 1]

\* A thread of the queue has nothing left to do but exit, and nobody has
\* joined it.
Zombie(u) ==
  /\ grp.mem[u] = "element"
  /\ \/ life[u] \in {"exited", "gone"}
     \/ life[u] = "live" /\ stack[u] = <<TG(110)>>

QueueInv == \E Q : Linked(grp, Q) /\ \A i \in 1 .. Len(Q) : Zombie(Q[i])

GroupRecords ==
  [in : Tids \cup {NULL}, out : Tids \cup {NULL},
   next : [Tids -> Tids \cup {NULL}],
   mem : [Tids -> {"none", "args", "element", "freed"}],
   func : [Tids -> Lines]]
GroupType == grp \in GroupRecords

\* What a thread knows of the memory of groups from where it is.
PlaceInv(t) ==
  life[t] = "live" =>
    /\ Head(stack[t]) = TG(81) => grp.mem[t] = "args"
    /\ stack[t][Len(stack[t])] = TG(98) => grp.mem[t] = "element"
    /\ Head(stack[t]) = TG(194) =>
         mine[t].z \in Tids /\ grp.mem[mine[t].z] = "freed"

GroupsInv ==
  /\ ThreadsInv /\ MemInv /\ GroupType /\ QueueInv
  /\ \A t \in Tids : PlaceInv(t)

\* The queue stays as it is.
LEMMA QueueStays ==
  ASSUME QueueInv, grp'.in = grp.in, grp'.out = grp.out, grp'.next = grp.next,
         \A u \in Tids : Zombie(u) => Zombie(u)'
  PROVE  QueueInv'
  <1>1. PICK Q : Linked(grp, Q) /\ \A i \in 1 .. Len(Q) : Zombie(Q[i])
    BY DEF QueueInv
  <1>2. Linked(grp', Q)
    BY <1>1 DEF Linked
  <1>3. \A i \in 1 .. Len(Q) : Zombie(Q[i])'
    BY <1>1 DEF Linked
  <1> QED
    BY <1>2, <1>3 DEF QueueInv

\* A thread in its program is no zombie, and where it goes it knows what it
\* has to.
LEMMA NoZombie ==
  ASSUME NEW t, InProgram(t)
  PROVE  ~Zombie(t)
  <1>1. Head(<<TG(110)>>) = TG(110) /\ TG(110) \notin Lines
    BY DEF TG, Lines
  <1> QED
    BY <1>1 DEF InProgram, Zombie

Settled(t, r) ==
  /\ r # <<>> /\ StackOK(r) /\ Head(r) # TG(81) /\ Head(r) # TG(194)
  /\ r[Len(r)] = TG(98) => grp.mem[t] = "element"

LEMMA MovedPlace ==
  ASSUME NEW t, PlaceInv(t), life[t] = "live", NEW r, NextStack(stack[t], r)
  PROVE  Settled(t, r)
  <1>1. /\ TG(81) \notin Lines \cup {TG(170), TG(61), TG(98)}
        /\ TG(194) \notin Lines \cup {TG(170), TG(61), TG(98)}
    BY DEF TG, Lines
  <1> QED
    BY <1>1 DEF NextStack, PlaceInv, Settled

\* A thread moves, and that is all that groups can see.
LEMMA MovesKeep ==
  ASSUME GroupsInv, NEW t \in Tids, life[t] = "live", ~Zombie(t), OwnLocals(t),
         NEW r, Settled(t, r), stack' = [stack EXCEPT ![t] = r],
         life' = life, grp' = grp, prog' = prog
  PROVE  GroupsInv'
  <1>1. ThreadsInv'
    BY DEF GroupsInv, ThreadsInv, OwnLocals, Settled
  <1>2. MemInv' /\ GroupType'
    BY DEF GroupsInv, MemInv, GroupType, GroupRecords
  <1>3. QueueInv'
    <2>1. \A u \in Tids : Zombie(u) => Zombie(u)'
      BY DEF Zombie, GroupsInv, ThreadsInv
    <2> QED
      BY <2>1, QueueStays DEF GroupsInv
  <1>4. ASSUME NEW u \in Tids PROVE PlaceInv(u)'
    <2>1. CASE u = t
      BY <2>1 DEF PlaceInv, GroupsInv, ThreadsInv, Settled
    <2>2. CASE u # t
      BY <2>2 DEF PlaceInv, GroupsInv, ThreadsInv, OwnLocals
    <2> QED
      BY <2>1, <2>2
  <1> QED
    BY <1>1, <1>2, <1>3, <1>4 DEF GroupsInv

LEMMA GoesKeeps ==
  ASSUME GroupsInv, NEW t \in Tids, InProgram(t), OwnLocals(t), Goes(t), prog' = prog
  PROVE  GroupsInv'
  <1>1. PICK r : NextStack(stack[t], r) /\ stack' = [stack EXCEPT ![t] = r]
    BY DEF Goes, StackMoves
  <1>2. life[t] = "live" /\ life' = life /\ grp' = grp /\ PlaceInv(t) /\ ~Zombie(t)
    BY NoZombie DEF InProgram, Goes, GroupsInv
  <1>3. Settled(t, r)
    BY <1>1, <1>2, MovedPlace
  <1> QED
    BY <1>1, <1>2, <1>3, MovesKeep

LEMMA EndsKeeps ==
  ASSUME GroupsInv, NEW t \in Tids, InProgram(t), OwnLocals(t), Ends(t), prog' = prog
  PROVE  GroupsInv'
  <1>1. PICK w \in {"exited", "gone"} : life' = [life EXCEPT ![t] = w]
    BY DEF Ends
  <1>2. life[t] = "live" /\ stack' = [stack EXCEPT ![t] = <<>>] /\ grp' = grp
    BY DEF InProgram, Ends
  <1>3. ThreadsInv'
    <2>1. \A u \in Tids : life'[u] # "free" <=> life[u] # "free"
      BY <1>1, <1>2 DEF GroupsInv, ThreadsInv
    <2> QED
      BY <1>1, <1>2, <2>1 DEF GroupsInv, ThreadsInv, OwnLocals
  <1>4. MemInv' /\ GroupType'
    BY <1>1, <1>2 DEF GroupsInv, ThreadsInv, MemInv, GroupType, GroupRecords
  <1>5. QueueInv'
    <2>1. \A u \in Tids : Zombie(u) => Zombie(u)'
      BY <1>1, <1>2, NoZombie DEF Zombie, GroupsInv, ThreadsInv
    <2> QED
      BY <1>2, <2>1, QueueStays DEF GroupsInv
  <1>6. ASSUME NEW u \in Tids PROVE PlaceInv(u)'
    <2>1. CASE u = t
      BY <1>1, <2>1 DEF PlaceInv, GroupsInv, ThreadsInv
    <2>2. CASE u # t
      BY <1>1, <1>2, <2>2 DEF PlaceInv, GroupsInv, ThreadsInv, OwnLocals
    <2> QED
      BY <2>1, <2>2
  <1> QED
    BY <1>3, <1>4, <1>5, <1>6 DEF GroupsInv

LEMMA EndsAllKeeps ==
  ASSUME GroupsInv, DOMAIN mine' = Tids,
         \A u \in Tids : DOMAIN mine'[u] = DOMAIN mine[u],
         EndsAll, prog' = prog
  PROVE  GroupsInv'
  <1>1. /\ life' = [u \in Tids |-> IF life[u] = "live" THEN "gone" ELSE life[u]]
        /\ stack' = [u \in Tids |-> <<>>] /\ grp' = grp
    BY DEF EndsAll
  <1>2. ThreadsInv'
    <2>1. \A u \in Tids : /\ life'[u] # "free" <=> life[u] # "free"
                          /\ life'[u] # "live"
      BY <1>1
    <2> QED
      BY <1>1, <2>1 DEF GroupsInv, ThreadsInv
  <1>3. MemInv' /\ GroupType'
    BY <1>1 DEF GroupsInv, MemInv, GroupType, GroupRecords
  <1>4. QueueInv'
    <2>1. \A u \in Tids : Zombie(u) => Zombie(u)'
      BY <1>1 DEF Zombie
    <2> QED
      BY <1>1, <2>1, QueueStays DEF GroupsInv
  <1>5. \A u \in Tids : PlaceInv(u)'
    BY <1>1 DEF PlaceInv
  <1> QED
    BY <1>2, <1>3, <1>4, <1>5 DEF GroupsInv

\* A thread that is not on the queue is joined.
LEMMA ReapKeeps ==
  ASSUME GroupsInv, NEW t \in Tids, life[t] = "live", ~Zombie(t), OwnLocals(t),
         NEW r, Settled(t, r), stack' = [stack EXCEPT ![t] = r],
         NEW w \in Tids, life[w] = "exited", ~Zombie(w),
         life' = [life EXCEPT ![w] = "reaped"], grp' = grp, prog' = prog
  PROVE  GroupsInv'
  <1>1. ThreadsInv'
    <2>1. \A u \in Tids : /\ life'[u] # "free" <=> life[u] # "free"
                          /\ life'[u] = "live" => life[u] = "live"
      BY DEF GroupsInv, ThreadsInv
    <2> QED
      BY <2>1 DEF GroupsInv, ThreadsInv, OwnLocals, Settled
  <1>2. MemInv' /\ GroupType'
    BY DEF GroupsInv, ThreadsInv, MemInv, GroupType, GroupRecords
  <1>3. QueueInv'
    <2>1. \A u \in Tids : Zombie(u) => Zombie(u)'
      BY DEF Zombie, GroupsInv, ThreadsInv
    <2> QED
      BY <2>1, QueueStays DEF GroupsInv
  <1>4. ASSUME NEW u \in Tids PROVE PlaceInv(u)'
    <2>1. CASE u = t
      BY <2>1 DEF PlaceInv, GroupsInv, ThreadsInv, Settled
    <2>2. CASE u # t
      BY <2>2 DEF PlaceInv, GroupsInv, ThreadsInv, OwnLocals
    <2> QED
      BY <2>1, <2>2
  <1> QED
    BY <1>1, <1>2, <1>3, <1>4 DEF GroupsInv

LEMMA JoinsKeeps ==
  ASSUME GroupsInv, NEW t \in Tids, InProgram(t), OwnLocals(t), Joins(t), prog' = prog
  PROVE  GroupsInv'
  <1>1. PICK w \in Tids : /\ life[w] = "exited" /\ grp.mem[w] = "none"
                          /\ life' = [life EXCEPT ![w] = "reaped"]
                          /\ StackMoves(t) /\ grp' = grp
    BY DEF Joins
  <1>2. PICK r : NextStack(stack[t], r) /\ stack' = [stack EXCEPT ![t] = r]
    BY <1>1 DEF StackMoves
  <1>3. life[t] = "live" /\ PlaceInv(t) /\ ~Zombie(t) /\ ~Zombie(w)
    BY <1>1, NoZombie DEF InProgram, GroupsInv, Zombie
  <1>4. Settled(t, r)
    BY <1>2, <1>3, MovedPlace
  <1> QED
    BY <1>1, <1>2, <1>3, <1>4, ReapKeeps

LEMMA MakesKeeps ==
  ASSUME GroupsInv, NEW t \in Tids, InProgram(t), OwnLocals(t), Makes(t), prog' = prog
  PROVE  GroupsInv'
  <1>a. PICK u \in Tids : \E r :
          /\ u = Newest + 1 /\ NextStack(stack[t], r)
          /\ life' = [life EXCEPT ![u] = "live"]
          /\ \E f \in Lines :
               \/ /\ stack' = [stack EXCEPT ![t] = r, ![u] = <<f>>]
                  /\ grp' = grp
               \/ /\ prog \in Grouped
                  /\ stack' = [stack EXCEPT ![t] = r, ![u] = <<TG(81)>>]
                  /\ grp' = [grp EXCEPT !.mem[u] = "args", !.func[u] = f]
    BY DEF Makes
  <1>1. PICK r :
          /\ u = Newest + 1 /\ NextStack(stack[t], r)
          /\ life' = [life EXCEPT ![u] = "live"]
          /\ \E f \in Lines :
               \/ /\ stack' = [stack EXCEPT ![t] = r, ![u] = <<f>>]
                  /\ grp' = grp
               \/ /\ prog \in Grouped
                  /\ stack' = [stack EXCEPT ![t] = r, ![u] = <<TG(81)>>]
                  /\ grp' = [grp EXCEPT !.mem[u] = "args", !.func[u] = f]
    BY <1>a
  <1>2. life[t] = "live" /\ PlaceInv(t)
    BY DEF InProgram, GroupsInv
  <1>3. PICK n \in Tids : \A v \in Tids : life[v] # "free" <=> v <= n
    BY DEF GroupsInv, ThreadsInv
  <1>4. u = n + 1 /\ life[u] = "free" /\ u # t
    <2>1. u = n + 1
      BY <1>1, <1>3, NewestIs
    <2>2. ~(u <= n)
      BY <2>1 DEF Tids
    <2> QED
      BY <1>2, <1>3, <2>1, <2>2
  <1>5. /\ r # <<>> /\ StackOK(r) /\ Head(r) # TG(81) /\ Head(r) # TG(194)
        /\ r[Len(r)] = TG(98) => grp.mem[t] = "element"
    BY <1>1, <1>2, MovedPlace DEF Settled
  <1>6. PICK f \in Lines, s \in Lines \cup {TG(81)} :
          /\ stack' = [stack EXCEPT ![t] = r, ![u] = <<s>>]
          /\ \/ s \in Lines /\ grp' = grp
             \/ /\ s = TG(81) /\ prog \in Grouped
                /\ grp' = [grp EXCEPT !.mem[u] = "args", !.func[u] = f]
    BY <1>1
  <1>7. /\ \A v \in Tids : v # t /\ v # u => stack'[v] = stack[v]
        /\ stack'[t] = r /\ stack'[u] = <<s>> /\ DOMAIN stack' = Tids
        /\ \A v \in Tids : v # u => life'[v] = life[v]
        /\ life'[u] = "live" /\ DOMAIN life' = Tids
    BY <1>1, <1>4, <1>6 DEF GroupsInv, ThreadsInv
  <1>8. /\ GroupType' /\ DOMAIN grp'.mem = Tids
        /\ \A v \in Tids : v # u => grp'.mem[v] = grp.mem[v]
        /\ grp'.in = grp.in /\ grp'.out = grp.out /\ grp'.next = grp.next
        /\ s = TG(81) => prog \in Grouped /\ grp'.mem[u] = "args"
        /\ s \in Lines => grp'.mem[u] = grp.mem[u]
    <2>1. TG(81) \notin Lines
      BY DEF TG, Lines
    <2>2. GroupType
      BY DEF GroupsInv
    <2>3. CASE s \in Lines
      BY <1>6, <2>1, <2>2, <2>3 DEF GroupType, GroupRecords
    <2>4. CASE s = TG(81)
      <3>1. grp' = [grp EXCEPT !.mem[u] = "args", !.func[u] = f]
        BY <1>6, <2>1, <2>4
      <3>2. /\ grp'.in = grp.in /\ grp'.out = grp.out /\ grp'.next = grp.next
            /\ grp'.mem = [grp.mem EXCEPT ![u] = "args"]
            /\ grp'.func = [grp.func EXCEPT ![u] = f]
        BY <2>2, <3>1 DEF GroupType, GroupRecords
      <3>3. GroupType'
        BY <2>2, <3>1 DEF GroupType, GroupRecords
      <3>4. /\ DOMAIN grp'.mem = Tids /\ grp'.mem[u] = "args"
            /\ \A v \in Tids : v # u => grp'.mem[v] = grp.mem[v]
        BY <2>2, <3>2 DEF GroupType, GroupRecords
      <3> QED
        BY <1>6, <2>1, <2>4, <3>2, <3>3, <3>4
    <2> QED
      BY <1>6, <2>3, <2>4
  <1>9. s \in Nat /\ s # TG(98) /\ s # TG(194)
    BY DEF Lines, TG
  <1>10. ThreadsInv'
    <2>1. <<s>> # <<>> /\ StackOK(<<s>>)
      BY <1>9 DEF StackOK
    <2>2. \A v \in Tids : life'[v] # "free" <=> v <= u
      <3>1. \A v \in Tids : v <= u <=> v <= n \/ v = u
        BY <1>4 DEF Tids
      <3> QED
        BY <1>3, <1>7, <3>1
    <2> QED
      BY <1>5, <1>7, <2>1, <2>2 DEF GroupsInv, ThreadsInv, OwnLocals
  <1>11. MemInv'
    BY <1>4, <1>7, <1>8 DEF GroupsInv, MemInv
  <1>12. QueueInv'
    <2>1. ASSUME NEW v \in Tids, Zombie(v) PROVE Zombie(v)'
      <3>1. v # t /\ v # u
        BY <1>4, <2>1, NoZombie DEF Zombie
      <3> QED
        BY <1>7, <1>8, <2>1, <3>1 DEF Zombie
    <2> QED
      BY <1>8, <2>1, QueueStays DEF GroupsInv
  <1>13. ASSUME NEW v \in Tids PROVE PlaceInv(v)'
    <2>1. CASE v = t
      BY <1>4, <1>5, <1>7, <1>8, <2>1 DEF PlaceInv
    <2>2. CASE v = u
      <3>1. Head(<<s>>) = s /\ <<s>>[Len(<<s>>)] = s
        OBVIOUS
      <3> QED
        BY <1>7, <1>8, <1>9, <2>2, <3>1 DEF PlaceInv
    <2>3. CASE v # t /\ v # u
      <3>1. life[v] # "free" => mine'[v] = mine[v]
        BY <2>3 DEF OwnLocals
      <3>2. grp.mem[u] = "none"
        BY <1>4 DEF GroupsInv, MemInv
      <3> QED
        BY <1>7, <1>8, <2>3, <3>1, <3>2 DEF PlaceInv, GroupsInv
    <2> QED
      BY <2>1, <2>2, <2>3
  <1> QED
    BY <1>8, <1>10, <1>11, <1>12, <1>13 DEF GroupsInv

LEMMA ProgramKeeps ==
  ASSUME GroupsInv, NEW t \in Tids, ProgramStep(t)
  PROVE  GroupsInv'
  <1>1. CASE EndsAll /\ OwnLocals(t)
    BY <1>1, EndsAllKeeps DEF ProgramStep, Does, OwnLocals
  <1>2. CASE ~(EndsAll /\ OwnLocals(t))
    BY <1>2, GoesKeeps, MakesKeeps, EndsKeeps, JoinsKeeps DEF ProgramStep, Does
  <1> QED
    BY <1>1, <1>2

\* thrgrp_bottom() puts a thread on the queue, thrgrp_join() takes one off.
LEMMA Enqueued ==
  ASSUME GroupType, NEW Q, Linked(grp, Q), NEW t \in Tids,
         \A i \in 1 .. Len(Q) : Q[i] # t
  PROVE  /\ Linked(Enqueue(t), Append(Q, t))
         /\ Enqueue(t).mem = grp.mem /\ Enqueue(t).func = grp.func
         /\ Enqueue(t) \in GroupRecords
  <1> DEFINE g == Enqueue(t)
             R == Append(Q, t)
  <1>1. Q \in Seq(Tids) /\ Len(Q) \in Nat /\ NULL \notin Tids
    BY DEF Linked, NULL, Tids
  <1>2. /\ g.in = t
        /\ g.out = IF grp.out = NULL THEN t ELSE grp.out
        /\ g.next = IF grp.in = NULL THEN grp.next ELSE [grp.next EXCEPT ![grp.in] = t]
        /\ g.mem = grp.mem /\ g.func = grp.func
    BY DEF Enqueue, GroupType, GroupRecords
  <1>3. g \in GroupRecords
    BY DEF Enqueue, GroupType, GroupRecords
  <1>4. /\ R \in Seq(Tids) /\ Len(R) = Len(Q) + 1 /\ R[Len(Q) + 1] = t
        /\ \A i \in 1 .. Len(Q) : R[i] = Q[i]
    BY <1>1
  <1> HIDE DEF g, R
  <1>5. \A i, j \in 1 .. Len(R) : R[i] = R[j] => i = j
    <2> SUFFICES ASSUME NEW i \in 1 .. Len(R), NEW j \in 1 .. Len(R), R[i] = R[j]
                 PROVE  i = j
      OBVIOUS
    <2>1. /\ i \in 1 .. Len(Q) \/ i = Len(Q) + 1
          /\ j \in 1 .. Len(Q) \/ j = Len(Q) + 1
      BY <1>1, <1>4
    <2> QED
      BY <1>4, <2>1 DEF Linked
  <1>6. R # <<>> /\ g.out = R[1] /\ g.in = R[Len(R)]
    <2>1. CASE Q = <<>>
      <3>1. grp.out = NULL /\ Len(Q) = 0 /\ R # <<>>
        BY <1>4, <2>1 DEF Linked
      <3> QED
        BY <1>2, <1>4, <3>1
    <2>2. CASE Q # <<>>
      <3>1. grp.out = Q[1] /\ Q[1] \in Tids /\ R[1] = Q[1] /\ R # <<>>
        BY <1>1, <1>4, <2>2 DEF Linked
      <3> QED
        BY <1>1, <1>2, <1>4, <3>1
    <2> QED
      BY <2>1, <2>2
  <1>7. ASSUME NEW i \in 1 .. Len(R) - 1 PROVE g.next[R[i]] = R[i + 1]
    <2>1. i \in 1 .. Len(Q) /\ R[i] = Q[i] /\ Q # <<>> /\ Q[i] \in Tids
      BY <1>1, <1>4
    <2>2. grp.in = Q[Len(Q)] /\ grp.in # NULL /\ Len(Q) \in 1 .. Len(Q)
      BY <1>1, <2>1 DEF Linked
    <2>3. g.next = [grp.next EXCEPT ![Q[Len(Q)]] = t] /\ DOMAIN grp.next = Tids
      BY <1>2, <2>2 DEF GroupType, GroupRecords
    <2>4. CASE i = Len(Q)
      BY <1>4, <2>1, <2>3, <2>4
    <2>5. CASE i # Len(Q)
      <3>1. i \in 1 .. Len(Q) - 1 /\ i + 1 \in 1 .. Len(Q)
        BY <1>1, <2>1, <2>5
      <3>2. Q[i] # Q[Len(Q)]
        BY <2>1, <2>2, <2>5 DEF Linked
      <3>3. g.next[Q[i]] = grp.next[Q[i]]
        BY <2>1, <2>3, <3>2
      <3> QED
        BY <1>4, <2>1, <3>1, <3>3 DEF Linked
    <2> QED
      BY <2>4, <2>5
  <1>8. Linked(g, R)
    BY <1>4, <1>5, <1>6, <1>7 DEF Linked
  <1> QED
    BY <1>2, <1>3, <1>8 DEF g, R

LEMMA Dequeued ==
  ASSUME GroupType, NEW Q, Linked(grp, Q), grp.out # NULL
  PROVE  /\ Q # <<>> /\ grp.out = Q[1] /\ Linked(Dequeue, Tail(Q))
         /\ Dequeue.mem = [grp.mem EXCEPT ![grp.out] = "freed"]
         /\ Dequeue \in GroupRecords
  <1> DEFINE g == Dequeue
             R == Tail(Q)
             n == Len(Q)
  <1>1. /\ Q \in Seq(Tids) /\ Q # <<>> /\ n \in Nat /\ n >= 1 /\ NULL \notin Tids
        /\ grp.out = Q[1] /\ Q[1] \in Tids /\ grp.in = Q[n] /\ Q[n] \in Tids
    <2>1. Q \in Seq(Tids) /\ NULL \notin Tids /\ Q # <<>>
      BY DEF Linked, NULL, Tids
    <2> QED
      BY <2>1 DEF Linked
  <1>2. /\ R \in Seq(Tids) /\ Len(R) = n - 1
        /\ \A i \in 1 .. n - 1 : R[i] = Q[i + 1]
    BY <1>1
  <1>3. grp.out = grp.in <=> n = 1
    <2>1. 1 \in 1 .. n /\ n \in 1 .. n
      BY <1>1
    <2> QED
      BY <1>1, <2>1 DEF Linked
  <1>4. /\ g.mem = [grp.mem EXCEPT ![grp.out] = "freed"]
        /\ g.next = [grp.next EXCEPT ![grp.out] = NULL]
        /\ g.func = grp.func
        /\ n = 1 => g.in = NULL /\ g.out = NULL
        /\ n # 1 => g.in = grp.in /\ g.out = grp.next[grp.out]
    BY <1>1, <1>3 DEF Dequeue, GroupType, GroupRecords
  <1>5. g \in GroupRecords
    BY <1>1 DEF Dequeue, GroupType, GroupRecords
  <1> HIDE DEF g, R, n
  <1>6. \A i, j \in 1 .. Len(R) : R[i] = R[j] => i = j
    <2> SUFFICES ASSUME NEW i \in 1 .. Len(R), NEW j \in 1 .. Len(R), R[i] = R[j]
                 PROVE  i = j
      OBVIOUS
    <2>1. i + 1 \in 1 .. n /\ j + 1 \in 1 .. n /\ Q[i + 1] = Q[j + 1]
      BY <1>1, <1>2
    <2>2. i + 1 = j + 1
      BY <2>1 DEF Linked, n
    <2> QED
      BY <1>1, <1>2, <2>2
  <1>7. R = <<>> => g.in = NULL /\ g.out = NULL
    BY <1>1, <1>2, <1>4
  <1>8. R # <<>> => g.out = R[1] /\ g.in = R[Len(R)]
    <2> SUFFICES ASSUME R # <<>> PROVE g.out = R[1] /\ g.in = R[Len(R)]
      OBVIOUS
    <2>1. n # 1 /\ n >= 2 /\ 1 \in 1 .. n - 1 /\ n - 1 \in 1 .. n - 1
      BY <1>1, <1>2
    <2>2. grp.next[Q[1]] = Q[2]
      BY <2>1 DEF Linked, n
    <2>3. R[1] = Q[2] /\ R[n - 1] = Q[n]
      BY <1>1, <1>2, <2>1
    <2> QED
      BY <1>1, <1>2, <1>4, <2>1, <2>2, <2>3
  <1>9. ASSUME NEW i \in 1 .. Len(R) - 1 PROVE g.next[R[i]] = R[i + 1]
    <2>1. /\ i \in 1 .. n - 1 /\ i + 1 \in 1 .. n - 1 /\ i + 1 \in 1 .. n /\ 1 \in 1 .. n
          /\ i + 1 # 1 /\ R[i] = Q[i + 1] /\ R[i + 1] = Q[(i + 1) + 1]
      BY <1>1, <1>2
    <2>2. Q[i + 1] # Q[1] /\ Q[i + 1] \in Tids
      BY <1>1, <2>1 DEF Linked, n
    <2>3. g.next[Q[i + 1]] = grp.next[Q[i + 1]]
      BY <1>1, <1>4, <2>2 DEF GroupType, GroupRecords
    <2> QED
      BY <2>1, <2>3 DEF Linked, n
  <1>10. Linked(g, R)
    BY <1>2, <1>6, <1>7, <1>8, <1>9 DEF Linked
  <1> QED
    BY <1>1, <1>4, <1>5, <1>10 DEF g, R

-----------------------------------------------------------------------------
(* The steps of thrgrp.c. *)

LEMMA GroupLine ==
  ASSUME NEW s, StackOK(s), s # <<>>, NEW n \in Nat, n # TG(98)
  PROVE  LET r == <<n>> \o Tail(s)
         IN /\ r # <<>> /\ StackOK(r) /\ Head(r) = n /\ Len(r) = Len(s)
            /\ r[Len(r)] = TG(98) => s[Len(s)] = TG(98)
  <1> DEFINE r == <<n>> \o Tail(s)
  <1>1. s \in Seq(Nat) /\ Len(s) \in Nat \ {0}
    BY DEF StackOK
  <1>2. r \in Seq(Nat) /\ Len(r) = Len(s) /\ r[1] = n /\ \A i \in 2 .. Len(s) : r[i] = s[i]
    BY <1>1
  <1> HIDE DEF r
  <1>3. StackOK(r) /\ r # <<>> /\ Head(r) = n
    BY <1>1, <1>2 DEF StackOK
  <1>4. r[Len(r)] = TG(98) => s[Len(s)] = TG(98)
    BY <1>1, <1>2
  <1> QED
    BY <1>2, <1>3, <1>4 DEF r

LEMMA Different ==
  /\ \A n \in {TG(61), TG(70), TG(81), TG(98), TG(170), TG(172), TG(194), TG(195)} :
       n # TG(110) /\ n \in Nat
  /\ \A n \in {TG(61), TG(70), TG(110), TG(170), TG(172), TG(195)} :
       n # TG(98) /\ n # TG(81) /\ n # TG(194)
  /\ TG(98) # TG(81) /\ TG(98) # TG(194) /\ TG(81) # TG(194) /\ TG(98) # 0
  /\ \A n \in Lines : n # TG(81) /\ n # TG(98) /\ n # TG(194) /\ n # TG(110)
  BY DEF TG, Lines

LEMMA ElsewhereNoZombie ==
  ASSUME NEW t, life[t] = "live", Head(stack[t]) # TG(110)
  PROVE  ~Zombie(t)
  <1>1. Head(<<TG(110)>>) = TG(110)
    BY DEF TG
  <1> QED
    BY <1>1 DEF Zombie

LEMMA LibraryStays ==
  ASSUME GroupsInv, UNCHANGED <<prog, stack, mine, life, grp>>
  PROVE  GroupsInv'
  <1>1. ThreadsInv' /\ MemInv' /\ GroupType'
    BY DEF GroupsInv, ThreadsInv, MemInv, GroupType, GroupRecords
  <1>2. QueueInv'
    BY QueueStays DEF GroupsInv, Zombie
  <1>3. \A u \in Tids : PlaceInv(u)'
    BY DEF GroupsInv, PlaceInv
  <1> QED
    BY <1>1, <1>2, <1>3 DEF GroupsInv

LEMMA LibraryMoves ==
  ASSUME GroupsInv, NEW t \in Tids, NEW a \in {TG(61), TG(170), TG(172)}, At(t, a),
         NEW n \in {TG(70), TG(172)}, Goto(t, n), OwnLocals(t),
         life' = life, grp' = grp, prog' = prog
  PROVE  GroupsInv'
  <1>1. life[t] = "live" /\ stack[t] # <<>> /\ StackOK(stack[t]) /\ Head(stack[t]) = a
    BY DEF GroupsInv, ThreadsInv, At
  <1>2. /\ a # TG(110) /\ n \in Nat /\ n # TG(98) /\ n # TG(81) /\ n # TG(194)
    BY Different
  <1>3. ~Zombie(t)
    BY <1>1, <1>2, ElsewhereNoZombie
  <1>4. PICK r : r = <<n>> \o Tail(stack[t])
    OBVIOUS
  <1>5. /\ r # <<>> /\ StackOK(r) /\ Head(r) = n
        /\ r[Len(r)] = TG(98) => stack[t][Len(stack[t])] = TG(98)
    BY <1>1, <1>2, <1>4, GroupLine
  <1>6. stack' = [stack EXCEPT ![t] = r]
    BY <1>4 DEF Goto
  <1>7. Settled(t, r)
    BY <1>1, <1>2, <1>5 DEF GroupsInv, PlaceInv, Settled
  <1> QED
    BY <1>1, <1>3, <1>6, <1>7, MovesKeep

LEMMA LibraryReturns ==
  ASSUME GroupsInv, NEW t \in Tids, NEW a \in {TG(70), TG(195)}, At(t, a), Return(t),
         OwnLocals(t)
  PROVE  GroupsInv'
  <1>1. /\ life[t] = "live" /\ StackOK(stack[t]) /\ Head(stack[t]) = a
        /\ PlaceInv(t) /\ Len(stack[t]) > 1
        /\ life' = life /\ grp' = grp /\ prog' = prog
    BY DEF GroupsInv, ThreadsInv, At, Return, Quiet
  <1>2. a # TG(110)
    BY Different
  <1>3. ~Zombie(t)
    BY <1>1, <1>2, ElsewhereNoZombie
  <1>4. PICK r : r = Tail(stack[t])
    OBVIOUS
  <1>5. NextStack(stack[t], r)
    BY <1>1, <1>4, LineReturns, Zenon
  <1>6. Settled(t, r)
    BY <1>1, <1>5, MovedPlace
  <1>7. stack' = [stack EXCEPT ![t] = r]
    BY <1>4 DEF Return
  <1> QED
    BY <1>1, <1>3, <1>6, <1>7, MovesKeep

LEMMA BottomStarts ==
  ASSUME GroupsInv, NEW t \in Tids, At(t, TG(81)), mine' = mine,
         stack' = [stack EXCEPT ![t] = <<grp.func[t], TG(98)>>],
         grp' = [grp EXCEPT !.mem[t] = "element"], life' = life, prog' = prog
  PROVE  GroupsInv'
  <1>1. /\ life[t] = "live" /\ Head(stack[t]) = TG(81) /\ grp.mem[t] = "args"
        /\ grp.func[t] \in Lines
    BY DEF At, GroupsInv, PlaceInv, GroupType, GroupRecords
  <1>2. /\ GroupType' /\ DOMAIN grp'.mem = Tids /\ grp'.mem[t] = "element"
        /\ \A u \in Tids : u # t => grp'.mem[u] = grp.mem[u]
        /\ grp'.in = grp.in /\ grp'.out = grp.out /\ grp'.next = grp.next
    BY DEF GroupsInv, GroupType, GroupRecords
  <1>3. PICK f \in Lines : stack' = [stack EXCEPT ![t] = <<f, TG(98)>>]
    BY <1>1
  <1>4. PICK r : r = <<f, TG(98)>>
    OBVIOUS
  <1>5. /\ r # <<>> /\ StackOK(r) /\ Head(r) = f
        /\ f # TG(81) /\ f # TG(194)
    <2>1. f \in Nat /\ TG(98) \in Nat /\ f # TG(98) /\ f # TG(81) /\ f # TG(194)
      BY Different DEF Lines
    <2>2. r # <<>> /\ r \in Seq(Nat) /\ Len(r) = 2 /\ r[1] = f /\ r[2] = TG(98)
      BY <1>4, <2>1
    <2> QED
      BY <2>1, <2>2 DEF StackOK
  <1>6. /\ \A u \in Tids : u # t => stack'[u] = stack[u]
        /\ stack'[t] = r /\ DOMAIN stack' = Tids
    BY <1>3, <1>4 DEF GroupsInv, ThreadsInv
  <1>7. ThreadsInv'
    BY <1>5, <1>6 DEF GroupsInv, ThreadsInv
  <1>8. MemInv'
    BY <1>1, <1>2 DEF GroupsInv, MemInv
  <1>9. QueueInv'
    <2>1. \A u \in Tids : Zombie(u) => Zombie(u)'
      BY <1>1, <1>2, <1>6 DEF Zombie
    <2> QED
      BY <1>2, <2>1, QueueStays DEF GroupsInv
  <1>10. ASSUME NEW u \in Tids PROVE PlaceInv(u)'
    <2>1. CASE u = t
      BY <1>2, <1>5, <1>6, <2>1 DEF PlaceInv
    <2>2. CASE u # t
      BY <1>1, <1>2, <1>6, <2>2 DEF PlaceInv, GroupsInv
    <2> QED
      BY <2>1, <2>2
  <1> QED
    BY <1>2, <1>7, <1>8, <1>9, <1>10 DEF GroupsInv

LEMMA OnlyLine ==
  ASSUME NEW s \in Seq(Nat), Len(s) = 1, NEW n \in Nat
  PROVE  <<n>> \o Tail(s) = <<n>>
  <1>1. PICK r : r = <<n>> \o Tail(s)
    OBVIOUS
  <1>2. r \in Seq(Nat) /\ Len(r) = 1 /\ r[1] = n
    BY <1>1
  <1>3. <<n>> \in Seq(Nat) /\ Len(<<n>>) = 1 /\ <<n>>[1] = n
    OBVIOUS
  <1>4. r = <<n>>
    BY <1>2, <1>3, SeqEqual
  <1> QED
    BY <1>1, <1>4

LEMMA BottomEnqueues ==
  ASSUME GroupsInv, NEW t \in Tids, At(t, TG(98)), mine' = mine,
         Goto(t, TG(110)), grp' = Enqueue(t), life' = life, prog' = prog
  PROVE  GroupsInv'
  <1>1. life[t] = "live" /\ Head(stack[t]) = TG(98) /\ StackOK(stack[t]) /\ stack[t] # <<>>
    BY DEF At, GroupsInv, ThreadsInv
  <1>2. /\ Len(stack[t]) = 1 /\ stack[t][1] = TG(98)
        /\ <<TG(110)>> \o Tail(stack[t]) = <<TG(110)>>
    <2>1. stack[t] \in Seq(Nat) /\ stack[t][1] = TG(98)
      BY <1>1 DEF StackOK
    <2>2. Len(stack[t]) = 1
      BY <1>1, <2>1 DEF StackOK
    <2>3. TG(110) \in Nat
      BY DEF TG
    <2> QED
      BY <2>1, <2>2, <2>3, OnlyLine
  <1>3. grp.mem[t] = "element"
    BY <1>1, <1>2 DEF GroupsInv, PlaceInv
  <1>4. /\ \A u \in Tids : u # t => stack'[u] = stack[u]
        /\ stack'[t] = <<TG(110)>> /\ DOMAIN stack' = Tids
    BY <1>2 DEF Goto, GroupsInv, ThreadsInv
  <1>5. PICK Q : Linked(grp, Q) /\ \A i \in 1 .. Len(Q) : Zombie(Q[i])
    BY DEF GroupsInv, QueueInv
  <1>6. ~Zombie(t)
    BY <1>1, ElsewhereNoZombie, Different
  <1>7. \A i \in 1 .. Len(Q) : Q[i] # t
    BY <1>5, <1>6
  <1>8. /\ Linked(grp', Append(Q, t)) /\ grp'.mem = grp.mem /\ GroupType'
    BY <1>5, <1>7, Enqueued DEF GroupsInv, GroupType
  <1>9. \A u \in Tids : Zombie(u) => Zombie(u)'
    BY <1>4, <1>6, <1>8 DEF Zombie
  <1>10. Zombie(t)'
    BY <1>1, <1>3, <1>4, <1>8 DEF Zombie
  <1>11. QueueInv'
    <2>1. PICK R : R = Append(Q, t)
      OBVIOUS
    <2>2. ASSUME NEW i \in 1 .. Len(R) PROVE Zombie(R[i])'
      <3>1. Q \in Seq(Tids)
        BY <1>5 DEF Linked
      <3>2. (i \in 1 .. Len(Q) /\ R[i] = Q[i] /\ Q[i] \in Tids) \/ R[i] = t
        BY <2>1, <3>1
      <3> QED
        BY <1>5, <1>9, <1>10, <3>2
    <2> QED
      BY <1>8, <2>1, <2>2 DEF QueueInv
  <1>12. ThreadsInv'
    <2>1. <<TG(110)>> # <<>> /\ StackOK(<<TG(110)>>)
      BY DEF StackOK, TG
    <2> QED
      BY <1>4, <2>1 DEF GroupsInv, ThreadsInv
  <1>13. MemInv'
    BY <1>8 DEF GroupsInv, MemInv
  <1>14. ASSUME NEW u \in Tids PROVE PlaceInv(u)'
    <2>1. CASE u = t
      <3>1. Head(<<TG(110)>>) = TG(110)
        OBVIOUS
      <3>2. TG(110) # TG(81) /\ TG(110) # TG(194)
        BY Different
      <3> QED
        BY <1>3, <1>4, <1>8, <2>1, <3>1, <3>2 DEF PlaceInv
    <2>2. CASE u # t
      BY <1>4, <1>8, <2>2 DEF PlaceInv, GroupsInv
    <2> QED
      BY <2>1, <2>2
  <1> QED
    BY <1>8, <1>11, <1>12, <1>13, <1>14 DEF GroupsInv

LEMMA BottomExits ==
  ASSUME GroupsInv, NEW t \in Tids, At(t, TG(110)), mine' = mine, NEW v, thr_exit(t, v)
  PROVE  GroupsInv'
  <1>1. /\ life' = [life EXCEPT ![t] = "exited"] /\ grp' = grp /\ prog' = prog
        /\ stack' = [stack EXCEPT ![t] = <<>>] /\ life[t] = "live"
    BY DEF thr_exit, At
  <1>2. /\ \A u \in Tids : u # t => stack'[u] = stack[u] /\ life'[u] = life[u]
        /\ life'[t] = "exited" /\ DOMAIN stack' = Tids /\ DOMAIN life' = Tids
    BY <1>1 DEF GroupsInv, ThreadsInv
  <1>3. ThreadsInv'
    <2>1. \A u \in Tids : life'[u] # "free" <=> life[u] # "free"
      BY <1>1, <1>2
    <2> QED
      BY <1>2, <2>1 DEF GroupsInv, ThreadsInv
  <1>4. MemInv' /\ GroupType'
    BY <1>1, <1>2 DEF GroupsInv, MemInv, GroupType, GroupRecords
  <1>5. QueueInv'
    <2>1. \A u \in Tids : Zombie(u) => Zombie(u)'
      BY <1>1, <1>2 DEF Zombie
    <2> QED
      BY <1>1, <2>1, QueueStays DEF GroupsInv
  <1>6. \A u \in Tids : PlaceInv(u)'
    BY <1>1, <1>2 DEF PlaceInv, GroupsInv
  <1> QED
    BY <1>3, <1>4, <1>5, <1>6 DEF GroupsInv

LEMMA JoinDequeues ==
  ASSUME GroupsInv, NEW t \in Tids, NEW a \in {TG(170), TG(172)}, At(t, a),
         grp.out # NULL, Local(t, [z |-> grp.out]), grp' = Dequeue,
         Goto(t, TG(194)), life' = life, prog' = prog
  PROVE  GroupsInv'
  <1>1. /\ life[t] = "live" /\ Head(stack[t]) = a /\ StackOK(stack[t]) /\ stack[t] # <<>>
        /\ GroupType /\ ThreadsInv
    BY DEF At, GroupsInv, ThreadsInv
  <1>2. PICK Q : Linked(grp, Q) /\ \A i \in 1 .. Len(Q) : Zombie(Q[i])
    BY DEF GroupsInv, QueueInv
  <1>3. PICK w : w = grp.out
    OBVIOUS
  <1>4. /\ Q # <<>> /\ w = Q[1] /\ Linked(grp', Tail(Q))
        /\ grp'.mem = [grp.mem EXCEPT ![w] = "freed"] /\ GroupType'
    BY <1>1, <1>2, <1>3, Dequeued DEF GroupType
  <1>5. /\ Q \in Seq(Tids) /\ 1 \in 1 .. Len(Q) /\ w \in Tids /\ Zombie(w)
        /\ \A i, j \in 1 .. Len(Q) : Q[i] = Q[j] => i = j
    <2>1. Q \in Seq(Tids) /\ \A i, j \in 1 .. Len(Q) : Q[i] = Q[j] => i = j
      BY <1>2, Zenon DEF Linked
    <2>2. 1 \in 1 .. Len(Q) /\ w \in Tids
      BY <1>4, <2>1
    <2> QED
      BY <1>2, <1>4, <2>1, <2>2
  <1>6. ~Zombie(t) /\ t # w
    BY <1>1, <1>5, ElsewhereNoZombie, Different
  <1>7. /\ DOMAIN grp'.mem = Tids /\ grp'.mem[w] = "freed"
        /\ \A u \in Tids : u # w => grp'.mem[u] = grp.mem[u]
    BY <1>1, <1>4, <1>5 DEF GroupType, GroupRecords
  <1>8. PICK r : r = <<TG(194)>> \o Tail(stack[t])
    OBVIOUS
  <1>9. /\ r # <<>> /\ StackOK(r) /\ Head(r) = TG(194)
        /\ r[Len(r)] = TG(98) => stack[t][Len(stack[t])] = TG(98)
    <2>1. TG(194) \in Nat /\ TG(194) # TG(98)
      BY Different
    <2> QED
      BY <1>1, <1>8, <2>1, GroupLine
  <1>10. /\ \A u \in Tids : u # t => stack'[u] = stack[u]
         /\ stack'[t] = r /\ DOMAIN stack' = Tids
    BY <1>1, <1>8 DEF Goto, ThreadsInv
  <1>11. /\ \A u \in Tids : u # t => mine'[u] = mine[u]
         /\ mine'[t].z = w /\ DOMAIN mine' = Tids
         /\ DOMAIN mine'[t] = DOMAIN mine[t]
    BY <1>1, <1>3 DEF Local, Assign, ThreadsInv, Locals0
  <1>12. ThreadsInv'
    BY <1>1, <1>9, <1>10, <1>11 DEF ThreadsInv
  <1>13. MemInv'
    BY <1>5, <1>7 DEF GroupsInv, MemInv, Zombie
  <1>14. QueueInv'
    <2>1. PICK R : R = Tail(Q)
      OBVIOUS
    <2>2. ASSUME NEW i \in 1 .. Len(R) PROVE Zombie(R[i])'
      <3>1. R[i] = Q[i + 1] /\ i + 1 \in 1 .. Len(Q) /\ i + 1 # 1
        BY <1>4, <1>5, <2>1
      <3>2. PICK u \in Tids : u = Q[i + 1] /\ u # w /\ Zombie(u)
        BY <1>2, <1>4, <1>5, <3>1
      <3>3. Zombie(u)'
        BY <1>6, <1>7, <1>10, <3>2 DEF Zombie
      <3> QED
        BY <3>1, <3>2, <3>3
    <2> QED
      BY <1>4, <2>1, <2>2 DEF QueueInv
  <1>15. ASSUME NEW u \in Tids PROVE PlaceInv(u)'
    <2>1. CASE u = t
      <3>1. r[Len(r)] = TG(98) => grp'.mem[t] = "element"
        BY <1>1, <1>6, <1>7, <1>9 DEF GroupsInv, PlaceInv
      <3>2. TG(194) # TG(81)
        BY Different
      <3> QED
        BY <1>5, <1>7, <1>9, <1>10, <1>11, <2>1, <3>1, <3>2 DEF PlaceInv
    <2>2. CASE u # t
      <3>1. PlaceInv(u)
        BY DEF GroupsInv
      <3>2. u = w => life[u] # "live" \/ stack[u] = <<TG(110)>>
        BY <1>5 DEF Zombie
      <3>3. /\ Head(<<TG(110)>>) = TG(110) /\ <<TG(110)>>[Len(<<TG(110)>>)] = TG(110)
            /\ TG(110) # TG(98) /\ TG(110) # TG(81) /\ TG(110) # TG(194)
        BY Different
      <3>4. CASE u = w
        BY <1>10, <2>2, <3>2, <3>3, <3>4 DEF PlaceInv
      <3>5. CASE u # w
        BY <1>7, <1>10, <1>11, <2>2, <3>1, <3>5 DEF PlaceInv
      <3> QED
        BY <3>4, <3>5
    <2> QED
      BY <2>1, <2>2
  <1> QED
    BY <1>4, <1>12, <1>13, <1>14, <1>15 DEF GroupsInv

LEMMA JoinReaps ==
  ASSUME GroupsInv, NEW t \in Tids, At(t, TG(194)), thr_join(t, mine[t].z, TG(195))
  PROVE  GroupsInv'
  <1>1. PICK w : w = mine[t].z
    OBVIOUS
  <1>2. /\ life[t] = "live" /\ Head(stack[t]) = TG(194) /\ StackOK(stack[t])
        /\ stack[t] # <<>> /\ PlaceInv(t) /\ w \in Tids /\ grp.mem[w] = "freed"
    BY <1>1 DEF At, GroupsInv, ThreadsInv, PlaceInv
  <1>3. ~Zombie(t) /\ ~Zombie(w)
    BY <1>2, ElsewhereNoZombie, Different DEF Zombie
  <1>4. thr_join(t, w, TG(195))
    BY <1>1
  <1>5. CASE task_vanish(t) /\ UNCHANGED mine
    BY <1>5, TaskEnds, EndsAllKeeps DEF GroupsInv, ThreadsInv
  <1>6. CASE ~(task_vanish(t) /\ UNCHANGED mine)
    <2>1. /\ life[w] = "exited" /\ life' = [life EXCEPT ![w] = "reaped"]
          /\ mine' = [mine EXCEPT ![t].r = 0, ![t].s = status[w]]
          /\ Goto(t, TG(195)) /\ prog' = prog /\ grp' = grp
      BY <1>4, <1>6 DEF thr_join
    <2>2. OwnLocals(t)
      BY <2>1 DEF OwnLocals, GroupsInv, ThreadsInv
    <2>3. PICK r : r = <<TG(195)>> \o Tail(stack[t])
      OBVIOUS
    <2>4. stack' = [stack EXCEPT ![t] = r]
      BY <2>1, <2>3 DEF Goto
    <2>5. Settled(t, r)
      <3>1. TG(195) \in Nat /\ TG(195) # TG(98) /\ TG(195) # TG(81) /\ TG(195) # TG(194)
        BY Different
      <3>2. /\ r # <<>> /\ StackOK(r) /\ Head(r) = TG(195)
            /\ r[Len(r)] = TG(98) => stack[t][Len(stack[t])] = TG(98)
        BY <1>2, <2>3, <3>1, GroupLine
      <3> QED
        BY <1>2, <3>1, <3>2 DEF Settled, PlaceInv
    <2> QED
      BY <1>2, <1>3, <2>1, <2>2, <2>4, <2>5, ReapKeeps
  <1> QED
    BY <1>5, <1>6

LEMMA LibraryKeeps ==
  ASSUME GroupsInv, NEW t \in Tids, Library(t)
  PROVE  GroupsInv' /\ prog' = prog
  <1>1. CASE wake_up(t)
    BY <1>1, LibraryStays DEF wake_up, Quiet
  <1>2. ASSUME ~wake_up(t) PROVE life[t] = "live"
    BY <1>2, Zenon DEF Library, thrgrp_bottom, thrgrp_join, thrgrp_destroy_group, At
  <1>3. CASE life[t] = "live"
    <2>1. Able(t)
      BY <1>3, LiveAble DEF GroupsInv
    <2>2. Assigns(t)
      BY <2>1, Calls DEF Vocabulary
    <2>3. CASE thrgrp_bottom(t)
      <3>1. CASE At(t, TG(81)) /\ grp' = [grp EXCEPT !.mem[t] = "element"]
        BY <2>3, <3>1, BottomStarts, Different DEF thrgrp_bottom, QuietThreads, At
      <3>2. CASE At(t, TG(98)) /\ grp' = Enqueue(t)
        BY <2>3, <3>2, BottomEnqueues, Different DEF thrgrp_bottom, QuietThreads, Keep, At
      <3>3. CASE At(t, TG(110)) /\ thr_exit(t, mine[t].s) /\ Keep
        BY <3>3, BottomExits DEF Keep, thr_exit
      <3> QED
        BY <2>3, <3>1, <3>2, <3>3 DEF thrgrp_bottom
    <2>4. CASE thrgrp_join(t)
      <3>1. CASE At(t, TG(170)) /\ lock_and_wait(t, "tg.cv", "tg.lock", TG(172)) /\ Keep
        BY <2>2, <3>1, LibraryMoves DEF lock_and_wait, Sleep, Quiet, Assigns
      <3>2. CASE At(t, TG(172)) /\ cond_wait(t, "tg.cv", "tg.lock", TG(172)) /\ Keep
        BY <2>2, <3>2, LibraryMoves DEF cond_wait, Sleep, Quiet, Assigns
      <3>3. CASE /\ At(t, TG(170)) \/ At(t, TG(172))
                 /\ grp.out # NULL /\ Local(t, [z |-> grp.out]) /\ grp' = Dequeue
                 /\ Goto(t, TG(194)) /\ QuietThreads
        BY <3>3, JoinDequeues DEF QuietThreads
      <3>4. CASE At(t, TG(194)) /\ thr_join(t, mine[t].z, TG(195)) /\ UNCHANGED data
        BY <3>4, JoinReaps DEF thr_join, task_vanish
      <3>5. CASE At(t, TG(195)) /\ Return(t) /\ Local(t, [z |-> NULL])
        BY <2>2, <3>5, LibraryReturns DEF Assigns, Return, Quiet
      <3> QED
        BY <2>4, <3>1, <3>2, <3>3, <3>4, <3>5, Zenon DEF thrgrp_join
    <2>5. CASE thrgrp_destroy_group(t)
      <3>1. PICK l : \/ At(t, TG(61)) /\ Step(t, TG(70)) /\ Local(t, l)
                     \/ At(t, TG(70)) /\ (Return(t) \/ task_vanish(t)) /\ Keep
        BY <2>5, Zenon DEF thrgrp_destroy_group
      <3>2. CASE At(t, TG(61)) /\ Step(t, TG(70)) /\ Local(t, l)
        BY <2>2, <3>2, LibraryMoves DEF Step, Quiet, Assigns
      <3>3. CASE At(t, TG(70)) /\ Return(t) /\ Keep
        BY <2>2, <3>3, LibraryReturns DEF Assigns, Return, Quiet
      <3>4. CASE task_vanish(t) /\ Keep
        BY <3>4, TaskEnds, EndsAllKeeps DEF GroupsInv, ThreadsInv, Keep
      <3> QED
        BY <3>1, <3>2, <3>3, <3>4
    <2> QED
      BY <1>1, <2>3, <2>4, <2>5 DEF Library
  <1> QED
    BY <1>1, <1>2, <1>3

-----------------------------------------------------------------------------
(* The threads that cvar_test joins itself stay outside its group. *)

\* A thread that is in no group when it runs never is in one.
Outside(u) == u \in Tids /\ grp.mem[u] = "none" /\ life[u] # "free"

LEMMA OutsideLibrary ==
  ASSUME GroupsInv, NEW t \in Tids, Library(t), NEW u, Outside(u)
  PROVE  Outside(u)'
  <1>1. u \in Tids /\ grp.mem[u] = "none" /\ life[u] # "free" /\ t \in Tids
        /\ DOMAIN life = Tids /\ GroupType
    BY DEF Outside, GroupsInv, ThreadsInv
  <1>2. life'[u] # "free"
    <2>1. \/ life' = life
          \/ life' = [life EXCEPT ![t] = "exited"]
          \/ \E w \in Tids : life' = [life EXCEPT ![w] = "reaped"]
          \/ life' = [w \in Tids |-> IF life[w] = "live" THEN "gone" ELSE life[w]]
      BY DEF Library, wake_up, thrgrp_bottom, thrgrp_join, thrgrp_destroy_group, Quiet,
         QuietThreads, lock_and_wait, cond_wait, Sleep, Step, Return, thr_exit, thr_join,
         task_vanish
    <2> QED
      BY <1>1, <2>1
  <1>3. grp'.mem[u] = "none"
    <2>1. \/ grp' = grp
          \/ At(t, TG(81)) /\ grp' = [grp EXCEPT !.mem[t] = "element"]
          \/ grp' = Enqueue(t)
          \/ grp.out # NULL /\ grp' = Dequeue
      BY DEF Library, wake_up, thrgrp_bottom, thrgrp_join, thrgrp_destroy_group, Quiet,
         QuietThreads, lock_and_wait, cond_wait, Sleep, Step, Return, thr_exit, thr_join,
         task_vanish
    <2>2. CASE grp' = grp
      BY <1>1, <2>2
    <2>3. CASE At(t, TG(81)) /\ grp' = [grp EXCEPT !.mem[t] = "element"]
      <3>1. grp.mem[t] = "args"
        BY <2>3 DEF At, GroupsInv, PlaceInv
      <3> QED
        BY <1>1, <2>3, <3>1 DEF GroupType, GroupRecords
    <2>4. CASE grp' = Enqueue(t)
      BY <1>1, <2>4 DEF Enqueue, GroupType, GroupRecords
    <2>5. CASE grp.out # NULL /\ grp' = Dequeue
      <3>1. PICK Q : Linked(grp, Q) /\ \A i \in 1 .. Len(Q) : Zombie(Q[i])
        BY DEF GroupsInv, QueueInv
      <3>2. /\ Q # <<>> /\ grp.out = Q[1]
            /\ grp'.mem = [grp.mem EXCEPT ![grp.out] = "freed"]
        BY <1>1, <2>5, <3>1, Dequeued
      <3>3. Q \in Seq(Tids)
        BY <3>1 DEF Linked
      <3>4. 1 \in 1 .. Len(Q)
        BY <3>2, <3>3
      <3>5. grp.mem[grp.out] = "element"
        BY <3>1, <3>2, <3>4 DEF Zombie
      <3> QED
        BY <1>1, <3>2, <3>5 DEF GroupType, GroupRecords
    <2> QED
      BY <2>1, <2>2, <2>3, <2>4, <2>5
  <1> QED
    BY <1>1, <1>2, <1>3 DEF Outside

LEMMA OutsideProgram ==
  ASSUME GroupsInv, NEW t \in Tids, ProgramStep(t), NEW u, Outside(u)
  PROVE  Outside(u)'
  <1>1. /\ u \in Tids /\ grp.mem[u] = "none" /\ life[u] # "free"
        /\ DOMAIN life = Tids /\ GroupType
    BY DEF Outside, GroupsInv, ThreadsInv
  <1>2. CASE Makes(t)
    <2>1. PICK w \in Tids :
            /\ w = Newest + 1 /\ life' = [life EXCEPT ![w] = "live"]
            /\ \/ grp' = grp
               \/ \E f \in Lines : grp' = [grp EXCEPT !.mem[w] = "args", !.func[w] = f]
      BY <1>2 DEF Makes
    <2>2. life[w] = "free"
      <3>1. PICK n \in Tids : \A v \in Tids : life[v] # "free" <=> v <= n
        BY DEF GroupsInv, ThreadsInv
      <3>2. w = n + 1
        BY <2>1, <3>1, NewestIs
      <3>3. ~(w <= n)
        BY <3>2 DEF Tids
      <3> QED
        BY <3>1, <3>3
    <2>3. u # w
      BY <1>1, <2>2
    <2>4. life'[u] = life[u]
      BY <1>1, <2>1, <2>3
    <2>5. grp'.mem[u] = grp.mem[u]
      <3>1. CASE grp' = grp
        BY <3>1
      <3>2. ASSUME NEW f \in Lines, grp' = [grp EXCEPT !.mem[w] = "args", !.func[w] = f]
            PROVE  grp'.mem[u] = grp.mem[u]
        BY <1>1, <2>3, <3>2 DEF GroupType, GroupRecords
      <3> QED
        BY <2>1, <3>1, <3>2
    <2> QED
      BY <1>1, <2>4, <2>5 DEF Outside
  <1>3. CASE Goes(t) \/ Ends(t) \/ EndsAll \/ Joins(t)
    BY <1>1, <1>3 DEF Goes, Ends, EndsAll, Joins, Outside
  <1> QED
    BY <1>2, <1>3 DEF ProgramStep, Does

\* The local variable j, where main() keeps the instigator's number.
SameJ == \A u \in Tids : mine'[u].j = mine[u].j

LEMMA JStays ==
  ASSUME GroupsInv, NEW t \in Tids
  PROVE  /\ mine' = mine => SameJ
         /\ Keep => SameJ
         /\ \A g : Store(g) => SameJ
         /\ \A v : Local(t, [i |-> v]) => SameJ
         /\ \A v : Local(t, [r |-> v]) => SameJ
         /\ \A v : Local(t, [s |-> v]) => SameJ
         /\ \A v : Local(t, [z |-> v]) => SameJ
         /\ \A w, n : thr_join(t, w, n) => SameJ
         /\ \A f, a, n : NewThread(t, "r", f, a, n) => SameJ
  <1>1. DOMAIN mine = Tids /\ \A u \in Tids : DOMAIN mine[u] = {"arg", "i", "j", "r", "s", "z"}
    BY DEF GroupsInv, ThreadsInv, Locals0
  <1>2. mine' = mine => SameJ
    BY DEF SameJ
  <1>3. (Keep => SameJ) /\ \A g : Store(g) => SameJ
    BY DEF SameJ, Keep, Store
  <1>4. /\ \A v : Local(t, [i |-> v]) => SameJ
        /\ \A v : Local(t, [r |-> v]) => SameJ
        /\ \A v : Local(t, [s |-> v]) => SameJ
        /\ \A v : Local(t, [z |-> v]) => SameJ
    BY <1>1 DEF SameJ, Local, Assign
  <1>5. \A w, n : thr_join(t, w, n) => SameJ
    BY <1>1 DEF SameJ, thr_join
  <1>6. \A f, a, n : NewThread(t, "r", f, a, n) => SameJ
    BY <1>1 DEF SameJ, NewThread
  <1> QED
    BY <1>2, <1>3, <1>4, <1>5, <1>6

LEMMA LibrarySameJ ==
  ASSUME GroupsInv, NEW t \in Tids, Library(t)
  PROVE  SameJ
  BY JStays, Zenon
  DEF Library, wake_up, thrgrp_bottom, thrgrp_join, thrgrp_destroy_group

\* Thread t of cvar_test takes a step.
CvarStep(t) == cvar_sleeper(t) \/ maniac(t) \/ instigator(t) \/ cvar_main(t)

LEMMA CvarJ ==
  ASSUME GroupsInv, NEW t \in Tids, CvarStep(t)
  PROVE  \/ SameJ
         \/ /\ \A u \in Tids : u # t => mine'[u].j = mine[u].j
            /\ \E w : mine'[t].j = w /\ Outside(w)'
  <1>1. CASE cvar_main(t) /\ thr_create(t, "j", 111, 0, 163)
    <2>1. PICK w \in Tids : w = Newest + 1 /\ life' = [life EXCEPT ![w] = "live"]
                            /\ mine' = [mine EXCEPT ![t].j = w, ![w].arg = 0]
                            /\ grp' = grp
      BY <1>1 DEF thr_create, NewThread
    <2>2. PICK n \in Tids : \A v \in Tids : life[v] # "free" <=> v <= n
      BY DEF GroupsInv, ThreadsInv
    <2>3. w = n + 1
      BY <2>1, <2>2, NewestIs
    <2>4. ~(w <= n)
      BY <2>3 DEF Tids
    <2>5. life[w] = "free" /\ grp.mem[w] = "none"
      BY <2>2, <2>4 DEF GroupsInv, MemInv
    <2>6. /\ mine'[t].j = w
          /\ \A u \in Tids : u # t => mine'[u].j = mine[u].j
      BY <2>1 DEF GroupsInv, ThreadsInv, Locals0
    <2>7. life'[w] = "live" /\ grp'.mem[w] = "none"
      BY <2>1, <2>5 DEF GroupsInv, ThreadsInv
    <2>8. Outside(w)'
      BY <2>7 DEF Outside
    <2> QED
      BY <2>6, <2>8
  <1>2. CASE ~(cvar_main(t) /\ thr_create(t, "j", 111, 0, 163))
    <2>1. cvar_main(t) => SameJ
      BY <1>2, JStays, Zenon DEF cvar_main, thr_create, thrgrp_create
    <2>2. cvar_sleeper(t) => SameJ
      BY JStays, Zenon DEF cvar_sleeper
    <2>3. maniac(t) => SameJ
      BY JStays, Zenon DEF maniac, Leave
    <2>4. instigator(t) => SameJ
      BY JStays, Zenon DEF instigator
    <2> QED
      BY <2>1, <2>2, <2>3, <2>4 DEF CvarStep
  <1> QED
    BY <1>1, <1>2

\* Before the sleeper exists, the only thing to do is to create it.
LEMMA CvarFirst ==
  ASSUME GroupsInv, NEW t \in Tids, CvarStep(t), 2 \in Tids, life[2] = "free",
         \A u \in Tids : life[u] = "live" => stack[u] = << 140 >>
  PROVE  life'[2] = "live" /\ grp' = grp
  <1>1. ASSUME NEW line, At(t, line) PROVE line = 140
    BY <1>1 DEF At
  <1>2. thr_create(t, "r", 64, 0, 147)
    <2>1. ~cvar_sleeper(t)
      BY <1>1 DEF cvar_sleeper
    <2>2. ~maniac(t)
      BY <1>1 DEF maniac
    <2>3. ~instigator(t)
      BY <1>1 DEF instigator
    <2>4. cvar_main(t) => thr_create(t, "r", 64, 0, 147)
      BY <1>1 DEF cvar_main
    <2> QED
      BY <2>1, <2>2, <2>3, <2>4 DEF CvarStep
  <1>3. PICK n \in Tids : \A v \in Tids : life[v] # "free" <=> v <= n
    BY DEF GroupsInv, ThreadsInv
  <1>4. n + 1 = 2
    BY <1>3 DEF Tids
  <1>5. Newest + 1 = 2
    BY <1>3, <1>4, NewestIs
  <1>6. life' = [life EXCEPT ![2] = "live"] /\ grp' = grp
    BY <1>2, <1>5 DEF thr_create, NewThread
  <1> QED
    BY <1>6 DEF GroupsInv, ThreadsInv

LEMMA CvarKeeps ==
  ASSUME GroupsInv, CvarInv, NEW t \in Tids, ThreadStep(t)
  PROVE  CvarInv'
  <1>1. Library(t) \/ (~Library(t) /\ ProgramStep(t))
    BY ProgramSteps DEF GroupsInv
  <1>2. prog' = prog
    BY <1>1, LibraryKeeps DEF ProgramStep, Does
  <1> SUFFICES ASSUME prog = "cvar_test" PROVE CvarInv'
    BY <1>2 DEF CvarInv
  <1>3. Library(t) \/ CvarStep(t)
    BY Zenon DEF ThreadStep, CvarStep
  <1>4. \A u : Outside(u) => Outside(u)'
    BY <1>1, OutsideLibrary, OutsideProgram
  <1>5. /\ 2 \in Tids =>
             /\ grp.mem[2] = "none"
             /\ life[2] = "free" => \A u \in Tids : life[u] = "live" => stack[u] = << 140 >>
        /\ \A u \in Tids : mine[u].j \in Tids => Outside(mine[u].j)
    BY DEF CvarInv, Outside
  <1>6. ASSUME 2 \in Tids
        PROVE  /\ grp'.mem[2] = "none"
               /\ life'[2] = "free" =>
                    \A u \in Tids : life'[u] = "live" => stack'[u] = << 140 >>
    <2>1. CASE life[2] # "free"
      <3>1. Outside(2)
        BY <1>5, <1>6, <2>1 DEF Outside
      <3>2. Outside(2)'
        BY <1>4, <3>1
      <3> QED
        BY <3>2 DEF Outside
    <2>2. CASE life[2] = "free"
      <3>1. CASE wake_up(t)
        BY <1>5, <1>6, <2>2, <3>1 DEF wake_up, Quiet
      <3>2. CASE Library(t) /\ ~wake_up(t)
        <4>0. \/ At(t, TG(61)) \/ At(t, TG(70)) \/ At(t, TG(81)) \/ At(t, TG(98))
              \/ At(t, TG(110)) \/ At(t, TG(170)) \/ At(t, TG(172))
              \/ At(t, TG(194)) \/ At(t, TG(195))
          BY <3>2, Zenon
          DEF Library, thrgrp_bottom, thrgrp_join, thrgrp_destroy_group
        <4>1. PICK n \in Int : n > 1000 /\ At(t, n)
          BY <4>0 DEF TG
        <4>2. n # 140
          BY <4>1
        <4>3. stack[t] = << 140 >> /\ Head(stack[t]) = n
          BY <1>5, <1>6, <2>2, <4>1 DEF At
        <4> QED
          BY <4>2, <4>3
      <3>3. CASE CvarStep(t)
        <4>1. life'[2] = "live" /\ grp' = grp
          BY <1>5, <1>6, <2>2, <3>3, CvarFirst
        <4> QED
          BY <1>5, <1>6, <4>1
      <3> QED
        BY <1>3, <3>1, <3>2, <3>3
    <2> QED
      BY <2>1, <2>2
  <1>7. ASSUME NEW u \in Tids, NEW w \in Tids, mine'[u].j = w PROVE Outside(w)'
    <2>1. CASE mine'[u].j = mine[u].j
      BY <1>4, <1>5, <1>7, <2>1
    <2>2. CASE mine'[u].j # mine[u].j
      <3>1. ~SameJ
        BY <2>2 DEF SameJ
      <3>2. CvarStep(t)
        BY <1>3, <3>1, LibrarySameJ
      <3> QED
        BY <1>7, <2>2, <3>1, <3>2, CvarJ
    <2> QED
      BY <2>1, <2>2
  <1> QED
    BY <1>6, <1>7 DEF CvarInv, Outside

-----------------------------------------------------------------------------
(***************************************************************************)
(* The invariants of all programs.                                         *)
(***************************************************************************)

LEMMA Beginning ==
  ASSUME NEW p, NEW line \in Lines, NEW globals, NEW counts,
         Begin(p, line, globals, counts), p = "cvar_test" => line = 140
  PROVE  GroupsInv /\ CvarInv
  <1>0. Main \in Tids /\ NULL \notin Tids /\ 0 \in Lines /\ line \in Nat
    BY MaxThreadsAssumption DEF Tids, Main, NULL, Lines
  <1>1. /\ DOMAIN stack = Tids /\ DOMAIN mine = Tids /\ DOMAIN life = Tids
        /\ \A t \in Tids : stack[t] = IF t = Main THEN <<line>> ELSE <<>>
        /\ \A t \in Tids : mine[t] = Locals0
        /\ \A t \in Tids : life[t] = IF t = Main THEN "live" ELSE "free"
        /\ prog = p
    BY DEF Begin
  <1>2. /\ grp.in = NULL /\ grp.out = NULL
        /\ grp.mem = [t \in Tids |-> "none"]
    BY DEF Begin
  <1>3. GroupType
    BY <1>0 DEF Begin, GroupType, GroupRecords
  <1>4. <<line>> # <<>> /\ StackOK(<<line>>) /\ Head(<<line>>) = line
    BY <1>0 DEF StackOK
  <1>5. ThreadsInv
    <2>1. \A t \in Tids : life[t] # "free" <=> t <= Main
      BY <1>1 DEF Tids, Main
    <2>2. ASSUME NEW t \in Tids PROVE life[t] = "live" <=> t = Main
      BY <1>0, <1>1
    <2>3. /\ stack[Main] # <<>> /\ StackOK(stack[Main])
      BY <1>0, <1>1, <1>4
    <2> QED
      BY <1>0, <1>1, <2>1, <2>2, <2>3 DEF ThreadsInv
  <1>6. MemInv
    BY <1>2 DEF MemInv
  <1>7. QueueInv
    <2>1. Linked(grp, <<>>)
      BY <1>2 DEF Linked
    <2> QED
      BY <2>1 DEF QueueInv
  <1>8. \A t \in Tids : PlaceInv(t)
    <2>1. line # TG(81) /\ line # TG(98) /\ line # TG(194)
      BY DEF Lines, TG
    <2>2. <<line>>[Len(<<line>>)] = line
      OBVIOUS
    <2> QED
      BY <1>1, <1>4, <2>1, <2>2 DEF PlaceInv
  <1>9. CvarInv
    <2>1. \A t \in Tids : mine[t].j \notin Tids
      BY <1>0, <1>1 DEF Locals0, NULL
    <2> QED
      BY <1>1, <1>2, <2>1 DEF CvarInv
  <1> QED
    BY <1>3, <1>5, <1>6, <1>7, <1>8, <1>9 DEF GroupsInv

\* The program that runs is at its first line.
Begun ==
  \E p, line, globals, counts :
    /\ Begin(p, line, globals, counts)
    /\ line \in Lines /\ (p = "cvar_test" => line = 140)

LEMMA BegunThere ==
  ASSUME NEW globals, NEW counts
  PROVE
    /\ Begin("juggle", 199, globals, counts) => Begun
    /\ Begin("agility_drill", 163, globals, counts) => Begun
    /\ Begin("agility_drill_sem", 164, globals, counts) => Begun
    /\ Begin("racer", 193, globals, counts) => Begun
    /\ Begin("mutex_test", 57, globals, counts) => Begun
    /\ Begin("paradise_lost", 68, globals, counts) => Begun
    /\ Begin("semaphore_test", 103, globals, counts) => Begun
    /\ Begin("cyclone", 56, globals, counts) => Begun
    /\ Begin("startle", 44, globals, counts) => Begun
    /\ Begin("join_specific_test", 64, globals, counts) => Begun
    /\ Begin("thr_exit_join", 23, globals, counts) => Begun
    /\ Begin("thr_join_exit", 29, globals, counts) => Begun
    /\ Begin("largetest", 196, globals, counts) => Begun
    /\ Begin("largetest2", 218, globals, counts) => Begun
    /\ Begin("paraguay", 86, globals, counts) => Begun
    /\ Begin("broadcast_test", 55, globals, counts) => Begun
    /\ Begin("cvar_test", 140, globals, counts) => Begun
    /\ Begin("beady_test", 346, globals, counts) => Begun
    /\ Begin("mandelbrot", 491, globals, counts) => Begun
    /\ Begin("nibbles", 412, globals, counts) => Begun
  <1> DEFINE Good(p, line) == line \in Lines /\ (p = "cvar_test" => line = 140)
  <1>0. ASSUME NEW p, NEW line, Good(p, line), Begin(p, line, globals, counts)
        PROVE  Begun
    BY <1>0 DEF Begun
  <1>1. Good("juggle", 199)
    BY DEF Lines
  <1>2. Good("agility_drill", 163)
    BY DEF Lines
  <1>3. Good("agility_drill_sem", 164)
    BY DEF Lines
  <1>4. Good("racer", 193)
    BY DEF Lines
  <1>5. Good("mutex_test", 57)
    BY DEF Lines
  <1>6. Good("paradise_lost", 68)
    BY DEF Lines
  <1>7. Good("semaphore_test", 103)
    BY DEF Lines
  <1>8. Good("cyclone", 56)
    BY DEF Lines
  <1>9. Good("startle", 44)
    BY DEF Lines
  <1>10. Good("join_specific_test", 64)
    BY DEF Lines
  <1>11. Good("thr_exit_join", 23)
    BY DEF Lines
  <1>12. Good("thr_join_exit", 29)
    BY DEF Lines
  <1>13. Good("largetest", 196)
    BY DEF Lines
  <1>14. Good("largetest2", 218)
    BY DEF Lines
  <1>15. Good("paraguay", 86)
    BY DEF Lines
  <1>16. Good("broadcast_test", 55)
    BY DEF Lines
  <1>17. Good("cvar_test", 140)
    BY DEF Lines
  <1>18. Good("beady_test", 346)
    BY DEF Lines
  <1>19. Good("mandelbrot", 491)
    BY DEF Lines
  <1>20. Good("nibbles", 412)
    BY DEF Lines
  <1> HIDE DEF Good
  <1> QED
    BY <1>0, <1>1, <1>2, <1>3, <1>4, <1>5, <1>6, <1>7, <1>8, <1>9, <1>10,
       <1>11, <1>12, <1>13, <1>14, <1>15, <1>16, <1>17, <1>18, <1>19, <1>20

LEMMA Starts ==
  ASSUME Init
  PROVE  GroupsInv /\ CvarInv
  <1>1. LockBegins => Begun
    BY BegunThere, ZenonT(60) DEF LockBegins
  <1>2. ThreadBegins => Begun
    BY BegunThere DEF ThreadBegins
  <1>3. CondBegins => Begun
    BY BegunThere DEF CondBegins
  <1>4. NibblesBegins => Begun
    BY BegunThere DEF NibblesBegins
  <1>5. Begun
    BY <1>1, <1>2, <1>3, <1>4 DEF Init
  <1> QED
    BY <1>5, Beginning DEF Begun

LEMMA StepKeeps ==
  ASSUME GroupsInv, CvarInv, [Next]_vars
  PROVE  GroupsInv' /\ CvarInv'
  <1>1. ASSUME NEW t \in Tids, ThreadStep(t) PROVE GroupsInv' /\ CvarInv'
    <2>1. CASE Library(t)
      BY <1>1, <2>1, LibraryKeeps, CvarKeeps
    <2>2. CASE ~Library(t)
      <3>1. ProgramStep(t)
        BY <1>1, <2>2, ProgramSteps DEF GroupsInv
      <3> QED
        BY <1>1, <3>1, ProgramKeeps, CvarKeeps
    <2> QED
      BY <2>1, <2>2
  <1>2. CASE UNCHANGED vars
    <2>1. UNCHANGED <<prog, stack, mine, life, grp>>
      BY <1>2 DEF vars
    <2> QED
      BY <2>1, LibraryStays DEF CvarInv
  <1> QED
    BY <1>1, <1>2 DEF Next

(* The inductive invariant holds in every program: threads are numbered in *)
(* the order of their creation, every running thread is at a place from    *)
(* which its program or the library goes on, the memory of a thread group  *)
(* is used only by the programs that have one, and the elements on the     *)
(* zombie queue are linked from zombie_out to zombie_in.                   *)
THEOREM GroupsSound == Spec => [](GroupsInv /\ CvarInv)
  <1>1. Init => GroupsInv /\ CvarInv
    BY Starts
  <1>2. GroupsInv /\ CvarInv /\ [Next]_vars => (GroupsInv /\ CvarInv)'
    BY StepKeeps
  <1> QED
    BY <1>1, <1>2, PTL DEF Spec

-----------------------------------------------------------------------------
(***************************************************************************)
(* The zombie queue, seen by walking along it.                             *)
(***************************************************************************)
\* h walks from first along next, up to last.
Walks(h, first, last, next) ==
  h = [n \in 0 .. MaxThreads |->
         IF n = 0 THEN first
         ELSE IF h[n - 1] \in {NULL, last} THEN h[n - 1] ELSE next[h[n - 1]]]

LEMMA WalkIsUnique ==
  ASSUME NEW first, NEW last, NEW next, NEW f, NEW h,
         Walks(f, first, last, next), Walks(h, first, last, next)
  PROVE  \A n \in 0 .. MaxThreads : f[n] = h[n]
  <1>1. /\ \A n \in 0 .. MaxThreads :
             f[n] = IF n = 0 THEN first
                    ELSE IF f[n - 1] \in {NULL, last} THEN f[n - 1] ELSE next[f[n - 1]]
        /\ \A n \in 0 .. MaxThreads :
             h[n] = IF n = 0 THEN first
                    ELSE IF h[n - 1] \in {NULL, last} THEN h[n - 1] ELSE next[h[n - 1]]
    BY Zenon DEF Walks
  <1>2. PICK Bad : Bad = {n \in 0 .. MaxThreads : f[n] # h[n]}
    OBVIOUS
  <1>3. ASSUME Bad # {} PROVE FALSE
    <2>1. Bad \in SUBSET Nat
      BY <1>2, MaxThreadsAssumption
    <2>2. PICK n \in Bad : \A k \in Bad : n <= k
      BY <1>3, <2>1, LeastOf, Zenon
    <2>3. n \in 0 .. MaxThreads /\ f[n] # h[n] /\ n \in Nat
      BY <1>2, <2>1, <2>2
    <2>4. CASE n = 0
      BY <1>1, <2>3, <2>4
    <2>5. CASE n # 0
      <3>1. n - 1 \in 0 .. MaxThreads /\ ~(n <= n - 1)
        BY <2>3, <2>5, MaxThreadsAssumption
      <3>2. f[n - 1] = h[n - 1]
        BY <1>2, <2>2, <3>1
      <3> QED
        BY <1>1, <2>3, <2>5, <3>2
    <2> QED
      BY <2>4, <2>5
  <1> QED
    BY <1>2, <1>3

\* On a queue of the threads Q the walk passes them in order, and stays at
\* the last.
PassesBy(Q) ==
  [n \in 0 .. MaxThreads |-> Q[IF n < Len(Q) THEN n + 1 ELSE Len(Q)]]

LEMMA QueueWalk ==
  ASSUME NEW g, NEW Q, Linked(g, Q), Q # <<>>
  PROVE  Walks(PassesBy(Q), g.out, g.in, g.next)
  <1> DEFINE h == PassesBy(Q)
             Seat(n) == IF n < Len(Q) THEN n + 1 ELSE Len(Q)
  <1>1. Len(Q) \in Nat /\ Len(Q) > 0 /\ Q \in Seq(Tids)
    BY DEF Linked
  <1>2. \A n \in Nat : Seat(n) \in 1 .. Len(Q)
    BY <1>1
  <1>3. \A i \in 1 .. Len(Q) : Q[i] \in Tids /\ Q[i] # NULL
    <2>1. NULL \notin Tids
      BY MaxThreadsAssumption DEF Tids, NULL
    <2> QED
      BY <1>1, <2>1
  <1>4. \A n \in 0 .. MaxThreads : h[n] = Q[Seat(n)] /\ n \in Nat
    BY MaxThreadsAssumption DEF PassesBy
  <1> HIDE DEF Seat
  <1>5. SUFFICES ASSUME NEW n \in 0 .. MaxThreads
                 PROVE  h[n] = IF n = 0 THEN g.out
                               ELSE IF h[n - 1] \in {NULL, g.in} THEN h[n - 1]
                                    ELSE g.next[h[n - 1]]
    BY Zenon DEF Walks, PassesBy
  <1> HIDE DEF h
  <1>6. CASE n = 0
    <2>1. Seat(n) = 1
      BY <1>1, <1>6 DEF Seat
    <2> QED
      BY <1>4, <1>6, <2>1 DEF Linked
  <1>7. CASE n # 0
    <2>1. n - 1 \in 0 .. MaxThreads /\ n \in Nat /\ n - 1 \in Nat
      BY <1>7, MaxThreadsAssumption
    <2>2. h[n - 1] = Q[Seat(n - 1)] /\ h[n] = Q[Seat(n)]
      BY <1>4, <2>1
    <2>3. CASE n < Len(Q)
      <3>1. Seat(n - 1) = n /\ Seat(n) = n + 1 /\ n \in 1 .. Len(Q) - 1
            /\ n \in 1 .. Len(Q) /\ Len(Q) \in 1 .. Len(Q) /\ n # Len(Q)
        BY <1>1, <1>7, <2>1, <2>3 DEF Seat
      <3>2. h[n - 1] = Q[n] /\ h[n] = Q[n + 1] /\ g.next[Q[n]] = Q[n + 1]
        BY <2>2, <3>1 DEF Linked
      <3>3. Q[n] # NULL /\ Q[n] # g.in
        BY <1>3, <3>1 DEF Linked
      <3> QED
        BY <1>7, <3>2, <3>3
    <2>4. CASE n >= Len(Q)
      <3>1. Seat(n - 1) = Len(Q) /\ Seat(n) = Len(Q)
        BY <1>1, <2>1, <2>4 DEF Seat
      <3> QED
        BY <1>7, <2>2, <3>1 DEF Linked
    <2> QED
      BY <1>1, <2>1, <2>3, <2>4
  <1> QED
    BY <1>6, <1>7

\* The queue is no longer than there are threads.
LEMMA QueueLength ==
  ASSUME NEW g, NEW Q, Linked(g, Q)
  PROVE  Len(Q) <= MaxThreads
  <1>1. Len(Q) \in Nat /\ Q \in [1 .. Len(Q) -> Tids]
    BY DEF Linked
  <1>2. \A i, j \in 1 .. Len(Q) : Q[i] = Q[j] => i = j
    BY DEF Linked
  <1>3. IsFiniteSet(Tids) /\ Cardinality(Tids) = MaxThreads
    BY FS_Interval, MaxThreadsAssumption DEF Tids
  <1>4. Cardinality(1 .. Len(Q)) = Len(Q) /\ IsFiniteSet(1 .. Len(Q))
    BY <1>1, FS_Interval
  <1>5. ASSUME Cardinality(Tids) < Cardinality(1 .. Len(Q)) PROVE FALSE
    <2>1. \E i, j \in 1 .. Len(Q) : i # j /\ Q[i] = Q[j]
      BY <1>1, <1>3, <1>4, <1>5, FS_PigeonHole
    <2> QED
      BY <1>2, <2>1
  <1> QED
    BY <1>1, <1>3, <1>4, <1>5, MaxThreadsAssumption

LEMMA HopWalks ==
  ASSUME NEW f, Walks(f, grp.out, grp.in, grp.next)
  PROVE  Walks(Hop, grp.out, grp.in, grp.next)
  BY Zenon DEF Walks, Hop

LEMMA QueueSound ==
  ASSUME GroupsInv
  PROVE  ZombieQueueSound
  <1>1. PICK Q : Linked(grp, Q) /\ \A i \in 1 .. Len(Q) : Zombie(Q[i])
    BY DEF GroupsInv, QueueInv
  <1>2. CASE Q = <<>>
    BY <1>1, <1>2 DEF Linked, ZombieQueueSound
  <1>3. CASE Q # <<>>
    <2>1. /\ Len(Q) \in Nat /\ Len(Q) > 0 /\ Len(Q) <= MaxThreads /\ Q \in Seq(Tids)
          /\ grp.in = Q[Len(Q)] /\ grp.out = Q[1]
      BY <1>1, <1>3, QueueLength DEF Linked
    <2>2. \A i \in 1 .. Len(Q) : Q[i] # NULL
      <3>1. NULL \notin Tids
        BY MaxThreadsAssumption DEF Tids, NULL
      <3> QED
        BY <2>1, <3>1
    <2>3. Walks(PassesBy(Q), grp.out, grp.in, grp.next)
      BY <1>1, <1>3, QueueWalk
    <2>4. Walks(Hop, grp.out, grp.in, grp.next)
      BY <2>3, HopWalks
    <2>5. \A n \in 0 .. MaxThreads : Hop[n] = PassesBy(Q)[n]
      BY <2>3, <2>4, WalkIsUnique
    <2>6. \A n \in 0 .. MaxThreads :
            Hop[n] = Q[IF n < Len(Q) THEN n + 1 ELSE Len(Q)]
      BY <2>5 DEF PassesBy
    <2>7. Hop[MaxThreads] = grp.in
      BY <2>1, <2>6, MaxThreadsAssumption
    <2>8. ASSUME NEW n \in 0 .. MaxThreads
          PROVE  /\ Hop[n] # NULL /\ grp.mem[Hop[n]] = "element"
                 /\ life[Hop[n]] \notin {"free", "reaped"}
      <3>1. PICK i \in 1 .. Len(Q) : Hop[n] = Q[i]
        BY <2>1, <2>6, MaxThreadsAssumption
      <3> QED
        BY <1>1, <2>2, <3>1 DEF Zombie
    <2>9. grp.in # NULL /\ grp.out # NULL
      BY <2>1, <2>2
    <2> QED
      BY <2>7, <2>8, <2>9 DEF ZombieQueueSound
  <1> QED
    BY <1>2, <1>3

(* The zombie queue of thrgrp.c is sound under every program and for any   *)
(* number of threads: the walk from zombie_out along the next fields ends  *)
(* at zombie_in and passes only allocated elements of threads nobody has   *)
(* joined.                                                                 *)
THEOREM ZombiesSound == Spec => []ZombieQueueSound
  <1>1. GroupsInv /\ CvarInv => ZombieQueueSound
    BY QueueSound
  <1> QED
    BY <1>1, GroupsSound, PTL

-----------------------------------------------------------------------------
(***************************************************************************)
(* nibbles: the screen.                                                    *)
(***************************************************************************)
LEMMA LibraryData ==
  ASSUME NEW t, Library(t)
  PROVE  data' = data
  BY Zenon DEF Library, wake_up, thrgrp_bottom, thrgrp_join, thrgrp_destroy_group,
               Keep, Local

LEMMA SnakeStarts ==
  ASSUME Init, prog = "nibbles"
  PROVE  Well(data)
  <1>1. \A p, line, g, c : Begin(p, line, g, c) => prog = p
    BY DEF Begin
  <1>2. ~LockBegins
    BY <1>1 DEF LockBegins
  <1>3. ~ThreadBegins
    BY <1>1 DEF ThreadBegins
  <1>4. ~CondBegins
    BY <1>1 DEF CondBegins
  <1>5. NibblesBegins
    BY <1>2, <1>3, <1>4 DEF Init
  <1>6. PICK spot : spot = [i \in 0..(SNAKE_MAX_LENGTH - 1) |-> <<0, 0>>]
    OBVIOUS
  <1>7. PICK g : g = NewGame(spot)
    OBVIOUS
  <1>8. data = [x \in DOMAIN g \cup {"bad"} |-> IF x = "bad" THEN 0 ELSE g[x]]
    BY <1>5, <1>6, <1>7 DEF NibblesBegins, Begin
  <1>9. DOMAIN g \cup {"bad"} = GameFields /\ "bad" \notin DOMAIN g
    BY <1>7 DEF NewGame, GameFields
  <1>10. DOMAIN data = GameFields /\ \A x \in DOMAIN g : data[x] = g[x]
    BY <1>8, <1>9
  <1> QED
    BY <1>7, <1>10, GameStarts

LEMMA NibblesKeeps ==
  ASSUME NEW t, nibbles(t), Shown(data), data.dead = FALSE => Well(data)
  PROVE  Shown(data') /\ (data'.dead = FALSE => Well(data'))
  <1>1. CASE data' = Assign(data, NewGame(data.spot))
    <2>1. PICK g : g = NewGame(data.spot)
      OBVIOUS
    <2>2. data' = Assign(data, g)
      BY <1>1, <2>1
    <2>3. DOMAIN g \subseteq GameFields
      BY <2>1 DEF NewGame, GameFields
    <2>4. DOMAIN data' = GameFields /\ \A x \in DOMAIN g : data'[x] = g[x]
      BY <2>2, <2>3 DEF Assign, Shown
    <2>5. Well(data')
      BY <2>1, <2>4, GameStarts
    <2> QED
      BY <2>5 DEF Well
  <1>2. CASE play_game(t)
    <2>1. data.dead = FALSE
      <3>1. ~data.dead
        BY <1>2 DEF play_game
      <3> QED
        BY <3>1
    <2> QED
      BY <1>2, <2>1, RoundKeeps
  <1>3. CASE data' = Assign(data, [last_key |-> NoKey])
    <2>1. DOMAIN [last_key |-> NoKey] \cap GameShown = {}
      BY DEF GameShown
    <2> QED
      BY <1>3, <2>1, AssignKeeps
  <1>4. CASE data' = data
    BY <1>4
  <1> QED
    BY <1>1, <1>2, <1>3, <1>4 DEF nibbles, Store, Keep

LEMMA SnakeKeeps ==
  ASSUME GroupsInv, CvarInv, SnakeInv, [Next]_vars
  PROVE  SnakeInv'
  <1>1. ASSUME NEW t \in Tids, ThreadStep(t) PROVE SnakeInv'
    <2>1. prog' = prog
      <3>1. CASE Library(t)
        BY <3>1, LibraryKeeps
      <3>2. CASE ~Library(t)
        BY <1>1, <3>2, ProgramSteps DEF GroupsInv, ProgramStep, Does
      <3> QED
        BY <3>1, <3>2
    <2> SUFFICES ASSUME prog = "nibbles"
                 PROVE  Shown(data') /\ (data'.dead = FALSE => Well(data'))
      BY <2>1 DEF SnakeInv
    <2>2. Shown(data) /\ (data.dead = FALSE => Well(data))
      BY DEF SnakeInv
    <2>3. Library(t) \/ nibbles(t) \/ nibbles_main(t) \/ key_grab(t)
      BY <1>1 DEF ThreadStep
    <2>4. CASE nibbles(t)
      BY <2>2, <2>4, NibblesKeeps
    <2>5. CASE data' = data
      BY <2>2, <2>5
    <2>6. nibbles_main(t) => data' = data
      BY Zenon DEF nibbles_main, thr_create, NewThread, Local, Keep
    <2>7. CASE key_grab(t)
      <3>1. PICK k \in Keys : data' = Assign(data, [last_key |-> k])
        BY <2>7 DEF key_grab, Store
      <3>2. DOMAIN [last_key |-> k] \cap GameShown = {}
        BY DEF GameShown
      <3> QED
        BY <2>2, <3>1, <3>2, AssignKeeps
    <2> QED
      BY <2>3, <2>4, <2>5, <2>6, <2>7, LibraryData
  <1>2. CASE UNCHANGED vars
    BY <1>2 DEF vars, SnakeInv
  <1> QED
    BY <1>1, <1>2 DEF Next

LEMMA SnakeSeen ==
  ASSUME SnakeInv
  PROVE  ScreenShowsSnake
  <1> SUFFICES ASSUME prog = "nibbles" PROVE ScreenShowsSnake
    BY DEF ScreenShowsSnake
  <1>1. /\ data.length \in 1 .. SNAKE_MAX_LENGTH
        /\ NothingElse(data.start, data.length, data.spot, data.drawn, data.apples)
        /\ ~data.twice => AllDrawn(data.start, data.length, data.spot, data.drawn,
                                   data.apples, data.buried)
    BY DEF SnakeInv, Shown, SnakeFits
  <1>2. (data.length - 1) - 1 = data.length - 2
    BY <1>1
  <1>3. Lying(data.apples) = Apples(data)
    BY DEF Lying, Apples, Valid
  <1>4. Snake(data) = SnakeParts(data.spot, data.start, data.length)
    BY DEF Snake, SnakeParts
  <1> QED
    BY <1>1, <1>2, <1>3, <1>4 DEF ScreenShowsSnake, NothingElse, AllDrawn, SnakeParts

(* Whatever keys are pressed and whenever, the screen of nibbles shows     *)
(* nothing but the snake and the apples while it is played; and, as long   *)
(* as no two apples were eaten in one move, all of the snake but its tail  *)
(* and its first place, and all apples that were not put on the snake.  A  *)
(* screen, a snake and an array of apples of any size, and any number of   *)
(* apples, also several on one place.                                      *)
THEOREM SnakeShown == Spec => []ScreenShowsSnake
  <1>1. Init => SnakeInv
    BY SnakeStarts DEF SnakeInv, Well
  <1>2. GroupsInv /\ CvarInv /\ SnakeInv /\ [Next]_vars => SnakeInv'
    BY SnakeKeeps
  <1>3. SnakeInv => ScreenShowsSnake
    BY SnakeSeen
  <1> QED
    BY <1>1, <1>2, <1>3, GroupsSound, PTL DEF Spec

-----------------------------------------------------------------------------
(***************************************************************************)
(* beady_test: the screen.  The thread that redraws is, at any time, one   *)
(* thread that still may look at updatePending, if there is one: main()    *)
(* before it creates it, then the update thread.                           *)
(***************************************************************************)
Drawing(u, lines) ==
  /\ life[u] = "live"
  /\ \/ Head(stack[u]) \in lines
     \/ Head(stack[u]) = TG(81) /\ grp.func[u] = 120

\* It has not consumed a request it has not served yet.
Looking(u) == Drawing(u, {346, 120, 128})

Drawer(u) == Drawing(u, {346, 120, 128, 147, 150})

\* A thread that changed the world is about to ask for a redraw.
Asking == /\ owner["worldLock"] \in Tids
          /\ life[owner["worldLock"]] = "live"
          /\ Head(stack[owner["worldLock"]]) \in {206, 272}

Fresh == \/ ~(data.moves > 0)
         \/ data.shown = data.world \/ data.updatePending # 0 \/ Asking

AsleepThere(u) ==
  u \in Tids /\ life[u] = "live" /\ Head(stack[u]) = 128 /\ wants[u] # NoMutex

BeadyType ==
  /\ {"updatePending", "goFlag", "moves", "world", "shown"} \subseteq DOMAIN data
  /\ DOMAIN owner = Mutexes /\ DOMAIN queue = Conds /\ DOMAIN wants = Tids
  /\ queue["updates"] \in Seq(Tids)

\* Where a thread may be: callers return to main() or to thrgrp_bottom().
BeadyPlace(u) ==
  life[u] = "live" =>
    /\ \A i \in 2 .. Len(stack[u]) : stack[u][i] \in {363, TG(98)}
    /\ Head(stack[u]) = TG(81) => grp.func[u] \in {120, 197, 245, 299}

\* A failed assertion ends the threads and leaves the queues as they are.
Sleepers ==
  ~Over => \A i \in DOMAIN queue["updates"] : AsleepThere(queue["updates"][i])

BeadyThreads ==
  /\ \A u \in Tids : BeadyPlace(u)
  /\ \A u, v \in Tids : Drawer(u) /\ Drawer(v) => u = v
  /\ Sleepers

BeadyInv ==
  prog = "beady_test" =>
    /\ BeadyType /\ BeadyThreads
    /\ (\E u \in Tids : Looking(u)) => Fresh

\* What a step of thread t leaves alone.
Others(t) ==
  \A u \in Tids \ {t} :
    /\ life'[u] = "live" <=> life[u] = "live"
    /\ life[u] = "live" => /\ stack'[u] = stack[u] /\ wants'[u] = wants[u]
                           /\ grp'.func[u] = grp.func[u]

SameWorld == /\ data'.shown = data.shown /\ data'.world = data.world
             /\ data'.updatePending = data.updatePending /\ data'.moves = data.moves
             /\ DOMAIN data' = DOMAIN data

\* Nobody is added to those asleep.
NoSleeper ==
  /\ DOMAIN queue' = Conds /\ queue'["updates"] \in Seq(Tids)
  /\ \A i \in DOMAIN queue'["updates"] : \E j \in DOMAIN queue["updates"] :
       queue'["updates"][i] = queue["updates"][j]

OwnerFits(t) ==
  /\ DOMAIN owner' = Mutexes
  /\ \/ owner'["worldLock"] = owner["worldLock"]
     \/ owner["worldLock"] \in {t, NULL}

Playing(t) ==
  /\ GroupsInv /\ prog = "beady_test" /\ prog' = prog
  /\ BeadyType /\ BeadyThreads /\ ((\E u \in Tids : Looking(u)) => Fresh)
  /\ t \in Tids /\ life[t] = "live" /\ wants[t] = NoMutex

\* The stack s with n on top.
Topped(n, s) == <<n>> \o Tail(s)

LEMMA TopReplaced ==
  ASSUME NEW s \in Seq(Nat), s # <<>>, NEW n \in Nat
  PROVE  /\ Len(Topped(n, s)) = Len(s) /\ Head(Topped(n, s)) = n
         /\ \A i \in 2 .. Len(s) : Topped(n, s)[i] = s[i]
  BY DEF Topped

LEMMA SleepersStay ==
  ASSUME NEW t \in Tids, life[t] = "live", BeadyThreads, Others(t), NoSleeper,
         \A i \in DOMAIN queue["updates"] : queue["updates"][i] # t
  PROVE  Sleepers'
  <1> SUFFICES ASSUME NEW i \in DOMAIN queue'["updates"], NEW u,
                      u = queue'["updates"][i]
               PROVE  AsleepThere(u)'
    BY DEF Sleepers
  <1>1. PICK j \in DOMAIN queue["updates"] : queue'["updates"][i] = queue["updates"][j]
    BY DEF NoSleeper
  <1>3. AsleepThere(u) /\ u # t
    BY <1>1 DEF BeadyThreads, Sleepers, Over
  <1>4. life'[u] = "live" /\ stack'[u] = stack[u] /\ wants'[u] = wants[u]
    BY <1>3 DEF Others, AsleepThere
  <1>5. AsleepThere(u)'
    BY <1>3, <1>4 DEF AsleepThere
  <1> QED
    BY <1>5

\* The drawer stays the only one.
LEMMA ThreadsStay ==
  ASSUME NEW t \in Tids, BeadyThreads, Others(t), BeadyPlace(t)',
         Drawer(t)' => Drawer(t),
         Sleepers'
  PROVE  BeadyThreads'
  <1>1. ASSUME NEW u \in Tids PROVE BeadyPlace(u)' /\ (Drawer(u)' => Drawer(u))
    <2>1. CASE u = t
      BY <2>1
    <2>2. CASE u # t
      <3>1. /\ life'[u] = "live" <=> life[u] = "live"
            /\ life[u] = "live" => stack'[u] = stack[u] /\ grp'.func[u] = grp.func[u]
        BY <2>2 DEF Others
      <3>2. BeadyPlace(u)
        BY DEF BeadyThreads
      <3> QED
        BY <3>1, <3>2 DEF BeadyPlace, Drawer, Drawing
    <2> QED
      BY <2>1, <2>2
  <1> QED
    BY <1>1 DEF BeadyThreads

\* The world and what is known of it stay.
LEMMA FreshStays ==
  ASSUME NEW t \in Tids, Others(t), SameWorld, OwnerFits(t), Fresh,
         life[t] = "live" /\ Head(stack[t]) \in {206, 272}
           => /\ life'[t] = "live" /\ stack'[t] = stack[t]
              /\ owner["worldLock"] = t => owner'["worldLock"] = t
  PROVE  Fresh'
  <1>1. CASE ~Asking
    BY <1>1 DEF Fresh, SameWorld
  <1>2. CASE Asking
    <2>1. PICK v \in Tids : /\ v = owner["worldLock"] /\ life[v] = "live"
                            /\ Head(stack[v]) \in {206, 272}
      BY <1>2 DEF Asking
    <2>2. NULL \notin Tids
      BY MaxThreadsAssumption DEF Tids, NULL
    <2>3. owner'["worldLock"] = v
      BY <2>1, <2>2 DEF OwnerFits
    <2>4. life'[v] = "live" /\ stack'[v] = stack[v]
      BY <2>1 DEF Others
    <2>5. Asking'
      BY <2>1, <2>3, <2>4 DEF Asking
    <2> QED
      BY <2>5 DEF Fresh
  <1> QED
    BY <1>1, <1>2

\* Who looks, looked before, unless it is t.
LEMMA OtherLooks ==
  ASSUME NEW t, Others(t), NEW u \in Tids, u # t, Looking(u)'
  PROVE  Looking(u)
  BY DEF Others, Looking, Drawing

\* A step that changes neither the world nor who draws.
LEMMA IdleStep ==
  ASSUME NEW t \in Tids, life[t] = "live", BeadyInv, prog = "beady_test", prog' = prog,
         Others(t), BeadyPlace(t)', Drawer(t)' => Drawer(t), Looking(t)' => Looking(t),
         life[t] = "live" /\ Head(stack[t]) \in {206, 272}
           => /\ life'[t] = "live" /\ stack'[t] = stack[t]
              /\ owner["worldLock"] = t => owner'["worldLock"] = t,
         \A i \in DOMAIN queue["updates"] : queue["updates"][i] # t,
         SameWorld, OwnerFits(t), NoSleeper, DOMAIN wants' = Tids
  PROVE  BeadyInv'
  <1>0. BeadyType /\ BeadyThreads /\ ((\E u \in Tids : Looking(u)) => Fresh)
    BY DEF BeadyInv
  <1>1. BeadyType'
    BY <1>0 DEF BeadyType, SameWorld, OwnerFits, NoSleeper
  <1>2. Sleepers'
    BY <1>0, SleepersStay
  <1>3. BeadyThreads'
    BY <1>0, <1>2, ThreadsStay
  <1>4. ASSUME NEW u \in Tids, Looking(u)' PROVE Fresh'
    <2>1. Looking(u)
      BY <1>4, OtherLooks
    <2> QED
      BY <1>0, <2>1, FreshStays
  <1> QED
    BY <1>1, <1>3, <1>4 DEF BeadyInv

LEMMA Awake ==
  ASSUME NEW t, Playing(t)
  PROVE  \A i \in DOMAIN queue["updates"] : queue["updates"][i] # t
  BY DEF Playing, BeadyThreads, Sleepers, AsleepThere, Over

\* In particular one that does not end in the drawer's lines.
LEMMA CalmStep ==
  ASSUME NEW t, Playing(t), Others(t), BeadyPlace(t)', ~Drawer(t)',
         Head(stack[t]) \notin {206, 272},
         SameWorld, OwnerFits(t), NoSleeper, DOMAIN wants' = Tids
  PROVE  BeadyInv'
  <1>1. ~Looking(t)'
    BY DEF Looking, Drawer, Drawing
  <1>2. BeadyInv /\ prog = "beady_test" /\ prog' = prog /\ t \in Tids /\ life[t] = "live"
    BY DEF Playing, BeadyInv
  <1> QED
    BY <1>1, <1>2, Awake, IdleStep

\* Where a thread goes, seen from the drawer.
LEMMA GotoPlace ==
  ASSUME NEW t, Playing(t), NEW n \in Nat, n # TG(81), Goto(t, n),
         life' = life, grp'.func = grp.func,
         \A u \in Tids \ {t} : wants'[u] = wants[u]
  PROVE  Others(t) /\ BeadyPlace(t)' /\ life'[t] = "live" /\ Head(stack'[t]) = n
  <1>1. /\ stack[t] # <<>> /\ stack[t] \in Seq(Nat) /\ DOMAIN stack = Tids
        /\ BeadyPlace(t)
    BY DEF Playing, GroupsInv, ThreadsInv, StackOK, BeadyThreads
  <1>2. PICK r : r = <<n>> \o Tail(stack[t])
    OBVIOUS
  <1>3. /\ Len(stack[t]) \in Nat /\ Len(r) = Len(stack[t]) /\ Head(r) = n
        /\ \A i \in 2 .. Len(r) : r[i] = stack[t][i]
    BY <1>1, <1>2
  <1>4. stack' = [stack EXCEPT ![t] = r]
    BY <1>2 DEF Goto
  <1>5. stack'[t] = r /\ \A u \in Tids \ {t} : stack'[u] = stack[u]
    BY <1>1, <1>4 DEF Playing
  <1>6. Others(t)
    BY <1>5 DEF Others
  <1> QED
    BY <1>1, <1>3, <1>5, <1>6 DEF BeadyPlace, Playing

LEMMA ReturnPlace ==
  ASSUME NEW t, Playing(t), Return(t)
  PROVE  Others(t) /\ BeadyPlace(t)' /\ ~Drawer(t)'
  <1>1. /\ stack[t] # <<>> /\ stack[t] \in Seq(Nat) /\ DOMAIN stack = Tids
        /\ BeadyPlace(t) /\ Len(stack[t]) > 1
    BY DEF Playing, GroupsInv, ThreadsInv, StackOK, BeadyThreads, Return
  <1>2. PICK r : r = Tail(stack[t])
    OBVIOUS
  <1>3. /\ Len(stack[t]) \in Nat /\ Len(r) = Len(stack[t]) - 1 /\ Head(r) = stack[t][2]
        /\ 2 \in 2 .. Len(stack[t])
        /\ \A i \in 2 .. Len(r) : r[i] = stack[t][i + 1] /\ i + 1 \in 2 .. Len(stack[t])
    BY <1>1, <1>2
  <1>4. stack' = [stack EXCEPT ![t] = r] /\ UNCHANGED <<life, grp, wants>>
    BY <1>2 DEF Return, Quiet, sync
  <1>5. stack'[t] = r /\ \A u \in Tids \ {t} : stack'[u] = stack[u]
    BY <1>1, <1>4 DEF Playing
  <1>6. Others(t)
    BY <1>4, <1>5 DEF Others
  <1>7. Head(r) \in {363, TG(98)} /\ \A i \in 2 .. Len(r) : r[i] \in {363, TG(98)}
    BY <1>1, <1>3 DEF BeadyPlace, Playing
  <1>8. Head(r) \notin {346, 120, 128, 147, 150, TG(81)}
    BY <1>7 DEF TG
  <1> QED
    BY <1>5, <1>6, <1>7, <1>8 DEF BeadyPlace, Drawer, Drawing

LEMMA ExitPlace ==
  ASSUME NEW t, Playing(t), NEW v, thr_exit(t, v)
  PROVE  Others(t) /\ BeadyPlace(t)' /\ ~Drawer(t)'
  <1>1. /\ life' = [life EXCEPT ![t] = "exited"] /\ stack' = [stack EXCEPT ![t] = <<>>]
        /\ UNCHANGED <<grp, wants>>
    BY DEF thr_exit, sync
  <1>2. DOMAIN life = Tids /\ DOMAIN stack = Tids /\ t \in Tids
    BY DEF Playing, GroupsInv, ThreadsInv
  <1>3. life'[t] = "exited" /\ \A u \in Tids \ {t} : life'[u] = life[u] /\ stack'[u] = stack[u]
    BY <1>1, <1>2
  <1> QED
    BY <1>1, <1>3 DEF Others, BeadyPlace, Drawer, Drawing

LEMMA SyncFits ==
  ASSUME NEW t, Playing(t), UNCHANGED sync
  PROVE  OwnerFits(t) /\ NoSleeper /\ wants' = wants /\ DOMAIN wants' = Tids
  BY DEF Playing, BeadyType, sync, OwnerFits, NoSleeper

Calm == Nat \ {346, 120, 128, 147, 150, TG(81)}

LEMMA CalmIs ==
  ASSUME NEW t, life'[t] = "live", Head(stack'[t]) \in Calm
  PROVE  ~Drawer(t)'
  BY DEF Calm, Drawer, Drawing

\* The condition variables other than the drawer's.
LEMMA QueueFits ==
  ASSUME BeadyType
  PROVE  /\ queue' = queue => NoSleeper
         /\ \A c \in Conds : queue' = OneWoken(c) => NoSleeper
         /\ \A c \in Conds \ {"updates"} : \A t :
              queue' = [queue EXCEPT ![c] = Append(@, t)] => NoSleeper
  <1> DEFINE q == queue["updates"]
  <1>0. DOMAIN queue = Conds /\ q \in Seq(Tids) /\ "updates" \in Conds
    BY DEF BeadyType, Conds
  <1>1. ASSUME DOMAIN queue' = Conds, queue'["updates"] = q PROVE NoSleeper
    BY <1>0, <1>1 DEF NoSleeper
  <1>2. ASSUME q # <<>>, DOMAIN queue' = Conds, queue'["updates"] = Tail(q)
        PROVE  NoSleeper
    <2>1. /\ Tail(q) \in Seq(Tids)
          /\ \A i \in DOMAIN Tail(q) : i + 1 \in DOMAIN q /\ Tail(q)[i] = q[i + 1]
      BY <1>0, <1>2
    <2> QED
      BY <1>2, <2>1 DEF NoSleeper
  <1>3. ASSUME NEW c \in Conds, queue' = OneWoken(c) PROVE NoSleeper
    <2>1. queue' = [queue EXCEPT ![c] = IF queue[c] = <<>> THEN queue[c] ELSE Tail(queue[c])]
      BY <1>3 DEF OneWoken
    <2> QED
      BY <1>0, <1>1, <1>2, <2>1
  <1>4. ASSUME NEW c \in Conds \ {"updates"}, NEW t,
               queue' = [queue EXCEPT ![c] = Append(@, t)]
        PROVE  NoSleeper
    BY <1>0, <1>1, <1>4
  <1> QED
    BY <1>0, <1>1, <1>3, <1>4

\* The calls that leave the world and the drawer alone.
LEMMA CalmGoto ==
  ASSUME NEW t, Playing(t), Head(stack[t]) \notin {206, 272}, SameWorld,
         NEW n \in Calm, Goto(t, n), life' = life, grp'.func = grp.func,
         \A u \in Tids \ {t} : wants'[u] = wants[u], DOMAIN wants' = Tids,
         OwnerFits(t), NoSleeper
  PROVE  BeadyInv'
  <1>1. n \in Nat /\ n # TG(81)
    BY DEF Calm
  <1>2. Others(t) /\ BeadyPlace(t)' /\ life'[t] = "live" /\ Head(stack'[t]) = n
    BY <1>1, GotoPlace
  <1>3. ~Drawer(t)'
    BY <1>2, CalmIs
  <1> QED
    BY <1>2, <1>3, CalmStep

LEMMA CalmCalls ==
  ASSUME NEW t, Playing(t), Head(stack[t]) \notin {206, 272}, SameWorld
  PROVE  /\ \A n \in Calm : Step(t, n) => BeadyInv'
         /\ Return(t) => BeadyInv'
         /\ \A v : thr_exit(t, v) => BeadyInv'
         /\ \A n \in Calm : mutex_unlock(t, "worldLock", n) => BeadyInv'
         /\ \A c \in Conds, n \in Calm : cond_signal(t, c, n) => BeadyInv'
         /\ \A c \in Conds \ {"updates"}, n \in Calm : \A m :
              lock_and_wait(t, c, m, n) => BeadyInv'
  <1>0. BeadyType /\ DOMAIN wants = Tids /\ DOMAIN owner = Mutexes
    BY DEF Playing, BeadyType
  <1>1. ASSUME NEW n \in Calm, Step(t, n) PROVE BeadyInv'
    <2>1. Goto(t, n) /\ life' = life /\ grp' = grp /\ UNCHANGED sync
      BY <1>1 DEF Step, Quiet
    <2>2. OwnerFits(t) /\ NoSleeper /\ wants' = wants /\ DOMAIN wants' = Tids
      BY <2>1, SyncFits
    <2> QED
      BY <2>1, <2>2, CalmGoto
  <1>2. ASSUME Return(t) PROVE BeadyInv'
    <2>1. Others(t) /\ BeadyPlace(t)' /\ ~Drawer(t)'
      BY <1>2, ReturnPlace
    <2>2. UNCHANGED sync
      BY <1>2 DEF Return
    <2>3. OwnerFits(t) /\ NoSleeper /\ DOMAIN wants' = Tids
      BY <2>2, SyncFits
    <2> QED
      BY <2>1, <2>3, CalmStep
  <1>3. ASSUME NEW v, thr_exit(t, v) PROVE BeadyInv'
    <2>1. Others(t) /\ BeadyPlace(t)' /\ ~Drawer(t)'
      BY <1>3, ExitPlace
    <2>2. UNCHANGED sync
      BY <1>3 DEF thr_exit
    <2>3. OwnerFits(t) /\ NoSleeper /\ DOMAIN wants' = Tids
      BY <2>2, SyncFits
    <2> QED
      BY <2>1, <2>3, CalmStep
  <1>4. ASSUME NEW n \in Calm, mutex_unlock(t, "worldLock", n) PROVE BeadyInv'
    <2>1. /\ Goto(t, n) /\ life' = life /\ grp' = grp /\ queue' = queue /\ wants' = wants
          /\ owner["worldLock"] = t /\ owner' = [owner EXCEPT !["worldLock"] = NULL]
      BY <1>4 DEF mutex_unlock, Quiet, Released
    <2>2. OwnerFits(t)
      BY <1>0, <2>1 DEF OwnerFits
    <2>3. NoSleeper
      BY <1>0, <2>1, QueueFits
    <2> QED
      BY <1>0, <2>1, <2>2, <2>3, CalmGoto
  <1>5. ASSUME NEW c \in Conds, NEW n \in Calm, cond_signal(t, c, n) PROVE BeadyInv'
    <2>1. /\ Goto(t, n) /\ life' = life /\ grp' = grp /\ queue' = OneWoken(c)
          /\ wants' = wants /\ owner' = owner
      BY <1>5 DEF cond_signal, Quiet
    <2>2. OwnerFits(t)
      BY <1>0, <2>1 DEF OwnerFits
    <2>3. NoSleeper
      BY <1>0, <2>1, QueueFits
    <2> QED
      BY <1>0, <2>1, <2>2, <2>3, CalmGoto
  <1>6. ASSUME NEW c \in Conds \ {"updates"}, NEW n \in Calm, NEW m,
               lock_and_wait(t, c, m, n)
        PROVE  BeadyInv'
    <2>1. /\ Goto(t, n) /\ life' = life /\ grp' = grp
          /\ queue' = [queue EXCEPT ![c] = Append(@, t)]
          /\ wants' = [wants EXCEPT ![t] = m] /\ owner' = owner
      BY <1>6 DEF lock_and_wait, Sleep, Quiet
    <2>2. OwnerFits(t)
      BY <1>0, <2>1 DEF OwnerFits
    <2>3. NoSleeper
      BY <1>0, <2>1, QueueFits
    <2>4. DOMAIN wants' = Tids /\ \A u \in Tids \ {t} : wants'[u] = wants[u]
      BY <1>0, <2>1
    <2> QED
      BY <2>1, <2>2, <2>3, <2>4, CalmGoto
  <1> QED
    BY <1>1, <1>2, <1>3, <1>4, <1>5, <1>6

LEMMA CalmLeave ==
  ASSUME NEW t, Playing(t), Head(stack[t]) \notin {206, 272}, NEW v, Leave(t, v)
  PROVE  BeadyInv'
  <1>1. SameWorld
    BY DEF Leave, Local, Keep, SameWorld
  <1>2. Return(t) \/ thr_exit(t, v)
    BY DEF Leave
  <1> QED
    BY <1>1, <1>2, CalmCalls

LEMMA KeptWorld ==
  /\ data' = data => SameWorld
  /\ Keep => SameWorld
  /\ \A t, locals : Local(t, locals) => SameWorld
  BY DEF Keep, Local, SameWorld

\* The library under beady_test.
LEMMA BeadyWakes ==
  ASSUME GroupsInv, BeadyInv, prog = "beady_test", NEW t \in Tids, wake_up(t)
  PROVE  BeadyInv'
  <1>1. /\ UNCHANGED <<prog, stack, data, queue, life, grp>>
        /\ life[t] = "live" /\ owner[wants[t]] = NULL /\ ~Asleep(t)
        /\ owner' = [owner EXCEPT ![wants[t]] = t]
        /\ wants' = [wants EXCEPT ![t] = NoMutex]
    BY DEF wake_up, Quiet
  <1>2. BeadyType /\ BeadyThreads
    BY DEF BeadyInv
  <1>3. Others(t) /\ DOMAIN wants' = Tids
    BY <1>1, <1>2 DEF Others, BeadyType
  <1>4. BeadyPlace(t)' /\ (Drawer(t)' => Drawer(t)) /\ (Looking(t)' => Looking(t))
    BY <1>1, <1>2 DEF BeadyThreads, BeadyPlace, Drawer, Looking, Drawing
  <1>5. OwnerFits(t) /\ (owner["worldLock"] = t => owner'["worldLock"] = t)
    <2>1. "worldLock" \in Mutexes
      BY DEF Mutexes
    <2> QED
      BY <1>1, <1>2, <2>1 DEF BeadyType, OwnerFits
  <1>6. SameWorld /\ NoSleeper
    BY <1>1, <1>2, QueueFits, KeptWorld
  <1>7. \A i \in DOMAIN queue["updates"] : queue["updates"][i] # t
    <2>1. "updates" \in Conds
      BY DEF Conds
    <2> QED
      BY <1>1, <2>1 DEF Asleep
  <1> QED
    BY <1>1, <1>3, <1>4, <1>5, <1>6, <1>7, IdleStep

LEMMA BeadyBottom ==
  ASSUME NEW t, Playing(t), thrgrp_bottom(t)
  PROVE  BeadyInv'
  <1>0. BeadyType /\ DOMAIN wants = Tids /\ DOMAIN owner = Mutexes
    BY DEF Playing, BeadyType
  <1>1. ASSUME At(t, TG(81)), UNCHANGED <<sync, data, mine>>, QuietThreads,
               stack' = [stack EXCEPT ![t] = <<grp.func[t], TG(98)>>],
               grp' = [grp EXCEPT !.mem[t] = "element"]
        PROVE  BeadyInv'
    <2>1. /\ DOMAIN stack = Tids /\ t \in Tids /\ life[t] = "live"
          /\ Head(stack[t]) = TG(81) /\ life' = life /\ wants' = wants
          /\ prog = "beady_test" /\ prog' = prog /\ BeadyInv
      BY <1>1 DEF Playing, GroupsInv, ThreadsInv, At, QuietThreads, sync, BeadyInv
    <2>2. PICK n : n = grp.func[t]
      OBVIOUS
    <2>3. n \in {120, 197, 245, 299}
      BY <2>1, <2>2 DEF Playing, BeadyThreads, BeadyPlace
    <2>4. grp'.func = grp.func
      BY <1>1 DEF Playing, GroupsInv, GroupType, GroupRecords
    <2>5. /\ stack'[t] = <<n, TG(98)>>
          /\ \A u \in Tids \ {t} : stack'[u] = stack[u]
      BY <1>1, <2>1, <2>2
    <2>6. Others(t)
      BY <2>1, <2>4, <2>5 DEF Others
    <2>7. /\ Head(<<n, TG(98)>>) = n /\ Len(<<n, TG(98)>>) = 2
          /\ \A i \in 2 .. 2 : <<n, TG(98)>>[i] = TG(98)
      OBVIOUS
    <2>8. n # TG(81)
      BY <2>3 DEF TG
    <2>9. BeadyPlace(t)'
      BY <2>5, <2>7, <2>8 DEF BeadyPlace
    <2>10. (Drawer(t)' => Drawer(t)) /\ (Looking(t)' => Looking(t))
      <3>1. n \in {346, 120, 128, 147, 150} => n = 120
        BY <2>3
      <3> QED
        BY <2>1, <2>2, <2>5, <2>7, <2>8, <3>1 DEF Drawer, Looking, Drawing
    <2>11. OwnerFits(t) /\ NoSleeper /\ DOMAIN wants' = Tids
      BY <1>1, SyncFits
    <2>12. SameWorld
      BY <1>1, KeptWorld
    <2>13. Head(stack[t]) \notin {206, 272}
      BY <2>1 DEF TG
    <2> QED
      BY <2>1, <2>6, <2>9, <2>10, <2>11, <2>12, <2>13, Awake, IdleStep
  <1>2. ASSUME At(t, TG(98)), grp' = Enqueue(t), queue' = OneWoken("tg.cv"),
               Goto(t, TG(110)), QuietThreads, Keep, UNCHANGED <<owner, wants, count>>
        PROVE  BeadyInv'
    <2>1. Head(stack[t]) \notin {206, 272} /\ TG(110) \in Calm
      BY <1>2 DEF At, TG, Calm
    <2>2. life' = life /\ SameWorld
      BY <1>2, KeptWorld DEF QuietThreads
    <2>3. grp'.func = grp.func
      BY <1>2 DEF Enqueue, Playing, GroupsInv, GroupType, GroupRecords
    <2>4. OwnerFits(t)
      BY <1>0, <1>2 DEF OwnerFits
    <2>5. NoSleeper
      <3>1. "tg.cv" \in Conds
        BY DEF Conds
      <3> QED
        BY <1>0, <1>2, <3>1, QueueFits
    <2> QED
      BY <1>0, <1>2, <2>1, <2>2, <2>3, <2>4, <2>5, CalmGoto
  <1>3. ASSUME At(t, TG(110)), thr_exit(t, mine[t].s), Keep PROVE BeadyInv'
    <2>1. Head(stack[t]) \notin {206, 272}
      BY <1>3 DEF At, TG
    <2> QED
      BY <1>3, <2>1, CalmCalls, KeptWorld
  <1> QED
    BY <1>1, <1>2, <1>3 DEF thrgrp_bottom

LEMMA BeadyVanish ==
  ASSUME BeadyType, BeadyThreads, NEW t, task_vanish(t), data' = data
  PROVE  BeadyInv'
  <1>1. /\ \A u \in Tids : life'[u] # "live"
        /\ UNCHANGED <<owner, queue, wants>>
    BY DEF task_vanish, sync
  <1>2. BeadyType'
    BY <1>1 DEF BeadyType
  <1>3. BeadyThreads'
    BY <1>1 DEF BeadyThreads, BeadyPlace, Drawer, Drawing, Sleepers, Over
  <1>4. \A u \in Tids : ~Looking(u)'
    BY <1>1 DEF Looking, Drawing
  <1> QED
    BY <1>2, <1>3, <1>4 DEF BeadyInv

LEMMA BeadyJoin ==
  ASSUME NEW t, Playing(t), thrgrp_join(t)
  PROVE  BeadyInv'
  <1>0. /\ BeadyType /\ DOMAIN wants = Tids /\ DOMAIN owner = Mutexes /\ t \in Tids
        /\ "worldLock" \in Mutexes /\ "tg.cv" \in Conds \ {"updates"}
    BY DEF Playing, BeadyType, Mutexes, Conds
  <1>1. /\ TG(172) \in Calm /\ TG(194) \in Calm /\ TG(195) \in Calm
        /\ TG(170) \notin {206, 272} /\ TG(172) \notin {206, 272}
        /\ TG(194) \notin {206, 272} /\ TG(195) \notin {206, 272}
    BY DEF Calm, TG
  <1>2. owner' = Released("tg.lock") => OwnerFits(t)
    BY <1>0 DEF Released, OwnerFits
  <1>3. ASSUME Keep, At(t, TG(170)), lock_and_wait(t, "tg.cv", "tg.lock", TG(172))
        PROVE  BeadyInv'
    <2>1. Head(stack[t]) \notin {206, 272} /\ SameWorld
      BY <1>1, <1>3, KeptWorld DEF At
    <2> QED
      BY <1>0, <1>1, <1>3, <2>1, CalmCalls
  <1>4. ASSUME Keep, At(t, TG(172)), cond_wait(t, "tg.cv", "tg.lock", TG(172))
        PROVE  BeadyInv'
    <2>1. Head(stack[t]) \notin {206, 272} /\ SameWorld
      BY <1>1, <1>4, KeptWorld DEF At
    <2>2. /\ Goto(t, TG(172)) /\ life' = life /\ grp' = grp
          /\ queue' = [queue EXCEPT !["tg.cv"] = Append(@, t)]
          /\ wants' = [wants EXCEPT ![t] = "tg.lock"] /\ owner' = Released("tg.lock")
      BY <1>4 DEF cond_wait, Sleep, Quiet
    <2>3. DOMAIN wants' = Tids /\ \A u \in Tids \ {t} : wants'[u] = wants[u]
      BY <1>0, <2>2
    <2>4. NoSleeper
      BY <1>0, <2>2, QueueFits
    <2> QED
      BY <1>1, <1>2, <2>1, <2>2, <2>3, <2>4, CalmGoto
  <1>5. ASSUME At(t, TG(170)) \/ At(t, TG(172)), Local(t, [z |-> grp.out]),
               grp' = Dequeue, owner' = Released("tg.lock"),
               UNCHANGED <<queue, wants, count>>, Goto(t, TG(194)), QuietThreads
        PROVE  BeadyInv'
    <2>1. Head(stack[t]) \notin {206, 272} /\ SameWorld
      BY <1>1, <1>5, KeptWorld DEF At
    <2>2. grp'.func = grp.func
      BY <1>5 DEF Dequeue, Playing, GroupsInv, GroupType, GroupRecords
    <2>3. life' = life
      BY <1>5 DEF QuietThreads
    <2>4. NoSleeper
      BY <1>0, <1>5, QueueFits
    <2> QED
      BY <1>0, <1>1, <1>2, <1>5, <2>1, <2>2, <2>3, <2>4, CalmGoto
  <1>6. ASSUME At(t, TG(194)), thr_join(t, mine[t].z, TG(195)), UNCHANGED data
        PROVE  BeadyInv'
    <2>1. Head(stack[t]) \notin {206, 272} /\ SameWorld
      BY <1>1, <1>6, KeptWorld DEF At
    <2>2. PICK w : w = mine[t].z
      OBVIOUS
    <2>0. CASE task_vanish(t)
      BY <1>6, <2>0, BeadyVanish DEF Playing
    <2> SUFFICES ASSUME ~task_vanish(t) PROVE BeadyInv'
      BY <2>0
    <2>3. /\ w \in Tids /\ life[w] = "exited" /\ life' = [life EXCEPT ![w] = "reaped"]
          /\ Goto(t, TG(195)) /\ UNCHANGED <<sync, grp>>
      BY <1>6, <2>2 DEF thr_join
    <2>4. DOMAIN life = Tids /\ DOMAIN stack = Tids /\ life[t] = "live"
          /\ stack[t] # <<>> /\ stack[t] \in Seq(Nat) /\ BeadyPlace(t)
      BY <1>0 DEF Playing, GroupsInv, ThreadsInv, StackOK, BeadyThreads
    <2>5. \A u \in Tids : life'[u] = "live" <=> life[u] = "live"
      BY <2>3, <2>4
    <2>6. PICK r : r = Topped(TG(195), stack[t])
      OBVIOUS
    <2>7. /\ Len(r) = Len(stack[t]) /\ Head(r) = TG(195)
          /\ \A i \in 2 .. Len(r) : r[i] = stack[t][i]
      <3>1. TG(195) \in Nat
        BY DEF TG
      <3> QED
        BY <2>4, <2>6, <3>1, TopReplaced
    <2>8. stack'[t] = r /\ \A u \in Tids \ {t} : stack'[u] = stack[u]
      BY <1>0, <2>3, <2>4, <2>6 DEF Goto, Topped
    <2>9. OwnerFits(t) /\ NoSleeper /\ wants' = wants /\ DOMAIN wants' = Tids
      BY <2>3, SyncFits
    <2>10. Others(t)
      BY <2>3, <2>5, <2>8, <2>9 DEF Others
    <2>11. TG(195) # TG(81)
      BY DEF TG
    <2>12. BeadyPlace(t)'
      <3>1. \A i \in 2 .. Len(r) : r[i] \in {363, TG(98)}
        BY <2>4, <2>7 DEF BeadyPlace
      <3> QED
        BY <2>7, <2>8, <2>11, <3>1 DEF BeadyPlace
    <2>13. ~Drawer(t)'
      BY <1>0, <1>1, <2>4, <2>5, <2>7, <2>8, CalmIs
    <2> QED
      BY <2>1, <2>9, <2>10, <2>12, <2>13, CalmStep
  <1>7. ASSUME At(t, TG(195)), Return(t), Local(t, [z |-> NULL]) PROVE BeadyInv'
    <2>1. Head(stack[t]) \notin {206, 272} /\ SameWorld
      BY <1>1, <1>7, KeptWorld DEF At
    <2> QED
      BY <1>7, <2>1, CalmCalls
  <1> QED
    BY <1>3, <1>4, <1>5, <1>6, <1>7 DEF thrgrp_join

LEMMA BeadyDestroy ==
  ASSUME NEW t, Playing(t), thrgrp_destroy_group(t)
  PROVE  BeadyInv'
  <1>1. TG(70) \in Calm /\ TG(61) \notin {206, 272} /\ TG(70) \notin {206, 272}
    BY DEF Calm, TG
  <1>2. SameWorld
    BY KeptWorld, Zenon DEF thrgrp_destroy_group
  <1>3. Head(stack[t]) \notin {206, 272}
    BY <1>1 DEF thrgrp_destroy_group, At
  <1>4. Step(t, TG(70)) \/ Return(t) \/ (task_vanish(t) /\ data' = data)
    BY Zenon DEF thrgrp_destroy_group, Keep
  <1>5. BeadyType /\ BeadyThreads
    BY DEF Playing
  <1> QED
    BY <1>1, <1>2, <1>3, <1>4, <1>5, BeadyVanish, CalmCalls

LEMMA BeadyLibrary ==
  ASSUME GroupsInv, BeadyInv, prog = "beady_test", NEW t \in Tids, Library(t)
  PROVE  BeadyInv'
  <1>1. CASE wake_up(t)
    BY <1>1, BeadyWakes
  <1>2. CASE ~wake_up(t)
    <2>1. life[t] = "live" /\ wants[t] = NoMutex
      BY <1>2, Zenon DEF Library, thrgrp_bottom, thrgrp_join, thrgrp_destroy_group, At
    <2>2. prog' = prog
      BY LibraryKeeps
    <2>3. Playing(t)
      BY <2>1, <2>2 DEF Playing, BeadyInv
    <2> QED
      BY <1>2, <2>3, BeadyBottom, BeadyJoin, BeadyDestroy DEF Library
  <1> QED
    BY <1>1, <1>2

\* A step after which it is known what the screen shows.
LEMMA KnownStep ==
  ASSUME NEW t, Playing(t), Others(t), BeadyPlace(t)', Drawer(t)' => Drawer(t),
         DOMAIN data' = DOMAIN data, DOMAIN owner' = Mutexes, NoSleeper,
         DOMAIN wants' = Tids, (\E u \in Tids : Looking(u)') => Fresh'
  PROVE  BeadyInv'
  <1>1. BeadyType'
    BY DEF Playing, BeadyType, NoSleeper
  <1>2. Sleepers'
    BY Awake, SleepersStay DEF Playing
  <1>3. BeadyThreads'
    BY <1>2, ThreadsStay DEF Playing
  <1> QED
    BY <1>1, <1>3 DEF BeadyInv

\* The drawer has taken a request: nobody looks for one.
LEMMA RequestTaken ==
  ASSUME NEW t, Playing(t), Head(stack[t]) \in {120, 128}, Others(t),
         life'[t] = "live", Head(stack'[t]) = 147
  PROVE  (Drawer(t)' => Drawer(t)) /\ ((\E u \in Tids : Looking(u)') => Fresh')
  <1>1. Drawer(t) /\ t \in Tids
    BY DEF Playing, Drawer, Drawing
  <1>2. ~Looking(t)'
    BY DEF Looking, Drawing, TG
  <1>3. ASSUME NEW u \in Tids, Looking(u)' PROVE FALSE
    <2>1. u # t /\ Looking(u)
      BY <1>2, <1>3, OtherLooks
    <2>2. Drawer(u)
      BY <2>1 DEF Looking, Drawer, Drawing
    <2> QED
      BY <1>1, <2>1, <2>2 DEF Playing, BeadyThreads
  <1> QED
    BY <1>1, <1>3

LEMMA BeadyWaits ==
  ASSUME NEW t, Playing(t), waitUpdate(t)
  PROVE  BeadyInv'
  <1>0. /\ BeadyType /\ DOMAIN wants = Tids /\ DOMAIN owner = Mutexes /\ t \in Tids
        /\ "updates" \in Conds /\ DOMAIN queue = Conds /\ queue["updates"] \in Seq(Tids)
        /\ life[t] = "live"
    BY DEF Playing, BeadyType, Conds
  <1>1. 147 # TG(81) /\ 128 # TG(81)
    BY DEF TG
  <1>2. ASSUME At(t, 120), lock_and_wait(t, "updates", "updateLock", 128), Keep
        PROVE  BeadyInv'
    <2>1. /\ Goto(t, 128) /\ life' = life /\ grp' = grp /\ owner' = owner
          /\ queue' = [queue EXCEPT !["updates"] = Append(@, t)]
          /\ wants' = [wants EXCEPT ![t] = "updateLock"]
      BY <1>2 DEF lock_and_wait, Sleep, Quiet
    <2>2. /\ DOMAIN wants' = Tids /\ wants'[t] # NoMutex
          /\ \A u \in Tids \ {t} : wants'[u] = wants[u]
      BY <1>0, <2>1 DEF NoMutex
    <2>3. Others(t) /\ BeadyPlace(t)' /\ life'[t] = "live" /\ Head(stack'[t]) = 128
      BY <1>1, <2>1, <2>2, GotoPlace
    <2>4. Drawer(t) /\ Looking(t)
      BY <1>2 DEF At, Drawer, Looking, Drawing
    <2>5. PICK q : q = queue["updates"]
      OBVIOUS
    <2>6. queue'["updates"] = Append(q, t) /\ DOMAIN queue' = Conds
      BY <1>0, <2>1, <2>5
    <2>7. /\ Append(q, t) \in Seq(Tids)
          /\ \A i \in DOMAIN Append(q, t) :
               \/ Append(q, t)[i] = t
               \/ i \in DOMAIN q /\ Append(q, t)[i] = q[i]
      BY <1>0, <2>5
    <2>8. Sleepers'
      <3> SUFFICES ASSUME NEW i \in DOMAIN Append(q, t), NEW u, u = Append(q, t)[i]
                   PROVE  AsleepThere(u)'
        BY <2>6 DEF Sleepers
      <3>1. CASE u = t
        BY <1>0, <2>2, <2>3, <3>1 DEF AsleepThere
      <3>2. CASE u # t
        <4>1. AsleepThere(u)
          BY <2>5, <2>7, <3>2 DEF Playing, BeadyThreads, Sleepers, Over
        <4> QED
          BY <2>3, <3>2, <4>1 DEF Others, AsleepThere
      <3> QED
        BY <3>1, <3>2
    <2>9. BeadyThreads'
      BY <1>0, <2>3, <2>4, <2>8, ThreadsStay DEF Playing
    <2>10. BeadyType'
      BY <1>0, <1>2, <2>1, <2>2, <2>6, <2>7 DEF BeadyType, Keep
    <2>11. Fresh'
      <3>1. OwnerFits(t) /\ SameWorld
        BY <1>0, <1>2, <2>1, KeptWorld DEF OwnerFits
      <3>2. Head(stack[t]) \notin {206, 272}
        BY <1>2 DEF At
      <3>3. Fresh
        BY <1>0, <2>4 DEF Playing
      <3> QED
        BY <1>0, <2>3, <3>1, <3>2, <3>3, FreshStays
    <2> QED
      BY <2>9, <2>10, <2>11 DEF BeadyInv
  <1>3. ASSUME At(t, 120) \/ At(t, 128), Goto(t, 147), life' = life, grp' = grp,
               wants' = wants, queue' = queue, DOMAIN owner' = Mutexes,
               Store([updatePending |-> 0])
        PROVE  BeadyInv'
    <2>1. Others(t) /\ BeadyPlace(t)' /\ life'[t] = "live" /\ Head(stack'[t]) = 147
      BY <1>1, <1>3, GotoPlace
    <2>2. Head(stack[t]) \in {120, 128}
      BY <1>3 DEF At
    <2>3. (Drawer(t)' => Drawer(t)) /\ ((\E u \in Tids : Looking(u)') => Fresh')
      BY <2>1, <2>2, RequestTaken
    <2>4. DOMAIN data' = DOMAIN data
      BY <1>3 DEF Store, Assign
    <2>5. NoSleeper
      BY <1>0, <1>3, QueueFits
    <2> QED
      BY <1>0, <1>3, <2>1, <2>3, <2>4, <2>5, KnownStep
  <1>4. ASSUME At(t, 120), Step(t, 147), Store([updatePending |-> 0]) PROVE BeadyInv'
    <2>1. /\ Goto(t, 147) /\ life' = life /\ grp' = grp /\ wants' = wants
          /\ queue' = queue /\ owner' = owner
      BY <1>4 DEF Step, Quiet, sync
    <2> QED
      BY <1>0, <1>3, <1>4, <2>1
  <1>5. ASSUME At(t, 128), mutex_unlock(t, "updateLock", 147), Store([updatePending |-> 0])
        PROVE  BeadyInv'
    <2>1. /\ Goto(t, 147) /\ life' = life /\ grp' = grp /\ wants' = wants
          /\ queue' = queue /\ owner' = Released("updateLock")
      BY <1>5 DEF mutex_unlock, Quiet
    <2>2. DOMAIN owner' = Mutexes
      BY <1>0, <2>1 DEF Released
    <2> QED
      BY <1>3, <1>5, <2>1, <2>2
  <1> QED
    BY <1>2, <1>4, <1>5 DEF waitUpdate

LEMMA BeadyUpdates ==
  ASSUME NEW t, Playing(t), update(t)
  PROVE  BeadyInv'
  <1>0. /\ BeadyType /\ DOMAIN wants = Tids /\ DOMAIN owner = Mutexes /\ t \in Tids
        /\ life[t] = "live" /\ BeadyInv /\ prog = "beady_test" /\ prog' = prog
    BY DEF Playing, BeadyType, BeadyInv
  <1>1. 120 # TG(81) /\ 150 # TG(81)
    BY DEF TG
  <1>2. ASSUME At(t, 147), Leave(t, 1) PROVE BeadyInv'
    <2>1. Head(stack[t]) \notin {206, 272}
      BY <1>2 DEF At
    <2> QED
      BY <1>2, <2>1, CalmLeave
  <1>3. ASSUME At(t, 147), Step(t, 150), Keep PROVE BeadyInv'
    <2>1. Goto(t, 150) /\ life' = life /\ grp' = grp /\ UNCHANGED sync
      BY <1>3 DEF Step, Quiet
    <2>2. OwnerFits(t) /\ NoSleeper /\ wants' = wants /\ DOMAIN wants' = Tids /\ SameWorld
      BY <1>3, <2>1, SyncFits, KeptWorld
    <2>3. Others(t) /\ BeadyPlace(t)' /\ life'[t] = "live" /\ Head(stack'[t]) = 150
      BY <1>1, <2>1, <2>2, GotoPlace
    <2>4. Drawer(t) /\ ~Looking(t)' /\ Head(stack[t]) \notin {206, 272}
      BY <1>0, <1>1, <1>3, <2>3 DEF At, Drawer, Looking, Drawing
    <2> QED
      BY <1>0, <2>2, <2>3, <2>4, Awake, IdleStep
  <1>4. ASSUME At(t, 150), Step(t, 120), Store([shown |-> data.world]) PROVE BeadyInv'
    <2>1. Goto(t, 120) /\ life' = life /\ grp' = grp /\ UNCHANGED sync
      BY <1>4 DEF Step, Quiet
    <2>2. OwnerFits(t) /\ NoSleeper /\ wants' = wants /\ DOMAIN wants' = Tids
      BY <2>1, SyncFits
    <2>3. Others(t) /\ BeadyPlace(t)' /\ life'[t] = "live" /\ Head(stack'[t]) = 120
      BY <1>1, <2>1, <2>2, GotoPlace
    <2>4. Drawer(t)
      BY <1>4 DEF At, Drawer, Drawing
    <2>5. DOMAIN data' = DOMAIN data /\ data'.shown = data.world /\ data'.world = data.world
      BY <1>0, <1>4 DEF Store, Assign, BeadyType
    <2>6. Fresh'
      BY <2>5 DEF Fresh
    <2> QED
      BY <2>2, <2>3, <2>4, <2>5, <2>6, KnownStep DEF OwnerFits
  <1> QED
    BY <1>2, <1>3, <1>4, BeadyWaits DEF update

\* A thread moves something in the world, and will ask for a redraw.
LEMMA BeadyMoves ==
  ASSUME NEW t, Playing(t), NEW n \in {206, 272}, mutex_lock(t, "worldLock", n),
         NEW what, NEW d, Move(what, d)
  PROVE  BeadyInv'
  <1>0. /\ BeadyType /\ DOMAIN wants = Tids /\ DOMAIN owner = Mutexes /\ t \in Tids
        /\ "worldLock" \in Mutexes
    BY DEF Playing, BeadyType, Mutexes
  <1>1. n \in Calm /\ n \in Nat /\ n # TG(81)
    BY DEF Calm, TG
  <1>2. /\ Goto(t, n) /\ life' = life /\ grp' = grp /\ wants' = wants /\ queue' = queue
        /\ owner' = [owner EXCEPT !["worldLock"] = t]
    BY DEF mutex_lock, Quiet
  <1>3. Others(t) /\ BeadyPlace(t)' /\ life'[t] = "live" /\ Head(stack'[t]) = n
    BY <1>1, <1>2, GotoPlace
  <1>4. ~Drawer(t)'
    BY <1>1, <1>3, CalmIs
  <1>5. DOMAIN owner' = Mutexes /\ owner'["worldLock"] = t
    BY <1>0, <1>2
  <1>6. Fresh'
    BY <1>0, <1>3, <1>5 DEF Fresh, Asking
  <1>7. DOMAIN data' = DOMAIN data
    BY DEF Move, Store, Assign
  <1>8. NoSleeper
    BY <1>0, <1>2, QueueFits
  <1> QED
    BY <1>0, <1>2, <1>3, <1>4, <1>5, <1>6, <1>7, <1>8, KnownStep

LEMMA BeadyAsks ==
  ASSUME NEW t, Playing(t), NEW line, NEW n \in Calm, scheduleUpdate(t, line, n)
  PROVE  BeadyInv'
  <1>0. /\ BeadyType /\ DOMAIN wants = Tids /\ DOMAIN owner = Mutexes
        /\ "updates" \in Conds
    BY DEF Playing, BeadyType, Conds
  <1>1. n \in Nat /\ n # TG(81)
    BY DEF Calm
  <1>2. /\ Goto(t, n) /\ life' = life /\ grp' = grp /\ wants' = wants
        /\ queue' = OneWoken("updates") /\ owner' = Released("worldLock")
        /\ data' = Assign(data, [updatePending |-> 1])
    BY DEF scheduleUpdate, Quiet, Store
  <1>3. Others(t) /\ BeadyPlace(t)' /\ life'[t] = "live" /\ Head(stack'[t]) = n
    BY <1>1, <1>2, GotoPlace
  <1>4. ~Drawer(t)'
    BY <1>3, CalmIs
  <1>5. DOMAIN owner' = Mutexes
    BY <1>0, <1>2 DEF Released
  <1>6. DOMAIN data' = DOMAIN data /\ data'.updatePending = 1
    BY <1>0, <1>2 DEF Assign, BeadyType
  <1>7. Fresh'
    BY <1>6 DEF Fresh
  <1>8. NoSleeper
    BY <1>0, <1>2, QueueFits
  <1> QED
    BY <1>0, <1>2, <1>3, <1>4, <1>5, <1>6, <1>7, <1>8, KnownStep

LEMMA BeadyControls ==
  ASSUME NEW t, Playing(t), controlThread(t)
  PROVE  BeadyInv'
  <1>1. 197 \in Calm /\ 222 \in Calm /\ 224 \in Calm /\ "gameOver" \in Conds
    BY DEF Calm, TG, Conds
  <1>2. ASSUME mutex_lock(t, "worldLock", 206), NEW d, Move("p1Cursor", d)
        PROVE  BeadyInv'
    BY <1>2, BeadyMoves
  <1>3. ASSUME At(t, 197), Step(t, 222), Store([goFlag |-> 1]) PROVE BeadyInv'
    <2>1. Head(stack[t]) \notin {206, 272}
      BY <1>3 DEF At
    <2>2. SameWorld
      BY <1>3 DEF Store, Assign, SameWorld, Playing, BeadyType
    <2> QED
      BY <1>1, <1>3, <2>1, <2>2, CalmCalls
  <1>4. ASSUME At(t, 222), cond_signal(t, "gameOver", 224), Keep PROVE BeadyInv'
    <2>1. Head(stack[t]) \notin {206, 272} /\ SameWorld
      BY <1>4, KeptWorld DEF At
    <2> QED
      BY <1>1, <1>4, <2>1, CalmCalls
  <1>5. ASSUME At(t, 224), Leave(t, 2) PROVE BeadyInv'
    <2>1. Head(stack[t]) \notin {206, 272}
      BY <1>5 DEF At
    <2> QED
      BY <1>5, <2>1, CalmLeave
  <1> QED
    BY <1>1, <1>2, <1>3, <1>4, <1>5, BeadyAsks DEF controlThread

LEMMA BeadyTargets ==
  ASSUME NEW t, Playing(t), targetThread(t) \/ scoreThread(t)
  PROVE  BeadyInv'
  <1>1. 275 \in Calm /\ 245 \in Calm
    BY DEF Calm, TG
  <1>2. ASSUME mutex_lock(t, "worldLock", 272), NEW d, Move("targetPos", d)
        PROVE  BeadyInv'
    BY <1>2, BeadyMoves
  <1>3. ASSUME At(t, 275), Step(t, 245), Keep PROVE BeadyInv'
    <2>1. Head(stack[t]) \notin {206, 272} /\ SameWorld
      BY <1>3, KeptWorld DEF At
    <2> QED
      BY <1>1, <1>3, <2>1, CalmCalls
  <1>4. ASSUME At(t, 275) \/ At(t, 299), NEW v, Leave(t, v) PROVE BeadyInv'
    <2>1. Head(stack[t]) \notin {206, 272}
      BY <1>4 DEF At
    <2> QED
      BY <1>4, <2>1, CalmLeave
  <1> QED
    BY <1>1, <1>2, <1>3, <1>4, BeadyAsks DEF targetThread, scoreThread

\* main() makes a thread: the first of them draws.
LEMMA BeadyMakes ==
  ASSUME NEW t, Playing(t), NEW n \in 1 .. 4, At(t, 345 + n),
         NEW f \in {120, 197, 245, 299}, f = 120 => n = 1,
         NEW back \in Calm, back \notin {206, 272}, thrgrp_create(t, f, 0, back)
  PROVE  BeadyInv'
  <1>0. PICK w : w = Newest + 1
    OBVIOUS
  <1>1. /\ w \in Tids /\ life' = [life EXCEPT ![w] = "live"]
        /\ stack' = [stack EXCEPT ![t] = <<back>> \o Tail(@), ![w] = <<TG(81)>>]
        /\ UNCHANGED <<data, sync>>
        /\ grp' = [grp EXCEPT !.mem[w] = "args", !.func[w] = f]
    BY <1>0 DEF thrgrp_create, NewThread
  <1>2. life[w] = "free"
    <2>1. PICK k \in Tids : \A v \in Tids : life[v] # "free" <=> v <= k
      BY DEF Playing, GroupsInv, ThreadsInv
    <2>2. Newest = k
      BY <2>1, NewestIs
    <2>3. ~(w <= k)
      BY <1>0, <2>2 DEF Tids
    <2> QED
      BY <1>1, <2>1, <2>3
  <1>3. /\ DOMAIN life = Tids /\ DOMAIN stack = Tids /\ DOMAIN grp.func = Tids
        /\ stack[t] # <<>> /\ stack[t] \in Seq(Nat) /\ BeadyPlace(t)
        /\ t \in Tids /\ life[t] = "live" /\ w # t
        /\ prog = "beady_test" /\ prog' = prog
    <2>1. life[t] = "live" /\ t \in Tids /\ prog = "beady_test" /\ prog' = prog
          /\ BeadyPlace(t)
      BY DEF Playing, BeadyThreads
    <2>2. GroupsInv
      BY DEF Playing
    <2>3. DOMAIN grp.func = Tids
      BY <2>2 DEF GroupsInv, GroupType, GroupRecords
    <2>4. /\ DOMAIN life = Tids /\ DOMAIN stack = Tids
          /\ stack[t] # <<>> /\ stack[t] \in Seq(Nat)
      BY <2>1, <2>2 DEF GroupsInv, ThreadsInv, StackOK
    <2> QED
      BY <1>2, <2>1, <2>3, <2>4
  <1> DEFINE r == Topped(back, stack[t])
  <1>4. r = <<back>> \o Tail(stack[t])
    BY DEF Topped
  <1>r. /\ Len(r) = Len(stack[t]) /\ Head(r) = back
        /\ \A i \in 2 .. Len(r) : r[i] = stack[t][i]
    <2>1. back \in Nat
      BY DEF Calm
    <2>2. stack[t] \in Seq(Nat) /\ stack[t] # <<>>
      BY <1>3, Zenon
    <2> DEFINE old == stack[t]
    <2>3. old \in Seq(Nat) /\ old # <<>> /\ r = Topped(back, old)
      BY <2>2
    <2> HIDE DEF old, r
    <2>4. /\ Len(Topped(back, old)) = Len(old) /\ Head(Topped(back, old)) = back
          /\ \A i \in 2 .. Len(old) : Topped(back, old)[i] = old[i]
      BY <2>1, <2>3, TopReplaced
    <2>5. Len(r) = Len(old) /\ Head(r) = back /\ \A i \in 2 .. Len(r) : r[i] = old[i]
      BY <2>3, <2>4
    <2> QED
      BY <2>5 DEF old
  <1> HIDE DEF r
  <1>5. wants' = wants /\ owner' = owner /\ data' = data /\ queue' = queue
    BY <1>1 DEF sync
  <1>6. /\ stack'[t] = r /\ stack'[w] = <<TG(81)>> /\ life'[w] = "live" /\ life'[t] = "live"
        /\ \A u \in Tids \ {t, w} : stack'[u] = stack[u] /\ life'[u] = life[u]
    BY <1>1, <1>3, <1>4
  <1>7. grp'.func[w] = f /\ \A u \in Tids \ {w} : grp'.func[u] = grp.func[u]
    BY <1>1, <1>3 DEF Playing, GroupsInv, GroupType, GroupRecords
  <1>8. Head(<<TG(81)>>) = TG(81) /\ Len(<<TG(81)>>) = 1
    OBVIOUS
  <1>9. back # TG(81) /\ back \notin {346, 120, 128, 147, 150}
    BY DEF Calm
  <1>10. Head(stack[t]) = 345 + n
    BY DEF At
  <1>11. BeadyType'
    BY <1>1 DEF Playing, BeadyType, sync
  <1>12. \A u \in Tids : BeadyPlace(u)'
    <2>1. BeadyPlace(t)'
      <3>1. \A i \in 2 .. Len(r) : r[i] \in {363, TG(98)}
        BY <1>3, <1>r DEF BeadyPlace
      <3> QED
        BY <1>r, <1>6, <1>9, <3>1 DEF BeadyPlace
    <2>2. BeadyPlace(w)'
      BY <1>6, <1>7, <1>8 DEF BeadyPlace
    <2>3. ASSUME NEW u \in Tids \ {t, w} PROVE BeadyPlace(u)'
      BY <1>6, <1>7 DEF BeadyPlace, Playing, BeadyThreads
    <2> QED
      BY <2>1, <2>2, <2>3
  <1>13. ~Drawer(t)' /\ ~Looking(t)'
    BY <1>r, <1>6, <1>9 DEF Drawer, Looking, Drawing
  <1>14. Drawer(w)' => Drawer(t) /\ Looking(t)
    <2>1. TG(81) \notin {346, 120, 128, 147, 150}
      BY DEF TG
    <2>2. Drawer(w)' => f = 120
      BY <1>6, <1>7, <1>8, <2>1 DEF Drawer, Drawing
    <2>3. f = 120 => Head(stack[t]) = 346
      BY <1>10
    <2> QED
      BY <1>3, <2>2, <2>3 DEF Drawer, Looking, Drawing
  <1>15. ASSUME NEW u \in Tids \ {t, w}
         PROVE  (Drawer(u)' => Drawer(u)) /\ (Looking(u)' => Looking(u))
    BY <1>6, <1>7 DEF Drawer, Looking, Drawing
  <1>16. \A u, v \in Tids : Drawer(u)' /\ Drawer(v)' => u = v
    BY <1>3, <1>13, <1>14, <1>15 DEF Playing, BeadyThreads
  <1>17. Sleepers'
    <2> SUFFICES ASSUME NEW i \in DOMAIN queue["updates"], NEW u,
                        u = queue["updates"][i]
                 PROVE  AsleepThere(u)'
      BY <1>1 DEF Sleepers, sync
    <2>1. AsleepThere(u) /\ u # t
      BY Awake DEF Playing, BeadyThreads, Sleepers, Over
    <2>2. u # w
      BY <1>2, <2>1 DEF AsleepThere
    <2>3. /\ u \in Tids /\ life'[u] = "live" /\ stack'[u] = stack[u]
          /\ wants'[u] = wants[u]
      BY <1>6, <1>5, <2>1, <2>2 DEF AsleepThere
    <2> QED
      BY <2>1, <2>3 DEF AsleepThere
  <1>18. ASSUME NEW u \in Tids, Looking(u)' PROVE Fresh'
    <2>1. \E v \in Tids : Looking(v)
      <3>1. CASE u = w
        <4>1. Drawer(w)'
          BY <1>18, <3>1 DEF Looking, Drawer, Drawing
        <4> QED
          BY <1>3, <1>14, <4>1
      <3>2. CASE u # w
        BY <1>13, <1>15, <1>18, <3>2
      <3> QED
        BY <3>1, <3>2
    <2>2. Fresh
      BY <2>1 DEF Playing
    <2>3. Asking => Asking'
      <3> SUFFICES ASSUME Asking PROVE Asking'
        OBVIOUS
      <3>1. PICK v \in Tids : /\ v = owner["worldLock"] /\ life[v] = "live"
                              /\ Head(stack[v]) \in {206, 272}
        BY DEF Asking
      <3>2. v # w /\ v # t
        BY <1>2, <1>10, <3>1
      <3>3. /\ owner' = owner /\ stack'[v] = stack[v] /\ life'[v] = "live"
        BY <1>6, <1>5, <3>1, <3>2
      <3> QED
        BY <3>1, <3>3 DEF Asking
    <2> QED
      BY <1>1, <2>2, <2>3 DEF Fresh
  <1> QED
    BY <1>11, <1>12, <1>16, <1>17, <1>18 DEF BeadyInv, BeadyThreads

LEMMA TopPushed ==
  ASSUME NEW s \in Seq(Nat), s # <<>>, NEW a \in Nat, NEW b \in Nat, NEW r,
         r = <<a, b>> \o Tail(s)
  PROVE  /\ Len(s) \in Nat /\ Len(r) = Len(s) + 1 /\ Head(r) = a /\ r[2] = b
         /\ \A i \in 3 .. Len(r) : r[i] = s[i - 1] /\ i - 1 \in 2 .. Len(s)
  <1>1. Len(s) \in Nat \ {0}
    OBVIOUS
  <1>2. /\ r \in Seq(Nat) /\ Len(r) = Len(s) + 1 /\ r[1] = a /\ r[2] = b
        /\ \A i \in 3 .. Len(s) + 1 : r[i] = s[i - 1]
    BY <1>1
  <1>3. Head(r) = r[1]
    BY <1>1, <1>2
  <1>4. \A i \in 3 .. Len(r) : i \in 3 .. Len(s) + 1 /\ i - 1 \in 2 .. Len(s)
    BY <1>1, <1>2
  <1> QED
    BY <1>1, <1>2, <1>3, <1>4

LEMMA BeadyPlays ==
  ASSUME NEW t, Playing(t), beady_main(t)
  PROVE  BeadyInv'
  <1>0. /\ t \in Tids /\ life[t] = "live" /\ BeadyPlace(t) /\ DOMAIN stack = Tids
        /\ stack[t] # <<>> /\ stack[t] \in Seq(Nat)
    <2>1. t \in Tids /\ life[t] = "live" /\ BeadyPlace(t) /\ GroupsInv
      BY DEF Playing, BeadyThreads
    <2> QED
      BY <2>1 DEF GroupsInv, ThreadsInv, StackOK
  <1>1. /\ 357 \in Calm /\ 360 \in Calm /\ 363 \in Calm
        /\ \A n \in 1 .. 4 : (IF n = 4 THEN 355 ELSE 346 + n) \in Calm \ {206, 272}
        /\ "gameOver" \in Conds \ {"updates"} /\ "updates" \in Conds
    BY DEF Calm, TG, Conds
  <1>2. ASSUME NEW n \in 1 .. 4, At(t, 345 + n),
               thrgrp_create(t, <<120, 197, 245, 299>>[n], 0,
                             IF n = 4 THEN 355 ELSE 346 + n)
        PROVE  BeadyInv'
    <2>1. PICK f : f = <<120, 197, 245, 299>>[n]
      OBVIOUS
    <2>2. f \in {120, 197, 245, 299} /\ (f = 120 => n = 1)
      BY <2>1
    <2>3. PICK back \in Calm \ {206, 272} : back = IF n = 4 THEN 355 ELSE 346 + n
      BY <1>1
    <2> QED
      BY <1>2, <2>1, <2>2, <2>3, BeadyMakes
  <1>3. ASSUME At(t, 355), lock_and_wait(t, "gameOver", "worldLock", 357), Keep
        PROVE  BeadyInv'
    <2>1. Head(stack[t]) \notin {206, 272} /\ SameWorld
      BY <1>3, KeptWorld DEF At
    <2> QED
      BY <1>1, <1>3, <2>1, CalmCalls
  <1>4. ASSUME At(t, 357), mutex_unlock(t, "worldLock", 360), Keep PROVE BeadyInv'
    <2>1. Head(stack[t]) \notin {206, 272} /\ SameWorld
      BY <1>4, KeptWorld DEF At
    <2> QED
      BY <1>1, <1>4, <2>1, CalmCalls
  <1>5. ASSUME At(t, 360), cond_signal(t, "updates", 363), Keep PROVE BeadyInv'
    <2>1. Head(stack[t]) \notin {206, 272} /\ SameWorld
      BY <1>5, KeptWorld DEF At
    <2> QED
      BY <1>1, <1>5, <2>1, CalmCalls
  <1>6. ASSUME At(t, 363), Call(t, TG(170), 363), NEW l, Local(t, l) PROVE BeadyInv'
    <2>1. Head(stack[t]) \notin {206, 272} /\ SameWorld
      BY <1>6, KeptWorld DEF At
    <2>2. /\ stack' = [stack EXCEPT ![t] = <<TG(170), 363>> \o Tail(@)]
          /\ life' = life /\ grp' = grp /\ UNCHANGED sync
      BY <1>6 DEF Call, Quiet
    <2>3. OwnerFits(t) /\ NoSleeper /\ wants' = wants /\ DOMAIN wants' = Tids
      BY <2>2, SyncFits
    <2>4. TG(170) \in Nat /\ TG(170) \in Calm /\ TG(170) # TG(81)
      BY DEF TG, Calm
    <2>5. PICK a : a = TG(170)
      OBVIOUS
    <2>6. PICK r : r = <<a, 363>> \o Tail(stack[t])
      BY <2>4, <2>5
    <2>7. /\ Len(stack[t]) \in Nat /\ Len(r) = Len(stack[t]) + 1 /\ Head(r) = a
          /\ r[2] = 363
          /\ \A i \in 3 .. Len(r) : r[i] = stack[t][i - 1] /\ i - 1 \in 2 .. Len(stack[t])
      BY <1>0, <2>4, <2>5, <2>6, TopPushed
    <2>8. \A i \in 2 .. Len(r) : r[i] \in {363, TG(98)}
      <3>1. \A i \in 2 .. Len(stack[t]) : stack[t][i] \in {363, TG(98)}
        BY <1>0 DEF BeadyPlace
      <3>2. \A i \in 2 .. Len(r) : i = 2 \/ i \in 3 .. Len(r)
        BY <2>7
      <3> QED
        BY <2>7, <3>1, <3>2
    <2>9. stack'[t] = r /\ \A u \in Tids \ {t} : stack'[u] = stack[u]
      BY <1>0, <2>2, <2>5, <2>6
    <2>10. Others(t)
      BY <2>2, <2>3, <2>9 DEF Others
    <2>11. Head(r) = TG(170)
      BY <2>5, <2>7
    <2>12. BeadyPlace(t)'
      BY <2>4, <2>8, <2>9, <2>11 DEF BeadyPlace
    <2>13. ~Drawer(t)'
      BY <1>0, <2>2, <2>4, <2>9, <2>11, CalmIs
    <2> QED
      BY <2>1, <2>3, <2>10, <2>12, <2>13, CalmStep
  <1>7. ASSUME At(t, 363), thr_exit(t, 0), Keep PROVE BeadyInv'
    <2>1. Head(stack[t]) \notin {206, 272} /\ SameWorld
      BY <1>7, KeptWorld DEF At
    <2> QED
      BY <1>7, <2>1, CalmCalls
  <1> QED
    BY <1>2, <1>3, <1>4, <1>5, <1>6, <1>7, Zenon DEF beady_main

LEMMA BeadyKeeps ==
  ASSUME GroupsInv, CvarInv, BeadyInv, [Next]_vars
  PROVE  BeadyInv'
  <1>1. ASSUME NEW t \in Tids, ThreadStep(t) PROVE BeadyInv'
    <2>1. prog' = prog
      <3>1. CASE Library(t)
        BY <3>1, LibraryKeeps
      <3>2. CASE ~Library(t)
        BY <1>1, <3>2, ProgramSteps DEF GroupsInv, ProgramStep, Does
      <3> QED
        BY <3>1, <3>2
    <2> SUFFICES ASSUME prog = "beady_test" PROVE BeadyInv'
      BY <2>1 DEF BeadyInv
    <2>2. CASE Library(t)
      BY <2>2, BeadyLibrary
    <2>3. CASE ~Library(t)
      <3>1. update(t) \/ controlThread(t) \/ targetThread(t) \/ scoreThread(t)
            \/ beady_main(t)
        BY <1>1, <2>3 DEF ThreadStep
      <3>2. life[t] = "live" /\ wants[t] = NoMutex
        BY <3>1, Zenon
        DEF update, waitUpdate, controlThread, scheduleUpdate, targetThread,
            scoreThread, beady_main, At
      <3>3. Playing(t)
        BY <2>1, <3>2 DEF Playing, BeadyInv
      <3> QED
        BY <3>1, <3>3, BeadyUpdates, BeadyControls, BeadyTargets, BeadyPlays
    <2> QED
      BY <2>2, <2>3
  <1>2. CASE UNCHANGED vars
    <2>1. UNCHANGED <<prog, stack, data, owner, queue, wants, life, grp>>
      BY <1>2 DEF vars, sync
    <2> QED
      BY <2>1 DEF BeadyInv, BeadyType, BeadyThreads, BeadyPlace, Sleepers, Over, AsleepThere,
                  Drawer, Looking, Drawing, Fresh, Asking
  <1> QED
    BY <1>1, <1>2 DEF Next

LEMMA BeadyStarts ==
  ASSUME Init
  PROVE  BeadyInv
  <1> SUFFICES ASSUME prog = "beady_test" PROVE BeadyInv
    BY DEF BeadyInv
  <1>1. \A p, line, g, c : Begin(p, line, g, c) => prog = p
    BY DEF Begin
  <1>2. ~LockBegins
    BY <1>1 DEF LockBegins
  <1>3. ~ThreadBegins
    BY <1>1 DEF ThreadBegins
  <1>4. ~NibblesBegins
    BY <1>1 DEF NibblesBegins
  <1>5. CondBegins
    BY <1>2, <1>3, <1>4 DEF Init
  <1>6. PICK g : g = [updatePending |-> 0, goFlag |-> 0, moves |-> 0,
                      world |-> NewWorld, shown |-> BareScreen]
    OBVIOUS
  <1>7. Begin("beady_test", 346, g, NoCounts)
    BY <1>1, <1>5, <1>6 DEF CondBegins
  <1>8. /\ stack = [t \in Tids |-> IF t = Main THEN << 346 >> ELSE <<>>]
        /\ data = [x \in DOMAIN g \cup {"bad"} |-> IF x = "bad" THEN 0 ELSE g[x]]
        /\ owner = [m \in Mutexes |-> NULL]
        /\ queue = [c \in Conds |-> <<>>]
        /\ wants = [t \in Tids |-> NoMutex]
        /\ life = [t \in Tids |-> IF t = Main THEN "live" ELSE "free"]
    BY <1>7 DEF Begin
  <1>9. /\ DOMAIN data = {"updatePending", "goFlag", "moves", "world", "shown", "bad"}
        /\ data.moves = 0
    BY <1>6, <1>8
  <1>10. queue["updates"] = <<>> /\ DOMAIN queue = Conds
    BY <1>8 DEF Conds
  <1>11. BeadyType
    <2>1. <<>> \in Seq(Tids)
      OBVIOUS
    <2> QED
      BY <1>8, <1>9, <1>10, <2>1 DEF BeadyType
  <1>12. \A u \in Tids : life[u] = "live" => u = Main /\ stack[u] = << 346 >>
    BY <1>8
  <1>13. Head(<< 346 >>) = 346 /\ Len(<< 346 >>) = 1 /\ 346 # TG(81)
    BY DEF TG
  <1>14. \A u \in Tids : BeadyPlace(u)
    BY <1>12, <1>13 DEF BeadyPlace
  <1>15. \A u \in Tids : Drawer(u) => u = Main
    BY <1>12 DEF Drawer, Drawing
  <1>16. Sleepers
    BY <1>10 DEF Sleepers
  <1>17. Fresh
    BY <1>9 DEF Fresh
  <1> QED
    BY <1>11, <1>14, <1>15, <1>16, <1>17 DEF BeadyInv, BeadyThreads

LEMMA BeadySeen ==
  ASSUME BeadyInv
  PROVE  ScreenIsCurrent
  <1> SUFFICES ASSUME prog = "beady_test", data.moves > 0, owner["worldLock"] = NULL,
                      NEW t \in Tids, life[t] = "live",
                      NEW i \in DOMAIN queue["updates"], data.updatePending = 0
               PROVE  data.shown = data.world
    BY DEF ScreenIsCurrent
  <1>1. AsleepThere(queue["updates"][i])
    BY DEF BeadyInv, BeadyThreads, Sleepers, Over
  <1>2. Fresh
    BY <1>1 DEF AsleepThere, Looking, Drawing, BeadyInv
  <1>3. ~Asking
    BY MaxThreadsAssumption DEF Asking, Tids, NULL
  <1> QED
    BY <1>2, <1>3 DEF Fresh

(* No request to redraw is lost in beady_test: once something has moved,   *)
(* and its update thread sleeps, nobody is changing the world and no       *)
(* request is pending, the screen shows the world.  The screen starts with *)
(* neither bead nor cursor.  The drawer, the threads that change the world *)
(* and the end of the game may interleave in any way, for any number of    *)
(* moves.                                                                  *)
THEOREM ScreenCurrent == Spec => []ScreenIsCurrent
  <1>1. Init => BeadyInv
    BY BeadyStarts
  <1>2. GroupsInv /\ CvarInv /\ BeadyInv /\ [Next]_vars => BeadyInv'
    BY BeadyKeeps
  <1>3. BeadyInv => ScreenIsCurrent
    BY BeadySeen
  <1> QED
    BY <1>1, <1>2, <1>3, GroupsSound, PTL DEF Spec
=============================================================================
