------------------------------ MODULE Nibbles ------------------------------
(***************************************************************************)
(* 410user/progs/nibbles.c: the snake game.  The main thread plays; a      *)
(* second thread, made with the thread_fork system call itself, stores     *)
(* each key pressed in last_key without any lock.  The snake is a ring of  *)
(* SNAKE_MAX_LENGTH positions.  drawn is the set of positions inside the   *)
(* border where the screen shows something.  A step of the game runs from  *)
(* one read of last_key to the next.                                       *)
(*                                                                         *)
(* Two fields only record what has happened in this game: twice, whether   *)
(* the snake ate several apples in one move, and buried, the places where  *)
(* the last apple was put on the snake itself.                             *)
(***************************************************************************)
EXTENDS Client

CONSTANTS con_width, con_height, SNAKE_START_COL, SNAKE_START_ROW,
          SNAKE_MIN_LENGTH, SNAKE_MAX_LENGTH,
          APPLE_MAX_NUM, APPLE_MIN_WAIT, APPLE_MAX_WAIT,
          MaxApples  \* bound: the apples of a game

ASSUME NibblesAssumption ==
  /\ SNAKE_MIN_LENGTH \in Nat \ {0} /\ SNAKE_MAX_LENGTH \in Nat
  /\ SNAKE_MIN_LENGTH <= SNAKE_MAX_LENGTH
  /\ APPLE_MAX_NUM \in Nat

StartSpot == <<SNAKE_START_COL, SNAKE_START_ROW>>

NoKey == "-"
Keys == {"w", "s", "a", "d", "y", "n"}

Toward == [w |-> <<0, -1>>, s |-> <<0, 1>>, a |-> <<-1, 0>>, d |-> <<1, 0>>]
Opposite == [w |-> "s", s |-> "w", a |-> "d", d |-> "a"]

(* The slots of the array of apples; one with no valid apple is NoApple. *)
Spots == 0..(APPLE_MAX_NUM - 1)
NoApple == << >>

Valid(g) == {spot \in Spots : g.apples[spot] # NoApple}
Apples(g) == {g.apples[spot] : spot \in Valid(g)}

(* A new game: init_snake()'s snake, no apples, a blank screen.  The       *)
(* entries of the ring that init_snake() does not set keep what they held. *)
NewGame(spot) ==
  [length |-> SNAKE_MIN_LENGTH, start |-> SNAKE_MIN_LENGTH - 1,
   spot |-> [i \in 0..(SNAKE_MAX_LENGTH - 1) |->
               IF i < SNAKE_MIN_LENGTH THEN StartSpot ELSE spot[i]],
   direction |-> "d", apples |-> [i \in Spots |-> NoApple], next_apple |-> 0,
   placed |-> 0, drawn |-> {}, dead |-> FALSE, last_key |-> NoKey,
   twice |-> FALSE, buried |-> {}]

Ring(i) == (i + SNAKE_MAX_LENGTH) % SNAKE_MAX_LENGTH

(* The ring's positions from the one behind the head to the tail, and all. *)
Behind(g) == {g.spot[Ring(g.start - k)] : k \in 1..(g.length - 1)}
Snake(g) == {g.spot[Ring(g.start - k)] : k \in 0..(g.length - 1)}

AtWall(g) == LET head == g.spot[g.start]
             IN \/ head[1] <= 0 \/ head[1] >= con_width - 1
                \/ head[2] <= 0 \/ head[2] >= con_height - 2

BitesItself(g) == g.spot[g.start] \in Behind(g)

snake_disaster(g) == AtWall(g) \/ BitesItself(g)

(* The key pressed last turns the snake, unless it points backwards. *)
turn(g) == [g EXCEPT !.direction =
              IF g.last_key \in DOMAIN Toward /\ Opposite[g.last_key] # @
              THEN g.last_key ELSE @]

(* Where new_apple() may place one: genrand() / (UINT_MAX / n) + 1 is      *)
(* n + 1 for the largest random numbers, so the border is possible.        *)
Places == (1..(con_width - 1)) \X (1..(con_height - 2))

(* new_apple() uses the first free slot and takes any place, also one that *)
(* has an apple or a part of the snake already.                            *)
new_apple(g, place) ==
  IF Valid(g) = Spots \/ g.placed = MaxApples THEN g
  ELSE LET spot == CHOOSE i \in Spots \ Valid(g) :
                     \A j \in Spots \ Valid(g) : i <= j
       IN [g EXCEPT !.apples = [@ EXCEPT ![spot] = place],
                    !.placed = @ + 1, !.drawn = @ \cup {place},
                    !.buried = IF place \in Snake(g) THEN @ \cup {place}
                               ELSE @ \ {place}]

(* The entry of the position to erase, start being the new head's entry.   *)
(* The mistake before it counts from the old one.                          *)
OldTail(g, start) == Ring(start - 1 - g.length)
EndOfTail(g, start) == Ring(start - g.length)

(* move_snake(): the position length behind the new head is erased; every  *)
(* apple on the new head's place is eaten, and the snake grows by each.    *)
move_snake(g) ==
  LET start == Ring(g.start + 1)
      head == <<g.spot[g.start][1] + Toward[g.direction][1],
                g.spot[g.start][2] + Toward[g.direction][2]>>
      eaten == {spot \in Spots : g.apples[spot] = head}
      grown == g.length + Cardinality(eaten)
  IN [g EXCEPT !.start = start, !.spot = [@ EXCEPT ![start] = head],
               !.drawn = (@ \ {g.spot[EndOfTail(g, start)]}) \cup {head},
               !.apples = [spot \in Spots |-> IF spot \in eaten THEN NoApple
                                              ELSE @[spot]],
               !.length = IF grown > SNAKE_MAX_LENGTH THEN SNAKE_MAX_LENGTH
                          ELSE grown,
               !.twice = @ \/ Cardinality(eaten) > 1,
               !.buried = @ \ {head}]

(* One round of play_game()'s loop: turn, place an apple when it is time,  *)
(* move, and look whether the snake is dead.                               *)
play_game(t) ==
  LET due == data.next_apple = 0
  IN /\ At(t, 307) /\ ~data.dead /\ Step(t, 307)
     /\ \E place \in IF due THEN Places ELSE {NoApple},
           wait \in IF due THEN APPLE_MIN_WAIT..APPLE_MAX_WAIT
                          ELSE {data.next_apple} :
          LET turned == turn(data)
              moved == move_snake(IF due THEN new_apple(turned, place)
                                  ELSE turned)
          IN Store([moved EXCEPT !.next_apple = wait - 1,
                                 !.dead = snake_disaster(moved)])

(* nibbles(): play, ask, and play again or end the task. *)
nibbles(t) ==
  \/ At(t, 365) /\ Step(t, 307) /\ Store(NewGame(data.spot))
  \/ play_game(t)
  \/ At(t, 307) /\ data.dead /\ Step(t, 381) /\ Store([last_key |-> NoKey])
  \/ At(t, 381) /\ data.last_key = "y" /\ Step(t, 365) /\ Keep
  \/ At(t, 381) /\ data.last_key = "n" /\ task_vanish(t) /\ Keep

(* main() starts the key grabber and waits for a first key. *)
nibbles_main(t) ==
  \/ At(t, 412) /\ thr_create(t, "r", 460, 0, 424)
  \/ At(t, 424) /\ data.last_key # NoKey /\ Step(t, 365) /\ Keep

key_grab(t) == \E k \in Keys : /\ At(t, 460) /\ k # data.last_key
                               /\ Step(t, 460) /\ Store([last_key |-> k])
=============================================================================
