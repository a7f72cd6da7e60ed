----------------------------- MODULE MCPrograms -----------------------------
(* The test programs, with small arguments. *)
EXTENDS Programs

InLine(t, lines) == life[t] = "live" /\ Head(stack[t]) \in lines

(* A constraint on the schedules.  In beady_test, for the end, when nothing *)
(* is drawn any more: one thread at a time is on its way out through       *)
(* thrgrp_bottom(), and main() joins the first when all of them are.  In   *)
(* largetest: at most two threads are in the middle of thr(), and if there *)
(* are two, one has created a child and not stored it in spawn_order yet.  *)
FewBusy ==
  LET Children == Tids \ {Main}
      Leaving == {t \in Children : InLine(t, {TG(98), TG(110)})}
      Joining == 363 \in {stack[Main][i] : i \in DOMAIN stack[Main]}
      Busy == {t \in Children : life[t] = "live" /\ stack[t] # << 131 >>}
  IN /\ prog = "beady_test" =>
          /\ Cardinality(Leaving) <= 1
          /\ Joining => \/ stack[Main] = << 363 >> /\ mine[Main].i = 0
                        \/ \A t \in Children : life[t] # "live"
     /\ prog = "largetest" =>
          /\ Cardinality(Busy) <= 2
          /\ Cardinality(Busy) = 2 => \E t \in Busy : InLine(t, {149, 161})
=============================================================================
