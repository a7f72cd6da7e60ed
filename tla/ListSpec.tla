------------------------------ MODULE ListSpec ------------------------------
(***************************************************************************)
(* What the lists of user/libthread/linked_list.c promise to cond.c and    *)
(* thread.c: a sequence of entries, the oldest first, that loses its       *)
(* oldest entry (a list of waiters) or a given one (the list of threads).  *)
(* CondVar.tla uses lists this way.                                        *)
(***************************************************************************)
EXTENDS Naturals, Sequences

CONSTANTS Ids

VARIABLES entries,  \* the threadIDs on the list, the oldest first
          role      \* what the list is used for, "none" when it is destroyed

vars == <<entries, role>>

On(id) == \E i \in 1..Len(entries) : entries[i] = id

Init == entries = <<>> /\ role = "none"

Create(r) == role = "none" /\ role' = r /\ entries' = <<>>

Insert(id) == /\ role # "none" /\ ~On(id)
              /\ entries' = Append(entries, id)
              /\ UNCHANGED role

Dequeue == /\ role = "waiters" /\ entries # <<>>
           /\ entries' = Tail(entries)
           /\ UNCHANGED role

(* The list without its i-th entry. *)
Without(i) == [k \in 1..(Len(entries) - 1) |->
                 IF k < i THEN entries[k] ELSE entries[k + 1]]

Remove(id) == /\ role = "threads"
              /\ \E i \in 1..Len(entries) : entries[i] = id /\ entries' = Without(i)
              /\ UNCHANGED role

Destroy == role # "none" /\ entries = <<>> /\ role' = "none" /\ UNCHANGED entries

Next == \/ \E r \in {"waiters", "threads"} : Create(r)
        \/ \E id \in Ids : Insert(id) \/ Remove(id)
        \/ Dequeue
        \/ Destroy

Spec == Init /\ [][Next]_vars
=============================================================================
