----------------------------- MODULE LinkedList -----------------------------
(***************************************************************************)
(* The doubly linked list of user/libthread/linked_list.c: its pointers,   *)
(* and the nodes and thread_data records on the heap.                      *)
(*                                                                         *)
(* Every operation runs with condMutex or thread_list_mutex held, so it is *)
(* one step.  What is not one step is thr_join(): it keeps the node that   *)
(* list_find() returned over a cond_wait(), during which other threads     *)
(* insert and remove, and gives it to list_remove().                       *)
(***************************************************************************)
EXTENDS Naturals, Sequences, FiniteSets

CONSTANTS Nodes,  \* the addresses malloc() may return for a list_node_t
          Ids,    \* the threadIDs; the thread_data of an entry has its name
          NULL,
          Junk    \* what is read from memory that is not allocated

ASSUME ListAssumption == /\ NULL \notin Nodes /\ Junk \notin Nodes \cup Ids
                         /\ NULL # Junk
                         /\ IsFiniteSet(Nodes)

VARIABLES
  head, tail, count,     \* list_t
  next, prev, threadID,  \* list_node_t, of each address
  allocated,             \* the addresses at which a node is allocated
  records,               \* the threads whose thread_data is allocated
  taken,                 \* those whose thread_data was handed out by list_dequeue()
  found,                 \* the node that the joiner of each thread keeps
  role,                  \* what the list is used for, "none" when destroyed
  faulted                \* NULL or freed memory was accessed

fields == <<next, prev, threadID>>
vars == <<head, tail, count, fields, allocated, records, taken, found, role,
          faulted>>

Init == /\ head = NULL /\ tail = NULL /\ count = 0
        /\ next = [n \in Nodes |-> Junk]
        /\ prev = [n \in Nodes |-> Junk]
        /\ threadID = [n \in Nodes |-> Junk]
        /\ allocated = {} /\ records = {} /\ taken = {}
        /\ found = [id \in Ids |-> NULL]
        /\ role = "none" /\ faulted = FALSE

(* The step dereferences these pointers. *)
Dereference(pointers) == faulted' = ~(pointers \subseteq allocated)

(* A store to a field of a node, if there is such a node. *)
Store(field, n, value) == IF n \in Nodes THEN [field EXCEPT ![n] = value] ELSE field

(* free(n) of a node, after the stores to its neighbours: what was there   *)
(* is gone.                                                                *)
Free(n, newNext, newPrev) ==
  /\ allocated' = allocated \ {n}
  /\ next' = [newNext EXCEPT ![n] = Junk]
  /\ prev' = [newPrev EXCEPT ![n] = Junk]
  /\ threadID' = [threadID EXCEPT ![n] = Junk]

(* The nodes from a pointer on, along next or prev; a walk that does not   *)
(* end is cut when it has visited more nodes than there are.               *)
Walk(from, along) ==
  LET at[k \in 0..Cardinality(Nodes)] ==
        IF k = 0 THEN from
        ELSE IF at[k - 1] \in Nodes THEN along[at[k - 1]] ELSE NULL
      length == Cardinality({k \in 0..Cardinality(Nodes) : at[k] \in Nodes})
  IN [k \in 1..length |-> at[k - 1]]

-----------------------------------------------------------------------------
(* cond_init() and thr_init() *)
list_create(r) ==
  /\ role = "none"
  /\ role' = r
  /\ head' = NULL /\ tail' = NULL /\ count' = 0
  /\ UNCHANGED <<fields, allocated, records, taken, found, faulted>>

(* The caller allocates the thread_data of a thread that has none;         *)
(* list_insert() puts a node for it before the head.                       *)
InsertFirst(n) ==
  /\ head = NULL
  /\ head' = n /\ tail' = n
  /\ next' = [next EXCEPT ![n] = NULL]
  /\ prev' = [prev EXCEPT ![n] = NULL]
  /\ UNCHANGED faulted

(* An insertion at the end from which list_dequeue() takes. *)
InsertAfterTail(n) ==
  /\ head # NULL
  /\ Dereference({tail})
  /\ tail' = n
  /\ next' = [Store(next, tail, n) EXCEPT ![n] = NULL]
  /\ prev' = [prev EXCEPT ![n] = tail]
  /\ UNCHANGED head

InsertBeforeHead(n) ==
  /\ head # NULL
  /\ Dereference({head})
  /\ head' = n
  /\ next' = [next EXCEPT ![n] = head]
  /\ prev' = [Store(prev, head, n) EXCEPT ![n] = NULL]
  /\ UNCHANGED tail

list_insert(id, n) ==
  /\ role # "none" /\ id \notin records /\ n \notin allocated
  /\ InsertFirst(n) \/ InsertBeforeHead(n)
  /\ threadID' = [threadID EXCEPT ![n] = id]
  /\ allocated' = allocated \cup {n}
  /\ records' = records \cup {id}
  /\ count' = count + 1
  /\ UNCHANGED <<taken, found, role>>

(* malloc() of the node returns NULL, which is stored where the address of *)
(* the node would have been; the caller frees the thread_data again.       *)
list_insert_fails(id) ==
  /\ role # "none" /\ id \notin records
  /\ prev' = Store(prev, head, NULL)
  /\ UNCHANGED <<head, tail, count, next, threadID, allocated, records, taken,
                 found, role, faulted>>

(* A dequeue or a remove that forgets to move the tail. *)
TailStays(n) == tail
HeadAfter(n) == IF head = n THEN next[n] ELSE head
TailAfter(n) == IF tail = n THEN prev[n] ELSE tail

(* cond_signal() and cond_broadcast() dequeue only when count is not 0.    *)
(* The thread_data goes to the caller, and its thread frees it.            *)
list_dequeue ==
  /\ role = "waiters" /\ count # 0
  /\ Dereference({tail} \cup (IF tail \in Nodes THEN {prev[tail]} \ {NULL} ELSE {}))
  /\ IF faulted' THEN UNCHANGED <<head, tail, count, fields, allocated, taken>>
     ELSE /\ taken' = taken \cup {threadID[tail]}
          /\ head' = HeadAfter(tail)
          /\ tail' = TailAfter(tail)
          /\ count' = count - 1
          /\ Free(tail, Store(next, prev[tail], next[tail]), prev)
  /\ UNCHANGED <<records, found, role>>

free_taken(id) ==
  /\ id \in taken
  /\ taken' = taken \ {id}
  /\ records' = records \ {id}
  /\ UNCHANGED <<head, tail, count, fields, allocated, found, role, faulted>>

(* list_find(): the first node of that threadID from the head on.          *)
Find(id) ==
  LET w == Walk(head, next)
      hits == {i \in 1..Len(w) : threadID[w[i]] = id}
  IN IF hits = {} THEN NULL ELSE w[CHOOSE i \in hits : \A j \in hits : i <= j]

(* thr_join() finds the node of a thread that nobody else joins.  The      *)
(* assertion that there is one is a fault here.                            *)
list_find(id) ==
  /\ role = "threads" /\ id \in records \ taken /\ found[id] = NULL
  /\ found' = [found EXCEPT ![id] = Find(id)]
  /\ faulted' = (Find(id) \notin allocated)
  /\ UNCHANGED <<head, tail, count, fields, allocated, records, taken, role>>

(* The back pointers after a removal; first, one that leaves that of the   *)
(* following node alone.                                                   *)
BackStays(n) == prev
BackAfter(n) == Store(prev, next[n], prev[n])
CountDown == count - 1

(* list_remove() of the node that was found, at a later time. *)
list_remove(id) ==
  LET n == found[id]
  IN /\ role = "threads" /\ n # NULL
     /\ Dereference({n, next[n], prev[n]} \ {NULL})
     /\ IF faulted' THEN UNCHANGED <<head, tail, count, fields, allocated, records>>
        ELSE /\ head' = HeadAfter(n)
             /\ tail' = TailAfter(n)
             /\ count' = CountDown
             /\ records' = records \ {threadID[n]}
             /\ Free(n, Store(next, prev[n], next[n]), BackAfter(n))
     /\ found' = [found EXCEPT ![id] = NULL]
     /\ UNCHANGED <<taken, role>>

(* The callers destroy a list when its count is 0.  For a list that is not *)
(* empty the loop reads node->next after free(node).                       *)
list_destroy ==
  /\ role # "none" /\ count = 0
  /\ faulted' = (head # NULL)
  /\ head' = NULL /\ tail' = NULL
  /\ role' = "none"
  /\ UNCHANGED <<count, fields, allocated, records, taken, found>>

Next == /\ ~faulted
        /\ \/ \E r \in {"waiters", "threads"} : list_create(r)
           \/ \E id \in Ids :
                 \/ \E n \in Nodes : list_insert(id, n)
                 \/ list_insert_fails(id) \/ free_taken(id)
                 \/ list_find(id) \/ list_remove(id)
           \/ list_dequeue
           \/ list_destroy

Spec == Init /\ [][Next]_vars

-----------------------------------------------------------------------------
Pointers == Nodes \cup {NULL}

(* Fields hold nodes, NULL or what is left in freed memory, and count never *)
(* leaves the range of the nodes.                                           *)
TypeOK == /\ head \in Pointers /\ tail \in Pointers
          /\ count \in 0..Cardinality(Nodes)
          /\ next \in [Nodes -> Pointers \cup {Junk}]
          /\ prev \in [Nodes -> Pointers \cup {Junk}]
          /\ threadID \in [Nodes -> Ids \cup {Junk}]
          /\ allocated \subseteq Nodes
          /\ records \subseteq Ids /\ taken \subseteq records
          /\ found \in [Ids -> Pointers]
          /\ role \in {"none", "waiters", "threads"}
          /\ faulted \in BOOLEAN

(* No sequence of operations makes one of them follow NULL or the address  *)
(* of a freed node, and list_destroy() never gets as far as its read of a  *)
(* freed node: count, head and tail agree on when the list is empty.       *)
NoFault == ~faulted

(* The two directions of the list agree: the walk from the tail along prev *)
(* visits what the walk from the head along next does, in the opposite     *)
(* order; count is their number; and no node is allocated that is not on   *)
(* the list, so none leaks.                                                *)
MirrorImage ==
  LET f == Walk(head, next)
      b == Walk(tail, prev)
  IN /\ Len(f) = count /\ Len(b) = count
     /\ \A i \in 1..Len(f) : b[count + 1 - i] = f[i]
     /\ {f[i] : i \in 1..Len(f)} = allocated
     /\ Cardinality(allocated) = count

(* What the callers see of the list: the threadIDs, the oldest first. *)
Entries == LET b == Walk(tail, prev) IN [i \in 1..Len(b) |-> threadID[b[i]]]

Abstract == INSTANCE ListSpec WITH entries <- Entries

(* linked_list.c implements the sequence that cond.c and thread.c use it   *)
(* as: waiters leave in the order in which they came, and a removal takes  *)
(* away the given thread and leaves the others in their order.             *)
ImplementsList == Abstract!Spec
=============================================================================
