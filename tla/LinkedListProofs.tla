-------------------------- MODULE LinkedListProofs --------------------------
(***************************************************************************)
(* Proofs about LinkedList.tla, for any number of nodes and threads: the   *)
(* pointers always represent some sequence of nodes, read from the tail    *)
(* along prev and from the head along next; no operation follows NULL or a *)
(* freed node; and what the callers see is the sequence of ListSpec.       *)
(***************************************************************************)
EXTENDS LinkedList, FiniteSetTheorems, SequenceTheorems, WellFoundedInduction,
        TLAPS

(* The k nodes s, from the tail to the head, are linked both ways. *)
Chain(s, k, h, t, nx, pv) ==
  /\ s \in [1..k -> Nodes]
  /\ \A i, j \in 1..k : s[i] = s[j] => i = j
  /\ k = 0 => h = NULL /\ t = NULL
  /\ k # 0 => h = s[k] /\ t = s[1]
  /\ \A i \in 1..k : pv[s[i]] = IF i = k THEN NULL ELSE s[i + 1]
  /\ \A i \in 1..k : nx[s[i]] = IF i = 1 THEN NULL ELSE s[i - 1]

(* The sequence with a node added at the head, and without the j-th node. *)
Pushed(s, k, n) == [i \in 1..(k + 1) |-> IF i = k + 1 THEN n ELSE s[i]]
Dropped(s, k, j) == [i \in 1..(k - 1) |-> IF i < j THEN s[i] ELSE s[i + 1]]

(* The pointers of the others when the j-th node has been taken out. *)
Relinked(s, k, j, nx, pv, nx2, pv2) ==
  \A i \in (1..k) \ {j} :
     /\ nx2[s[i]] = IF i = j + 1 THEN nx[s[j]] ELSE nx[s[i]]
     /\ pv2[s[i]] = IF i = j - 1 THEN pv[s[j]] ELSE pv[s[i]]

(* The pointers when n has been put before the head. *)
PushedOnto(s, k, h, t, nx, pv, n, t2, nx2, pv2) ==
  /\ t2 = IF k = 0 THEN n ELSE t
  /\ nx2[n] = IF k = 0 THEN NULL ELSE h
  /\ pv2[n] = NULL
  /\ \A i \in 1..k : /\ nx2[s[i]] = nx[s[i]]
                     /\ pv2[s[i]] = IF i = k THEN n ELSE pv[s[i]]

(* Following "along" from "from" visits the k nodes s. *)
Follows(from, along, s, k) ==
  /\ s \in [1..k -> Nodes]
  /\ k = 0 => from = NULL
  /\ k # 0 => from = s[1]
  /\ \A i \in 1..k : along[s[i]] = IF i = k THEN NULL ELSE s[i + 1]

(* The nodes of the list, and no others, are allocated. *)
IsList(s) == /\ Chain(s, count, head, tail, next, prev)
             /\ allocated = {s[i] : i \in 1..count}

Listed == \E s \in [1..count -> Nodes] : IsList(s)

(* One node for every thread_data that the list keeps. *)
EntryIds == /\ \A n \in allocated : threadID[n] \in records \ taken
            /\ \A n, m \in allocated : threadID[n] = threadID[m] => n = m
            /\ \A id \in records \ taken : \E n \in allocated : threadID[n] = id

(* The node that a joiner keeps stays where it is. *)
FoundKept == \A id \in Ids : found[id] # NULL =>
                /\ role = "threads"
                /\ found[id] \in allocated /\ threadID[found[id]] = id

NoneEmpty == role = "none" => count = 0

(* The inductive invariant. *)
IInv == TypeOK /\ NoFault /\ Listed /\ EntryIds /\ FoundKept /\ NoneEmpty

-----------------------------------------------------------------------------
(* The sequences that insertions and removals produce. *)
LEMMA ChainPush ==
  ASSUME NEW k \in Nat, NEW s, NEW h, NEW t, NEW nx, NEW pv,
         Chain(s, k, h, t, nx, pv),
         NEW n \in Nodes, \A i \in 1..k : s[i] # n,
         NEW t2, NEW nx2, NEW pv2,
         PushedOnto(s, k, h, t, nx, pv, n, t2, nx2, pv2)
  PROVE  /\ Chain(Pushed(s, k, n), k + 1, n, t2, nx2, pv2)
         /\ {Pushed(s, k, n)[i] : i \in 1..(k + 1)} = {s[i] : i \in 1..k} \cup {n}
  <1> DEFINE S == Pushed(s, k, n)
  <1> USE DEF PushedOnto
  <1>1. /\ s \in [1..k -> Nodes]
        /\ \A i, j \in 1..k : s[i] = s[j] => i = j
        /\ k # 0 => h = s[k] /\ t = s[1]
        /\ \A i \in 1..k : pv[s[i]] = IF i = k THEN NULL ELSE s[i + 1]
        /\ \A i \in 1..k : nx[s[i]] = IF i = 1 THEN NULL ELSE s[i - 1]
    BY DEF Chain
  <1>2. /\ S \in [1..(k + 1) -> Nodes] /\ S[k + 1] = n
        /\ \A i \in 1..k : i \in 1..(k + 1) /\ i # k + 1 /\ S[i] = s[i]
        /\ \A i \in 1..(k + 1) : i # k + 1 => i \in 1..k
        /\ k + 1 \in 1..(k + 1)
    BY <1>1 DEF Pushed
  <1> HIDE DEF S
  <1>3. \A i, j \in 1..(k + 1) : S[i] = S[j] => i = j
    BY <1>1, <1>2
  <1>4. k + 1 # 0 /\ S[1] = t2
    <2>1. CASE k = 0
      BY <1>2, <2>1
    <2>2. CASE k # 0
      BY <1>1, <1>2, <2>2
    <2> QED
      BY <2>1, <2>2
  <1>5. ASSUME NEW i \in 1..(k + 1)
        PROVE  pv2[S[i]] = IF i = k + 1 THEN NULL ELSE S[i + 1]
    <2>1. CASE i = k + 1
      BY <1>2, <2>1
    <2>2. CASE i # k + 1 /\ i = k
      BY <1>2, <2>2
    <2>3. CASE i # k + 1 /\ i # k
      <3>1. i \in 1..k /\ i + 1 \in 1..k
        BY <2>3
      <3> QED
        BY <1>1, <1>2, <2>3, <3>1
    <2> QED
      BY <2>1, <2>2, <2>3
  <1>6. ASSUME NEW i \in 1..(k + 1)
        PROVE  nx2[S[i]] = IF i = 1 THEN NULL ELSE S[i - 1]
    <2>1. CASE i = k + 1 /\ k = 0
      BY <1>2, <2>1
    <2>2. CASE i = k + 1 /\ k # 0
      <3>1. i # 1 /\ i - 1 = k /\ k \in 1..k
        BY <2>2
      <3> QED
        BY <1>1, <1>2, <2>2, <3>1
    <2>3. CASE i # k + 1
      <3>1. i \in 1..k /\ (i # 1 => i - 1 \in 1..k)
        BY <2>3
      <3> QED
        BY <1>1, <1>2, <2>3, <3>1
    <2> QED
      BY <2>1, <2>2, <2>3
  <1>7. {S[i] : i \in 1..(k + 1)} = {s[i] : i \in 1..k} \cup {n}
    BY <1>2
  <1>8. Chain(S, k + 1, n, t2, nx2, pv2)
    BY <1>2, <1>3, <1>4, <1>5, <1>6 DEF Chain
  <1> QED
    BY <1>7, <1>8 DEF S

LEMMA ChainDrop ==
  ASSUME NEW k \in Nat, NEW j \in 1..k, NEW s, NEW h, NEW t, NEW nx, NEW pv,
         Chain(s, k, h, t, nx, pv),
         NEW h2, NEW t2, NEW nx2, NEW pv2,
         h2 = (IF h = s[j] THEN nx[s[j]] ELSE h),
         t2 = (IF t = s[j] THEN pv[s[j]] ELSE t),
         Relinked(s, k, j, nx, pv, nx2, pv2)
  PROVE  /\ Chain(Dropped(s, k, j), k - 1, h2, t2, nx2, pv2)
         /\ {Dropped(s, k, j)[i] : i \in 1..(k - 1)} = {s[i] : i \in 1..k} \ {s[j]}
  <1> DEFINE S == Dropped(s, k, j)
  <1> USE DEF Relinked
  <1>1. /\ s \in [1..k -> Nodes]
        /\ \A i, l \in 1..k : s[i] = s[l] => i = l
        /\ h = s[k] /\ t = s[1]
        /\ \A i \in 1..k : pv[s[i]] = IF i = k THEN NULL ELSE s[i + 1]
        /\ \A i \in 1..k : nx[s[i]] = IF i = 1 THEN NULL ELSE s[i - 1]
    BY DEF Chain
  <1>2. /\ S \in [1..(k - 1) -> Nodes]
        /\ \A i \in 1..(k - 1) : i < j => S[i] = s[i]
        /\ \A i \in 1..(k - 1) : ~(i < j) => S[i] = s[i + 1]
    BY <1>1 DEF Dropped
  <1> HIDE DEF S
  <1>3. \A i, l \in 1..(k - 1) : S[i] = S[l] => i = l
    <2>1. SUFFICES ASSUME NEW i \in 1..(k - 1), NEW l \in 1..(k - 1), S[i] = S[l]
                   PROVE  i = l
      OBVIOUS
    <2>2. i \in 1..k /\ i + 1 \in 1..k /\ l \in 1..k /\ l + 1 \in 1..k
      OBVIOUS
    <2>3. (IF i < j THEN i ELSE i + 1) = (IF l < j THEN l ELSE l + 1)
      BY <1>1, <1>2, <2>1, <2>2
    <2> QED
      BY <2>3
  <1>4. k - 1 = 0 => h2 = NULL /\ t2 = NULL
    BY <1>1
  <1>5. k - 1 # 0 => h2 = S[k - 1] /\ t2 = S[1]
    <2>1. SUFFICES ASSUME k - 1 # 0 PROVE h2 = S[k - 1] /\ t2 = S[1]
      OBVIOUS
    <2>2. 1 \in 1..(k - 1) /\ k - 1 \in 1..(k - 1) /\ 1 \in 1..k /\ k \in 1..k
      BY <2>1
    <2>3. h2 = S[k - 1]
      <3>1. CASE j = k
        BY <1>1, <1>2, <2>1, <2>2, <3>1
      <3>2. CASE j # k
        <4>1. h # s[j] /\ ~(k - 1 < j) /\ k - 1 + 1 = k
          BY <1>1, <2>2, <3>2
        <4> QED
          BY <1>1, <1>2, <2>2, <4>1
      <3> QED
        BY <3>1, <3>2
    <2>4. t2 = S[1]
      <3>1. CASE j = 1
        <4>1. t = s[j] /\ ~(1 < j) /\ 1 # k
          BY <1>1, <2>1, <3>1
        <4> QED
          BY <1>1, <1>2, <2>2, <3>1, <4>1
      <3>2. CASE j # 1
        <4>1. t # s[j] /\ 1 < j
          BY <1>1, <2>2, <3>2
        <4> QED
          BY <1>1, <1>2, <2>2, <4>1
      <3> QED
        BY <3>1, <3>2
    <2> QED
      BY <2>3, <2>4
  <1>6. ASSUME NEW i \in 1..(k - 1)
        PROVE  pv2[S[i]] = IF i = k - 1 THEN NULL ELSE S[i + 1]
    <2>1. i \in 1..k /\ i + 1 \in 1..k /\ (i # k - 1 => i + 1 \in 1..(k - 1))
      OBVIOUS
    <2>2. CASE i < j - 1
      <3>1. /\ i < j /\ i + 1 < j /\ i # k - 1 /\ i # k /\ i \in (1..k) \ {j}
            /\ i # j - 1
        BY <2>2
      <3> QED
        BY <1>1, <1>2, <2>1, <3>1
    <2>3. CASE i = j - 1
      <3>1. /\ i < j /\ ~(i + 1 < j) /\ i \in (1..k) \ {j} /\ i + 1 = j
            /\ i + 1 + 1 = j + 1 /\ (i = k - 1 <=> j = k)
        BY <2>3
      <3>2. pv2[S[i]] = pv[s[j]]
        BY <1>2, <2>3, <3>1
      <3>3. pv[s[j]] = IF j = k THEN NULL ELSE s[j + 1]
        BY <1>1
      <3>4. i # k - 1 => S[i + 1] = s[j + 1]
        BY <1>2, <2>1, <3>1
      <3> QED
        BY <3>1, <3>2, <3>3, <3>4
    <2>4. CASE i > j - 1
      <3>1. /\ ~(i < j) /\ ~(i + 1 < j) /\ i + 1 \in (1..k) \ {j}
            /\ i + 1 # j - 1 /\ (i = k - 1 <=> i + 1 = k)
        BY <2>4
      <3>2. pv2[S[i]] = pv[s[i + 1]]
        BY <1>2, <3>1
      <3>3. pv[s[i + 1]] = IF i + 1 = k THEN NULL ELSE s[i + 1 + 1]
        BY <1>1, <2>1
      <3>4. i # k - 1 => S[i + 1] = s[i + 1 + 1]
        BY <1>2, <2>1, <3>1
      <3> QED
        BY <3>1, <3>2, <3>3, <3>4
    <2> QED
      BY <2>2, <2>3, <2>4
  <1>7. ASSUME NEW i \in 1..(k - 1)
        PROVE  nx2[S[i]] = IF i = 1 THEN NULL ELSE S[i - 1]
    <2>1. i \in 1..k /\ i + 1 \in 1..k /\ (i # 1 => i - 1 \in 1..(k - 1))
      OBVIOUS
    <2>2. CASE i < j
      <3>1. i - 1 < j /\ i \in (1..k) \ {j} /\ i # j + 1
        BY <2>2
      <3> QED
        BY <1>1, <1>2, <2>1, <2>2, <3>1
    <2>3. CASE i = j
      <3>1. ~(i < j) /\ i - 1 < j /\ i + 1 = j + 1 /\ i + 1 \in (1..k) \ {j}
        BY <2>3
      <3>2. nx2[S[i]] = nx[s[j]]
        BY <1>2, <3>1
      <3>3. i # 1 => S[i - 1] = s[i - 1]
        BY <1>2, <2>1, <3>1
      <3> QED
        BY <1>1, <2>3, <3>2, <3>3
    <2>4. CASE i > j
      <3>1. /\ ~(i < j) /\ ~(i - 1 < j) /\ i + 1 # j + 1 /\ i # 1
            /\ i + 1 \in (1..k) \ {j} /\ i - 1 + 1 = i /\ i + 1 - 1 = i
            /\ i + 1 # 1
        BY <2>4
      <3>2. nx2[S[i]] = nx[s[i + 1]]
        BY <1>2, <3>1
      <3>3. nx[s[i + 1]] = s[i]
        BY <1>1, <2>1, <3>1
      <3>4. S[i - 1] = s[i]
        BY <1>2, <2>1, <3>1
      <3> QED
        BY <3>1, <3>2, <3>3, <3>4
    <2> QED
      BY <2>2, <2>3, <2>4
  <1>8. {S[i] : i \in 1..(k - 1)} = {s[i] : i \in 1..k} \ {s[j]}
    <2>1. ASSUME NEW i \in 1..(k - 1)
          PROVE  S[i] \in {s[l] : l \in 1..k} \ {s[j]}
      <3>1. PICK l \in 1..k : l # j /\ S[i] = s[l]
        <4>1. CASE i < j
          BY <1>2, <4>1
        <4>2. CASE ~(i < j)
          <5>1. i + 1 \in 1..k /\ i + 1 # j
            BY <4>2
          <5> QED
            BY <1>2, <4>2, <5>1
        <4> QED
          BY <4>1, <4>2
      <3> QED
        BY <1>1, <3>1
    <2>2. ASSUME NEW l \in 1..k, l # j PROVE \E i \in 1..(k - 1) : S[i] = s[l]
      <3>1. CASE l < j
        <4>1. l \in 1..(k - 1)
          BY <3>1
        <4> QED
          BY <1>2, <3>1, <4>1
      <3>2. CASE l > j
        <4>1. l - 1 \in 1..(k - 1) /\ ~(l - 1 < j) /\ l - 1 + 1 = l
          BY <3>2
        <4>2. S[l - 1] = s[l]
          BY <1>2, <4>1
        <4> QED
          BY <4>1, <4>2
      <3> QED
        BY <2>2, <3>1, <3>2
    <2> QED
      BY <2>1, <2>2
  <1>9. Chain(S, k - 1, h2, t2, nx2, pv2)
    BY <1>2, <1>3, <1>4, <1>5, <1>6, <1>7 DEF Chain
  <1> QED
    BY <1>8, <1>9 DEF S

-----------------------------------------------------------------------------
(* Reading the pointers.  The functions that follow them are recursive; a  *)
(* least counterexample replaces the induction.                            *)
LEMMA LeastNatural ==
  ASSUME NEW S \in SUBSET Nat, S # {}
  PROVE  \E x \in S : \A y \in S : x <= y
  <1> DEFINE R == {ss \in Nat \X Nat : ss[1] < ss[2]}
  <1>1. IsWellFoundedOn(R, Nat)
    BY NatLessThanWellFounded DEF OpToRel
  <1> HIDE DEF R
  <1>2. PICK x \in S : \A y \in S : <<y, x>> \notin R
    BY <1>1, WFMin
  <1>3. \A y \in S : ~(y < x)
    BY <1>2 DEF R
  <1> QED
    BY <1>3

(* A walk from the first of k linked nodes visits them in order. *)
LEMMA WalkIs ==
  ASSUME NEW from, NEW along, NEW k \in Nat, k <= Cardinality(Nodes),
         NEW s, Follows(from, along, s, k)
  PROVE  Walk(from, along) = s
  <1> USE ListAssumption DEF Follows
  <1> DEFINE N == Cardinality(Nodes)
             g == [j \in 0..N |-> IF j < k THEN s[j + 1] ELSE NULL]
             at[j \in 0..N] == IF j = 0 THEN from
                               ELSE IF at[j - 1] \in Nodes THEN along[at[j - 1]]
                               ELSE NULL
  <1>1. N \in Nat /\ k <= N
    BY FS_CardinalityType
  <1> HIDE DEF N, g, at
  <1>2. g = [j \in 0..N |-> IF j = 0 THEN from
                            ELSE IF g[j - 1] \in Nodes THEN along[g[j - 1]]
                            ELSE NULL]
    <2>1. SUFFICES ASSUME NEW j \in 0..N
                   PROVE  g[j] = IF j = 0 THEN from
                                 ELSE IF g[j - 1] \in Nodes THEN along[g[j - 1]]
                                 ELSE NULL
      BY DEF g
    <2> QED
      BY <1>1 DEF g
  <1>3. at = [j \in 0..N |-> IF j = 0 THEN from
                            ELSE IF at[j - 1] \in Nodes THEN along[at[j - 1]]
                            ELSE NULL]
    BY <1>2, Zenon DEF at
  <1>4. \A j \in 0..N : at[j] = g[j]
    <2>1. PICK Bad : Bad = {j \in 0..N : at[j] # g[j]}
      OBVIOUS
    <2>2. Bad \in SUBSET Nat
      BY <1>1, <2>1
    <2>3. ASSUME Bad # {} PROVE FALSE
      <3>1. PICK j \in Bad : \A i \in Bad : j <= i
        BY <2>2, <2>3, LeastNatural
      <3>2. j # 0
        BY <1>1, <1>2, <1>3, <2>1, <3>1
      <3>3. j - 1 \in 0..N /\ j \in 0..N /\ at[j - 1] = g[j - 1]
        BY <1>1, <2>1, <3>1, <3>2
      <3>4. at[j] = g[j]
        BY <1>2, <1>3, <3>2, <3>3
      <3> QED
        BY <2>1, <3>4, <3>1
    <2> QED
      BY <2>1, <2>3
  <1>5. Walk(from, along) = [i \in 1..Cardinality({j \in 0..N : at[j] \in Nodes}) |-> at[i - 1]]
    BY DEF Walk, N, at
  <1>6. {j \in 0..N : at[j] \in Nodes} = 0..(k - 1)
    BY <1>1, <1>4 DEF g
  <1>7. Cardinality(0..(k - 1)) = k
    BY FS_Interval
  <1>8. Walk(from, along) = [i \in 1..k |-> at[i - 1]]
    BY <1>5, <1>6, <1>7
  <1>9. \A i \in 1..k : at[i - 1] = s[i]
    BY <1>1, <1>4 DEF g
  <1> QED
    BY <1>8, <1>9

(* There are no more nodes on the list than there are nodes. *)
LEMMA ChainFits ==
  ASSUME NEW k \in Nat, NEW s \in [1..k -> Nodes],
         \A i, j \in 1..k : s[i] = s[j] => i = j
  PROVE  k <= Cardinality(Nodes) /\ Cardinality({s[i] : i \in 1..k}) = k
  <1>1. Cardinality(1..k) = k /\ IsFiniteSet(1..k)
    BY FS_Interval
  <1>2. s \in Injection(1..k, Nodes)
    BY DEF Injection, IsInjective
  <1>3. Cardinality(1..k) <= Cardinality(Nodes)
    BY <1>2, FS_Injection, ListAssumption
  <1>4. s \in Bijection(1..k, {s[i] : i \in 1..k})
    BY DEF Bijection, Injection, Surjection, IsInjective
  <1>5. ExistsBijection(1..k, {s[i] : i \in 1..k})
    BY <1>4 DEF ExistsBijection
  <1> QED
    BY <1>1, <1>3, <1>5, FS_Bijection

(* Both walks visit the nodes of the list. *)
LEMMA WalksAre ==
  ASSUME TypeOK, NEW s, IsList(s)
  PROVE  /\ Walk(tail, prev) = s
         /\ Walk(head, next) = [i \in 1..count |-> s[count + 1 - i]]
         /\ count <= Cardinality(Nodes)
  <1>1. PICK k \in Nat : k = count
    BY FS_CardinalityType, ListAssumption DEF TypeOK
  <1>2. /\ s \in [1..k -> Nodes]
        /\ \A i, j \in 1..k : s[i] = s[j] => i = j
        /\ k = 0 => head = NULL /\ tail = NULL
        /\ k # 0 => head = s[k] /\ tail = s[1]
        /\ \A i \in 1..k : prev[s[i]] = IF i = k THEN NULL ELSE s[i + 1]
        /\ \A i \in 1..k : next[s[i]] = IF i = 1 THEN NULL ELSE s[i - 1]
    BY <1>1 DEF IsList, Chain
  <1>3. k <= Cardinality(Nodes)
    BY <1>2, ChainFits
  <1>4. Walk(tail, prev) = s
    <2>1. Follows(tail, prev, s, k)
      BY <1>2 DEF Follows
    <2> QED
      BY <1>3, <2>1, WalkIs
  <1>5. PICK r : r = [i \in 1..k |-> s[k + 1 - i]]
    OBVIOUS
  <1>6. r \in [1..k -> Nodes] /\ (k # 0 => head = r[1])
    BY <1>2, <1>5
  <1>7. \A i \in 1..k : next[r[i]] = IF i = k THEN NULL ELSE r[i + 1]
    <2>1. SUFFICES ASSUME NEW i \in 1..k
                   PROVE  next[r[i]] = IF i = k THEN NULL ELSE r[i + 1]
      OBVIOUS
    <2>2. k + 1 - i \in 1..k /\ (k + 1 - i = 1 <=> i = k)
          /\ (i # k => i + 1 \in 1..k /\ k + 1 - (i + 1) = k + 1 - i - 1)
      OBVIOUS
    <2> QED
      BY <1>2, <1>5, <2>2
  <1>8. Walk(head, next) = r
    <2>1. Follows(head, next, r, k)
      BY <1>2, <1>6, <1>7 DEF Follows
    <2> QED
      BY <1>3, <2>1, WalkIs
  <1> QED
    BY <1>1, <1>3, <1>4, <1>5, <1>8

(* list_find() finds the node of every thread that is on the list. *)
LEMMA FindFinds ==
  ASSUME TypeOK, EntryIds, NEW s, IsList(s), NEW id \in records \ taken
  PROVE  Find(id) \in allocated /\ threadID[Find(id)] = id
  <1>1. PICK w : w = Walk(head, next) /\ w = [i \in 1..count |-> s[count + 1 - i]]
    BY WalksAre
  <1>2. count \in Nat /\ allocated = {s[i] : i \in 1..count}
    BY FS_CardinalityType, ListAssumption DEF TypeOK, IsList
  <1>3. /\ \A i \in 1..count : w[i] \in allocated
        /\ \A n \in allocated : \E i \in 1..count : w[i] = n
        /\ \A i, j \in 1..count : w[i] = w[j] => i = j
    <2>1. \A i \in 1..count : count + 1 - i \in 1..count /\ w[i] = s[count + 1 - i]
      BY <1>1, <1>2
    <2>2. \A i \in 1..count : w[i] \in allocated
      BY <1>2, <2>1
    <2>3. ASSUME NEW n \in allocated PROVE \E i \in 1..count : w[i] = n
      <3>1. PICK j \in 1..count : n = s[j]
        BY <1>2
      <3>2. count + 1 - j \in 1..count /\ count + 1 - (count + 1 - j) = j
        BY <1>2
      <3> QED
        BY <2>1, <3>1, <3>2
    <2>4. \A i, j \in 1..count : s[i] = s[j] => i = j
      BY DEF IsList, Chain
    <2>5. ASSUME NEW i \in 1..count, NEW j \in 1..count, w[i] = w[j] PROVE i = j
      <3>1. count + 1 - i = count + 1 - j
        BY <2>1, <2>4, <2>5
      <3> QED
        BY <1>2, <3>1
    <2> QED
      BY <2>2, <2>3, <2>5
  <1>4. Len(w) = count
    BY <1>1, <1>2
  <1>5. PICK n \in allocated : threadID[n] = id
    BY DEF EntryIds
  <1>6. PICK i \in 1..count : w[i] = n
    BY <1>3
  <1>7. PICK hits : hits = {j \in 1..Len(w) : threadID[w[j]] = id}
    OBVIOUS
  <1>8. hits = {i}
    BY <1>3, <1>4, <1>5, <1>6, <1>7 DEF EntryIds
  <1>9. PICK c : c = CHOOSE j \in hits : \A l \in hits : j <= l
    OBVIOUS
  <1>10. c = i
    <2>1. i \in hits /\ \A l \in hits : i <= l
      BY <1>2, <1>8
    <2>2. c \in hits
      BY <1>9, <2>1
    <2> QED
      BY <1>8, <2>2
  <1>11. Find(id) = IF hits = {} THEN NULL
                    ELSE w[CHOOSE j \in hits : \A l \in hits : j <= l]
    BY <1>1, <1>7 DEF Find
  <1>12. Find(id) = n
    BY <1>6, <1>8, <1>9, <1>10, <1>11
  <1> QED
    BY <1>5, <1>12

-----------------------------------------------------------------------------
(* What the operations do to the list.                                     *)
LEMMA ListFacts ==
  ASSUME TypeOK, NEW s, IsList(s)
  PROVE  /\ count \in Nat /\ s \in [1..count -> Nodes]
         /\ \A i, j \in 1..count : s[i] = s[j] => i = j
         /\ count = 0 => head = NULL /\ tail = NULL
         /\ count # 0 => /\ count \in 1..count /\ 1 \in 1..count
                         /\ head = s[count] /\ tail = s[1]
         /\ \A i \in 1..count : prev[s[i]] = IF i = count THEN NULL ELSE s[i + 1]
         /\ \A i \in 1..count : next[s[i]] = IF i = 1 THEN NULL ELSE s[i - 1]
         /\ \A i \in 1..count : s[i] \in allocated
         /\ \A n \in allocated : \E i \in 1..count : s[i] = n
         /\ head = NULL <=> count = 0
  <1>1. count \in Nat
    BY FS_CardinalityType, ListAssumption DEF TypeOK
  <1>2. /\ s \in [1..count -> Nodes]
        /\ \A i, j \in 1..count : s[i] = s[j] => i = j
        /\ count = 0 => head = NULL /\ tail = NULL
        /\ count # 0 => head = s[count] /\ tail = s[1]
        /\ \A i \in 1..count : prev[s[i]] = IF i = count THEN NULL ELSE s[i + 1]
        /\ \A i \in 1..count : next[s[i]] = IF i = 1 THEN NULL ELSE s[i - 1]
        /\ allocated = {s[i] : i \in 1..count}
    BY DEF IsList, Chain
  <1>3. count # 0 => count \in 1..count /\ 1 \in 1..count
    BY <1>1
  <1>4. head = NULL <=> count = 0
    BY <1>2, <1>3, ListAssumption
  <1> QED
    BY <1>1, <1>2, <1>3, <1>4

(* list_insert() puts the node before the head. *)
LEMMA InsertEffect ==
  ASSUME TypeOK, NEW s, IsList(s), NEW id, NEW n \in Nodes, list_insert(id, n),
         NoFault
  PROVE  /\ Chain(Pushed(s, count, n), count + 1, head', tail', next', prev')
         /\ allocated' = {Pushed(s, count, n)[i] : i \in 1..(count + 1)}
         /\ count' = count + 1 /\ faulted' = FALSE
         /\ head' \in Nodes /\ tail' \in Nodes
         /\ next' \in [Nodes -> Pointers \cup {Junk}]
         /\ prev' \in [Nodes -> Pointers \cup {Junk}]
  <1>1. /\ count \in Nat /\ s \in [1..count -> Nodes]
        /\ \A i, j \in 1..count : s[i] = s[j] => i = j
        /\ count # 0 => /\ count \in 1..count /\ 1 \in 1..count
                        /\ head = s[count] /\ tail = s[1]
        /\ \A i \in 1..count : s[i] \in allocated
        /\ head = NULL <=> count = 0
    BY ListFacts
  <1>2. /\ n \notin allocated /\ count' = count + 1
        /\ allocated' = allocated \cup {n}
        /\ InsertFirst(n) \/ InsertBeforeHead(n)
    BY DEF list_insert
  <1>3. \A i \in 1..count : s[i] # n /\ s[i] \in Nodes
    BY <1>1, <1>2
  <1>types. /\ next \in [Nodes -> Pointers \cup {Junk}]
            /\ prev \in [Nodes -> Pointers \cup {Junk}]
            /\ NULL \in Pointers \cup {Junk}
            /\ \A m \in Nodes : m \in Pointers \cup {Junk}
            /\ faulted = FALSE /\ allocated = {s[i] : i \in 1..count}
    BY DEF TypeOK, NoFault, Pointers, IsList
  <1>4. /\ head' = n /\ tail' = (IF count = 0 THEN n ELSE tail)
        /\ next'[n] = (IF count = 0 THEN NULL ELSE head) /\ prev'[n] = NULL
        /\ \A i \in 1..count : next'[s[i]] = next[s[i]]
        /\ \A i \in 1..count : prev'[s[i]] = IF i = count THEN n ELSE prev[s[i]]
        /\ faulted' = FALSE
        /\ next' \in [Nodes -> Pointers \cup {Junk}]
        /\ prev' \in [Nodes -> Pointers \cup {Junk}]
    <2>1. CASE count = 0
      <3>1. /\ head' = n /\ tail' = n /\ faulted' = faulted
            /\ next' = [next EXCEPT ![n] = NULL]
            /\ prev' = [prev EXCEPT ![n] = NULL]
        BY <1>1, <1>2, <2>1 DEF InsertFirst, InsertBeforeHead
      <3> QED
        BY <1>1, <1>types, <2>1, <3>1
    <2>2. CASE count # 0
      <3>1. /\ head' = n /\ tail' = tail /\ head \in Nodes /\ head \in allocated
            /\ next' = [next EXCEPT ![n] = head]
            /\ prev' = [Store(prev, head, n) EXCEPT ![n] = NULL]
            /\ faulted' = ~({head} \subseteq allocated)
        BY <1>1, <1>2, <1>3, <2>2 DEF InsertFirst, InsertBeforeHead, Dereference
      <3>2. PICK back : back = [prev EXCEPT ![head] = n]
        OBVIOUS
      <3>3. prev' = [back EXCEPT ![n] = NULL]
        BY <3>1, <3>2 DEF Store
      <3>4. back \in [Nodes -> Pointers \cup {Junk}]
        BY <1>types, <3>1, <3>2
      <3>5. \A i \in 1..count : s[i] = head <=> i = count
        BY <1>1, <2>2
      <3>6. \A i \in 1..count : prev'[s[i]] = IF i = count THEN n ELSE prev[s[i]]
        BY <1>3, <1>types, <3>1, <3>2, <3>3, <3>4, <3>5
      <3>7. \A i \in 1..count : next'[s[i]] = next[s[i]]
        BY <1>3, <1>types, <3>1
      <3>8. /\ next'[n] = head /\ prev'[n] = NULL /\ faulted' = FALSE
            /\ next' \in [Nodes -> Pointers \cup {Junk}]
            /\ prev' \in [Nodes -> Pointers \cup {Junk}]
        BY <1>types, <3>1, <3>3, <3>4
      <3> QED
        BY <2>2, <3>1, <3>6, <3>7, <3>8
    <2> QED
      BY <2>1, <2>2
  <1>5. Chain(s, count, head, tail, next, prev)
    BY DEF IsList
  <1>6. /\ Chain(Pushed(s, count, n), count + 1, n, tail', next', prev')
        /\ {Pushed(s, count, n)[i] : i \in 1..(count + 1)}
              = {s[i] : i \in 1..count} \cup {n}
    <2>1. count \in Nat /\ \A i \in 1..count : s[i] # n
      BY <1>1, <1>3
    <2>2. /\ tail' = (IF count = 0 THEN n ELSE tail)
          /\ next'[n] = (IF count = 0 THEN NULL ELSE head) /\ prev'[n] = NULL
          /\ \A i \in 1..count : next'[s[i]] = next[s[i]]
          /\ \A i \in 1..count : prev'[s[i]] = IF i = count THEN n ELSE prev[s[i]]
      BY <1>4
    <2>3. PushedOnto(s, count, head, tail, next, prev, n, tail', next', prev')
      BY <2>2 DEF PushedOnto
    <2> QED
      BY <1>5, <2>1, <2>3, ChainPush
  <1>7. tail' \in Nodes
    BY <1>1, <1>3, <1>4
  <1> QED
    BY <1>2, <1>4, <1>6, <1>7, <1>types

(* Taking the j-th node out, as list_dequeue() and list_remove() do. *)
LEMMA DropEffect ==
  ASSUME TypeOK, NEW s, IsList(s), NEW j \in 1..count, NEW n, n = s[j],
         head' = HeadAfter(n), tail' = TailAfter(n),
         Free(n, Store(next, prev[n], next[n]), Store(prev, next[n], prev[n]))
  PROVE  /\ Chain(Dropped(s, count, j), count - 1, head', tail', next', prev')
         /\ allocated' = {Dropped(s, count, j)[i] : i \in 1..(count - 1)}
         /\ allocated' = allocated \ {n}
         /\ head' \in Pointers /\ tail' \in Pointers
         /\ next' \in [Nodes -> Pointers \cup {Junk}]
         /\ prev' \in [Nodes -> Pointers \cup {Junk}]
         /\ threadID' = [threadID EXCEPT ![n] = Junk]
  <1>1. /\ count \in Nat /\ s \in [1..count -> Nodes]
        /\ \A i, l \in 1..count : s[i] = s[l] => i = l
        /\ count # 0 => /\ count \in 1..count /\ 1 \in 1..count
                        /\ head = s[count] /\ tail = s[1]
        /\ \A i \in 1..count : prev[s[i]] = IF i = count THEN NULL ELSE s[i + 1]
        /\ \A i \in 1..count : next[s[i]] = IF i = 1 THEN NULL ELSE s[i - 1]
    BY ListFacts
  <1>types. /\ next \in [Nodes -> Pointers \cup {Junk}]
            /\ prev \in [Nodes -> Pointers \cup {Junk}]
            /\ head \in Pointers /\ tail \in Pointers
            /\ NULL \in Pointers /\ \A m \in Nodes : m \in Pointers
            /\ allocated = {s[i] : i \in 1..count}
            /\ NULL \notin Nodes
    BY ListAssumption DEF TypeOK, Pointers, IsList
  <1>2. PICK front, back : /\ front = Store(next, prev[n], next[n])
                           /\ back = Store(prev, next[n], prev[n])
    OBVIOUS
  <1>3. /\ allocated' = allocated \ {n}
        /\ next' = [front EXCEPT ![n] = Junk]
        /\ prev' = [back EXCEPT ![n] = Junk]
        /\ threadID' = [threadID EXCEPT ![n] = Junk]
    BY <1>2 DEF Free
  <1>4. n \in Nodes /\ prev[n] \in Pointers /\ next[n] \in Pointers
    <2>1. /\ n \in Nodes
          /\ prev[n] = IF j = count THEN NULL ELSE s[j + 1]
          /\ next[n] = IF j = 1 THEN NULL ELSE s[j - 1]
      BY <1>1
    <2>2. (j # count => j + 1 \in 1..count) /\ (j # 1 => j - 1 \in 1..count)
      BY <1>1
    <2> QED
      BY <1>1, <1>types, <2>1, <2>2
  <1>5. /\ front \in [Nodes -> Pointers \cup {Junk}]
        /\ back \in [Nodes -> Pointers \cup {Junk}]
    BY <1>types, <1>2, <1>4 DEF Store
  <1>6. ASSUME NEW i \in (1..count) \ {j}
        PROVE  /\ next'[s[i]] = IF i = j + 1 THEN next[s[j]] ELSE next[s[i]]
               /\ prev'[s[i]] = IF i = j - 1 THEN prev[s[j]] ELSE prev[s[i]]
    <2>1. s[i] # n /\ s[i] \in Nodes
      BY <1>1
    <2>2. next'[s[i]] = front[s[i]] /\ prev'[s[i]] = back[s[i]]
      BY <1>3, <1>5, <2>1
    <2>3. prev[n] = s[i] <=> i = j + 1
      <3>1. CASE j = count
        <4>1. prev[n] = NULL /\ i # j + 1
          BY <1>1, <3>1
        <4> QED
          BY <1>types, <2>1, <4>1
      <3>2. CASE j # count
        <4>1. prev[n] = s[j + 1] /\ j + 1 \in 1..count
          BY <1>1, <3>2
        <4> QED
          BY <1>1, <4>1
      <3> QED
        BY <3>1, <3>2
    <2>4. next[n] = s[i] <=> i = j - 1
      <3>1. CASE j = 1
        <4>1. next[n] = NULL /\ i # j - 1
          BY <1>1, <3>1
        <4> QED
          BY <1>types, <2>1, <4>1
      <3>2. CASE j # 1
        <4>1. next[n] = s[j - 1] /\ j - 1 \in 1..count
          BY <1>1, <3>2
        <4> QED
          BY <1>1, <4>1
      <3> QED
        BY <3>1, <3>2
    <2>5. front[s[i]] = IF prev[n] = s[i] THEN next[n] ELSE next[s[i]]
      BY <1>2, <1>types, <2>1 DEF Store
    <2>6. back[s[i]] = IF next[n] = s[i] THEN prev[n] ELSE prev[s[i]]
      BY <1>2, <1>types, <2>1 DEF Store
    <2> QED
      BY <2>2, <2>3, <2>4, <2>5, <2>6
  <1>7. Chain(s, count, head, tail, next, prev)
    BY DEF IsList
  <1>8. /\ head' = (IF head = s[j] THEN next[s[j]] ELSE head)
        /\ tail' = (IF tail = s[j] THEN prev[s[j]] ELSE tail)
    BY DEF HeadAfter, TailAfter
  <1>9. /\ Chain(Dropped(s, count, j), count - 1, head', tail', next', prev')
        /\ {Dropped(s, count, j)[i] : i \in 1..(count - 1)}
              = {s[i] : i \in 1..count} \ {s[j]}
    <2>1. count \in Nat
      BY <1>1
    <2>2. Relinked(s, count, j, next, prev, next', prev')
      BY <1>6 DEF Relinked
    <2> QED
      BY <1>7, <1>8, <2>1, <2>2, ChainDrop
  <1>10. /\ head' \in Pointers /\ tail' \in Pointers
         /\ next' \in [Nodes -> Pointers \cup {Junk}]
         /\ prev' \in [Nodes -> Pointers \cup {Junk}]
    BY <1>3, <1>4, <1>5, <1>8, <1>types
  <1> QED
    BY <1>3, <1>9, <1>10, <1>types

-----------------------------------------------------------------------------
(* The invariant is inductive. *)
LEMMA NewList ==
  ASSUME NEW S, NEW k \in Nat, Chain(S, k, head', tail', next', prev'),
         allocated' = {S[i] : i \in 1..k}, count' = k
  PROVE  /\ IsList(S)' /\ Listed' /\ count' \in 0..Cardinality(Nodes)
         /\ allocated' \subseteq Nodes
  <1>1. S \in [1..k -> Nodes] /\ \A i, j \in 1..k : S[i] = S[j] => i = j
    BY DEF Chain
  <1>2. k <= Cardinality(Nodes) /\ Cardinality(Nodes) \in Nat
    BY <1>1, ChainFits, FS_CardinalityType, ListAssumption
  <1>3. IsList(S)'
    BY DEF IsList
  <1>4. Listed'
    BY <1>1, <1>3 DEF Listed
  <1> QED
    BY <1>1, <1>2, <1>3, <1>4

LEMMA InitInv ==
  ASSUME Init
  PROVE  IInv
  <1>1. Cardinality(Nodes) \in Nat
    BY FS_CardinalityType, ListAssumption
  <1>2. TypeOK
    <2>1. head \in Pointers /\ tail \in Pointers
      BY DEF Init, Pointers
    <2>2. count \in 0..Cardinality(Nodes)
      BY <1>1 DEF Init
    <2>3. /\ next \in [Nodes -> Pointers \cup {Junk}]
          /\ prev \in [Nodes -> Pointers \cup {Junk}]
          /\ threadID \in [Nodes -> Ids \cup {Junk}]
      BY DEF Init
    <2>4. /\ allocated \subseteq Nodes /\ records \subseteq Ids
          /\ taken \subseteq records /\ found \in [Ids -> Pointers]
      BY DEF Init, Pointers
    <2>5. role \in {"none", "waiters", "threads"} /\ faulted \in BOOLEAN
      BY DEF Init
    <2> QED
      BY <2>1, <2>2, <2>3, <2>4, <2>5 DEF TypeOK
  <1>3. Listed
    <2>1. PICK s : s = [i \in 1..0 |-> NULL]
      OBVIOUS
    <2>2. s \in [1..count -> Nodes] /\ 1..count = {}
      BY <2>1 DEF Init
    <2>3. IsList(s)
      BY <2>2 DEF IsList, Chain, Init
    <2> QED
      BY <2>2, <2>3 DEF Listed
  <1>4. EntryIds /\ FoundKept /\ NoneEmpty /\ NoFault
    BY DEF Init, EntryIds, FoundKept, NoneEmpty, NoFault
  <1> QED
    BY <1>2, <1>3, <1>4 DEF IInv

LEMMA CreateStep ==
  ASSUME IInv, NEW r \in {"waiters", "threads"}, list_create(r)
  PROVE  IInv' /\ UNCHANGED <<head, tail, count, next, prev, threadID, allocated>>
  <1>1. PICK s : IsList(s)
    BY DEF IInv, Listed
  <1>2. /\ role = "none" /\ role' = r /\ head' = NULL /\ tail' = NULL /\ count' = 0
        /\ UNCHANGED <<next, prev, threadID, allocated, records, taken, found, faulted>>
    BY DEF list_create, fields
  <1>3. count = 0
    BY <1>2 DEF IInv, NoneEmpty
  <1>4. head = NULL /\ tail = NULL
    BY <1>1, <1>3, ListFacts DEF IInv
  <1>5. UNCHANGED <<head, tail, count>>
    BY <1>2, <1>3, <1>4
  <1>6. TypeOK' /\ NoFault'
    BY <1>2, <1>5 DEF IInv, TypeOK, NoFault
  <1>7. Listed'
    BY <1>2, <1>5 DEF IInv, Listed, IsList
  <1>8. EntryIds' /\ NoneEmpty'
    BY <1>2, <1>5 DEF IInv, EntryIds, NoneEmpty
  <1>9. FoundKept'
    BY <1>2 DEF IInv, FoundKept
  <1> QED
    BY <1>2, <1>5, <1>6, <1>7, <1>8, <1>9 DEF IInv

LEMMA InsertStep ==
  ASSUME IInv, NEW id \in Ids, NEW n \in Nodes, list_insert(id, n)
  PROVE  IInv'
  <1>1. PICK s : IsList(s)
    BY DEF IInv, Listed
  <1>2. PICK S : S = Pushed(s, count, n)
    OBVIOUS
  <1>3. /\ Chain(S, count + 1, head', tail', next', prev')
        /\ allocated' = {S[i] : i \in 1..(count + 1)}
        /\ count' = count + 1 /\ faulted' = FALSE
        /\ head' \in Nodes /\ tail' \in Nodes
        /\ next' \in [Nodes -> Pointers \cup {Junk}]
        /\ prev' \in [Nodes -> Pointers \cup {Junk}]
    <2>1. TypeOK /\ NoFault
      BY DEF IInv
    <2>2. /\ Chain(Pushed(s, count, n), count + 1, head', tail', next', prev')
          /\ allocated' = {Pushed(s, count, n)[i] : i \in 1..(count + 1)}
          /\ count' = count + 1 /\ faulted' = FALSE
          /\ head' \in Nodes /\ tail' \in Nodes
          /\ next' \in [Nodes -> Pointers \cup {Junk}]
          /\ prev' \in [Nodes -> Pointers \cup {Junk}]
      BY <1>1, <2>1, InsertEffect
    <2> QED
      BY <1>2, <2>2
  <1>4. /\ role # "none" /\ id \notin records /\ n \notin allocated
        /\ threadID' = [threadID EXCEPT ![n] = id]
        /\ allocated' = allocated \cup {n} /\ records' = records \cup {id}
        /\ taken' = taken /\ found' = found /\ role' = role
    BY DEF list_insert
  <1>5. count \in Nat
    BY <1>1, ListFacts DEF IInv
  <1>6. Listed' /\ count' \in 0..Cardinality(Nodes) /\ allocated' \subseteq Nodes
    BY <1>3, <1>5, NewList
  <1>7. /\ threadID \in [Nodes -> Ids \cup {Junk}] /\ allocated \subseteq Nodes
        /\ taken \subseteq records
    BY DEF IInv, TypeOK
  <1>8. threadID'[n] = id /\ \A m \in allocated : m # n /\ threadID'[m] = threadID[m]
    BY <1>4, <1>7
  <1>9. TypeOK'
    BY <1>3, <1>4, <1>6 DEF IInv, TypeOK, Pointers
  <1>10. EntryIds'
    BY <1>4, <1>7, <1>8 DEF IInv, EntryIds
  <1>11. FoundKept' /\ NoneEmpty' /\ NoFault'
    BY <1>3, <1>4, <1>8 DEF IInv, FoundKept, NoneEmpty, NoFault
  <1> QED
    BY <1>6, <1>9, <1>10, <1>11 DEF IInv

(* The store of a failed list_insert() changes nothing. *)
LEMMA InsertFailsStep ==
  ASSUME IInv, NEW id \in Ids, list_insert_fails(id)
  PROVE  IInv' /\ UNCHANGED vars
  <1>1. PICK s : IsList(s)
    BY DEF IInv, Listed
  <1>2. /\ prev' = Store(prev, head, NULL)
        /\ UNCHANGED <<head, tail, count, next, threadID, allocated, records, taken,
                       found, role, faulted>>
    BY DEF list_insert_fails
  <1>3. head \in Nodes => prev[head] = NULL
    BY <1>1, ListFacts, ListAssumption DEF IInv
  <1>4. prev' = prev
    <2>1. prev \in [Nodes -> Pointers \cup {Junk}]
      BY DEF IInv, TypeOK
    <2> QED
      BY <1>2, <1>3, <2>1 DEF Store
  <1>5. TypeOK' /\ NoFault' /\ Listed'
    BY <1>2, <1>4 DEF IInv, TypeOK, NoFault, Listed, IsList
  <1>6. EntryIds' /\ FoundKept' /\ NoneEmpty'
    BY <1>2, <1>4 DEF IInv, EntryIds, FoundKept, NoneEmpty
  <1> QED
    BY <1>2, <1>4, <1>5, <1>6 DEF IInv, vars, fields

LEMMA FreeTakenStep ==
  ASSUME IInv, NEW id \in Ids, free_taken(id)
  PROVE  IInv'
  <1>1. /\ id \in taken /\ taken' = taken \ {id} /\ records' = records \ {id}
        /\ UNCHANGED <<head, tail, count, next, prev, threadID, allocated, found,
                       role, faulted>>
    BY DEF free_taken, fields
  <1>2. records' \ taken' = records \ taken
    BY <1>1
  <1>3. TypeOK' /\ NoFault' /\ Listed'
    BY <1>1 DEF IInv, TypeOK, NoFault, Listed, IsList
  <1>4. EntryIds'
    BY <1>1, <1>2 DEF IInv, EntryIds
  <1>5. FoundKept' /\ NoneEmpty'
    BY <1>1 DEF IInv, FoundKept, NoneEmpty
  <1> QED
    BY <1>3, <1>4, <1>5 DEF IInv

LEMMA FindStep ==
  ASSUME IInv, NEW id \in Ids, list_find(id)
  PROVE  IInv'
  <1>1. PICK s : IsList(s)
    BY DEF IInv, Listed
  <1>2. /\ role = "threads" /\ id \in records \ taken
        /\ found' = [found EXCEPT ![id] = Find(id)]
        /\ faulted' = (Find(id) \notin allocated)
        /\ UNCHANGED <<head, tail, count, next, prev, threadID, allocated, records,
                       taken, role>>
    BY DEF list_find, fields
  <1>3. PICK n \in allocated : n = Find(id) /\ threadID[n] = id
    BY <1>1, <1>2, FindFinds DEF IInv
  <1>4. n \in Nodes /\ found \in [Ids -> Pointers]
    BY <1>3 DEF IInv, TypeOK
  <1>5. faulted' = FALSE
    BY <1>2, <1>3
  <1>6. found' \in [Ids -> Pointers]
    BY <1>2, <1>3, <1>4 DEF Pointers
  <1>7. TypeOK' /\ NoFault' /\ Listed'
    BY <1>2, <1>5, <1>6 DEF IInv, TypeOK, NoFault, Listed, IsList
  <1>8. EntryIds' /\ NoneEmpty'
    BY <1>2 DEF IInv, EntryIds, NoneEmpty
  <1>9. FoundKept'
    BY <1>2, <1>3, <1>4 DEF IInv, FoundKept
  <1> QED
    BY <1>7, <1>8, <1>9 DEF IInv

(* list_dequeue() takes the node at the tail, which is there. *)
LEMMA DequeueEffect ==
  ASSUME IInv, NEW s, IsList(s), list_dequeue
  PROVE  /\ 1 \in 1..count /\ tail = s[1] /\ role = "waiters" /\ faulted' = FALSE
         /\ taken' = taken \cup {threadID[tail]} /\ count' = count - 1
         /\ head' = HeadAfter(tail) /\ tail' = TailAfter(tail)
         /\ Free(tail, Store(next, prev[tail], next[tail]),
                 Store(prev, next[tail], prev[tail]))
         /\ UNCHANGED <<records, found, role>>
  <1>1. /\ role = "waiters" /\ count # 0
        /\ Dereference({tail} \cup (IF tail \in Nodes THEN {prev[tail]} \ {NULL}
                                                      ELSE {}))
        /\ UNCHANGED <<records, found, role>>
    BY DEF list_dequeue
  <1>2. /\ 1 \in 1..count /\ tail = s[1] /\ tail \in allocated /\ tail \in Nodes
        /\ next[tail] = NULL
        /\ prev[tail] = IF 1 = count THEN NULL ELSE s[1 + 1]
        /\ \A i \in 1..count : s[i] \in allocated
        /\ count \in Nat
    BY <1>1, ListFacts DEF IInv
  <1>3. prev[tail] \in allocated \cup {NULL}
    <2>1. 1 # count => 1 + 1 \in 1..count
      BY <1>1, <1>2
    <2> QED
      BY <1>2, <2>1
  <1>4. faulted' = FALSE
    BY <1>1, <1>2, <1>3 DEF Dereference
  <1>5. Store(prev, next[tail], prev[tail]) = prev
    BY <1>2, ListAssumption DEF Store
  <1> QED
    BY <1>1, <1>2, <1>4, <1>5 DEF list_dequeue

LEMMA DequeueStep ==
  ASSUME IInv, list_dequeue
  PROVE  IInv'
  <1>1. PICK s : IsList(s)
    BY DEF IInv, Listed
  <1>2. /\ 1 \in 1..count /\ tail = s[1] /\ role = "waiters" /\ faulted' = FALSE
        /\ taken' = taken \cup {threadID[tail]} /\ count' = count - 1
        /\ head' = HeadAfter(tail) /\ tail' = TailAfter(tail)
        /\ Free(tail, Store(next, prev[tail], next[tail]),
                Store(prev, next[tail], prev[tail]))
        /\ UNCHANGED <<records, found, role>>
    BY <1>1, DequeueEffect
  <1>3. PICK S, n : S = Dropped(s, count, 1) /\ n = tail
    OBVIOUS
  <1>4. /\ Chain(S, count - 1, head', tail', next', prev')
        /\ allocated' = {S[i] : i \in 1..(count - 1)}
        /\ allocated' = allocated \ {n}
        /\ head' \in Pointers /\ tail' \in Pointers
        /\ next' \in [Nodes -> Pointers \cup {Junk}]
        /\ prev' \in [Nodes -> Pointers \cup {Junk}]
        /\ threadID' = [threadID EXCEPT ![n] = Junk]
    BY <1>1, <1>2, <1>3, DropEffect DEF IInv
  <1>5. count \in Nat /\ n \in allocated /\ count - 1 \in Nat
    BY <1>1, <1>2, <1>3, ListFacts DEF IInv
  <1>6. Listed' /\ count' \in 0..Cardinality(Nodes) /\ allocated' \subseteq Nodes
    BY <1>2, <1>4, <1>5, NewList
  <1>7. /\ threadID \in [Nodes -> Ids \cup {Junk}] /\ allocated \subseteq Nodes
        /\ taken \subseteq records
    BY DEF IInv, TypeOK
  <1>8. /\ \A m \in allocated' : m \in allocated /\ m # n /\ threadID'[m] = threadID[m]
        /\ taken' = taken \cup {threadID[n]} /\ threadID[n] \in records \ taken
    BY <1>2, <1>3, <1>4, <1>5, <1>7 DEF IInv, EntryIds
  <1>9. TypeOK'
    BY <1>2, <1>4, <1>6, <1>7, <1>8 DEF IInv, TypeOK
  <1>10. EntryIds'
    BY <1>2, <1>4, <1>5, <1>8 DEF IInv, EntryIds
  <1>11. FoundKept' /\ NoneEmpty' /\ NoFault'
    BY <1>2 DEF IInv, FoundKept, NoneEmpty, NoFault
  <1> QED
    BY <1>6, <1>9, <1>10, <1>11 DEF IInv

(* list_remove() takes the node that was found, which is still there. *)
Removed(id, s, j, n) ==
  /\ n = s[j] /\ threadID[n] = id /\ role = "threads"
  /\ faulted' = FALSE /\ records' = records \ {id} /\ count' = count - 1
  /\ head' = HeadAfter(n) /\ tail' = TailAfter(n)
  /\ Free(n, Store(next, prev[n], next[n]), Store(prev, next[n], prev[n]))
  /\ found' = [found EXCEPT ![id] = NULL]
  /\ UNCHANGED <<taken, role>>

LEMMA RemoveEffect ==
  ASSUME IInv, NEW s, IsList(s), NEW id \in Ids, list_remove(id)
  PROVE  \E j \in 1..count : \E n \in allocated : Removed(id, s, j, n)
  <1>0. PICK n : n = found[id]
    OBVIOUS
  <1>1. /\ role = "threads" /\ n # NULL
        /\ Dereference({n, next[n], prev[n]} \ {NULL})
        /\ found' = [found EXCEPT ![id] = NULL]
        /\ UNCHANGED <<taken, role>>
    BY <1>0 DEF list_remove
  <1>2. n \in allocated /\ threadID[n] = id
    BY <1>0, <1>1 DEF IInv, FoundKept
  <1>3. PICK j \in 1..count : s[j] = n
    BY <1>2, ListFacts DEF IInv
  <1>4. /\ prev[n] = IF j = count THEN NULL ELSE s[j + 1]
        /\ next[n] = IF j = 1 THEN NULL ELSE s[j - 1]
        /\ \A i \in 1..count : s[i] \in allocated
        /\ count \in Nat
    BY <1>3, ListFacts DEF IInv
  <1>5. prev[n] \in allocated \cup {NULL} /\ next[n] \in allocated \cup {NULL}
    <2>1. (j # count => j + 1 \in 1..count) /\ (j # 1 => j - 1 \in 1..count)
      BY <1>4
    <2> QED
      BY <1>4, <2>1
  <1>6. faulted' = FALSE
    BY <1>1, <1>2, <1>5 DEF Dereference
  <1> QED
    BY <1>0, <1>1, <1>2, <1>3, <1>6
    DEF list_remove, BackAfter, CountDown, Removed

LEMMA RemoveStep ==
  ASSUME IInv, NEW id \in Ids, list_remove(id)
  PROVE  IInv'
  <1>1. PICK s : IsList(s)
    BY DEF IInv, Listed
  <1>0. PICK j \in 1..count : \E n \in allocated : Removed(id, s, j, n)
    BY <1>1, RemoveEffect
  <1>r. PICK n \in allocated : Removed(id, s, j, n)
    BY <1>0
  <1>2. /\ n = s[j] /\ threadID[n] = id /\ role = "threads"
        /\ faulted' = FALSE /\ records' = records \ {id} /\ count' = count - 1
        /\ head' = HeadAfter(n) /\ tail' = TailAfter(n)
        /\ Free(n, Store(next, prev[n], next[n]), Store(prev, next[n], prev[n]))
        /\ found' = [found EXCEPT ![id] = NULL]
        /\ UNCHANGED <<taken, role>>
    BY <1>r DEF Removed
  <1>3. n = s[j]
    BY <1>2
  <1>4. PICK S : S = Dropped(s, count, j)
    OBVIOUS
  <1>5. /\ Chain(S, count - 1, head', tail', next', prev')
        /\ allocated' = {S[i] : i \in 1..(count - 1)}
        /\ allocated' = allocated \ {n}
        /\ head' \in Pointers /\ tail' \in Pointers
        /\ next' \in [Nodes -> Pointers \cup {Junk}]
        /\ prev' \in [Nodes -> Pointers \cup {Junk}]
        /\ threadID' = [threadID EXCEPT ![n] = Junk]
    BY <1>1, <1>2, <1>3, <1>4, DropEffect DEF IInv
  <1>6. count - 1 \in Nat
    <2>1. count \in Nat
      BY <1>1, ListFacts DEF IInv
    <2> QED
      BY <1>3, <2>1
  <1>7. Listed' /\ count' \in 0..Cardinality(Nodes) /\ allocated' \subseteq Nodes
    BY <1>2, <1>5, <1>6, NewList
  <1>8. /\ threadID \in [Nodes -> Ids \cup {Junk}] /\ allocated \subseteq Nodes
        /\ taken \subseteq records /\ found \in [Ids -> Pointers]
        /\ id \notin taken
    BY <1>2 DEF IInv, TypeOK, EntryIds
  <1>9. \A m \in allocated' : m \in allocated /\ m # n /\ threadID'[m] = threadID[m]
    BY <1>5, <1>8
  <1>10. \A m \in allocated' : threadID[m] # id
    BY <1>2, <1>9 DEF IInv, EntryIds
  <1>11. TypeOK'
    BY <1>2, <1>5, <1>7, <1>8 DEF IInv, TypeOK, Pointers
  <1>12. EntryIds'
    BY <1>2, <1>5, <1>9, <1>10 DEF IInv, EntryIds
  <1>13. FoundKept'
    BY <1>2, <1>5, <1>8, <1>9 DEF IInv, FoundKept
  <1>14. NoneEmpty' /\ NoFault'
    BY <1>2 DEF NoneEmpty, NoFault
  <1> QED
    BY <1>7, <1>11, <1>12, <1>13, <1>14 DEF IInv

LEMMA DestroyStep ==
  ASSUME IInv, list_destroy
  PROVE  IInv' /\ count = 0 /\ UNCHANGED <<head, tail, count, next, prev, threadID,
                                           allocated>>
  <1>1. PICK s : IsList(s)
    BY DEF IInv, Listed
  <1>2. /\ role # "none" /\ count = 0 /\ faulted' = (head # NULL)
        /\ head' = NULL /\ tail' = NULL /\ role' = "none"
        /\ UNCHANGED <<count, next, prev, threadID, allocated, records, taken, found>>
    BY DEF list_destroy, fields
  <1>3. head = NULL /\ tail = NULL /\ allocated = {}
    BY <1>1, <1>2, ListFacts DEF IInv
  <1>4. UNCHANGED <<head, tail>> /\ faulted' = FALSE
    BY <1>2, <1>3
  <1>5. TypeOK' /\ NoFault'
    BY <1>2, <1>4 DEF IInv, TypeOK, NoFault
  <1>6. Listed'
    BY <1>2, <1>4 DEF IInv, Listed, IsList
  <1>7. EntryIds' /\ NoneEmpty'
    BY <1>2, <1>4 DEF IInv, EntryIds, NoneEmpty
  <1>8. FoundKept'
    BY <1>2, <1>3 DEF IInv, FoundKept
  <1> QED
    BY <1>2, <1>4, <1>5, <1>6, <1>7, <1>8 DEF IInv

LEMMA StepInv ==
  ASSUME IInv, [Next]_vars
  PROVE  IInv'
  <1>1. CASE UNCHANGED vars
    <2>1. TypeOK' /\ NoFault' /\ Listed'
      BY <1>1 DEF vars, fields, IInv, TypeOK, NoFault, Listed, IsList
    <2>2. EntryIds' /\ FoundKept' /\ NoneEmpty'
      BY <1>1 DEF vars, fields, IInv, EntryIds, FoundKept, NoneEmpty
    <2> QED
      BY <2>1, <2>2 DEF IInv
  <1> QED
    BY <1>1, CreateStep, InsertStep, InsertFailsStep, FreeTakenStep, FindStep,
       RemoveStep, DequeueStep, DestroyStep DEF Next

(* The lists of cond.c and thread.c keep to the invariant. *)
THEOREM Invariance == Spec => []IInv
  <1>1. Init => IInv
    BY InitInv
  <1>2. IInv /\ [Next]_vars => IInv'
    BY StepInv
  <1> QED
    BY <1>1, <1>2, PTL DEF Spec

(* No operation of linked_list.c follows NULL or the address of a freed    *)
(* node, list_find() finds every thread that is on the list, and           *)
(* list_destroy() finds the list empty.                                    *)
THEOREM NoBadPointer == Spec => []NoFault
  <1>1. IInv => NoFault
    BY DEF IInv
  <1> QED
    BY <1>1, Invariance, PTL

(* Both directions of the list and its count agree, and every allocated    *)
(* node is on it.                                                          *)
THEOREM DirectionsAgree == Spec => []MirrorImage
  <1>1. ASSUME IInv PROVE MirrorImage
    <2>1. PICK s : IsList(s)
      BY <1>1 DEF IInv, Listed
    <2>2. PICK f, b : f = Walk(head, next) /\ b = Walk(tail, prev)
      OBVIOUS
    <2>3. b = s /\ f = [i \in 1..count |-> s[count + 1 - i]]
      BY <1>1, <2>1, <2>2, WalksAre DEF IInv
    <2>4. /\ count \in Nat /\ s \in [1..count -> Nodes]
          /\ \A i, j \in 1..count : s[i] = s[j] => i = j
      BY <1>1, <2>1, ListFacts DEF IInv
    <2>5. Len(f) = count /\ Len(b) = count
      BY <2>3, <2>4
    <2>6. \A i \in 1..Len(f) : b[count + 1 - i] = f[i]
      BY <2>3, <2>5
    <2>7. allocated = {s[i] : i \in 1..count}
      BY <2>1 DEF IsList
    <2>8. Cardinality(allocated) = count
      BY <2>4, <2>7, ChainFits
    <2>9. {f[i] : i \in 1..Len(f)} = allocated
      <3>1. \A i \in 1..count : count + 1 - i \in 1..count
                                /\ count + 1 - (count + 1 - i) = i
        BY <2>4
      <3>2. \A i \in 1..count : f[i] = s[count + 1 - i]
        BY <2>3
      <3>3. \A i \in 1..count : f[count + 1 - i] = s[i]
        BY <3>1, <3>2
      <3> QED
        BY <2>5, <2>7, <3>1, <3>2, <3>3
    <2> QED
      BY <2>2, <2>5, <2>6, <2>8, <2>9 DEF MirrorImage
  <1> QED
    BY <1>1, Invariance, PTL


-----------------------------------------------------------------------------
(* What the callers see. *)
EntryOf(s, k, ids) == [i \in 1..k |-> ids[s[i]]]

LEMMA ChainEntries ==
  ASSUME NEW k \in Nat, NEW s, NEW h, NEW t, NEW nx, NEW pv,
         Chain(s, k, h, t, nx, pv), NEW ids
  PROVE  [i \in 1..Len(Walk(t, pv)) |-> ids[Walk(t, pv)[i]]] = EntryOf(s, k, ids)
  <1>1. /\ s \in [1..k -> Nodes]
        /\ \A i, j \in 1..k : s[i] = s[j] => i = j
    BY DEF Chain
  <1>2. Follows(t, pv, s, k)
    BY DEF Chain, Follows
  <1>3. k <= Cardinality(Nodes)
    BY <1>1, ChainFits
  <1>4. Walk(t, pv) = s
    BY <1>2, <1>3, WalkIs
  <1>5. Len(s) = k
    BY <1>1
  <1> QED
    BY <1>4, <1>5 DEF EntryOf

LEMMA EntriesNow ==
  ASSUME TypeOK, NEW s, IsList(s)
  PROVE  Entries = EntryOf(s, count, threadID)
  <1>1. count \in Nat /\ Chain(s, count, head, tail, next, prev)
    BY ListFacts DEF IsList
  <1>2. [i \in 1..Len(Walk(tail, prev)) |-> threadID[Walk(tail, prev)[i]]]
           = EntryOf(s, count, threadID)
    BY <1>1, ChainEntries
  <1> QED
    BY <1>2 DEF Entries

LEMMA EntriesNext ==
  ASSUME NEW S, NEW k \in Nat, Chain(S, k, head', tail', next', prev')
  PROVE  Entries' = EntryOf(S, k, threadID')
  <1>1. [i \in 1..Len(Walk(tail', prev')) |-> threadID'[Walk(tail', prev')[i]]]
           = EntryOf(S, k, threadID')
    BY ChainEntries
  <1> QED
    BY <1>1 DEF Entries

(* The entries are threads whose records the list keeps. *)
LEMMA EntryFacts ==
  ASSUME IInv, NEW s, IsList(s), NEW e, e = EntryOf(s, count, threadID)
  PROVE  /\ count \in Nat /\ e \in [1..count -> Ids] /\ e \in Seq(Ids)
         /\ Len(e) = count
         /\ \A i \in 1..count : e[i] = threadID[s[i]] /\ e[i] \in records
  <1>1. count \in Nat /\ \A i \in 1..count : s[i] \in allocated
    BY ListFacts DEF IInv
  <1>2. /\ \A n \in allocated : threadID[n] \in records
        /\ records \subseteq Ids
    BY DEF IInv, EntryIds, TypeOK
  <1>3. \A i \in 1..count : e[i] = threadID[s[i]] /\ e[i] \in records
    BY <1>1, <1>2 DEF EntryOf
  <1>4. e \in [1..count -> Ids]
    BY <1>2, <1>3 DEF EntryOf
  <1> QED
    BY <1>1, <1>3, <1>4

LEMMA InsertAppends ==
  ASSUME IInv, NEW id \in Ids, NEW n \in Nodes, list_insert(id, n)
  PROVE  Abstract!Insert(id)
  <1>1. PICK s : IsList(s)
    BY DEF IInv, Listed
  <1>2. TypeOK /\ NoFault
    BY DEF IInv
  <1>3. PICK S : S = Pushed(s, count, n)
    OBVIOUS
  <1>4. Chain(S, count + 1, head', tail', next', prev')
    <2>1. Chain(Pushed(s, count, n), count + 1, head', tail', next', prev')
      BY <1>1, <1>2, InsertEffect
    <2> QED
      BY <1>3, <2>1
  <1>5. PICK e : e = EntryOf(s, count, threadID)
    OBVIOUS
  <1>6. /\ count \in Nat /\ e \in Seq(Ids) /\ Len(e) = count
        /\ \A i \in 1..count : e[i] = threadID[s[i]] /\ e[i] \in records
    BY <1>1, <1>5, EntryFacts
  <1>7. Entries = e
    BY <1>1, <1>2, <1>5, EntriesNow
  <1>8. PICK ids, k : ids = threadID' /\ k = count + 1
    OBVIOUS
  <1>9. Entries' = EntryOf(S, k, ids)
    BY <1>4, <1>6, <1>8, EntriesNext
  <1>10. /\ role # "none" /\ id \notin records /\ n \notin allocated
         /\ ids = [threadID EXCEPT ![n] = id] /\ role' = role
    BY <1>8 DEF list_insert
  <1>11. ids[n] = id /\ \A i \in 1..count : ids[s[i]] = threadID[s[i]]
    <2>1. \A i \in 1..count : s[i] \in allocated
      BY <1>1, <1>2, ListFacts
    <2>2. threadID \in [Nodes -> Ids \cup {Junk}] /\ allocated \subseteq Nodes
      BY <1>2 DEF TypeOK
    <2> QED
      BY <1>10, <2>1, <2>2
  <1>12. PICK e2 : e2 = EntryOf(S, k, ids)
    OBVIOUS
  <1>13. e2 = [i \in 1..(count + 1) |-> IF i = count + 1 THEN id ELSE e[i]]
    <2>1. ASSUME NEW i \in 1..(count + 1)
          PROVE  ids[S[i]] = IF i = count + 1 THEN id ELSE e[i]
      <3>1. S[i] = IF i = count + 1 THEN n ELSE s[i]
        BY <1>3 DEF Pushed
      <3>2. i # count + 1 => i \in 1..count
        BY <1>6
      <3> QED
        BY <1>6, <1>11, <3>1, <3>2
    <2> QED
      BY <1>8, <1>12, <2>1 DEF EntryOf
  <1>14. e2 = Append(e, id)
    <2>1. Append(e, id) \in Seq(Ids) /\ Len(Append(e, id)) = count + 1
          /\ \A i \in 1..(count + 1) : Append(e, id)[i]
                                        = IF i = count + 1 THEN id ELSE e[i]
      BY <1>6, AppendProperties
    <2>2. PICK a \in Seq(Ids) : a = Append(e, id)
      BY <2>1
    <2>3. a \in [1..(count + 1) -> Ids]
      <3>1. a \in [1..Len(a) -> Ids] /\ Len(a) = count + 1
        BY <2>1, <2>2, LenProperties
      <3> QED
        BY <3>1
    <2> QED
      BY <1>13, <2>1, <2>2, <2>3
  <1>15. ~(\E i \in 1..Len(e) : e[i] = id)
    BY <1>6, <1>10
  <1> QED
    BY <1>7, <1>9, <1>10, <1>12, <1>14, <1>15 DEF Abstract!Insert, Abstract!On

(* Taking the j-th node out leaves the entries without the j-th. *)
DropsNode(s, j, n, S) ==
  /\ n = s[j] /\ S = Dropped(s, count, j)
  /\ Chain(S, count - 1, head', tail', next', prev')
  /\ threadID' = [threadID EXCEPT ![n] = Junk]

LEMMA DropEntries ==
  ASSUME IInv, NEW s, IsList(s), NEW j \in 1..count, NEW n, NEW S,
         DropsNode(s, j, n, S), NEW e, e = EntryOf(s, count, threadID)
  PROVE  /\ Entries = e
         /\ Entries' = [i \in 1..(Len(e) - 1) |-> IF i < j THEN e[i] ELSE e[i + 1]]
  <1>0. /\ n = s[j] /\ S = Dropped(s, count, j)
        /\ Chain(S, count - 1, head', tail', next', prev')
        /\ threadID' = [threadID EXCEPT ![n] = Junk]
    BY DEF DropsNode
  <1>1. TypeOK
    BY DEF IInv
  <1>2. /\ count \in Nat /\ Len(e) = count
        /\ \A i \in 1..count : e[i] = threadID[s[i]]
    BY EntryFacts
  <1>3. Entries = e
    BY <1>1, EntriesNow
  <1>4. PICK ids, k : ids = threadID' /\ k = count - 1
    OBVIOUS
  <1>5. k \in Nat
    BY <1>2, <1>4
  <1>6. Entries' = EntryOf(S, k, ids)
    <2>1. Chain(S, k, head', tail', next', prev')
      BY <1>0, <1>4
    <2> QED
      BY <1>4, <1>5, <2>1, EntriesNext
  <1>7. /\ s \in [1..count -> Nodes]
        /\ \A i, l \in 1..count : s[i] = s[l] => i = l
    BY <1>1, ListFacts
  <1>8. threadID \in [Nodes -> Ids \cup {Junk}]
    BY <1>1 DEF TypeOK
  <1>9. \A i \in 1..count : i # j => ids[s[i]] = e[i]
    BY <1>0, <1>2, <1>4, <1>7, <1>8
  <1>10. ASSUME NEW i \in 1..k
         PROVE  ids[S[i]] = IF i < j THEN e[i] ELSE e[i + 1]
    <2>1. i \in 1..count /\ i + 1 \in 1..count /\ i \in 1..(count - 1)
      BY <1>2, <1>4
    <2>2. S[i] = IF i < j THEN s[i] ELSE s[i + 1]
      BY <1>0, <2>1 DEF Dropped
    <2>3. CASE i < j
      <3>1. i # j
        BY <1>2, <2>1, <2>3
      <3> QED
        BY <1>9, <2>1, <2>2, <2>3, <3>1
    <2>4. CASE ~(i < j)
      <3>1. i + 1 # j
        BY <1>2, <2>1, <2>4
      <3> QED
        BY <1>9, <2>1, <2>2, <2>4, <3>1
    <2> QED
      BY <2>3, <2>4
  <1>11. EntryOf(S, k, ids)
           = [i \in 1..(Len(e) - 1) |-> IF i < j THEN e[i] ELSE e[i + 1]]
    <2>1. Len(e) - 1 = k
      BY <1>2, <1>4
    <2>2. [i \in 1..k |-> ids[S[i]]]
            = [i \in 1..k |-> IF i < j THEN e[i] ELSE e[i + 1]]
      BY <1>10
    <2> QED
      BY <2>1, <2>2 DEF EntryOf
  <1> QED
    BY <1>3, <1>6, <1>11

LEMMA DequeueTakesOldest ==
  ASSUME IInv, list_dequeue
  PROVE  Abstract!Dequeue
  <1>1. PICK s : IsList(s)
    BY DEF IInv, Listed
  <1>2. /\ 1 \in 1..count /\ tail = s[1] /\ role = "waiters"
        /\ head' = HeadAfter(tail) /\ tail' = TailAfter(tail)
        /\ Free(tail, Store(next, prev[tail], next[tail]),
                Store(prev, next[tail], prev[tail]))
        /\ role' = role
    BY <1>1, DequeueEffect
  <1>3. PICK S, n : S = Dropped(s, count, 1) /\ n = tail
    OBVIOUS
  <1>4. /\ Chain(S, count - 1, head', tail', next', prev')
        /\ threadID' = [threadID EXCEPT ![n] = Junk]
    BY <1>1, <1>2, <1>3, DropEffect DEF IInv
  <1>5. PICK e : e = EntryOf(s, count, threadID)
    OBVIOUS
  <1>6. /\ count \in Nat /\ e \in Seq(Ids) /\ Len(e) = count
    BY <1>1, <1>5, EntryFacts
  <1>7. DropsNode(s, 1, n, S)
    BY <1>2, <1>3, <1>4 DEF DropsNode
  <1>8. /\ Entries = e
        /\ Entries' = [i \in 1..(Len(e) - 1) |-> IF i < 1 THEN e[i] ELSE e[i + 1]]
    <2>1. 1 \in 1..count
      BY <1>2
    <2> QED
      BY <1>1, <1>5, <1>7, <2>1, DropEntries
  <1>9. e # <<>>
    BY <1>2, <1>6
  <1>10. [i \in 1..(Len(e) - 1) |-> IF i < 1 THEN e[i] ELSE e[i + 1]] = Tail(e)
    <2>1. /\ Tail(e) \in Seq(Ids) /\ Len(Tail(e)) = Len(e) - 1
          /\ \A i \in 1..(Len(e) - 1) : Tail(e)[i] = e[i + 1]
      BY <1>6, <1>9, HeadTailProperties
    <2>2. PICK a \in Seq(Ids) : a = Tail(e)
      BY <2>1
    <2>3. a \in [1..(Len(e) - 1) -> Ids]
      <3>1. a \in [1..Len(a) -> Ids] /\ Len(a) = Len(e) - 1
        BY <2>1, <2>2, LenProperties
      <3> QED
        BY <3>1
    <2>4. \A i \in 1..(Len(e) - 1) : ~(i < 1)
      BY <1>6
    <2> QED
      BY <2>1, <2>2, <2>3, <2>4
  <1> QED
    BY <1>2, <1>8, <1>9, <1>10 DEF Abstract!Dequeue

LEMMA RemoveTakesGiven ==
  ASSUME IInv, NEW id \in Ids, list_remove(id)
  PROVE  Abstract!Remove(id)
  <1>1. PICK s : IsList(s)
    BY DEF IInv, Listed
  <1>2. PICK j \in 1..count : \E n \in allocated : Removed(id, s, j, n)
    BY <1>1, RemoveEffect
  <1>3. PICK n \in allocated : Removed(id, s, j, n)
    BY <1>2
  <1>4. /\ n = s[j] /\ threadID[n] = id /\ role = "threads"
        /\ head' = HeadAfter(n) /\ tail' = TailAfter(n)
        /\ Free(n, Store(next, prev[n], next[n]), Store(prev, next[n], prev[n]))
        /\ role' = role
    BY <1>3 DEF Removed
  <1>5. PICK S : S = Dropped(s, count, j)
    OBVIOUS
  <1>6. /\ Chain(S, count - 1, head', tail', next', prev')
        /\ threadID' = [threadID EXCEPT ![n] = Junk]
    BY <1>1, <1>4, <1>5, DropEffect DEF IInv
  <1>7. PICK e : e = EntryOf(s, count, threadID)
    OBVIOUS
  <1>8. Len(e) = count /\ e[j] = threadID[s[j]]
    BY <1>1, <1>7, EntryFacts
  <1>9. DropsNode(s, j, n, S)
    BY <1>4, <1>5, <1>6 DEF DropsNode
  <1>10. /\ Entries = e
         /\ Entries' = [i \in 1..(Len(e) - 1) |-> IF i < j THEN e[i] ELSE e[i + 1]]
    BY <1>1, <1>7, <1>9, DropEntries
  <1>11. j \in 1..Len(e) /\ e[j] = id
    BY <1>4, <1>8
  <1> QED
    BY <1>4, <1>10, <1>11 DEF Abstract!Remove, Abstract!Without

(* A step that leaves the pointers alone leaves the entries alone; an      *)
(* empty list has none.                                                    *)
LEMMA SameEntries ==
  ASSUME UNCHANGED <<tail, prev, threadID>>
  PROVE  Entries' = Entries
  BY DEF Entries

LEMMA NoEntries ==
  ASSUME IInv, count = 0
  PROVE  Entries = <<>>
  <1>1. PICK s : IsList(s)
    BY DEF IInv, Listed
  <1>2. Entries = EntryOf(s, count, threadID)
    BY <1>1, EntriesNow DEF IInv
  <1>3. EntryOf(s, 0, threadID) = <<>>
    BY DEF EntryOf
  <1> QED
    BY <1>2, <1>3

(* linked_list.c implements the sequence that cond.c and thread.c use it   *)
(* as: list_insert() appends, list_dequeue() takes the oldest entry,       *)
(* list_remove() takes the given one and leaves the others in their order, *)
(* a failed insertion changes nothing, and a list is destroyed when empty. *)
THEOREM ListImplementsSpec == Spec => ImplementsList
  <1>1. Init => Abstract!Init
    <2>1. SUFFICES ASSUME Init PROVE Abstract!Init
      OBVIOUS
    <2>2. IInv /\ count = 0
      BY <2>1, InitInv DEF Init
    <2>3. Entries = <<>> /\ role = "none"
      BY <2>1, <2>2, NoEntries DEF Init
    <2> QED
      BY <2>3 DEF Abstract!Init
  <1>2. IInv /\ [Next]_vars => [Abstract!Next]_<<Entries, role>>
    <2>1. SUFFICES ASSUME IInv, [Next]_vars
                   PROVE  Abstract!Next \/ (Entries' = Entries /\ role' = role)
      OBVIOUS
    <2>2. CASE UNCHANGED vars
      BY <2>2, SameEntries DEF vars, fields
    <2>3. ASSUME NEW r \in {"waiters", "threads"}, list_create(r)
          PROVE  Abstract!Create(r)
      <3>1. UNCHANGED <<tail, prev, threadID>> /\ role = "none" /\ role' = r
        BY <2>1, <2>3, CreateStep DEF list_create
      <3>2. count = 0
        BY <2>1, <3>1 DEF IInv, NoneEmpty
      <3>3. Entries' = <<>>
        BY <2>1, <3>1, <3>2, NoEntries, SameEntries
      <3> QED
        BY <3>1, <3>3 DEF Abstract!Create
    <2>4. ASSUME NEW id \in Ids, list_insert_fails(id)
          PROVE  Entries' = Entries /\ role' = role
      BY <2>1, <2>4, InsertFailsStep, SameEntries DEF vars, fields
    <2>5. ASSUME NEW id \in Ids, free_taken(id) \/ list_find(id)
          PROVE  Entries' = Entries /\ role' = role
      BY <2>5, SameEntries DEF free_taken, list_find, fields
    <2>6. ASSUME list_destroy PROVE Abstract!Destroy
      <3>1. /\ role # "none" /\ role' = "none" /\ count = 0
            /\ UNCHANGED <<tail, prev, threadID>>
        BY <2>1, <2>6, DestroyStep DEF list_destroy
      <3>2. Entries = <<>> /\ Entries' = Entries
        BY <2>1, <3>1, NoEntries, SameEntries
      <3> QED
        BY <3>1, <3>2 DEF Abstract!Destroy
    <2>7. ASSUME NEW id \in Ids, NEW n \in Nodes, list_insert(id, n)
          PROVE  Abstract!Insert(id)
      BY <2>1, <2>7, InsertAppends
    <2>8. ASSUME NEW id \in Ids, list_remove(id) PROVE Abstract!Remove(id)
      BY <2>1, <2>8, RemoveTakesGiven
    <2>9. ASSUME list_dequeue PROVE Abstract!Dequeue
      BY <2>1, <2>9, DequeueTakesOldest
    <2> QED
      BY <2>1, <2>2, <2>3, <2>4, <2>5, <2>6, <2>7, <2>8, <2>9, Zenon
      DEF Next, Abstract!Next
  <1> QED
    BY <1>1, <1>2, Invariance, PTL
    DEF Spec, ImplementsList, Abstract!Spec, Abstract!vars
=============================================================================
