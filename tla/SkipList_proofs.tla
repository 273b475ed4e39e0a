--------------------------- MODULE SkipList_proofs ---------------------------
(***************************************************************************)
(* The skip list for any keys, nodes and number of levels.  First as long  *)
(* as nothing is deleted: every level is the ascending list of the nodes   *)
(* that are at least that high, and what the recursive walks of SkipList   *)
(* compute is the place of a key on a level.  Then Deletes included: links *)
(* lead to owned nodes of their level and make no circle, which is enough  *)
(* for what is found, freed and counted.  The walks are defined by         *)
(* equations, so each lemma on one has two parts: a function satisfies the *)
(* equation, and every function that does has the property, by the         *)
(* smallest number (of a key, a rank or a level) for which it had not.     *)
(***************************************************************************)
EXTENDS SkipList, FiniteSetTheorems, WellFoundedInduction, TLAPS

NoDeletes == "delete" \notin TableOps

\* The nodes whose height reaches level l, and where a search may be on it.
On(l) == {n \in allocated : mem[n].levelHeight >= l}
Place(l) == On(l) \cup {dummyHead}

\* Node n comes after place p; place p comes before key k.
After(n, p) == p = dummyHead \/ mem[p].key < mem[n].key
Below(p, k) == p = dummyHead \/ mem[p].key < k

\* On its level a link leads to the node with the next key, or to the tail.
Successor(p, l) ==
  \/ next(p, l) = dummyTail /\ \A n \in On(l) : ~After(n, p)
  \/ /\ next(p, l) \in On(l)
     /\ After(next(p, l), p)
     /\ \A n \in On(l) : After(n, p) => mem[next(p, l)].key <= mem[n].key

ListInv ==
  /\ ListTypeOK
  /\ \A n \in allocated : /\ mem[n].key \in Keys /\ mem[n].value \in Values
                          /\ mem[n].state = "NORMAL"
                          /\ \A l \in Levels : l > mem[n].levelHeight => next(n, l) = NULL
  /\ \A n, m \in allocated : mem[n].key = mem[m].key => n = m
  /\ mem[dummyHead].levelHeight = LIST_HEIGHT - 1
  /\ \A n \in Nodes \ allocated : mem[n] = EmptyNode
  /\ \A l \in Levels : \A p \in Place(l) : Successor(p, l)
  /\ IsFiniteSet(allocated)
  /\ \E K \in Nat : \A n \in allocated : mem[n].key <= K

\* Place p is where the nodes of level l with smaller keys than k end.
IsLast(p, l, k) ==
  /\ p \in Place(l) /\ Below(p, k)
  /\ \A n \in On(l) : mem[n].key < k => ~After(n, p)

-----------------------------------------------------------------------------
(* Constants and numbers.                                                    *)

\* A set of numbers has a least one.
LEMMA LeastNumber ==
  ASSUME NEW S \in SUBSET Nat, S # {}
  PROVE  \E m \in S : \A n \in S : m <= n
<1> DEFINE T == {0..n : n \in S}
<1>1. T \subseteq FiniteSubsetsOf(Nat)
  <2>1. \A n \in Nat : IsFiniteSet(0..n) /\ 0..n \in SUBSET Nat
    BY FS_Interval
  <2>2. QED
    BY <2>1 DEF FiniteSubsetsOf
<1>2. PICK x \in T : \A y \in T : ~ (<<y, x>> \in StrictSubsetOrdering(Nat))
  <2>1. IsWellFoundedOn(StrictSubsetOrdering(Nat), FiniteSubsetsOf(Nat))
    BY FS_StrictSubsetOrderingWellFounded
  <2>2. T # {}
    OBVIOUS
  <2>3. QED
    BY <1>1, <2>1, <2>2, WFMin
<1>3. PICK m \in S : x = 0..m
  OBVIOUS
<1>4. ASSUME NEW n \in S, n < m
      PROVE  FALSE
  <2>1. 0..n \in T /\ 0..n \subseteq 0..m /\ 0..n \in SUBSET Nat /\ 0..m \in SUBSET Nat
    BY <1>4
  <2>2. m \in 0..m /\ m \notin 0..n
    BY <1>4
  <2>3. <<0..n, 0..m>> \in (SUBSET Nat) \X (SUBSET Nat)
    BY <2>1
  <2>4. <<0..n, 0..m>> \in StrictSubsetOrdering(Nat)
    BY <2>1, <2>2, <2>3, Zenon DEF StrictSubsetOrdering
  <2>5. QED
    BY <1>2, <1>3, <2>1, <2>4
<1>5. QED
  BY <1>4

\* A bounded one has a greatest one.
LEMMA GreatestNumber ==
  ASSUME NEW S \in SUBSET Nat, S # {}, NEW b \in Nat, \A n \in S : n <= b
  PROVE  \E m \in S : \A n \in S : n <= m
<1>1. {b - n : n \in S} \in SUBSET Nat /\ {b - n : n \in S} # {}
  <2>1. \A n \in S : b - n \in Nat
    OBVIOUS
  <2>2. QED
    BY <2>1
<1>2. PICK d \in {b - n : n \in S} : \A e \in {b - n : n \in S} : d <= e
  BY <1>1, LeastNumber
<1>3. PICK m \in S : d = b - m
  OBVIOUS
<1>4. \A n \in S : b - m <= b - n
  BY <1>2, <1>3
<1>5. QED
  BY <1>4

\* The addresses are all different, there is a level, and keys are numbers.
LEMMA Addresses ==
  /\ dummyHead # dummyTail /\ dummyHead # NULL /\ dummyTail # NULL
  /\ dummyHead \notin Nodes /\ dummyTail \notin Nodes /\ NULL \notin Nodes
  /\ NULL \notin Keys /\ \A k \in Keys : k \in Nat
  /\ 0 \in Levels /\ LIST_HEIGHT - 1 \in Levels
  /\ \A l \in Levels : l \in Nat /\ (l # 0 => l - 1 \in Levels)
<1>1. \A a, b : Cardinality({a, b}) <= 2
  <2>1. ASSUME NEW a, NEW b
        PROVE  Cardinality({a, b}) <= 2
    <3>1. IsFiniteSet({a}) /\ Cardinality({a}) = 1
      BY FS_Singleton
    <3>2. Cardinality({a} \cup {b}) = 1 \/ Cardinality({a} \cup {b}) = 2
      BY <3>1, FS_AddElement
    <3>3. {a, b} = {a} \cup {b}
      OBVIOUS
    <3>4. QED
      BY <3>2, <3>3
  <2>2. QED
    BY <2>1
<1>2. dummyHead # dummyTail /\ dummyHead # NULL /\ dummyTail # NULL
  <2>1. Cardinality({dummyHead, dummyTail, NULL}) = 3
    BY SkipListAssumption
  <2>2. ASSUME dummyHead = dummyTail \/ dummyHead = NULL \/ dummyTail = NULL
        PROVE  FALSE
    <3>1. PICK a, b : {dummyHead, dummyTail, NULL} = {a, b}
      BY <2>2
    <3>2. Cardinality({a, b}) = 3 /\ Cardinality({a, b}) <= 2
      BY <1>1, <2>1, <3>1, Zenon
    <3>3. QED
      BY <3>2
  <2>3. QED
    BY <2>2
<1>3. QED
  BY <1>2, SkipListAssumption DEF Levels

-----------------------------------------------------------------------------
(* Lists in general: S[l] is the set of the nodes of level l, which ascend.  *)

PlaceIn(S, l) == S[l] \cup {dummyHead}

SuccessorIn(S, p, l) ==
  \/ next(p, l) = dummyTail /\ \A n \in S[l] : ~After(n, p)
  \/ /\ next(p, l) \in S[l]
     /\ After(next(p, l), p)
     /\ \A n \in S[l] : After(n, p) => mem[next(p, l)].key <= mem[n].key

\* Level i is the highest one of node n.
IsTop(S, n, i) == i \in Levels /\ \A j \in Levels : n \in S[j] <=> j <= i
TopIn(S, n) == CHOOSE i : IsTop(S, n, i)

\* A node that is not on a level has no link there or one into the level.
Levelled(S) ==
  /\ \A l \in Levels : S[l] \subseteq S[0]
  /\ \A n \in S[0] : n \in Nodes /\ mem[n].key \in Keys /\ \E i : IsTop(S, n, i)
  /\ \A n, m \in S[0] : mem[n].key = mem[m].key => n = m
  /\ \A l \in Levels : /\ \A p \in PlaceIn(S, l) : SuccessorIn(S, p, l)
                       /\ \A p \in Nodes \ S[l] : next(p, l) \in S[l] \cup {dummyTail, NULL}

\* Place p is where the nodes of level l with smaller keys than k end.
IsLastIn(S, p, l, k) ==
  /\ p \in PlaceIn(S, l) /\ Below(p, k)
  /\ \A n \in S[l] : mem[n].key < k => ~After(n, p)

LEMMA NodesIn ==
  ASSUME NEW S, Levelled(S)
  PROVE  /\ \A l \in Levels : \A n \in S[l] :
              n \in S[0] /\ n \in Nodes /\ n # dummyHead /\ n # dummyTail /\ n # NULL
              /\ mem[n].key \in Keys /\ mem[n].key \in Nat
              /\ IsTop(S, n, TopIn(S, n))
         /\ \A l \in Levels : \A n, m \in S[l] : mem[n].key = mem[m].key => n = m
         /\ \A l \in Levels : PlaceIn(S, l) \subseteq Nodes \cup {dummyHead}
<1>1. \A n \in S[0] : IsTop(S, n, TopIn(S, n))
  BY DEF Levelled, TopIn
<1>2. QED
  BY <1>1, Addresses DEF Levelled, PlaceIn

\* A lower level has all the nodes of a higher one.
LEMMA LowerLevelIn ==
  ASSUME NEW S, Levelled(S), NEW l \in Levels, NEW m \in Levels, m <= l
  PROVE  S[l] \subseteq S[m] /\ PlaceIn(S, l) \subseteq PlaceIn(S, m)
<1>1. ASSUME NEW n \in S[l]
      PROVE  n \in S[m]
  <2>1. PICK i \in Levels : \A j \in Levels : n \in S[j] <=> j <= i
    BY <1>1, NodesIn DEF IsTop
  <2>2. l <= i /\ l \in Nat /\ m \in Nat /\ i \in Nat
    BY <1>1, <2>1, Addresses
  <2>3. QED
    BY <2>1, <2>2
<1>2. QED
  BY <1>1 DEF PlaceIn

LEMMA LastExistsIn ==
  ASSUME NEW S, Levelled(S), NEW l \in Levels, NEW k \in Keys
  PROVE  \E p : IsLastIn(S, p, l, k)
<1> DEFINE T == {mem[n].key : n \in {n \in S[l] : mem[n].key < k}}
<1>1. k \in Nat /\ T \in SUBSET Nat /\ \A i \in T : i <= k
  BY NodesIn, Addresses
<1>2. CASE T = {}
  <2>1. \A n \in S[l] : ~(mem[n].key < k)
    BY <1>2
  <2>2. QED
    BY <2>1 DEF IsLastIn, PlaceIn, Below
<1>3. CASE T # {}
  <2>1. PICK i \in T : \A j \in T : j <= i
    BY <1>1, <1>3, GreatestNumber
  <2>2. PICK p \in S[l] : mem[p].key = i /\ mem[p].key < k
    OBVIOUS
  <2>3. p # dummyHead
    BY NodesIn
  <2>4. ASSUME NEW n \in S[l], mem[n].key < k
        PROVE  ~After(n, p)
    <3>1. mem[n].key <= mem[p].key
      BY <2>1, <2>2, <2>4
    <3>2. mem[n].key \in Nat /\ mem[p].key \in Nat
      BY NodesIn
    <3>3. QED
      BY <2>3, <3>1, <3>2 DEF After
  <2>5. QED
    BY <2>2, <2>4 DEF IsLastIn, PlaceIn, Below
<1>4. QED
  BY <1>2, <1>3

LEMMA LastUniqueIn ==
  ASSUME NEW S, Levelled(S), NEW l \in Levels, NEW k \in Keys, NEW p, NEW q, IsLastIn(S, p, l, k), IsLastIn(S, q, l, k)
  PROVE  p = q
<1>1. CASE p = dummyHead
  BY <1>1 DEF IsLastIn, PlaceIn, Below, After
<1>2. CASE q = dummyHead
  BY <1>2 DEF IsLastIn, PlaceIn, Below, After
<1>3. CASE p # dummyHead /\ q # dummyHead
  <2>1. p \in S[l] /\ q \in S[l] /\ mem[p].key < k /\ mem[q].key < k
    BY <1>3 DEF IsLastIn, PlaceIn, Below
  <2>2. ~(mem[p].key < mem[q].key) /\ ~(mem[q].key < mem[p].key)
    BY <1>3, <2>1 DEF IsLastIn, After
  <2>3. mem[p].key \in Nat /\ mem[q].key \in Nat
    BY <2>1, NodesIn
  <2>4. mem[p].key = mem[q].key
    BY <2>2, <2>3
  <2>5. QED
    BY <2>1, <2>4, NodesIn
<1>4. QED
  BY <1>1, <1>2, <1>3

\* A search stops at the place of its key, and nowhere else.
LEMMA LastStopsIn ==
  ASSUME NEW S, Levelled(S), NEW l \in Levels, NEW k \in Keys, NEW p \in PlaceIn(S, l), Below(p, k)
  PROVE  IsLastIn(S, p, l, k) <=> ~(next(p, l) \in Nodes /\ mem[next(p, l)].key < k)
<1>1. SuccessorIn(S, p, l)
  BY DEF Levelled
<1>2. k \in Nat /\ \A n \in S[l] : mem[n].key \in Nat /\ n \in Nodes
  BY NodesIn, Addresses
<1>3. CASE next(p, l) = dummyTail
  <2>1. \A n \in S[l] : ~After(n, p)
    BY <1>1, <1>3, NodesIn DEF SuccessorIn
  <2>2. QED
    BY <1>3, <2>1, Addresses DEF IsLastIn
<1>4. CASE next(p, l) \in S[l]
  <2>1. PICK q \in S[l] : q = next(p, l)
    BY <1>4
  <2>2. After(q, p) /\ \A n \in S[l] : After(n, p) => mem[q].key <= mem[n].key
    BY <1>1, <2>1, NodesIn DEF SuccessorIn
  <2>3. ASSUME ~(mem[q].key < k), NEW n \in S[l], mem[n].key < k
        PROVE  ~After(n, p)
    BY <1>2, <2>2, <2>3
  <2>4. QED
    BY <1>2, <2>1, <2>2, <2>3 DEF IsLastIn
<1>5. QED
  BY <1>1, <1>3, <1>4 DEF SuccessorIn

\* Behind the place of a key there is its node, or a node with a greater key, or the tail.
LEMMA LastNextIn ==
  ASSUME NEW S, Levelled(S), NEW l \in Levels, NEW k \in Keys, NEW p, IsLastIn(S, p, l, k)
  PROVE  /\ next(p, l) = dummyTail \/ (next(p, l) \in S[l] /\ mem[next(p, l)].key >= k)
         /\ \A n \in S[l] : mem[n].key = k => next(p, l) = n
<1>1. p \in PlaceIn(S, l) /\ Below(p, k) /\ SuccessorIn(S, p, l)
  BY DEF Levelled, IsLastIn
<1>2. k \in Nat /\ \A n \in S[l] : mem[n].key \in Nat /\ n \in Nodes
  BY NodesIn, Addresses
<1>3. next(p, l) = dummyTail \/ (next(p, l) \in S[l] /\ mem[next(p, l)].key >= k)
  BY <1>1, <1>2, LastStopsIn DEF SuccessorIn
<1>4. ASSUME NEW n \in S[l], mem[n].key = k
      PROVE  next(p, l) = n
  <2>1. After(n, p)
    BY <1>1, <1>4 DEF After, Below
  <2>2. PICK q \in S[l] : q = next(p, l) /\ mem[q].key <= mem[n].key
    BY <1>1, <2>1 DEF SuccessorIn
  <2>3. mem[q].key = mem[n].key
    BY <1>2, <1>3, <1>4, <2>2, NodesIn
  <2>4. QED
    BY <1>2, <2>2, <2>3, NodesIn
<1>5. QED
  BY <1>3, <1>4

-----------------------------------------------------------------------------
(* The walk along a level.                                                   *)

AdvanceStep(l, k, walk, p) ==
  IF next(p, l) \in Nodes /\ Before(next(p, l), k) THEN walk[next(p, l)] ELSE p

LEMMA AdvanceEquationIn ==
  ASSUME NEW S, Levelled(S), NEW l \in Levels, NEW k \in Keys
  PROVE  \A p \in Nodes \cup {dummyHead} : Advance(l, k)[p] = AdvanceStep(l, k, Advance(l, k), p)
<1> DEFINE D == Nodes \cup {dummyHead}
           body(walk, p) == LET cur == next(p, l)
                            IN IF cur \in Nodes /\ Before(cur, k) THEN walk[cur] ELSE p
<1>1. PICK end : IsLastIn(S, end, l, k)
  BY LastExistsIn
<1>2. PICK w : w = [p \in D |->
         IF p \in PlaceIn(S, l) THEN IF Below(p, k) THEN end ELSE p
         ELSE IF next(p, l) \in Nodes /\ Before(next(p, l), k) THEN end ELSE p]
  OBVIOUS
<1>3. w = [p \in D |-> body(w, p)]
  <2>1. ASSUME NEW p \in D
        PROVE  w[p] = body(w, p)
    <3>1. CASE p \notin PlaceIn(S, l)
      <4>1. p \in Nodes /\ next(p, l) \in S[l] \cup {dummyTail, NULL}
        BY <3>1 DEF Levelled, PlaceIn
      <4>2. next(p, l) \in Nodes => next(p, l) \in PlaceIn(S, l) /\ next(p, l) \in D
        BY <4>1, Addresses DEF PlaceIn
      <4>3. w[p] = IF next(p, l) \in Nodes /\ Before(next(p, l), k) THEN end ELSE p
        BY <1>2, <3>1
      <4>4. next(p, l) \in Nodes /\ Before(next(p, l), k) => w[next(p, l)] = end
        BY <1>2, <4>2 DEF Before, Below
      <4>5. QED
        BY <4>3, <4>4
    <3>2. CASE p \in PlaceIn(S, l) /\ ~Below(p, k)
      <4>1. p \in S[l] /\ p # dummyHead /\ SuccessorIn(S, p, l) /\ mem[p].key \in Nat /\ k \in Nat
        BY <3>2, NodesIn, Addresses DEF PlaceIn, Below, Levelled
      <4>2. ~(next(p, l) \in Nodes /\ Before(next(p, l), k))
        <5>1. CASE next(p, l) = dummyTail
          BY <5>1, Addresses
        <5>2. CASE next(p, l) \in S[l] /\ After(next(p, l), p)
          <6>1. mem[p].key < mem[next(p, l)].key /\ mem[next(p, l)].key \in Nat
            BY <4>1, <5>2, NodesIn DEF After
          <6>2. ~(mem[p].key < k)
            BY <3>2 DEF Below
          <6>3. QED
            BY <4>1, <6>1, <6>2 DEF Before
        <5>3. QED
          BY <4>1, <5>1, <5>2 DEF SuccessorIn
      <4>3. QED
        BY <1>2, <3>2, <4>2
    <3>3. CASE p \in PlaceIn(S, l) /\ Below(p, k)
      <4>1. CASE IsLastIn(S, p, l, k)
        <5>1. p = end
          BY <1>1, <4>1, LastUniqueIn
        <5>2. ~(next(p, l) \in Nodes /\ Before(next(p, l), k))
          BY <3>3, <4>1, LastStopsIn DEF Before
        <5>3. QED
          BY <1>2, <3>3, <5>1, <5>2
      <4>2. CASE ~IsLastIn(S, p, l, k)
        <5>1. next(p, l) \in Nodes /\ Before(next(p, l), k)
          BY <3>3, <4>2, LastStopsIn DEF Before
        <5>2. next(p, l) \in PlaceIn(S, l) /\ Below(next(p, l), k)
          BY <3>3, <5>1, Addresses DEF Before, Below, Levelled, SuccessorIn, PlaceIn
        <5>3. QED
          BY <1>2, <3>3, <5>1, <5>2
      <4>3. QED
        BY <4>1, <4>2
    <3>4. QED
      BY <3>1, <3>2, <3>3
  <2>2. QED
    BY <1>2, <2>1
<1>4. PICK f : f = Advance(l, k)
  OBVIOUS
<1>5. f = CHOOSE walk : walk = [p \in D |-> body(walk, p)]
  BY <1>4 DEF Advance
<1> HIDE DEF body
<1>6. f = [p \in D |-> body(f, p)]
  BY <1>3, <1>5
<1> USE DEF body
<1>7. QED
  BY <1>4, <1>6 DEF AdvanceStep

\* From any place before the key the walk goes to the key's place.
LEMMA AdvanceIsIn ==
  ASSUME NEW S, Levelled(S), NEW l \in Levels, NEW k \in Keys
  PROVE  /\ \A p \in PlaceIn(S, l) : Below(p, k) => IsLastIn(S, Advance(l, k)[p], l, k)
         /\ \A p \in Nodes : next(p, l) = NULL => Advance(l, k)[p] = p
<1>1. PICK f : f = Advance(l, k)
  OBVIOUS
<1>2. \A p \in Nodes \cup {dummyHead} : f[p] = AdvanceStep(l, k, f, p)
  BY <1>1, AdvanceEquationIn
<1>3. k \in Nat /\ \A n \in S[l] : mem[n].key \in Nat /\ n \in Nodes
  BY NodesIn, Addresses
<1>4. ASSUME NEW p \in PlaceIn(S, l), Below(p, k)
      PROVE  \/ IsLastIn(S, p, l, k) /\ f[p] = p
             \/ /\ next(p, l) \in S[l] /\ mem[next(p, l)].key < k /\ After(next(p, l), p)
                /\ f[p] = f[next(p, l)]
  <2>1. p \in Nodes \cup {dummyHead} /\ SuccessorIn(S, p, l)
    BY NodesIn DEF Levelled
  <2>2. CASE IsLastIn(S, p, l, k)
    BY <1>2, <1>4, <2>1, <2>2, LastStopsIn DEF AdvanceStep, Before
  <2>3. CASE ~IsLastIn(S, p, l, k)
    <3>1. next(p, l) \in Nodes /\ mem[next(p, l)].key < k
      BY <1>4, <2>3, LastStopsIn
    <3>2. next(p, l) \in S[l] /\ After(next(p, l), p)
      BY <2>1, <3>1, Addresses DEF SuccessorIn
    <3>3. QED
      BY <1>2, <2>1, <3>1, <3>2 DEF AdvanceStep, Before
  <2>4. QED
    BY <2>2, <2>3
<1>5. ASSUME NEW b \in S[l], mem[b].key < k, ~IsLastIn(S, f[b], l, k)
      PROVE  FALSE
  <2> DEFINE Bad == {n \in S[l] : mem[n].key < k /\ ~IsLastIn(S, f[n], l, k)}
             T == {mem[n].key : n \in Bad}
  <2>1. T \in SUBSET Nat /\ T # {} /\ \A i \in T : i <= k
    BY <1>3, <1>5
  <2>2. PICK i \in T : \A j \in T : j <= i
    BY <1>3, <2>1, GreatestNumber
  <2>3. PICK p \in Bad : mem[p].key = i
    OBVIOUS
  <2>4. p \in PlaceIn(S, l) /\ Below(p, k) /\ p # dummyHead
    BY <2>3, NodesIn DEF PlaceIn, Below
  <2>5. PICK q \in S[l] : mem[q].key < k /\ mem[p].key < mem[q].key /\ f[p] = f[q]
    BY <1>4, <2>3, <2>4 DEF After
  <2>6. q \in Bad
    BY <2>3, <2>5
  <2>7. mem[q].key <= mem[p].key
    BY <2>2, <2>3, <2>6
  <2>8. QED
    BY <1>3, <2>3, <2>5, <2>7
<1>6. ASSUME NEW p \in PlaceIn(S, l), Below(p, k)
      PROVE  IsLastIn(S, f[p], l, k)
  BY <1>4, <1>5, <1>6
<1>7. ASSUME NEW p \in Nodes, next(p, l) = NULL
      PROVE  f[p] = p
  BY <1>2, <1>7, Addresses DEF AdvanceStep
<1>8. QED
  BY <1>1, <1>6, <1>7

-----------------------------------------------------------------------------
(* The search from the top level down.                                       *)

LastIn(S, l, k) == CHOOSE p : IsLastIn(S, p, l, k)

LEMMA LastIsIn ==
  ASSUME NEW S, Levelled(S), NEW l \in Levels, NEW k \in Keys
  PROVE  IsLastIn(S, LastIn(S, l, k), l, k) /\ \A p : IsLastIn(S, p, l, k) => p = LastIn(S, l, k)
<1>1. IsLastIn(S, LastIn(S, l, k), l, k)
  BY LastExistsIn DEF LastIn
<1>2. QED
  BY <1>1, LastUniqueIn

\* Where the search for k is after level l: at the key's node once it has come to a
\* level the node is on, at the key's place before that.
KeyIn(S, l, k) == {n \in S[0] : l \in Levels /\ n \in S[l] /\ mem[n].key = k}

SearchIn(S, l, k) ==
  IF KeyIn(S, l, k) # {}
    THEN LET n == CHOOSE n \in KeyIn(S, l, k) : TRUE
         IN [prev |-> LastIn(S, TopIn(S, n), k), cur |-> n]
  ELSE IF l = LIST_HEIGHT THEN [prev |-> dummyHead, cur |-> dummyTail]
  ELSE [prev |-> LastIn(S, l, k), cur |-> next(LastIn(S, l, k), l)]

SearchStep(l, k, above) ==
  LET prev == Advance(l, k)[above.prev]
  IN IF above.cur = NULL \/ (above.cur \in Nodes /\ mem[above.cur].key = k)
     THEN above ELSE [prev |-> prev, cur |-> next(prev, l)]

\* On a level the key's node is on, it is what the search has found.
LEMMA SearchMeetsIn ==
  ASSUME NEW S, Levelled(S), NEW l \in Levels, NEW k \in Keys,
         NEW n \in S[l], mem[n].key = k
  PROVE  SearchIn(S, l, k) = [prev |-> LastIn(S, TopIn(S, n), k), cur |-> n]
<1>1. KeyIn(S, l, k) = {n}
  BY NodesIn DEF KeyIn
<1>2. (CHOOSE m \in KeyIn(S, l, k) : TRUE) = n
  BY <1>1
<1>3. QED
  BY <1>1, <1>2 DEF SearchIn

LEMMA SearchEquationIn ==
  ASSUME NEW S, Levelled(S), NEW k \in Keys
  PROVE  /\ SearchIn(S, LIST_HEIGHT, k) = [prev |-> dummyHead, cur |-> dummyTail]
         /\ \A l \in Levels : SearchIn(S, l, k) = SearchStep(l, k, SearchIn(S, l + 1, k))
<1>1. LIST_HEIGHT \in Nat /\ LIST_HEIGHT \notin Levels /\ k \in Nat /\ \A i \in Levels : i \in Nat /\ i < LIST_HEIGHT
  BY SkipListAssumption, Addresses DEF Levels
<1>2. KeyIn(S, LIST_HEIGHT, k) = {}
  BY <1>1, NodesIn DEF KeyIn
<1>3. SearchIn(S, LIST_HEIGHT, k) = [prev |-> dummyHead, cur |-> dummyTail]
  BY <1>2 DEF SearchIn
<1>4. ASSUME NEW l \in Levels
      PROVE  SearchIn(S, l, k) = SearchStep(l, k, SearchIn(S, l + 1, k))
  <2>1. l + 1 \in Levels \cup {LIST_HEIGHT}
    BY <1>1 DEF Levels
  <2>2. CASE KeyIn(S, l + 1, k) # {}
    <3>1. PICK n \in S[l + 1] : mem[n].key = k /\ l + 1 \in Levels
      BY <2>2 DEF KeyIn
    <3>2. n \in S[l] /\ n \in Nodes
      BY <1>1, <3>1, LowerLevelIn, NodesIn
    <3>3. SearchIn(S, l + 1, k) = [prev |-> LastIn(S, TopIn(S, n), k), cur |-> n]
      BY <3>1, SearchMeetsIn
    <3>4. SearchIn(S, l, k) = [prev |-> LastIn(S, TopIn(S, n), k), cur |-> n]
      BY <3>1, <3>2, SearchMeetsIn
    <3>5. QED
      BY <3>1, <3>2, <3>3, <3>4 DEF SearchStep
  <2>3. CASE KeyIn(S, l + 1, k) = {}
    <3>1. PICK above : above = SearchIn(S, l + 1, k)
      OBVIOUS
    <3>2. /\ above.prev \in PlaceIn(S, l) /\ Below(above.prev, k)
          /\ above.cur # NULL /\ ~(above.cur \in Nodes /\ mem[above.cur].key = k)
      <4>1. CASE l + 1 = LIST_HEIGHT
        <5>1. above = [prev |-> dummyHead, cur |-> dummyTail]
          BY <1>3, <3>1, <4>1
        <5>2. QED
          BY <5>1, Addresses DEF PlaceIn, Below
      <4>2. CASE l + 1 \in Levels
        <5>1. above = [prev |-> LastIn(S, l + 1, k), cur |-> next(LastIn(S, l + 1, k), l + 1)]
          BY <1>1, <2>3, <3>1, <4>2 DEF SearchIn
        <5>2. IsLastIn(S, LastIn(S, l + 1, k), l + 1, k)
          BY <4>2, LastIsIn
        <5>3. LastIn(S, l + 1, k) \in PlaceIn(S, l) /\ Below(LastIn(S, l + 1, k), k)
          BY <1>1, <4>2, <5>2, LowerLevelIn DEF IsLastIn
        <5>4. next(LastIn(S, l + 1, k), l + 1) \in S[l + 1] \cup {dummyTail}
          BY <4>2, <5>2, LastNextIn
        <5>5. QED
          BY <2>3, <4>2, <5>1, <5>3, <5>4, NodesIn, Addresses DEF KeyIn
      <4>3. QED
        BY <2>1, <4>1, <4>2
    <3>3. Advance(l, k)[above.prev] = LastIn(S, l, k)
      BY <3>2, AdvanceIsIn, LastIsIn
    <3>4. SearchStep(l, k, above) = [prev |-> LastIn(S, l, k), cur |-> next(LastIn(S, l, k), l)]
      BY <3>2, <3>3 DEF SearchStep
    <3>5. SearchIn(S, l, k) = [prev |-> LastIn(S, l, k), cur |-> next(LastIn(S, l, k), l)]
      <4>1. CASE KeyIn(S, l, k) = {}
        BY <1>1, <4>1 DEF SearchIn
      <4>2. CASE KeyIn(S, l, k) # {}
        <5>1. PICK n \in S[l] : mem[n].key = k
          BY <4>2 DEF KeyIn
        <5>2. TopIn(S, n) = l
          <6>1. IsTop(S, n, TopIn(S, n)) /\ n \in S[0]
            BY <5>1, NodesIn
          <6>2. l <= TopIn(S, n) /\ TopIn(S, n) \in Levels
            BY <5>1, <6>1 DEF IsTop
          <6>3. l + 1 \in Levels => n \notin S[l + 1]
            BY <2>3, <5>1, <6>1 DEF KeyIn
          <6>4. l + 1 \in Levels => ~(l + 1 <= TopIn(S, n))
            BY <6>1, <6>3 DEF IsTop
          <6>5. l < TopIn(S, n) => l + 1 \in Levels
            BY <1>1, <6>2 DEF Levels
          <6>6. QED
            BY <1>1, <6>2, <6>4, <6>5
        <5>3. next(LastIn(S, l, k), l) = n
          BY <5>1, LastIsIn, LastNextIn
        <5>4. QED
          BY <5>1, <5>2, <5>3, SearchMeetsIn
      <4>3. QED
        BY <4>1, <4>2
    <3>6. QED
      BY <3>1, <3>4, <3>5
  <2>4. QED
    BY <2>2, <2>3
<1>5. QED
  BY <1>3, <1>4

LEMMA DescentIsIn ==
  ASSUME NEW S, Levelled(S), NEW k \in Keys
  PROVE  Descent(k) = SearchIn(S, 0, k)
<1> DEFINE D == 0..FromTop
           body(after, l) ==
             IF l = FromTop THEN [prev |-> dummyHead, cur |-> dummyTail]
             ELSE LET above == after[l + 1]
                      prev == Advance(l, k)[above.prev]
                  IN IF above.cur = NULL \/ (above.cur \in Nodes /\ mem[above.cur].key = k)
                     THEN above
                     ELSE [prev |-> prev, cur |-> next(prev, l)]
<1>1. LIST_HEIGHT \in Nat /\ LIST_HEIGHT # 0
      /\ \A l \in D : l \in Nat /\ l <= LIST_HEIGHT
                      /\ (l # FromTop => l \in Levels /\ l + 1 \in D /\ l # LIST_HEIGHT)
  BY SkipListAssumption DEF Levels, FromTop
<1>2. ASSUME NEW f, NEW l \in D
      PROVE  body(f, l) = IF l = FromTop THEN [prev |-> dummyHead, cur |-> dummyTail]
                          ELSE SearchStep(l, k, f[l + 1])
  BY DEF SearchStep
<1> HIDE DEF body
<1>3. PICK w : w = [l \in D |-> SearchIn(S, l, k)]
  OBVIOUS
<1>4. w = [l \in D |-> body(w, l)]
  <2>1. ASSUME NEW l \in D
        PROVE  w[l] = body(w, l)
    <3>1. CASE l = FromTop
      BY <1>2, <1>3, <3>1, SearchEquationIn DEF FromTop
    <3>2. CASE l # FromTop
      <4>1. l \in Levels /\ w[l] = SearchIn(S, l, k) /\ w[l + 1] = SearchIn(S, l + 1, k)
        BY <1>1, <1>3, <3>2
      <4>2. QED
        BY <1>2, <3>2, <4>1, SearchEquationIn
    <3>3. QED
      BY <3>1, <3>2
  <2>2. QED
    BY <1>3, <2>1
<1>5. PICK f : f = CHOOSE after : after = [l \in D |-> body(after, l)]
  OBVIOUS
<1>6. Descent(k) = f[0]
  BY <1>5 DEF Descent, body
<1>7. f = [l \in D |-> body(f, l)]
  BY <1>4, <1>5
<1>8. ASSUME NEW b \in D, f[b] # w[b]
      PROVE  FALSE
  <2> DEFINE T == {l \in D : f[l] # w[l]}
  <2>1. T \in SUBSET Nat /\ T # {} /\ \A l \in T : l <= LIST_HEIGHT
    BY <1>1, <1>8
  <2>2. PICK l \in T : \A m \in T : m <= l
    BY <1>1, <2>1, GreatestNumber
  <2>3. CASE l = FromTop
    BY <1>2, <1>4, <1>7, <2>2, <2>3
  <2>4. CASE l # FromTop
    <3>1. l + 1 \in D /\ l + 1 \notin T
      BY <1>1, <2>2, <2>4
    <3>2. f[l + 1] = w[l + 1]
      BY <3>1
    <3>3. body(f, l) = body(w, l)
      BY <1>2, <2>4, <3>2
    <3>4. f[l] = body(f, l) /\ w[l] = body(w, l)
      BY <1>4, <1>7
    <3>5. QED
      BY <2>2, <3>3, <3>4
  <2>5. QED
    BY <2>3, <2>4
<1>9. 0 \in D
  BY <1>1 DEF FromTop
<1>10. QED
  BY <1>3, <1>6, <1>8, <1>9

\* A search comes to the node with its key, or to the key's place on level 0.
LEMMA SearchFindsIn ==
  ASSUME NEW S, Levelled(S), NEW k \in Keys
  PROVE  /\ \A n \in S[0] : mem[n].key = k => Descent(k).cur = n
         /\ (\A n \in S[0] : mem[n].key # k) =>
              /\ Descent(k) = [prev |-> LastIn(S, 0, k), cur |-> next(LastIn(S, 0, k), 0)]
              /\ ~(Descent(k).cur \in Nodes /\ mem[Descent(k).cur].key = k)
<1>1. 0 \in Levels /\ 0 # LIST_HEIGHT
  BY SkipListAssumption, Addresses
<1>2. ASSUME NEW n \in S[0], mem[n].key = k
      PROVE  Descent(k).cur = n
  BY <1>1, <1>2, DescentIsIn, SearchMeetsIn
<1>3. ASSUME \A n \in S[0] : mem[n].key # k
      PROVE  /\ Descent(k) = [prev |-> LastIn(S, 0, k), cur |-> next(LastIn(S, 0, k), 0)]
             /\ ~(Descent(k).cur \in Nodes /\ mem[Descent(k).cur].key = k)
  <2>1. KeyIn(S, 0, k) = {}
    BY <1>1, <1>3 DEF KeyIn
  <2>2. Descent(k) = [prev |-> LastIn(S, 0, k), cur |-> next(LastIn(S, 0, k), 0)]
    BY <1>1, <2>1, DescentIsIn DEF SearchIn
  <2>3. IsLastIn(S, LastIn(S, 0, k), 0, k)
    BY <1>1, LastIsIn
  <2>4. next(LastIn(S, 0, k), 0) \in S[0] \cup {dummyTail}
    BY <1>1, <2>3, LastNextIn
  <2>5. QED
    BY <1>3, <2>2, <2>4, Addresses
<1>4. QED
  BY <1>2, <1>3

\* The nodes of a list in shape have keys, of which each has one node.
LEMMA NodesOfList ==
  ASSUME ListInv
  PROVE  /\ allocated \subseteq Nodes /\ dummyHead \notin allocated /\ dummyTail \notin allocated
         /\ NULL \notin allocated
         /\ \A n \in allocated : mem[n].key \in Keys /\ mem[n].key \in Nat /\ mem[n].levelHeight \in Levels
         /\ \A n, m \in allocated : mem[n].key = mem[m].key => n = m
         /\ \A l \in Levels : On(l) \subseteq allocated /\ Place(l) \subseteq Nodes \cup {dummyHead}
         /\ On(0) = allocated
<1>1. allocated \subseteq Nodes /\ \A n \in allocated : mem[n].levelHeight \in Levels
  BY DEF ListInv, ListTypeOK
<1>2. On(0) = allocated
  BY <1>1, Addresses DEF On, Levels
<1>3. QED
  BY <1>1, <1>2, Addresses DEF ListInv, On, Place

\* A lower level has all the nodes of a higher one.
LEMMA LowerLevel ==
  ASSUME ListInv, NEW l \in Levels, NEW m \in Levels, m <= l
  PROVE  On(l) \subseteq On(m) /\ Place(l) \subseteq Place(m)
<1>1. ASSUME NEW n \in On(l)
      PROVE  n \in On(m)
  <2>1. n \in allocated /\ mem[n].levelHeight \in Levels /\ mem[n].levelHeight >= l
    BY <1>1, NodesOfList DEF On
  <2>2. mem[n].levelHeight \in Nat /\ l \in Nat /\ m \in Nat
    BY <2>1, Addresses
  <2>3. QED
    BY <2>1, <2>2 DEF On
<1>2. QED
  BY <1>1 DEF Place

-----------------------------------------------------------------------------
(* The list of the invariant is one of them.                                 *)

Heights == [l \in Levels |-> On(l)]

LEMMA InHeights ==
  ASSUME NEW l \in Levels
  PROVE  /\ Heights[l] = On(l) /\ PlaceIn(Heights, l) = Place(l)
         /\ \A p : SuccessorIn(Heights, p, l) <=> Successor(p, l)
         /\ \A p, k : IsLastIn(Heights, p, l, k) <=> IsLast(p, l, k)
<1>1. Heights[l] = On(l) /\ PlaceIn(Heights, l) = Place(l)
  BY DEF Heights, PlaceIn, Place
<1>2. \A p : SuccessorIn(Heights, p, l) <=> Successor(p, l)
  BY <1>1 DEF SuccessorIn, Successor
<1>3. \A p, k : IsLastIn(Heights, p, l, k) <=> IsLast(p, l, k)
  BY <1>1 DEF IsLastIn, IsLast
<1>4. QED
  BY <1>1, <1>2, <1>3

LEMMA ListIsLevelled ==
  ASSUME ListInv
  PROVE  Levelled(Heights)
<1>1. \A l \in Levels : Heights[l] = On(l) /\ PlaceIn(Heights, l) = Place(l)
  BY InHeights
<1>2. \A l \in Levels : \A p : SuccessorIn(Heights, p, l) <=> Successor(p, l)
  BY InHeights
<1>4. ASSUME NEW n \in On(0)
      PROVE  \E i : IsTop(Heights, n, i)
  <2>1. n \in allocated /\ mem[n].levelHeight \in Levels /\ mem[n].levelHeight \in Nat
    BY <1>4, NodesOfList, Addresses
  <2>2. \A j \in Levels : n \in Heights[j] <=> j <= mem[n].levelHeight
    BY <1>1, <2>1, Addresses DEF On
  <2>3. QED
    BY <2>1, <2>2 DEF IsTop
<1>5. ASSUME NEW l \in Levels, NEW p \in Nodes \ On(l)
      PROVE  next(p, l) = NULL
  <2>1. CASE p \in allocated
    <3>1. ~(mem[p].levelHeight >= l) /\ mem[p].levelHeight \in Nat /\ l \in Nat
      BY <1>5, <2>1, NodesOfList, Addresses DEF On
    <3>2. QED
      BY <2>1, <3>1 DEF ListInv
  <2>2. CASE p \notin allocated
    BY <2>2 DEF ListInv, next, EmptyNode
  <2>3. QED
    BY <2>1, <2>2
<1>6. \A l \in Levels : Heights[l] \subseteq Heights[0]
  BY <1>1, NodesOfList, Addresses
<1>7. \A n \in Heights[0] : n \in Nodes /\ mem[n].key \in Keys /\ \E i : IsTop(Heights, n, i)
  BY <1>1, <1>4, NodesOfList, Addresses
<1>8. \A n, m \in Heights[0] : mem[n].key = mem[m].key => n = m
  BY <1>1, NodesOfList, Addresses
<1>9. ASSUME NEW l \in Levels
      PROVE  /\ \A p \in PlaceIn(Heights, l) : SuccessorIn(Heights, p, l)
             /\ \A p \in Nodes \ Heights[l] : next(p, l) \in Heights[l] \cup {dummyTail, NULL}
  BY <1>1, <1>2, <1>5 DEF ListInv
<1>10. QED
  BY <1>6, <1>7, <1>8, <1>9 DEF Levelled

LEMMA LastUnique ==
  ASSUME ListInv, NEW l \in Levels, NEW k \in Keys, NEW p, NEW q, IsLast(p, l, k), IsLast(q, l, k)
  PROVE  p = q
BY ListIsLevelled, InHeights, LastUniqueIn

LEMMA LastStops ==
  ASSUME ListInv, NEW l \in Levels, NEW k \in Keys, NEW p \in Place(l), Below(p, k)
  PROVE  IsLast(p, l, k) <=> ~(next(p, l) \in Nodes /\ mem[next(p, l)].key < k)
BY ListIsLevelled, InHeights, LastStopsIn

LEMMA LastNext ==
  ASSUME ListInv, NEW l \in Levels, NEW k \in Keys, NEW p, IsLast(p, l, k)
  PROVE  /\ next(p, l) = dummyTail \/ (next(p, l) \in On(l) /\ mem[next(p, l)].key >= k)
         /\ \A n \in On(l) : mem[n].key = k => next(p, l) = n
<1>1. Levelled(Heights) /\ IsLastIn(Heights, p, l, k) /\ Heights[l] = On(l)
  BY ListIsLevelled, InHeights
<1>2. QED
  BY <1>1, LastNextIn

\* From any place before the key the walk goes to the key's place.
LEMMA AdvanceIs ==
  ASSUME ListInv, NEW l \in Levels, NEW k \in Keys
  PROVE  /\ \A p \in Place(l) : Below(p, k) => IsLast(Advance(l, k)[p], l, k)
         /\ \A p \in Nodes \ Place(l) : Advance(l, k)[p] = p
<1>1. /\ Levelled(Heights) /\ PlaceIn(Heights, l) = Place(l)
      /\ \A q : IsLastIn(Heights, q, l, k) <=> IsLast(q, l, k)
  BY ListIsLevelled, InHeights
<1>2. ASSUME NEW p \in Nodes \ Place(l)
      PROVE  next(p, l) = NULL
  <2>1. CASE p \in allocated
    <3>1. ~(mem[p].levelHeight >= l) /\ mem[p].levelHeight \in Nat /\ l \in Nat
      BY <1>2, <2>1, NodesOfList, Addresses DEF Place, On
    <3>2. QED
      BY <2>1, <3>1 DEF ListInv
  <2>2. CASE p \notin allocated
    BY <1>2, <2>2 DEF ListInv, next, EmptyNode
  <2>3. QED
    BY <2>1, <2>2
<1>3. QED
  BY <1>1, <1>2, AdvanceIsIn

Last(l, k) == LastIn(Heights, l, k)

LEMMA LastIs ==
  ASSUME ListInv, NEW l \in Levels, NEW k \in Keys
  PROVE  IsLast(Last(l, k), l, k) /\ \A p : IsLast(p, l, k) => p = Last(l, k)
<1>1. Levelled(Heights) /\ \A q : IsLastIn(Heights, q, l, k) <=> IsLast(q, l, k)
  BY ListIsLevelled, InHeights
<1>2. QED
  BY <1>1, LastIsIn DEF Last

\* What the functions of the list use of a search.
LEMMA SearchFinds ==
  ASSUME ListInv, NEW k \in Keys
  PROVE  /\ \A n \in allocated : mem[n].key = k => Descent(k).cur = n /\ Found(k)
                                                   /\ Lookup(k) = mem[n].value
         /\ (\A n \in allocated : mem[n].key # k) =>
              /\ ~Found(k) /\ Lookup(k) = NULL /\ IsLast(Descent(k).prev, 0, k)
              /\ Descent(k).cur = next(Descent(k).prev, 0)
<1>1. Levelled(Heights) /\ Heights[0] = allocated
  BY ListIsLevelled, InHeights, NodesOfList, Addresses
<1>2. ASSUME NEW n \in allocated, mem[n].key = k
      PROVE  Descent(k).cur = n /\ Found(k) /\ Lookup(k) = mem[n].value
  <2>1. Descent(k).cur = n
    BY <1>1, <1>2, SearchFindsIn
  <2>2. n \in Nodes /\ mem[n].state = "NORMAL"
    BY NodesOfList DEF ListInv
  <2>3. QED
    BY <1>2, <2>1, <2>2 DEF Found, Lookup
<1>3. ASSUME \A n \in allocated : mem[n].key # k
      PROVE  /\ ~Found(k) /\ Lookup(k) = NULL /\ IsLast(Descent(k).prev, 0, k)
             /\ Descent(k).cur = next(Descent(k).prev, 0)
  <2>1. /\ Descent(k) = [prev |-> Last(0, k), cur |-> next(Last(0, k), 0)]
        /\ ~(Descent(k).cur \in Nodes /\ mem[Descent(k).cur].key = k)
    BY <1>1, <1>3, SearchFindsIn DEF Last
  <2>2. IsLast(Last(0, k), 0, k)
    BY LastIs, Addresses
  <2>3. QED
    BY <2>1, <2>2 DEF Found, Lookup
<1>4. QED
  BY <1>2, <1>3

-----------------------------------------------------------------------------
(* The nodes of a level.                                                     *)

\* The nodes after a place are what the recursion along a level collects.
Rest(l, p) == IF p \in Place(l) THEN {n \in On(l) : After(n, p)} ELSE {}

LEMMA RestEquation ==
  ASSUME ListInv, NEW l \in Levels, NEW p \in Nodes \cup {dummyHead}
  PROVE  Rest(l, p) = IF next(p, l) \in Nodes THEN {next(p, l)} \cup Rest(l, next(p, l)) ELSE {}
<1>1. \A n \in On(l) : mem[n].key \in Nat /\ n \in Nodes /\ n # dummyHead
  BY NodesOfList
<1>2. CASE p \notin Place(l)
  <2>1. next(p, l) = NULL
    <3>1. CASE p \in allocated
      <4>1. ~(mem[p].levelHeight >= l) /\ mem[p].levelHeight \in Nat /\ l \in Nat
        BY <1>2, <3>1, NodesOfList, Addresses DEF Place, On
      <4>2. QED
        BY <3>1, <4>1 DEF ListInv
    <3>2. CASE p \notin allocated
      BY <1>2, <3>2 DEF ListInv, next, EmptyNode, Place
    <3>3. QED
      BY <3>1, <3>2
  <2>2. QED
    BY <1>2, <2>1, Addresses DEF Rest
<1>3. CASE p \in Place(l) /\ next(p, l) = dummyTail
  <2>1. Successor(p, l)
    BY <1>3 DEF ListInv
  <2>2. \A n \in On(l) : ~After(n, p)
    BY <1>3, <2>1, NodesOfList DEF Successor
  <2>3. QED
    BY <1>3, <2>2, Addresses DEF Rest
<1>4. CASE p \in Place(l) /\ next(p, l) # dummyTail
  <2>1. Successor(p, l)
    BY <1>4 DEF ListInv
  <2>2. PICK q \in On(l) : q = next(p, l) /\ After(q, p)
                           /\ \A n \in On(l) : After(n, p) => mem[q].key <= mem[n].key
    BY <1>4, <2>1 DEF Successor
  <2>3. Rest(l, p) = {n \in On(l) : After(n, p)} /\ Rest(l, q) = {n \in On(l) : After(n, q)}
    BY <1>4, <2>2 DEF Rest, Place
  <2>4. ASSUME NEW n \in On(l)
        PROVE  After(n, p) <=> n = q \/ After(n, q)
    <3>1. After(n, p) => n = q \/ After(n, q)
      <4>1. ASSUME After(n, p), n # q
            PROVE  After(n, q)
        <5>1. mem[q].key <= mem[n].key
          BY <2>2, <4>1
        <5>2. mem[q].key # mem[n].key
          BY <4>1, NodesOfList
        <5>3. QED
          BY <1>1, <5>1, <5>2 DEF After
      <4>2. QED
        BY <4>1
    <3>2. After(n, q) => After(n, p)
      <4>1. ASSUME After(n, q), p # dummyHead
            PROVE  mem[p].key < mem[n].key
        <5>1. p \in On(l)
          BY <1>4, <4>1 DEF Place
        <5>2. mem[p].key < mem[q].key /\ mem[q].key < mem[n].key
          BY <1>1, <2>2, <4>1 DEF After
        <5>3. QED
          BY <1>1, <5>1, <5>2
      <4>2. QED
        BY <4>1 DEF After
    <3>3. QED
      BY <2>2, <3>1, <3>2
  <2>5. Rest(l, p) = {q} \cup Rest(l, q)
    BY <2>3, <2>4
  <2>6. QED
    BY <1>1, <2>2, <2>5
<1>5. QED
  BY <1>2, <1>3, <1>4

LEMMA RestUnique ==
  ASSUME ListInv, NEW l \in Levels, NEW f,
         \A p \in Nodes \cup {dummyHead} :
           f[p] = IF next(p, l) \in Nodes THEN {next(p, l)} \cup f[next(p, l)] ELSE {}
  PROVE  f[dummyHead] = On(l)
<1>1. \A n \in On(l) : mem[n].key \in Nat /\ n \in Nodes /\ n # dummyHead /\ n \in allocated
  BY NodesOfList
<1>2. ASSUME NEW p \in Place(l)
      PROVE  \/ f[p] = Rest(l, p)
             \/ /\ next(p, l) \in On(l) /\ After(next(p, l), p)
                /\ f[next(p, l)] # Rest(l, next(p, l))
  <2>1. Successor(p, l) /\ p \in Nodes \cup {dummyHead}
    BY NodesOfList DEF ListInv
  <2>2. Rest(l, p) = IF next(p, l) \in Nodes THEN {next(p, l)} \cup Rest(l, next(p, l)) ELSE {}
    BY <2>1, RestEquation
  <2>3. CASE next(p, l) \in Nodes
    BY <2>1, <2>2, <2>3, Addresses DEF Successor
  <2>4. CASE next(p, l) \notin Nodes
    BY <2>1, <2>2, <2>4
  <2>5. QED
    BY <2>3, <2>4
<1>3. ASSUME NEW b \in On(l), f[b] # Rest(l, b)
      PROVE  FALSE
  <2> DEFINE Bad == {n \in On(l) : f[n] # Rest(l, n)}
             S == {mem[n].key : n \in Bad}
  <2>1. PICK K \in Nat : \A n \in allocated : mem[n].key <= K
    BY DEF ListInv
  <2>2. S \in SUBSET Nat /\ S # {} /\ \A i \in S : i <= K
    BY <1>1, <1>3, <2>1
  <2>3. PICK i \in S : \A j \in S : j <= i
    BY <2>2, GreatestNumber
  <2>4. PICK p \in Bad : mem[p].key = i
    OBVIOUS
  <2>5. p \in Place(l) /\ p # dummyHead
    BY <1>1, <2>4 DEF Place
  <2>6. PICK q \in On(l) : mem[p].key < mem[q].key /\ f[q] # Rest(l, q)
    BY <1>2, <2>4, <2>5 DEF After
  <2>7. mem[q].key <= mem[p].key
    BY <2>3, <2>4, <2>6
  <2>8. QED
    BY <1>1, <2>4, <2>6, <2>7
<1>4. dummyHead \in Place(l)
  BY DEF Place
<1>5. f[dummyHead] = Rest(l, dummyHead)
  BY <1>2, <1>3, <1>4
<1>6. QED
  BY <1>4, <1>5 DEF Rest, After

\* The nodes of a level are those that are high enough.
LEMMA OnLevelIs ==
  ASSUME ListInv, NEW l \in Levels
  PROVE  OnLevel(l) = On(l)
<1> DEFINE D == Nodes \cup {dummyHead}
           body(from, p) == IF next(p, l) \in Nodes THEN {next(p, l)} \cup from[next(p, l)] ELSE {}
<1>1. PICK w : w = [p \in D |-> Rest(l, p)]
  OBVIOUS
<1>2. w = [p \in D |-> body(w, p)]
  <2>1. ASSUME NEW p \in D
        PROVE  w[p] = body(w, p)
    BY <1>1, RestEquation
  <2>2. QED
    BY <1>1, <2>1
<1>3. PICK f : f = CHOOSE from : from = [p \in D |-> body(from, p)]
  OBVIOUS
<1>4. OnLevel(l) = f[dummyHead]
  BY <1>3 DEF OnLevel
<1> HIDE DEF body
<1>5. f = [p \in D |-> body(f, p)]
  BY <1>2, <1>3
<1> USE DEF body
<1>6. \A p \in D : f[p] = body(f, p)
  BY <1>5
<1>7. QED
  BY <1>4, <1>6, RestUnique

\* So is the chain that Clear frees.
LEMMA ChainIs ==
  ASSUME ListInv
  PROVE  Chain = allocated
<1> DEFINE D == Nodes \cup {dummyHead}
           body(rest, p) == IF next(p, 0) \in Nodes THEN {next(p, 0)} \cup rest[next(p, 0)] ELSE {}
<1>1. PICK w : w = [p \in D |-> Rest(0, p)]
  OBVIOUS
<1>2. w = [p \in D |-> body(w, p)]
  <2>1. ASSUME NEW p \in D
        PROVE  w[p] = body(w, p)
    BY <1>1, RestEquation, Addresses
  <2>2. QED
    BY <1>1, <2>1
<1>3. PICK f : f = CHOOSE rest : rest = [p \in D |-> body(rest, p)]
  OBVIOUS
<1>4. Chain = f[dummyHead]
  BY <1>3 DEF Chain, ChainFrom
<1> HIDE DEF body
<1>5. f = [p \in D |-> body(f, p)]
  BY <1>2, <1>3
<1> USE DEF body
<1>6. \A p \in D : f[p] = body(f, p)
  BY <1>5
<1>7. f[dummyHead] = On(0)
  BY <1>6, RestUnique, Addresses
<1>8. QED
  BY <1>4, <1>7, NodesOfList

-----------------------------------------------------------------------------
(* The ascent of an insertion.                                               *)

\* On level l the ascent is at the key's place, or it met NULL on the way: on a
\* level below, it was at a node that is not as high as the next level.
Broken(l, k, h, prev) ==
  \E m \in 1..l : m - 1 \in LinkedHigh(h, prev) /\ Last(m - 1, k) \notin Place(m)

AscentAt(l, k, h, prev) ==
  IF l \in LinkedLow(h, prev) THEN prev
  ELSE IF l - 1 \in LinkedHigh(h, prev) /\ Broken(l, k, h, prev) THEN NULL
  ELSE Last(l, k)

AscentStep(l, k, h, prev, before) ==
  IF l \in LinkedLow(h, prev) THEN prev
  ELSE LET from == IF l - 1 \in LinkedHigh(h, prev) THEN before[l - 1] ELSE dummyHead
       IN IF from = NULL \/ next(Advance(l, k)[from], l) = NULL THEN NULL
          ELSE Advance(l, k)[from]

\* Where the ascent goes on from a place, and where it breaks.
LEMMA AscentWalks ==
  ASSUME ListInv, NEW l \in Levels, NEW k \in Keys, NEW from \in Nodes \cup {dummyHead}, Below(from, k)
  PROVE  /\ from \in Place(l) => /\ Advance(l, k)[from] = Last(l, k)
                                 /\ next(Advance(l, k)[from], l) # NULL
         /\ from \notin Place(l) => next(Advance(l, k)[from], l) = NULL
<1>1. CASE from \in Place(l)
  <2>1. Advance(l, k)[from] = Last(l, k) /\ IsLast(Last(l, k), l, k)
    BY <1>1, AdvanceIs, LastIs
  <2>2. next(Last(l, k), l) \in On(l) \cup {dummyTail}
    BY <2>1, LastNext
  <2>3. QED
    BY <1>1, <2>1, <2>2, NodesOfList, Addresses
<1>2. CASE from \notin Place(l)
  <2>1. from \in Nodes
    BY <1>2 DEF Place
  <2>2. Advance(l, k)[from] = from
    BY <1>2, <2>1, AdvanceIs
  <2>3. next(from, l) = NULL
    <3>1. CASE from \in allocated
      <4>1. ~(mem[from].levelHeight >= l) /\ mem[from].levelHeight \in Nat /\ l \in Nat
        BY <1>2, <3>1, NodesOfList, Addresses DEF Place, On
      <4>2. QED
        BY <3>1, <4>1 DEF ListInv
    <3>2. CASE from \notin allocated
      BY <2>1, <3>2 DEF ListInv, next, EmptyNode
    <3>3. QED
      BY <3>1, <3>2
  <2>4. QED
    BY <1>2, <2>2, <2>3
<1>3. QED
  BY <1>1, <1>2

LEMMA AscentEquation ==
  ASSUME ListInv, NEW k \in Keys, NEW h \in Levels, NEW prev, IsLast(prev, 0, k),
         NEW before, \A l \in Levels : before[l] = AscentAt(l, k, h, prev),
         NEW l \in Levels
  PROVE  before[l] = AscentStep(l, k, h, prev, before)
<1>1. h \in Nat /\ l \in Nat /\ \A i \in Levels : i \in Nat
  BY Addresses
<1>2. mem[prev].levelHeight \in Nat
  BY Addresses, NodesOfList DEF IsLast, Place, ListInv
<1>3. \A i : /\ i \in LinkedHigh(h, prev) <=> i \in Levels /\ i <= h /\ i > mem[prev].levelHeight
             /\ i \in LinkedLow(h, prev) <=> i \in Levels /\ i <= h /\ i <= mem[prev].levelHeight
  BY DEF LinkedHigh, LinkedLow
<1>4. \A i \in Levels : /\ IsLast(Last(i, k), i, k) /\ Last(i, k) \in Place(i) /\ Below(Last(i, k), k)
                        /\ Last(i, k) \in Nodes \cup {dummyHead}
  BY LastIs, NodesOfList DEF IsLast
<1>5. CASE l \in LinkedLow(h, prev)
  BY <1>5 DEF AscentAt, AscentStep
<1>6. CASE l \notin LinkedLow(h, prev) /\ l - 1 \notin LinkedHigh(h, prev)
  <2>1. dummyHead \in Place(l) /\ Below(dummyHead, k)
    BY DEF Place, Below
  <2>2. Advance(l, k)[dummyHead] = Last(l, k) /\ next(Advance(l, k)[dummyHead], l) # NULL
    BY <2>1, AscentWalks
  <2>3. QED
    BY <1>6, <2>2, Addresses DEF AscentAt, AscentStep
<1>7. CASE l \notin LinkedLow(h, prev) /\ l - 1 \in LinkedHigh(h, prev)
  <2>1. PICK below \in Levels : below = l - 1 /\ below \in LinkedHigh(h, prev)
                                /\ below + 1 = l /\ below \in Nat
    BY <1>1, <1>3, <1>7
  <2>2. below \notin LinkedLow(h, prev)
    BY <1>1, <1>2, <1>3, <2>1
  <2>3. Broken(l, k, h, prev) <=>
          (below - 1 \in LinkedHigh(h, prev) /\ Broken(below, k, h, prev)) \/ Last(below, k) \notin Place(l)
    <3>1. ASSUME NEW m \in 1..below, m - 1 \in LinkedHigh(h, prev)
          PROVE  below - 1 \in LinkedHigh(h, prev)
      <4>1. m - 1 <= below - 1 /\ m - 1 > mem[prev].levelHeight /\ below - 1 \in Nat /\ m - 1 \in Nat
        BY <1>3, <2>1, <3>1
      <4>2. below - 1 \in Levels /\ below - 1 <= h
        BY <1>1, <1>3, <2>1, <4>1, Addresses
      <4>3. QED
        BY <1>2, <1>3, <4>1, <4>2
    <3>2. 1..l = (1..below) \cup {l}
      BY <2>1
    <3>3. QED
      BY <2>1, <3>1, <3>2 DEF Broken
  <2>4. before[below] = IF below - 1 \in LinkedHigh(h, prev) /\ Broken(below, k, h, prev)
                        THEN NULL ELSE Last(below, k)
    BY <2>1, <2>2 DEF AscentAt
  <2>5. before[l] = IF Broken(l, k, h, prev) THEN NULL ELSE Last(l, k)
    BY <1>7 DEF AscentAt
  <2>6. AscentStep(l, k, h, prev, before) =
          IF before[below] = NULL \/ next(Advance(l, k)[before[below]], l) = NULL THEN NULL
          ELSE Advance(l, k)[before[below]]
    BY <1>7, <2>1 DEF AscentStep
  <2>7. Last(below, k) # NULL
    BY <1>4, <2>1, Addresses
  <2>8. /\ Last(below, k) \in Place(l) => /\ Advance(l, k)[Last(below, k)] = Last(l, k)
                                          /\ next(Advance(l, k)[Last(below, k)], l) # NULL
        /\ Last(below, k) \notin Place(l) => next(Advance(l, k)[Last(below, k)], l) = NULL
    BY <1>4, <2>1, AscentWalks
  <2>9. QED
    BY <2>3, <2>4, <2>5, <2>6, <2>7, <2>8
<1>8. QED
  BY <1>5, <1>6, <1>7

LEMMA PredecessorEquation ==
  ASSUME ListInv, NEW k \in Keys, NEW h \in Levels, NEW prev, IsLast(prev, 0, k), NEW l \in Levels
  PROVE  Predecessor(k, h, prev)[l] = AscentAt(l, k, h, prev)
<1> DEFINE body(before, i) ==
             IF i \in LinkedLow(h, prev) THEN prev
             ELSE LET from == IF i - 1 \in LinkedHigh(h, prev) THEN before[i - 1] ELSE dummyHead
                  IN IF from = NULL \/ next(Advance(i, k)[from], i) = NULL THEN NULL
                     ELSE Advance(i, k)[from]
<1>1. PICK w : w = [i \in Levels |-> AscentAt(i, k, h, prev)]
  OBVIOUS
<1>2. \A f, i : body(f, i) = AscentStep(i, k, h, prev, f)
  BY DEF AscentStep
<1> HIDE DEF body
<1>3. w = [i \in Levels |-> body(w, i)]
  <2>1. ASSUME NEW i \in Levels
        PROVE  w[i] = body(w, i)
    <3>1. w[i] = AscentStep(i, k, h, prev, w)
      BY <1>1, AscentEquation
    <3>2. QED
      BY <1>2, <3>1
  <2>2. QED
    BY <1>1, <2>1
<1>4. PICK f : f = CHOOSE before : before = [i \in Levels |-> body(before, i)]
  OBVIOUS
<1>5. Predecessor(k, h, prev) = f
  BY <1>4 DEF Predecessor, body
<1>6. f = [i \in Levels |-> body(f, i)]
  BY <1>3, <1>4
<1>7. ASSUME NEW b \in Levels, f[b] # w[b]
      PROVE  FALSE
  <2> DEFINE S == {i \in Levels : f[i] # w[i]}
  <2>1. S \in SUBSET Nat /\ S # {}
    BY <1>7, Addresses
  <2>2. PICK i \in S : \A j \in S : i <= j
    BY <2>1, LeastNumber
  <2>3. i - 1 \in LinkedHigh(h, prev) => f[i - 1] = w[i - 1]
    <3>1. ASSUME i - 1 \in LinkedHigh(h, prev)
          PROVE  f[i - 1] = w[i - 1]
      <4>1. i - 1 \in Levels /\ i \in Nat /\ ~(i <= i - 1)
        BY <3>1, Addresses DEF LinkedHigh
      <4>2. QED
        BY <2>2, <4>1
    <3>2. QED
      BY <3>1
  <2>4. body(f, i) = body(w, i)
    BY <2>3 DEF body
  <2>5. QED
    BY <1>3, <1>6, <2>2, <2>4
<1>8. QED
  BY <1>1, <1>5, <1>7

\* The new node's predecessors are the places of its key, one per level; so the
\* ascent cannot meet the key of a node, and meets NULL at most.
LEMMA PredecessorIs ==
  ASSUME ListInv, NEW k \in Keys, NEW h \in Levels, NEW prev, IsLast(prev, 0, k)
  PROVE  /\ \A l \in Levels : l <= h =>
              \/ Predecessor(k, h, prev)[l] = NULL /\ l \in LinkedHigh(h, prev)
              \/ IsLast(Predecessor(k, h, prev)[l], l, k)
         /\ (\A n \in allocated : mem[n].key # k) => ~MeetsKey(k, h, prev)
<1>1. mem[prev].levelHeight \in Nat /\ h \in Nat /\ \A i \in Levels : i \in Nat
  BY Addresses, NodesOfList DEF IsLast, Place, ListInv
<1>2. ASSUME NEW l \in Levels, l <= h
      PROVE  \/ Predecessor(k, h, prev)[l] = NULL /\ l \in LinkedHigh(h, prev)
             \/ IsLast(Predecessor(k, h, prev)[l], l, k)
  <2>1. Predecessor(k, h, prev)[l] = AscentAt(l, k, h, prev)
    BY PredecessorEquation
  <2>2. CASE l \in LinkedLow(h, prev)
    <3>1. l <= mem[prev].levelHeight
      BY <2>2 DEF LinkedLow
    <3>2. prev \in Place(0) /\ On(l) \subseteq On(0)
      BY <1>1, LowerLevel, Addresses DEF IsLast
    <3>3. prev \in Place(l)
      BY <1>1, <3>1, <3>2 DEF Place, On
    <3>4. IsLast(prev, l, k)
      BY <3>2, <3>3 DEF IsLast
    <3>5. QED
      BY <2>1, <2>2, <3>4 DEF AscentAt
  <2>3. CASE l \notin LinkedLow(h, prev)
    <3>1. l \in LinkedHigh(h, prev)
      BY <1>1, <1>2, <2>3 DEF LinkedLow, LinkedHigh
    <3>2. AscentAt(l, k, h, prev) \in {NULL, Last(l, k)}
      BY <2>3 DEF AscentAt
    <3>3. QED
      BY <2>1, <3>1, <3>2, LastIs
  <2>4. QED
    BY <2>2, <2>3
<1>3. ASSUME \A n \in allocated : mem[n].key # k, NEW l \in LinkedHigh(h, prev),
             NEW p, p = Predecessor(k, h, prev)[l],
             p # NULL, next(p, l) \in Nodes, mem[next(p, l)].key = k
      PROVE  FALSE
  <2>1. l \in Levels /\ l <= h
    BY DEF LinkedHigh
  <2>2. IsLast(p, l, k)
    BY <1>2, <1>3, <2>1
  <2>3. next(p, l) \in On(l)
    BY <1>3, <2>1, <2>2, LastNext, Addresses
  <2>4. QED
    BY <1>3, <2>1, <2>3, NodesOfList
<1>4. QED
  BY <1>2, <1>3 DEF MeetsKey

-----------------------------------------------------------------------------
(* The functions of the list.                                                *)

NodeType == [levelNext : [Levels -> Nodes \cup {dummyTail, NULL}], levelHeight : Levels,
             key : Keys \cup {NULL}, value : Values \cup {NULL}, state : NodeStates]

\* The part of the invariant that is about the nodes.
Shape ==
  /\ mem \in [Nodes \cup {dummyHead} -> NodeType]
  /\ allocated \subseteq Nodes
  /\ \A n \in allocated : /\ mem[n].key \in Keys /\ mem[n].value \in Values
                          /\ mem[n].state = "NORMAL"
                          /\ \A l \in Levels : l > mem[n].levelHeight => next(n, l) = NULL
  /\ \A n, m \in allocated : mem[n].key = mem[m].key => n = m
  /\ mem[dummyHead].levelHeight = LIST_HEIGHT - 1
  /\ \A n \in Nodes \ allocated : mem[n] = EmptyNode
  /\ \A l \in Levels : \A p \in Place(l) : Successor(p, l)
  /\ IsFiniteSet(allocated)
  /\ \E K \in Nat : \A n \in allocated : mem[n].key <= K

LEMMA ShapeOfList ==
  ListInv <=> /\ Shape
              /\ nodeCount \in Sizes /\ deleted \in BOOLEAN
              /\ status \in {"ok", "crashed", "hung"} /\ last.result \in Results
  BY DEF ListInv, ListTypeOK, Shape, NodeType

LEMMA EmptyType == EmptyNode \in NodeType /\ EmptyHead \in NodeType
  BY Addresses DEF EmptyNode, EmptyHead, NodeType, NodeStates, Levels

\* Each predecessor is the place of the key on its level.
Behind(before, h, k) == \A l \in Levels : l <= h => IsLast(before[l], l, k)

\* What an insertion makes of the nodes that were there, and of the new one.
NodesLinked(n, k, v, h, before) ==
  /\ mem' \in [Nodes \cup {dummyHead} -> NodeType]
  /\ mem'[n].key = k /\ mem'[n].value = v /\ mem'[n].state = "NORMAL" /\ mem'[n].levelHeight = h
  /\ \A l \in Levels : mem'[n].levelNext[l] = IF l <= h THEN next(before[l], l) ELSE NULL
  /\ \A p \in (Nodes \cup {dummyHead}) \ {n} :
       /\ mem'[p].key = mem[p].key /\ mem'[p].value = mem[p].value
       /\ mem'[p].state = mem[p].state /\ mem'[p].levelHeight = mem[p].levelHeight
       /\ \A l \in Levels : mem'[p].levelNext[l] = IF l <= h /\ before[l] = p THEN n ELSE next(p, l)
  /\ \A p \in (Nodes \ allocated) \ {n} : mem'[p] = EmptyNode

LEMMA NodesAreLinked ==
  ASSUME mem \in [Nodes \cup {dummyHead} -> NodeType], allocated \subseteq Nodes,
         \A q \in Nodes \ allocated : mem[q] = EmptyNode,
         NEW k \in Keys, NEW v \in Values, NEW h \in Levels, NEW prev,
         NEW n \in Nodes \ allocated,
         NEW before, before = Predecessor(k, h, prev),
         mem' = Linked(n, k, v, h, prev),
         \A l \in Levels : l <= h => before[l] \in allocated \cup {dummyHead}
  PROVE  NodesLinked(n, k, v, h, before)
<1>1. mem \in [Nodes \cup {dummyHead} -> NodeType]
  OBVIOUS
<1>2. PICK behind : behind = [l \in Levels |-> IF l \in LinkedOn(h) THEN next(before[l], l) ELSE NULL]
  OBVIOUS
<1>3. behind \in [Levels -> Nodes \cup {dummyTail, NULL}]
  <2>1. ASSUME NEW l \in Levels, l \in LinkedOn(h)
        PROVE  next(before[l], l) \in Nodes \cup {dummyTail, NULL}
    <3>1. before[l] \in Nodes \cup {dummyHead}
      BY <2>1 DEF LinkedOn
    <3>2. QED
      BY <1>1, <3>1 DEF next, NodeType
  <2>2. QED
    BY <1>2, <2>1
<1>4. PICK node : node = [EmptyNode EXCEPT !.levelNext = behind, !.levelHeight = h,
                                           !.key = k, !.value = v, !.state = "NORMAL"]
  OBVIOUS
<1>5. node \in NodeType /\ node.levelNext = behind /\ node.levelHeight = h /\ node.key = k
      /\ node.value = v /\ node.state = "NORMAL"
  BY <1>3, <1>4, EmptyType DEF NodeType, EmptyNode, NodeStates
<1>6. mem' = [p \in Nodes \cup {dummyHead} |->
                IF p = n THEN node
                ELSE [mem[p] EXCEPT !.levelNext =
                        [l \in Levels |-> IF l \in LinkedOn(h) /\ before[l] = p THEN n ELSE @[l]]]]
  BY <1>1, <1>2, <1>4 DEF Linked
<1>7. mem'[n] = node
  BY <1>6
<1>8. \A l \in Levels : l \in LinkedOn(h) <=> l <= h
  BY DEF LinkedOn
<1>9. ASSUME NEW p \in (Nodes \cup {dummyHead}) \ {n}
      PROVE  /\ mem'[p] \in NodeType
             /\ mem'[p].key = mem[p].key /\ mem'[p].value = mem[p].value
             /\ mem'[p].state = mem[p].state /\ mem'[p].levelHeight = mem[p].levelHeight
             /\ \A l \in Levels : mem'[p].levelNext[l] = IF l <= h /\ before[l] = p THEN n ELSE next(p, l)
  <2>1. mem'[p] = [mem[p] EXCEPT !.levelNext =
                     [l \in Levels |-> IF l \in LinkedOn(h) /\ before[l] = p THEN n ELSE mem[p].levelNext[l]]]
    BY <1>1, <1>6 DEF NodeType
  <2>2. PICK links : links = [l \in Levels |-> IF l \in LinkedOn(h) /\ before[l] = p THEN n ELSE mem[p].levelNext[l]]
    OBVIOUS
  <2>3. links \in [Levels -> Nodes \cup {dummyTail, NULL}]
    BY <1>1, <2>2 DEF NodeType
  <2>4. QED
    BY <1>1, <1>8, <2>1, <2>2, <2>3 DEF NodeType, next
<1>10. mem' \in [Nodes \cup {dummyHead} -> NodeType]
  <2>1. \A p \in Nodes \cup {dummyHead} : mem'[p] \in NodeType
    BY <1>5, <1>7, <1>9
  <2>2. QED
    BY <1>6, <2>1
<1>11. ASSUME NEW p \in (Nodes \ allocated) \ {n}
       PROVE  mem'[p] = EmptyNode
  <2>1. mem[p] = EmptyNode
    OBVIOUS
  <2>2. ASSUME NEW l \in Levels, l <= h
        PROVE  before[l] # p
    BY <2>2, Addresses
  <2>3. mem'[p].levelNext = mem[p].levelNext
    <3>1. mem'[p].levelNext \in [Levels -> Nodes \cup {dummyTail, NULL}]
          /\ mem[p].levelNext \in [Levels -> Nodes \cup {dummyTail, NULL}]
      BY <1>1, <1>9 DEF NodeType
    <3>2. \A l \in Levels : mem'[p].levelNext[l] = mem[p].levelNext[l]
      BY <1>9, <2>2 DEF next
    <3>3. QED
      BY <3>1, <3>2
  <2>4. mem'[p] \in NodeType /\ mem[p] \in NodeType
    BY <1>1, <1>9
  <2>5. mem'[p] = mem[p]
    BY <1>9, <2>3, <2>4 DEF NodeType
  <2>6. QED
    BY <2>1, <2>5
<1>12. QED
  BY <1>5, <1>7, <1>8, <1>9, <1>10, <1>11, <1>2 DEF NodesLinked

LEMMA LinkedNodes ==
  ASSUME ListInv, NEW k \in Keys, NEW v \in Values, NEW h \in Levels, NEW prev,
         NEW n \in Nodes \ allocated,
         NEW before, before = Predecessor(k, h, prev),
         mem' = Linked(n, k, v, h, prev),
         Behind(before, h, k)
  PROVE  NodesLinked(n, k, v, h, before)
<1>1. mem \in [Nodes \cup {dummyHead} -> NodeType] /\ allocated \subseteq Nodes
      /\ \A q \in Nodes \ allocated : mem[q] = EmptyNode
  BY ShapeOfList DEF Shape
<1>2. \A l \in Levels : l <= h => before[l] \in allocated \cup {dummyHead}
  BY NodesOfList DEF Behind, IsLast, Place
<1>3. QED
  BY <1>1, <1>2, NodesAreLinked, Zenon

LEMMA InsertKeeps ==
  ASSUME ListInv, NEW k \in Keys, NEW v \in Values, NEW h \in Levels, NEW prev,
         NEW n \in Nodes \ allocated,
         NEW before, before = Predecessor(k, h, prev),
         mem' = Linked(n, k, v, h, prev), allocated' = allocated \cup {n},
         Behind(before, h, k),
         \A m \in allocated : mem[m].key # k
  PROVE  Shape'
<1>1. /\ mem' \in [Nodes \cup {dummyHead} -> NodeType]
      /\ mem'[n].key = k /\ mem'[n].value = v /\ mem'[n].state = "NORMAL" /\ mem'[n].levelHeight = h
      /\ \A l \in Levels : mem'[n].levelNext[l] = IF l <= h THEN next(before[l], l) ELSE NULL
      /\ \A p \in (Nodes \cup {dummyHead}) \ {n} :
           /\ mem'[p].key = mem[p].key /\ mem'[p].value = mem[p].value
           /\ mem'[p].state = mem[p].state /\ mem'[p].levelHeight = mem[p].levelHeight
           /\ \A l \in Levels : mem'[p].levelNext[l] = IF l <= h /\ before[l] = p THEN n ELSE next(p, l)
      /\ \A p \in (Nodes \ allocated) \ {n} : mem'[p] = EmptyNode
  <2>1. NodesLinked(n, k, v, h, before)
    BY LinkedNodes, Zenon
  <2>2. QED
    BY <2>1 DEF NodesLinked
<1>2. /\ n # dummyHead /\ n # dummyTail /\ n # NULL /\ n \in Nodes /\ n \notin allocated
      /\ k \in Nat /\ h \in Nat /\ allocated \subseteq Nodes /\ allocated' \subseteq Nodes
      /\ \A m \in allocated : /\ m # n /\ m # dummyHead /\ m \in Nodes
                              /\ mem[m].key \in Nat /\ mem[m].levelHeight \in Levels
      /\ \A i \in Levels : i \in Nat
  BY NodesOfList, Addresses
<1>3. \A m \in allocated : /\ mem'[m].key = mem[m].key /\ mem'[m].levelHeight = mem[m].levelHeight
                           /\ mem'[m].value = mem[m].value /\ mem'[m].state = mem[m].state
  BY <1>1, <1>2
<1>4. ASSUME NEW m \in allocated'
      PROVE  /\ mem'[m].key \in Keys /\ mem'[m].value \in Values /\ mem'[m].state = "NORMAL"
             /\ \A l \in Levels : l > mem'[m].levelHeight => next(m, l)' = NULL
  <2>1. CASE m = n
    <3>1. ASSUME NEW l \in Levels, l > h
          PROVE  next(n, l)' = NULL
      <4>1. ~(l <= h)
        BY <1>2, <3>1
      <4>2. QED
        BY <1>1, <4>1 DEF next
    <3>2. QED
      BY <1>1, <2>1, <3>1
  <2>2. CASE m \in allocated
    <3>1. ASSUME NEW l \in Levels, l > mem'[m].levelHeight, l <= h
          PROVE  before[l] # m
      <4>1. before[l] = m => m \in On(l)
        BY <1>2, <2>2, <3>1 DEF IsLast, Place, Behind
      <4>2. mem[m].levelHeight \in Nat /\ l \in Nat /\ l > mem[m].levelHeight
        BY <1>2, <1>3, <2>2, <3>1
      <4>3. QED
        BY <4>1, <4>2 DEF On
    <3>2. \A l \in Levels : l > mem'[m].levelHeight => next(m, l)' = NULL
      <4>1. ASSUME NEW l \in Levels, l > mem'[m].levelHeight
            PROVE  next(m, l)' = NULL
        <5>1. mem'[m].levelNext[l] = next(m, l)
          BY <1>1, <1>2, <2>2, <3>1, <4>1
        <5>2. next(m, l) = NULL
          BY <1>3, <2>2, <4>1 DEF ListInv
        <5>3. QED
          BY <5>1, <5>2 DEF next
      <4>2. QED
        BY <4>1
    <3>3. QED
      BY <1>3, <2>2, <3>2 DEF ListInv
  <2>3. QED
    BY <2>1, <2>2
<1>5. \A m, q \in allocated' : mem'[m].key = mem'[q].key => m = q
  BY <1>1, <1>3, NodesOfList
<1>6. mem'[dummyHead].levelHeight = LIST_HEIGHT - 1
  BY <1>1, <1>2 DEF ListInv
<1>7. \A m \in Nodes \ allocated' : mem'[m] = EmptyNode
  BY <1>1
<1>8. ASSUME NEW l \in Levels
      PROVE  /\ On(l)' = On(l) \cup (IF l <= h THEN {n} ELSE {})
             /\ \A m \in On(l) : m \in allocated /\ mem'[m].key = mem[m].key /\ mem[m].key \in Nat
  BY <1>1, <1>2, <1>3 DEF On
<1>9. ASSUME NEW l \in Levels, NEW p \in Place(l)'
      PROVE  Successor(p, l)'
  <2>1. /\ On(l)' = On(l) \cup (IF l <= h THEN {n} ELSE {})
        /\ \A m \in On(l) : m \in allocated /\ mem'[m].key = mem[m].key /\ mem[m].key \in Nat
                            /\ m # n /\ m # dummyHead
    BY <1>2, <1>8
  <2>2. Place(l)' = On(l)' \cup {dummyHead}
    BY DEF Place
  <2>3. \A m : next(m, l)' = mem'[m].levelNext[l]
    BY DEF next
  <2>4. CASE p = n
    <3>1. PICK b : b = before[l]
      OBVIOUS
    <3>2. l <= h /\ IsLast(b, l, k)
      BY <1>2, <2>1, <2>2, <2>4, <3>1 DEF Behind
    <3>3. b \in Place(l) /\ Below(b, k) /\ Successor(b, l)
      BY <3>2 DEF IsLast, ListInv
    <3>4. next(n, l)' = next(b, l)
      BY <1>1, <2>3, <3>1, <3>2
    <3>5. \A m \in On(l) : k < mem[m].key => After(m, b)
      BY <1>2, <2>1, <3>3 DEF After, Below, Place
    <3>6. \A m \in On(l)' : After(m, n)' <=> (m \in On(l) /\ k < mem[m].key)
      BY <1>1, <1>2, <2>1 DEF After
    <3>7. CASE next(b, l) = dummyTail
      <4>1. \A m \in On(l) : ~After(m, b)
        BY <3>3, <3>7, <2>1, <1>2, Addresses DEF Successor
      <4>2. QED
        BY <2>4, <3>4, <3>5, <3>6, <3>7, <4>1 DEF Successor
    <3>8. CASE next(b, l) # dummyTail
      <4>1. PICK q \in On(l) : q = next(b, l) /\ \A m \in On(l) : After(m, b) => mem[q].key <= mem[m].key
        BY <3>3, <3>8 DEF Successor
      <4>2. mem[q].key >= k /\ mem[q].key # k
        BY <2>1, <3>2, <3>8, <4>1, LastNext
      <4>3. q \in On(l)' /\ k < mem[q].key
        BY <1>2, <2>1, <4>2
      <4>4. \A m \in On(l)' : After(m, n)' => mem'[q].key <= mem'[m].key
        BY <2>1, <3>5, <3>6, <4>1
      <4>5. QED
        BY <2>4, <3>4, <3>6, <4>1, <4>3, <4>4 DEF Successor
    <3>9. QED
      BY <3>7, <3>8
  <2>5. CASE p # n
    <3>1. p \in Place(l) /\ p \in Nodes \cup {dummyHead} /\ Successor(p, l)
      BY <1>2, <2>1, <2>2, <2>5, NodesOfList DEF Place, ListInv
    <3>2. next(p, l)' = IF l <= h /\ before[l] = p THEN n ELSE next(p, l)
      BY <1>1, <2>3, <2>5, <3>1
    <3>3. mem'[p].key = mem[p].key
      BY <1>1, <2>5, <3>1
    <3>4. \A m \in On(l) : After(m, p)' <=> After(m, p)
      BY <2>1, <3>3 DEF After
    <3>5. After(n, p)' <=> Below(p, k)
      BY <1>1, <3>3 DEF After, Below
    <3>6. CASE l <= h /\ before[l] = p
      <4>1. IsLast(p, l, k)
        BY <3>6 DEF Behind
      <4>2. \A m \in On(l) : After(m, p) => k <= mem[m].key
        BY <1>2, <2>1, <4>1 DEF IsLast
      <4>3. n \in On(l)' /\ After(n, p)' /\ next(p, l)' = n
        BY <2>1, <3>2, <3>5, <3>6, <4>1 DEF IsLast
      <4>4. \A m \in On(l)' : After(m, p)' => mem'[n].key <= mem'[m].key
        BY <1>1, <1>2, <2>1, <3>4, <4>2
      <4>5. QED
        BY <4>3, <4>4 DEF Successor
    <3>7. CASE l <= h /\ before[l] # p
      <4>1. ~IsLast(p, l, k)
        BY <3>7, LastUnique DEF Behind
      <4>2. Below(p, k) => next(p, l) \in On(l) /\ mem[next(p, l)].key < k
        <5>1. ASSUME Below(p, k)
              PROVE  next(p, l) \in On(l) /\ mem[next(p, l)].key < k
          <6>1. next(p, l) \in Nodes /\ mem[next(p, l)].key < k
            BY <3>1, <4>1, <5>1, LastStops
          <6>2. QED
            BY <3>1, <6>1, Addresses DEF Successor
        <5>2. QED
          BY <5>1
      <4>3. next(p, l)' = next(p, l)
        BY <3>2, <3>7
      <4>4. CASE next(p, l) = dummyTail
        <5>1. \A m \in On(l) : ~After(m, p)
          BY <3>1, <4>4, <1>2, <2>1, Addresses DEF Successor
        <5>2. ~Below(p, k)
          BY <1>2, <2>1, <4>2, <4>4, Addresses
        <5>3. \A m \in On(l)' : ~After(m, p)'
          BY <2>1, <3>4, <3>5, <5>1, <5>2
        <5>4. QED
          BY <4>3, <4>4, <5>3 DEF Successor
      <4>5. CASE next(p, l) # dummyTail
        <5>1. PICK q \in On(l) : q = next(p, l) /\ After(q, p)
                                 /\ \A m \in On(l) : After(m, p) => mem[q].key <= mem[m].key
          BY <3>1, <4>5 DEF Successor
        <5>2. Below(p, k) => mem[q].key <= k
          BY <1>2, <2>1, <4>2, <5>1
        <5>3. q \in On(l)' /\ After(q, p)' /\ next(p, l)' = q
          BY <2>1, <3>4, <4>3, <5>1
        <5>4. \A m \in On(l)' : After(m, p)' => mem'[q].key <= mem'[m].key
          BY <1>1, <2>1, <3>4, <3>5, <5>1, <5>2
        <5>5. QED
          BY <5>3, <5>4 DEF Successor
      <4>6. QED
        BY <4>4, <4>5
    <3>8. CASE ~(l <= h)
      <4>1. On(l)' = On(l) /\ next(p, l)' = next(p, l)
        BY <2>1, <3>2, <3>8
      <4>2. CASE next(p, l) = dummyTail
        <5>1. \A m \in On(l) : ~After(m, p)
          BY <3>1, <4>2, <1>2, <2>1, Addresses DEF Successor
        <5>2. \A m \in On(l)' : ~After(m, p)'
          BY <3>4, <4>1, <5>1
        <5>3. QED
          BY <4>1, <4>2, <5>2 DEF Successor
      <4>3. CASE next(p, l) # dummyTail
        <5>1. PICK q \in On(l) : q = next(p, l) /\ After(q, p)
                                 /\ \A m \in On(l) : After(m, p) => mem[q].key <= mem[m].key
          BY <3>1, <4>3 DEF Successor
        <5>2. q \in On(l)' /\ After(q, p)' /\ next(p, l)' = q
          BY <3>4, <4>1, <5>1
        <5>3. \A m \in On(l)' : After(m, p)' => mem'[q].key <= mem'[m].key
          BY <2>1, <3>4, <4>1, <5>1
        <5>4. QED
          BY <5>2, <5>3 DEF Successor
      <4>4. QED
        BY <4>2, <4>3
    <3>9. QED
      BY <3>6, <3>7, <3>8
  <2>6. QED
    BY <2>4, <2>5
<1>10. IsFiniteSet(allocated')
  BY FS_AddElement DEF ListInv
<1>11. \E K \in Nat : \A m \in allocated' : mem'[m].key <= K
  <2>1. PICK K \in Nat : \A m \in allocated : mem[m].key <= K
    BY DEF ListInv
  <2>2. K + k \in Nat /\ \A m \in allocated' : mem'[m].key <= K + k
    BY <1>1, <1>2, <1>3, <2>1
  <2>3. QED
    BY <2>2
<1>12. QED
  BY <1>1, <1>2, <1>4, <1>5, <1>6, <1>7, <1>9, <1>10, <1>11 DEF Shape

\* An update leaves the links alone.
LEMMA UpdateKeeps ==
  ASSUME ListInv, NEW v \in Values, NEW c \in allocated,
         mem' = [mem EXCEPT ![c].value = v, ![c].state = "NORMAL"], allocated' = allocated
  PROVE  Shape'
<1>1. mem \in [Nodes \cup {dummyHead} -> NodeType] /\ c \in Nodes /\ allocated \subseteq Nodes
      /\ c # dummyHead /\ dummyHead \notin allocated
  BY ShapeOfList, Addresses DEF Shape
<1>2. PICK node : node = [mem[c] EXCEPT !.value = v, !.state = "NORMAL"]
  OBVIOUS
<1>3. node \in NodeType /\ node.levelNext = mem[c].levelNext /\ node.levelHeight = mem[c].levelHeight
      /\ node.key = mem[c].key /\ node.value = v /\ node.state = "NORMAL"
  BY <1>1, <1>2 DEF NodeType, NodeStates
<1>4. mem' = [mem EXCEPT ![c] = node]
  BY <1>1, <1>2 DEF NodeType
<1>5. mem' \in [Nodes \cup {dummyHead} -> NodeType]
  BY <1>1, <1>3, <1>4
<1>6. \A p \in Nodes \cup {dummyHead} :
        /\ mem'[p].key = mem[p].key /\ mem'[p].levelHeight = mem[p].levelHeight
        /\ mem'[p].levelNext = mem[p].levelNext
        /\ p # c => mem'[p] = mem[p]
        /\ p = c => mem'[p].value = v /\ mem'[p].state = "NORMAL"
  BY <1>1, <1>3, <1>4
<1>7. \A p \in Nodes \cup {dummyHead} : \A l \in Levels : next(p, l)' = next(p, l)
  BY <1>6 DEF next
<1>8. \A n \in allocated' : /\ mem'[n].key \in Keys /\ mem'[n].value \in Values /\ mem'[n].state = "NORMAL"
                            /\ \A l \in Levels : l > mem'[n].levelHeight => next(n, l)' = NULL
  BY <1>1, <1>6, <1>7 DEF ListInv
<1>9. \A n, m \in allocated' : mem'[n].key = mem'[m].key => n = m
  BY <1>1, <1>6 DEF ListInv
<1>10. mem'[dummyHead].levelHeight = LIST_HEIGHT - 1
       /\ \A n \in Nodes \ allocated' : mem'[n] = EmptyNode
  BY <1>1, <1>6 DEF ListInv
<1>11. ASSUME NEW l \in Levels
       PROVE  On(l)' = On(l) /\ Place(l)' = Place(l)
  BY <1>1, <1>6 DEF On, Place
<1>12. \A n \in allocated, p \in Nodes \cup {dummyHead} : After(n, p)' <=> After(n, p)
  BY <1>1, <1>6 DEF After
<1>13. ASSUME NEW l \in Levels, NEW p \in Place(l)'
       PROVE  Successor(p, l)'
  <2>1. p \in Place(l) /\ p \in Nodes \cup {dummyHead} /\ On(l)' = On(l)
        /\ \A n \in On(l) : n \in allocated /\ n \in Nodes /\ mem'[n].key = mem[n].key
    BY <1>1, <1>6, <1>11, NodesOfList
  <2>2. Successor(p, l) /\ next(p, l)' = next(p, l)
    BY <1>7, <2>1 DEF ListInv
  <2>3. \A n \in On(l) : After(n, p)' <=> After(n, p)
    BY <1>12, <2>1
  <2>4. CASE next(p, l) = dummyTail
    <3>1. \A n \in On(l)' : ~After(n, p)'
      BY <2>1, <2>2, <2>3, <2>4, Addresses DEF Successor
    <3>2. QED
      BY <2>2, <2>4, <3>1 DEF Successor
  <2>5. CASE next(p, l) # dummyTail
    <3>1. PICK q \in On(l) : q = next(p, l) /\ After(q, p)
                             /\ \A n \in On(l) : After(n, p) => mem[q].key <= mem[n].key
      BY <2>2, <2>5 DEF Successor
    <3>2. q \in On(l)' /\ q = next(p, l)' /\ After(q, p)'
      BY <2>1, <2>2, <2>3, <3>1
    <3>3. \A n \in On(l)' : After(n, p)' => mem'[q].key <= mem'[n].key
      BY <2>1, <2>3, <3>1
    <3>4. QED
      BY <3>2, <3>3 DEF Successor
  <2>6. QED
    BY <2>4, <2>5
<1>14. IsFiniteSet(allocated') /\ \E K \in Nat : \A n \in allocated' : mem'[n].key <= K
  <2>1. PICK K \in Nat : \A n \in allocated : mem[n].key <= K
    BY DEF ListInv
  <2>2. \A n \in allocated' : mem'[n].key <= K
    BY <1>1, <1>6, <2>1
  <2>3. QED
    BY <2>2 DEF ListInv
<1>15. QED
  BY <1>1, <1>5, <1>8, <1>9, <1>10, <1>13, <1>14 DEF Shape

\* A list without nodes is in shape.
Emptied ==
  /\ mem = [p \in Nodes \cup {dummyHead} |-> IF p = dummyHead THEN EmptyHead ELSE EmptyNode]
  /\ allocated = {}

LEMMA EmptyShape == Emptied => Shape
<1> SUFFICES ASSUME Emptied
             PROVE  Shape
  OBVIOUS
<1> USE DEF Emptied
<1>1. mem \in [Nodes \cup {dummyHead} -> NodeType]
  BY EmptyType
<1>2. mem[dummyHead] = EmptyHead /\ \A n \in Nodes : mem[n] = EmptyNode
  BY Addresses
<1>3. mem[dummyHead].levelHeight = LIST_HEIGHT - 1
  BY <1>2 DEF EmptyHead
<1>4. \A l \in Levels : \A p \in Place(l) : Successor(p, l)
  BY <1>2 DEF Place, On, Successor, next, EmptyHead
<1>5. IsFiniteSet(allocated)
  BY FS_EmptySet
<1>6. 0 \in Nat /\ \A n \in allocated : mem[n].key <= 0
  OBVIOUS
<1>7. QED
  BY <1>1, <1>2, <1>3, <1>4, <1>5, <1>6 DEF Shape

LEMMA EmptyShapeNext == (Emptied => Shape)'
<1>1. Emptied => Shape
  BY EmptyShape
<1>2. QED
  BY <1>1, PTL

\* What the insertion of SetInsert builds on, when it goes well.
LEMMA InsertionPlaces ==
  ASSUME ListInv, NEW k \in Keys, NEW h \in Levels, ~Found(k)
  PROVE  /\ \A n \in allocated : mem[n].key # k
         /\ ~MeetsKey(k, h, Descent(k).prev)
         /\ ~MeetsNULL(k, h, Descent(k).prev) =>
              Behind(Predecessor(k, h, Descent(k).prev), h, k)
<1>1. \A n \in allocated : mem[n].key # k
  BY SearchFinds
<1>2. PICK prev : prev = Descent(k).prev
  OBVIOUS
<1>3. IsLast(prev, 0, k)
  BY <1>1, <1>2, SearchFinds
<1>4. ~MeetsKey(k, h, prev)
  BY <1>1, <1>3, PredecessorIs
<1>5. ~MeetsNULL(k, h, prev) => Behind(Predecessor(k, h, prev), h, k)
  BY <1>3, PredecessorIs DEF MeetsNULL, Behind
<1>6. QED
  BY <1>1, <1>2, <1>4, <1>5

LEMMA Counting ==
  /\ 0 \in Sizes
  /\ \A a \in Sizes, b \in Nat : Plus(a, b) \in Sizes /\ Minus(a, b) \in Sizes
  /\ \A a, b \in Nat : a + b < SizeModulus => Plus(a, b) = a + b
  /\ \A a \in Sizes : Minus(a, a) = 0
<1>1. SizeModulus \in Nat /\ SizeModulus # 0
  BY SizeAssumption
<1>2. 0 \in Sizes
  BY <1>1 DEF Sizes
<1>3. \A a \in Sizes, b \in Nat : Plus(a, b) \in Sizes
  BY <1>1 DEF Sizes, Plus
<1>4. \A a \in Sizes, b \in Nat : Minus(a, b) \in Sizes
  BY <1>1 DEF Sizes, Minus
<1>5. \A a, b \in Nat : a + b < SizeModulus => Plus(a, b) = a + b
  BY <1>1 DEF Plus
<1>6. \A a \in Sizes : Minus(a, a) = 0
  BY <1>1 DEF Sizes, Minus
<1>7. QED
  BY <1>2, <1>3, <1>4, <1>5, <1>6

-----------------------------------------------------------------------------
(* Every step keeps the lists in shape.                                      *)

LEMMA ListInitially ==
  ASSUME ListInit
  PROVE  ListInv
<1>1. Emptied
  BY DEF ListInit, Emptied
<1>2. Shape
  BY <1>1, EmptyShape
<1>3. nodeCount \in Sizes /\ deleted \in BOOLEAN /\ status \in {"ok", "crashed", "hung"}
      /\ last.result \in Results
  BY Counting DEF ListInit, Answer, Results
<1>4. QED
  BY <1>2, <1>3, ShapeOfList

\* The invariant of the next state, put together.
LEMMA ShapeOfListNext ==
  (ListInv <=> /\ Shape
               /\ nodeCount \in Sizes /\ deleted \in BOOLEAN
               /\ status \in {"ok", "crashed", "hung"} /\ last.result \in Results)'
<1>1. ListInv <=> /\ Shape
                  /\ nodeCount \in Sizes /\ deleted \in BOOLEAN
                  /\ status \in {"ok", "crashed", "hung"} /\ last.result \in Results
  BY ShapeOfList
<1>2. QED
  BY <1>1, PTL

LEMMA FailureKeeps ==
  ASSUME ListInv, NEW how \in {"crashed", "hung"}, Fails(how)
  PROVE  ListInv'
BY DEF Fails, ListInv, ListTypeOK, Successor, Place, On, After, next

LEMMA SetFoundKeeps ==
  ASSUME ListInv, NEW k \in Keys, NEW v \in Values, SetFound(k, v)
  PROVE  ListInv'
<1>1. PICK c \in allocated : mem[c].key = k /\ Descent(k).cur = c
  BY SearchFinds DEF SetFound
<1>2. mem' = [mem EXCEPT ![c].value = v, ![c].state = "NORMAL"] /\ allocated' = allocated
      /\ UNCHANGED <<nodeCount, deleted, status>>
  BY <1>1 DEF SetFound, Returns
<1>3. Shape'
  BY <1>2, UpdateKeeps
<1>4. last'.result \in Results
  BY DEF SetFound, Returns, Answer, Results
<1>5. QED
  BY <1>2, <1>3, <1>4, ShapeOfList, ShapeOfListNext

\* An insertion that goes well has linked a new node at the key's places.
Inserts(n, k, v) ==
  /\ n \in Nodes \ allocated
  /\ \A m \in allocated : mem[m].key # k
  /\ \E h \in Levels : \E before : NodesLinked(n, k, v, h, before)
  /\ allocated' = allocated \cup {n}
  /\ nodeCount' = Plus(nodeCount, 1)
  /\ last' = Answer("set", k, v, "DATA_INSERT")
  /\ UNCHANGED <<deleted, status>>
  /\ Shape'

LEMMA SetInserts ==
  ASSUME ListInv, NEW k \in Keys, NEW v \in Values, SetInsert(k, v)
  PROVE  (\E how \in {"crashed", "hung"} : Fails(how)) \/ (\E n : Inserts(n, k, v))
<1>1. PICK h \in Levels :
        LET prev == Descent(k).prev
            n == CHOOSE n \in Nodes \ allocated : TRUE
        IN /\ allocated # Nodes
           /\ IF MeetsKey(k, h, prev) THEN Fails("hung")
              ELSE IF MeetsNULL(k, h, prev) THEN Fails("crashed")
              ELSE /\ mem' = Linked(n, k, v, h, prev)
                   /\ allocated' = allocated \cup {n}
                   /\ nodeCount' = Plus(nodeCount, 1)
                   /\ Returns(Answer("set", k, v, "DATA_INSERT"))
                   /\ UNCHANGED deleted
  BY DEF SetInsert, RandomHeights
<1>2. PICK prev : prev = Descent(k).prev
  OBVIOUS
<1>3. PICK n : n = CHOOSE m \in Nodes \ allocated : TRUE
  OBVIOUS
<1>4. n \in Nodes \ allocated
  BY <1>1, <1>3, NodesOfList
<1>5. CASE MeetsKey(k, h, prev) \/ MeetsNULL(k, h, prev)
  BY <1>1, <1>2, <1>5
<1>6. CASE ~MeetsKey(k, h, prev) /\ ~MeetsNULL(k, h, prev)
  <2>1. /\ mem' = Linked(n, k, v, h, prev)
        /\ allocated' = allocated \cup {n}
        /\ nodeCount' = Plus(nodeCount, 1)
        /\ last' = Answer("set", k, v, "DATA_INSERT")
        /\ UNCHANGED <<deleted, status>>
    BY <1>1, <1>2, <1>3, <1>6 DEF Returns
  <2>2. PICK before : before = Predecessor(k, h, prev)
    OBVIOUS
  <2>3. Behind(before, h, k) /\ \A m \in allocated : mem[m].key # k
    BY <1>2, <1>6, <2>2, InsertionPlaces DEF SetInsert
  <2>4. NodesLinked(n, k, v, h, before)
    BY <1>4, <2>1, <2>2, <2>3, LinkedNodes, Zenon
  <2>5. Shape'
    BY <1>4, <2>1, <2>2, <2>3, InsertKeeps, Zenon
  <2>6. Inserts(n, k, v)
    BY <1>4, <2>1, <2>3, <2>4, <2>5 DEF Inserts
  <2>7. QED
    BY <2>6
<1>7. QED
  BY <1>5, <1>6

LEMMA ClearEmpties ==
  ASSUME ListInv, Clear
  PROVE  ListInv' /\ allocated' = {} /\ nodeCount' = Minus(nodeCount, Cardinality(allocated))
<1>1. Chain = allocated
  BY ChainIs
<1>2. allocated' = {} /\ nodeCount' = Minus(nodeCount, Cardinality(allocated))
  BY <1>1 DEF Clear
<1>3. Emptied'
  <2>1. DOMAIN mem = Nodes \cup {dummyHead}
    BY ShapeOfList DEF Shape
  <2>2. QED
    BY <1>2, <2>1 DEF Clear, ClearedHead, Emptied
<1>4. Shape'
  BY <1>3, EmptyShapeNext
<1>5. nodeCount' \in Sizes
  <2>1. nodeCount \in Sizes /\ Cardinality(allocated) \in Nat
    BY FS_CardinalityType DEF ListInv, ListTypeOK
  <2>2. QED
    BY <1>2, <2>1, Counting
<1>6. deleted' \in BOOLEAN /\ status' = status /\ last'.result \in Results
  BY DEF Clear, Returns, Answer, Results
<1>7. QED
  BY <1>2, <1>4, <1>5, <1>6, ShapeOfList, ShapeOfListNext

LEMMA InsertedKeeps ==
  ASSUME ListInv, NEW k, NEW v, NEW n, Inserts(n, k, v)
  PROVE  ListInv'
<1>1. nodeCount' \in Sizes
  BY Counting DEF ListInv, ListTypeOK, Inserts
<1>2. last'.result \in Results
  BY DEF Inserts, Answer, Results
<1>3. QED
  BY <1>1, <1>2, ShapeOfList, ShapeOfListNext DEF Inserts

LEMMA ListStep ==
  ASSUME NoDeletes, ListInv, [ListNext]_listVars
  PROVE  ListInv'
<1>1. ASSUME NEW k \in Keys, NEW v \in Values, Set(k, v)
      PROVE  ListInv'
  <2>1. CASE SetFound(k, v)
    BY <2>1, SetFoundKeeps
  <2>2. CASE SetInsert(k, v)
    BY <2>2, SetInserts, FailureKeeps, InsertedKeeps
  <2>3. CASE SetNoMemory(k)
    BY <2>3, FailureKeeps DEF SetNoMemory
  <2>4. QED
    BY <1>1, <2>1, <2>2, <2>3 DEF Set
<1>2. ASSUME NEW k \in Keys, Get(k)
      PROVE  ListInv'
  <2>1. UNCHANGED <<mem, nodeCount, allocated, deleted, status>> /\ last'.result \in Results
    BY <1>2 DEF Get, Returns, Answer, Results
  <2>2. QED
    BY <2>1 DEF ListInv, ListTypeOK, Successor, Place, On, After, next
<1>3. ASSUME NEW k \in Keys, Delete(k)
      PROVE  FALSE
  BY <1>3 DEF NoDeletes, Delete, DeleteMissing, DeleteFound, Calls
<1>4. CASE Clear
  BY <1>4, ClearEmpties
<1>5. CASE UNCHANGED listVars
  BY <1>5 DEF listVars, ListInv, ListTypeOK, Successor, Place, On, After, next
<1>6. QED
  BY <1>1, <1>2, <1>3, <1>4, <1>5 DEF ListNext

THEOREM ListInvariant == NoDeletes => (ListSpec => []ListInv)
<1> SUFFICES ASSUME NoDeletes
             PROVE  ListSpec => []ListInv
  OBVIOUS
<1>1. ListInit => ListInv
  BY ListInitially
<1>2. ListInv /\ [ListNext]_listVars => ListInv'
  BY ListStep
<1>3. QED
  BY <1>1, <1>2, PTL DEF ListSpec

\* Whatever is set, in whatever order and at whatever heights, the keys ascend on
\* every level, and no link of a level is NULL.
THEOREM LevelsStayAscending == NoDeletes => (ListSpec => []LevelsAscend)
<1>1. ListInv => LevelsAscend
  <2> SUFFICES ASSUME ListInv, NEW l \in Levels, NEW p \in OnLevel(l) \cup {dummyHead}
               PROVE  /\ next(p, l) # NULL
                      /\ p # dummyHead /\ next(p, l) \in Nodes => mem[p].key < mem[next(p, l)].key
    BY DEF LevelsAscend
  <2>1. p \in Place(l)
    BY OnLevelIs DEF Place
  <2>2. Successor(p, l)
    BY <2>1 DEF ListInv
  <2>3. CASE next(p, l) = dummyTail
    BY <2>3, Addresses
  <2>4. CASE next(p, l) # dummyTail
    <3>1. next(p, l) \in On(l) /\ After(next(p, l), p)
      BY <2>2, <2>4 DEF Successor
    <3>2. QED
      BY <3>1, NodesOfList DEF After
  <2>5. QED
    BY <2>3, <2>4
<1>2. QED
  BY <1>1, ListInvariant, PTL

\* Every level links exactly the nodes of level 0 that are high enough.
THEOREM LevelsStayNested == NoDeletes => (ListSpec => []LevelsNest)
<1>1. ListInv => LevelsNest
  BY OnLevelIs, NodesOfList, Addresses DEF LevelsNest, On
<1>2. QED
  BY <1>1, ListInvariant, PTL

\* The loop of the ascent, which has no exit for the key it inserts, never meets it.
THEOREM AscentNeverHangs == NoDeletes => (ListSpec => []NeverMeetsKey)
<1> SUFFICES ASSUME NoDeletes
             PROVE  ListSpec => []NeverMeetsKey
  OBVIOUS
<1>1. ListSpec => []ListInv
  BY ListInvariant
<1>2. ListInit => NeverMeetsKey
  BY DEF ListInit, NeverMeetsKey
<1>3. ListInv /\ NeverMeetsKey /\ [ListNext]_listVars => NeverMeetsKey'
  <2> SUFFICES ASSUME ListInv, NeverMeetsKey, [ListNext]_listVars
               PROVE  NeverMeetsKey'
    OBVIOUS
  <2>1. ASSUME NEW k \in Keys, NEW v \in Values, SetInsert(k, v)
        PROVE  NeverMeetsKey'
    BY <2>1, InsertionPlaces DEF SetInsert, RandomHeights, Fails, Returns, NeverMeetsKey
  <2>2. ASSUME NEW k \in Keys, NEW v \in Values, SetFound(k, v) \/ SetNoMemory(k)
        PROVE  NeverMeetsKey'
    BY <2>2 DEF SetFound, SetNoMemory, Fails, Returns, NeverMeetsKey
  <2>3. ASSUME NEW k \in Keys, Get(k) \/ Delete(k)
        PROVE  NeverMeetsKey'
    BY <2>3 DEF Get, Delete, DeleteMissing, DeleteFound, Calls, NoDeletes, Returns, NeverMeetsKey
  <2>4. CASE Clear
    BY <2>4 DEF Clear, Returns, NeverMeetsKey
  <2>5. CASE UNCHANGED listVars
    BY <2>5 DEF listVars, NeverMeetsKey
  <2>6. QED
    BY <2>1, <2>2, <2>3, <2>4, <2>5 DEF ListNext, Set
<1>4. QED
  BY <1>1, <1>2, <1>3, PTL DEF ListSpec

-----------------------------------------------------------------------------
(* The counter.                                                              *)

\* There are fewer nodes than size_t has values, as each has an address.
HeapFits == IsFiniteSet(Nodes) /\ Cardinality(Nodes) < SizeModulus

Counted == nodeCount = Cardinality(allocated)

LEMMA CountStep ==
  ASSUME HeapFits, NoDeletes, ListInv, Counted, [ListNext]_listVars
  PROVE  Counted'
<1>1. IsFiniteSet(allocated) /\ Cardinality(allocated) \in Nat /\ nodeCount \in Sizes
  BY FS_CardinalityType DEF ListInv, ListTypeOK
<1>2. ASSUME NEW how, Fails(how)
      PROVE  Counted'
  BY <1>2 DEF Fails, Counted
<1>3. ASSUME NEW n, NEW k, NEW v, Inserts(n, k, v)
      PROVE  Counted'
  <2>1. n \in Nodes /\ n \notin allocated /\ allocated' = allocated \cup {n}
        /\ nodeCount' = Plus(Cardinality(allocated), 1)
    BY <1>3 DEF Inserts, Counted
  <2>2. Cardinality(allocated \cup {n}) = Cardinality(allocated) + 1
    BY <1>1, <2>1, FS_AddElement
  <2>3. Cardinality(allocated \cup {n}) <= Cardinality(Nodes) /\ Cardinality(Nodes) \in Nat
    BY <2>1, NodesOfList, FS_Subset, FS_CardinalityType DEF HeapFits
  <2>4. SizeModulus \in Nat
    BY SizeAssumption
  <2>5. Plus(Cardinality(allocated), 1) = Cardinality(allocated) + 1
    BY <1>1, <2>2, <2>3, <2>4, Counting DEF HeapFits
  <2>6. QED
    BY <2>1, <2>2, <2>5 DEF Counted
<1>4. ASSUME NEW k \in Keys, NEW v \in Values, Set(k, v)
      PROVE  Counted'
  <2>1. CASE SetFound(k, v)
    BY <2>1 DEF SetFound, Counted
  <2>2. CASE SetInsert(k, v)
    BY <2>2, SetInserts, <1>2, <1>3
  <2>3. CASE SetNoMemory(k)
    BY <2>3, <1>2 DEF SetNoMemory
  <2>4. QED
    BY <1>4, <2>1, <2>2, <2>3 DEF Set
<1>5. CASE Clear
  <2>1. allocated' = {} /\ nodeCount' = Minus(nodeCount, nodeCount)
    BY <1>5, ClearEmpties DEF Counted
  <2>2. QED
    BY <1>1, <2>1, Counting, FS_EmptySet DEF Counted
<1>6. ASSUME NEW k \in Keys, Get(k) \/ Delete(k)
      PROVE  Counted'
  BY <1>6 DEF Get, Delete, DeleteMissing, DeleteFound, Calls, NoDeletes, Counted
<1>7. CASE UNCHANGED listVars
  BY <1>7 DEF listVars, Counted
<1>8. QED
  BY <1>4, <1>5, <1>6, <1>7 DEF ListNext

\* The counter, level 0 and the heap agree, as long as nothing is deleted.
THEOREM CountIsRight == HeapFits /\ NoDeletes => (ListSpec => []CountedAndOwned)
<1> SUFFICES ASSUME HeapFits, NoDeletes
             PROVE  ListSpec => []CountedAndOwned
  OBVIOUS
<1>1. ListSpec => []ListInv
  BY ListInvariant
<1>2. ListInit => Counted
  BY FS_EmptySet DEF ListInit, Counted
<1>3. ListInv /\ Counted /\ [ListNext]_listVars => Counted'
  BY CountStep
<1>4. ListInv /\ Counted => CountedAndOwned
  BY OnLevelIs, NodesOfList, Addresses DEF Counted, CountedAndOwned
<1>5. QED
  BY <1>1, <1>2, <1>3, <1>4, PTL DEF ListSpec

-----------------------------------------------------------------------------
(* The list is the map it promises to be.                                    *)

Content(k) ==
  IF \E n \in allocated : mem[n].key = k
    THEN mem[CHOOSE n \in allocated : mem[n].key = k].value ELSE NULL

LEMMA LookupIs == ListInv => \A k \in Keys : Lookup(k) = Content(k)
<1> SUFFICES ASSUME ListInv, NEW k \in Keys
             PROVE  Lookup(k) = Content(k)
  OBVIOUS
<1>1. CASE \E n \in allocated : mem[n].key = k
  <2>1. PICK n : n = CHOOSE m \in allocated : mem[m].key = k
    OBVIOUS
  <2>2. n \in allocated /\ mem[n].key = k
    BY <1>1, <2>1
  <2>3. QED
    BY <1>1, <2>1, <2>2, SearchFinds DEF Content
<1>2. CASE ~\E n \in allocated : mem[n].key = k
  BY <1>2, SearchFinds DEF Content
<1>3. QED
  BY <1>1, <1>2

LEMMA LookupIsNext == (ListInv => \A k \in Keys : Lookup(k) = Content(k))'
<1>1. ListInv => \A k \in Keys : Lookup(k) = Content(k)
  BY LookupIs
<1>2. QED
  BY <1>1, PTL

\* The content is the value of the node with the key, if there is one.
LEMMA ContentOf ==
  ASSUME ListInv, NEW n \in allocated, NEW k, mem[n].key = k
  PROVE  Content(k) = mem[n].value /\ Content(k) \in Values /\ Content(k) # NULL
<1>1. (CHOOSE m \in allocated : mem[m].key = k) = n
  BY NodesOfList
<1>2. Content(k) = mem[n].value
  BY <1>1 DEF Content
<1>3. QED
  BY <1>2, SkipListAssumption DEF ListInv

\* A step that leaves the nodes' keys and values alone leaves the content alone.
LEMMA SameContent ==
  ASSUME UNCHANGED <<mem, allocated>>, NEW k
  PROVE  Content(k)' = Content(k)
BY DEF Content

\* After an update or an insertion the content is the same but for the key.
LEMMA ContentSet ==
  ASSUME ListInv, ListInv', NEW k \in Keys, NEW v \in Values, NEW c \in allocated',
         mem'[c].key = k, mem'[c].value = v,
         \A n \in allocated \ {c} : n \in allocated' /\ mem'[n].key = mem[n].key /\ mem'[n].value = mem[n].value,
         allocated' \subseteq allocated \cup {c},
         c \in allocated => mem[c].key = k,
         NEW j \in Keys
  PROVE  Content(j)' = IF j = k THEN v ELSE Content(j)
<1>1. \A n, m \in allocated' : mem'[n].key = mem'[m].key => n = m
  BY DEF ListInv
<1>2. CASE j = k
  <2>1. (CHOOSE m \in allocated' : mem'[m].key = j) = c
    BY <1>1, <1>2
  <2>2. QED
    BY <1>2, <2>1 DEF Content
<1>3. CASE j # k
  <2>1. CASE \E n \in allocated : mem[n].key = j
    <3>1. PICK n \in allocated : mem[n].key = j
      BY <2>1
    <3>2. n # c /\ n \in allocated' /\ mem'[n].key = j /\ mem'[n].value = mem[n].value
      BY <1>3, <3>1
    <3>3. (CHOOSE m \in allocated' : mem'[m].key = j) = n
      BY <1>1, <3>2
    <3>4. Content(j)' = mem'[n].value
      BY <3>2, <3>3 DEF Content
    <3>5. Content(j) = mem[n].value
      BY <3>1, ContentOf
    <3>6. QED
      BY <1>3, <3>2, <3>4, <3>5
  <2>2. CASE ~\E n \in allocated : mem[n].key = j
    <3>1. ~\E n \in allocated' : mem'[n].key = j
      BY <1>3, <2>2
    <3>2. QED
      BY <1>3, <2>2, <3>1 DEF Content
  <2>3. QED
    BY <2>1, <2>2
<1>4. QED
  BY <1>2, <1>3

\* Steps of the list are steps of the map, with the content for its state.
ContentMap == [k \in Keys |-> Lookup(k)]

LEMMA MapBySet ==
  ASSUME ListInv, NEW k \in Keys, NEW v \in Values,
         \A j \in Keys : Lookup(j)' = IF j = k THEN v ELSE Lookup(j),
         last' = Answer("set", k, v, IF Lookup(k) # NULL THEN "DATA_UPDATE" ELSE "DATA_INSERT")
  PROVE  Map!Set(k, v)
<1>1. ContentMap' = [ContentMap EXCEPT ![k] = v]
  BY DEF ContentMap
<1>2. ContentMap[k] = Lookup(k)
  BY DEF ContentMap
<1>3. QED
  BY <1>1, <1>2 DEF ContentMap, Map!Set, Map!Present, Map!Answer, Answer

LEMMA MapByFailure ==
  ASSUME ListInv, ListInv', UNCHANGED <<mem, allocated, last>>
  PROVE  UNCHANGED Map!mapVars
<1>1. \A j \in Keys : Lookup(j)' = Lookup(j)
  BY LookupIs, LookupIsNext, SameContent
<1>2. QED
  BY <1>1 DEF Map!mapVars

LEMMA MapBySetFound ==
  ASSUME ListInv, ListInv', NEW k \in Keys, NEW v \in Values, SetFound(k, v)
  PROVE  Map!Set(k, v)
<1>1. PICK c \in allocated : mem[c].key = k /\ Descent(k).cur = c /\ Lookup(k) = mem[c].value
  BY SearchFinds DEF SetFound
<1>2. mem' = [mem EXCEPT ![c].value = v, ![c].state = "NORMAL"] /\ allocated' = allocated
  BY <1>1 DEF SetFound
<1>3. mem \in [Nodes \cup {dummyHead} -> NodeType] /\ allocated \subseteq Nodes
  BY ShapeOfList DEF Shape
<1>4. mem'[c].key = k /\ mem'[c].value = v
      /\ \A n \in allocated \ {c} : n \in allocated' /\ mem'[n].key = mem[n].key /\ mem'[n].value = mem[n].value
  BY <1>1, <1>2, <1>3 DEF NodeType
<1>5. \A j \in Keys : Content(j)' = IF j = k THEN v ELSE Content(j)
  <2>1. c \in allocated' /\ allocated' \subseteq allocated \cup {c} /\ (c \in allocated => mem[c].key = k)
    BY <1>1, <1>2
  <2>2. QED
    BY <1>4, <2>1, ContentSet
<1>6. \A j \in Keys : Lookup(j)' = IF j = k THEN v ELSE Lookup(j)
  BY <1>5, LookupIs, LookupIsNext
<1>7. Lookup(k) # NULL
  BY <1>1, ContentOf, LookupIs
<1>8. last' = Answer("set", k, v, "DATA_UPDATE")
  BY <1>1 DEF SetFound, Returns, ListInv
<1>9. QED
  BY <1>6, <1>7, <1>8, MapBySet

LEMMA MapByInsert ==
  ASSUME ListInv, ListInv', NEW k \in Keys, NEW v \in Values, NEW n, Inserts(n, k, v)
  PROVE  Map!Set(k, v)
<1>1. PICK h, before : h \in Levels /\ NodesLinked(n, k, v, h, before)
  BY DEF Inserts
<1>2. allocated \subseteq Nodes /\ n \notin allocated /\ allocated' = allocated \cup {n}
  BY NodesOfList DEF Inserts
<1>3. mem'[n].key = k /\ mem'[n].value = v
      /\ \A m \in allocated : m \in allocated' /\ mem'[m].key = mem[m].key /\ mem'[m].value = mem[m].value
  BY <1>1, <1>2 DEF NodesLinked
<1>4. \A j \in Keys : Content(j)' = IF j = k THEN v ELSE Content(j)
  BY <1>2, <1>3, ContentSet
<1>5. \A j \in Keys : Lookup(j)' = IF j = k THEN v ELSE Lookup(j)
  BY <1>4, LookupIs, LookupIsNext
<1>6. Lookup(k) = NULL
  BY SearchFinds DEF Inserts
<1>7. last' = Answer("set", k, v, "DATA_INSERT")
  BY DEF Inserts
<1>8. QED
  BY <1>5, <1>6, <1>7, MapBySet

LEMMA MapByGet ==
  ASSUME ListInv, ListInv', NEW k \in Keys, Get(k)
  PROVE  Map!Get(k)
<1>1. \A j \in Keys : Lookup(j)' = Lookup(j)
  BY LookupIs, LookupIsNext, SameContent DEF Get
<1>2. QED
  BY <1>1 DEF Get, Returns, Answer, Map!Get, Map!Present, Map!Answer

LEMMA MapByClear ==
  ASSUME ListInv, Clear
  PROVE  Map!Clear
<1>1. ListInv' /\ allocated' = {}
  BY ClearEmpties
<1>2. \A j \in Keys : Content(j)' = NULL
  BY <1>1 DEF Content
<1>3. \A j \in Keys : Lookup(j)' = NULL
  BY <1>1, <1>2, LookupIsNext
<1>4. QED
  BY <1>3 DEF Clear, Returns, Answer, Map!Clear, Map!EmptyMap, Map!Answer

\* Every step of the list is one of the map, or leaves its content alone.
LEMMA MapStep ==
  ASSUME NoDeletes, ListInv, ListInv', [ListNext]_listVars
  PROVE  [Map!Next]_(Map!mapVars)
<1>1. ASSUME NEW k \in Keys, NEW v \in Values, Set(k, v)
      PROVE  Map!Set(k, v) \/ UNCHANGED Map!mapVars
  <2>1. CASE SetFound(k, v)
    BY <2>1, MapBySetFound
  <2>2. CASE SetInsert(k, v)
    BY <2>2, SetInserts, MapByInsert, MapByFailure DEF Fails
  <2>3. CASE SetNoMemory(k)
    BY <2>3, MapByFailure DEF SetNoMemory, Fails
  <2>4. QED
    BY <1>1, <2>1, <2>2, <2>3 DEF Set
<1>2. ASSUME NEW k \in Keys, Get(k)
      PROVE  Map!Get(k)
  BY <1>2, MapByGet
<1>3. ASSUME NEW k \in Keys, Delete(k)
      PROVE  FALSE
  BY <1>3 DEF NoDeletes, Delete, DeleteMissing, DeleteFound, Calls
<1>4. CASE Clear
  BY <1>4, MapByClear DEF Map!Next
<1>5. CASE UNCHANGED listVars
  BY <1>5, MapByFailure DEF listVars
<1>6. QED
  BY <1>1, <1>2, <1>3, <1>4, <1>5 DEF ListNext, Map!Next

\* As long as nothing is deleted, the list behaves as a map: every call of Set, Get
\* and Clear does to the content what it would do to a map, and answers as it would.
THEOREM ListIsMap == NoDeletes => (ListSpec => ImplementsMap)
<1> SUFFICES ASSUME NoDeletes
             PROVE  ListSpec => ImplementsMap
  OBVIOUS
<1>1. ListSpec => []ListInv
  BY ListInvariant
<1>2. ListInit => Map!Init
  <2> SUFFICES ASSUME ListInit
               PROVE  Map!Init
    OBVIOUS
  <2>1. \A k \in Keys : Content(k) = NULL
    BY DEF ListInit, Content
  <2>2. \A k \in Keys : Lookup(k) = NULL
    BY <2>1, ListInitially, LookupIs
  <2>3. QED
    BY <2>2 DEF ListInit, Answer, Map!Init, Map!EmptyMap, Map!Answer
<1>3. ListInv /\ ListInv' /\ [ListNext]_listVars => [Map!Next]_(Map!mapVars)
  BY MapStep
<1>4. QED
  BY <1>1, <1>2, <1>3, PTL DEF ListSpec, ImplementsMap, Map!Spec

\* What the last Set stored, its key is there to be found with.
LastSetStored == last.op = "set" => last.key \in Keys /\ Lookup(last.key) = last.value

-----------------------------------------------------------------------------
(* What links reach.                                                         *)

\* The walk of ReachableFrom, as far as i links.
LinksWithin(w, i) ==
  w = [j \in 0..i |-> IF j = 0 THEN Linkage(dummyHead)
                      ELSE w[j - 1] \cup UNION {Linkage(n) : n \in w[j - 1]}]

LEMMA LinksWithinExists ==
  ASSUME NEW N \in Nat
  PROVE  \E w : LinksWithin(w, N)
<1> DEFINE Missing == {i \in 0..N : ~\E w : LinksWithin(w, i)}
<1>1. ASSUME Missing # {}
      PROVE  FALSE
  <2>1. PICK i \in Missing : \A j \in Missing : i <= j
    <3>1. Missing \in SUBSET Nat
      OBVIOUS
    <3>2. QED
      BY <1>1, <3>1, LeastNumber
  <2>2. CASE i = 0
    <3> DEFINE w == [j \in 0..0 |-> Linkage(dummyHead)]
    <3>1. LinksWithin(w, 0)
      BY DEF LinksWithin
    <3>2. QED
      BY <2>1, <2>2, <3>1
  <2>3. CASE i # 0
    <3>1. i - 1 \in 0..N /\ i - 1 < i
      BY <2>1, <2>3
    <3>2. PICK w : LinksWithin(w, i - 1)
      BY <2>1, <3>1
    <3> DEFINE u == [j \in 0..i |-> IF j < i THEN w[j]
                                    ELSE w[i - 1] \cup UNION {Linkage(n) : n \in w[i - 1]}]
    <3>3. \A j \in 0..(i - 1) : w[j] = IF j = 0 THEN Linkage(dummyHead)
                                       ELSE w[j - 1] \cup UNION {Linkage(n) : n \in w[j - 1]}
      BY <3>2 DEF LinksWithin
    <3>4. \A j \in 0..i : u[j] = IF j = 0 THEN Linkage(dummyHead)
                                 ELSE u[j - 1] \cup UNION {Linkage(n) : n \in u[j - 1]}
      <4> SUFFICES ASSUME NEW j \in 0..i
                   PROVE  u[j] = IF j = 0 THEN Linkage(dummyHead)
                                 ELSE u[j - 1] \cup UNION {Linkage(n) : n \in u[j - 1]}
        OBVIOUS
      <4>1. CASE j = 0
        <5>1. u[j] = w[0] /\ w[0] = Linkage(dummyHead)
          <6>1. 0 \in 0..(i - 1) /\ 0 < i
            BY <2>1, <2>3
          <6>2. QED
            BY <3>3, <4>1, <6>1
        <5>2. QED
          BY <4>1, <5>1
      <4>2. CASE j # 0
        <5>1. j - 1 \in 0..i /\ j - 1 < i /\ u[j - 1] = w[j - 1]
          BY <2>1, <4>2
        <5>2. u[j] = w[j - 1] \cup UNION {Linkage(n) : n \in w[j - 1]}
          <6>1. CASE j = i
            BY <6>1
          <6>2. CASE j # i
            <7>1. j \in 0..(i - 1) /\ u[j] = w[j]
              BY <2>1, <6>2
            <7>2. QED
              BY <3>3, <4>2, <7>1
          <6>3. QED
            BY <6>1, <6>2
        <5>3. QED
          BY <4>2, <5>1, <5>2
      <4>3. QED
        BY <4>1, <4>2
    <3>5. LinksWithin(u, i)
      <4>1. u = [j \in 0..i |-> u[j]]
        OBVIOUS
      <4>2. QED
        BY <3>4, <4>1 DEF LinksWithin
    <3>6. QED
      BY <2>1, <3>5
  <2>4. QED
    BY <2>2, <2>3
<1>2. N \in 0..N
  OBVIOUS
<1>3. QED
  BY <1>1, <1>2

\* Wherever the links of owned nodes lead to owned nodes, so do all walks.
LEMMA LinksWithinStay ==
  ASSUME NEW N \in Nat, NEW w, LinksWithin(w, N), NEW A,
         \A p \in A \cup {dummyHead} : Linkage(p) \subseteq A
  PROVE  w[N] \subseteq A
<1> DEFINE Astray == {i \in 0..N : ~(w[i] \subseteq A)}
<1>1. \A i \in 0..N : w[i] = IF i = 0 THEN Linkage(dummyHead)
                             ELSE w[i - 1] \cup UNION {Linkage(n) : n \in w[i - 1]}
  BY DEF LinksWithin
<1>2. ASSUME Astray # {}
      PROVE  FALSE
  <2>1. PICK i \in Astray : \A j \in Astray : i <= j
    <3>1. Astray \in SUBSET Nat
      OBVIOUS
    <3>2. QED
      BY <1>2, <3>1, LeastNumber
  <2>2. i # 0
    BY <1>1, <2>1
  <2>3. i - 1 \in 0..N /\ ~(i <= i - 1)
    BY <2>1, <2>2
  <2>4. w[i - 1] \subseteq A
    BY <2>1, <2>3
  <2>5. w[i] = w[i - 1] \cup UNION {Linkage(n) : n \in w[i - 1]}
    BY <1>1, <2>1, <2>2
  <2>6. w[i] \subseteq A
    BY <2>4, <2>5
  <2>7. QED
    BY <2>1, <2>6
<1>3. N \in 0..N
  OBVIOUS
<1>4. QED
  BY <1>2, <1>3

-----------------------------------------------------------------------------
(* Deletes included: where links lead when nodes stay linked here and there.  *)
(* No circle is made of them, whatever the keys: a rank of the nodes that     *)
(* descends along the links of a level is found for every insertion, and is   *)
(* kept by every link that skips a node.                                      *)

Positions == Nodes \cup {dummyHead}

\* Node n has links on its levels and none above them.
Entire(n) ==
  /\ n \in allocated
  /\ \A l \in Levels : next(n, l) # NULL <=> l <= mem[n].levelHeight

\* Where a walk may stand on level l, and the nodes that it may come to.
Targets(l) == {n \in Nodes : Entire(n) /\ l <= mem[n].levelHeight}
Stand(l) == Targets(l) \cup {dummyHead}

Ranks(r, l) ==
  /\ r \in [Nodes -> Nat]
  /\ \A p \in Nodes : next(p, l) \in Nodes => r[next(p, l)] < r[p]

Links ==
  /\ mem \in [Positions -> NodeType]
  /\ allocated \subseteq Nodes /\ IsFiniteSet(allocated)
  /\ mem[dummyHead].levelHeight = LIST_HEIGHT - 1
  /\ \A n \in Nodes \ allocated : mem[n] = EmptyNode
  /\ \A l \in Levels : /\ next(dummyHead, l) # NULL
                       /\ \A p \in Positions : next(p, l) \in Nodes => next(p, l) \in Targets(l)
                       /\ \E r : Ranks(r, l)

LinkInv ==
  /\ Links
  /\ nodeCount \in Sizes /\ deleted \in BOOLEAN
  /\ status \in {"ok", "crashed", "hung"} /\ last.result \in Results

\* A place on a level has a link there, and is one on the levels below.
LEMMA StandsOn ==
  ASSUME Links
  PROVE  /\ \A l \in Levels : \A p \in Stand(l) :
              /\ p \in Positions /\ next(p, l) # NULL
              /\ next(p, l) \in Targets(l) \cup {dummyTail}
         /\ \A l, m \in Levels : m <= l => Stand(l) \subseteq Stand(m) /\ Targets(l) \subseteq Targets(m)
         /\ \A l \in Levels : Targets(l) \subseteq allocated /\ dummyHead \notin Targets(l)
<1>1. ASSUME NEW l \in Levels, NEW p \in Stand(l)
      PROVE  p \in Positions /\ next(p, l) # NULL /\ next(p, l) \in Targets(l) \cup {dummyTail}
  <2>1. p \in Positions /\ next(p, l) # NULL
    BY DEF Stand, Targets, Entire, Positions, Links
  <2>2. next(p, l) \in Nodes \cup {dummyTail, NULL}
    BY <2>1 DEF Links, NodeType, next
  <2>3. QED
    BY <2>1, <2>2 DEF Links
<1>2. ASSUME NEW l \in Levels, NEW m \in Levels, m <= l
      PROVE  Stand(l) \subseteq Stand(m) /\ Targets(l) \subseteq Targets(m)
  <2>1. \A n \in Targets(l) : mem[n].levelHeight \in Nat
    BY Addresses DEF Links, NodeType, Targets, Positions
  <2>2. \A n \in Targets(l) : m <= mem[n].levelHeight
    BY <1>2, <2>1, Addresses DEF Targets
  <2>3. QED
    BY <2>2 DEF Stand, Targets
<1>3. \A l \in Levels : Targets(l) \subseteq allocated /\ dummyHead \notin Targets(l)
  BY Addresses DEF Targets, Entire
<1>4. QED
  BY <1>1, <1>2, <1>3

-----------------------------------------------------------------------------
(* A walk along a level, whatever the links are.                             *)

GoesOn(p, l, k) == next(p, l) \in Nodes /\ Before(next(p, l), k)

\* Place e is in all sets that contain p and, with a place, the one it goes on to.
Reaches(p, e, l, k) ==
  \A X \in SUBSET Positions :
    p \in X /\ (\A q \in X : GoesOn(q, l, k) => next(q, l) \in X) => e \in X

Ends(p, l, k) == {e \in Positions : Reaches(p, e, l, k) /\ ~GoesOn(e, l, k)}

LEMMA EndsEquation ==
  ASSUME NEW l, NEW k, NEW p \in Positions
  PROVE  Ends(p, l, k) = IF GoesOn(p, l, k) THEN Ends(next(p, l), l, k) ELSE {p}
<1>1. CASE ~GoesOn(p, l, k)
  <2>1. Reaches(p, p, l, k)
    BY DEF Reaches
  <2>2. ASSUME NEW e, Reaches(p, e, l, k)
        PROVE  e = p
    <3>1. {p} \in SUBSET Positions /\ \A q \in {p} : GoesOn(q, l, k) => next(q, l) \in {p}
      BY <1>1
    <3>2. QED
      BY <2>2, <3>1 DEF Reaches
  <2>3. QED
    BY <1>1, <2>1, <2>2 DEF Ends
<1>2. CASE GoesOn(p, l, k)
  <2> DEFINE c == next(p, l)
  <2>1. c \in Positions
    BY <1>2 DEF GoesOn, Positions
  <2>2. ASSUME NEW e, Reaches(c, e, l, k)
        PROVE  Reaches(p, e, l, k)
    BY <1>2, <2>2 DEF Reaches
  <2>3. ASSUME NEW e, Reaches(p, e, l, k), ~GoesOn(e, l, k)
        PROVE  Reaches(c, e, l, k)
    <3> SUFFICES ASSUME NEW X \in SUBSET Positions, c \in X,
                        \A q \in X : GoesOn(q, l, k) => next(q, l) \in X
                 PROVE  e \in X
      BY DEF Reaches
    <3>1. X \cup {p} \in SUBSET Positions
          /\ \A q \in X \cup {p} : GoesOn(q, l, k) => next(q, l) \in X \cup {p}
      OBVIOUS
    <3>2. e \in X \cup {p}
      BY <2>3, <3>1 DEF Reaches
    <3>3. QED
      BY <1>2, <2>3, <3>2
  <2>4. QED
    BY <1>2, <2>2, <2>3 DEF Ends
<1>3. QED
  BY <1>1, <1>2

LEMMA AdvanceEquation ==
  ASSUME NEW l, NEW k
  PROVE  \A p \in Positions : Advance(l, k)[p] = AdvanceStep(l, k, Advance(l, k), p)
<1> DEFINE body(walk, p) == LET cur == next(p, l)
                            IN IF cur \in Nodes /\ Before(cur, k) THEN walk[cur] ELSE p
<1>1. PICK w : w = [p \in Positions |-> CHOOSE e : e \in Ends(p, l, k)]
  OBVIOUS
<1>2. w = [p \in Positions |-> body(w, p)]
  <2>1. ASSUME NEW p \in Positions
        PROVE  w[p] = body(w, p)
    <3>1. CASE GoesOn(p, l, k)
      <4>1. next(p, l) \in Positions /\ Ends(p, l, k) = Ends(next(p, l), l, k)
        BY <3>1, EndsEquation DEF GoesOn, Positions
      <4>2. w[p] = w[next(p, l)]
        BY <1>1, <4>1
      <4>3. QED
        BY <3>1, <4>2 DEF GoesOn
    <3>2. CASE ~GoesOn(p, l, k)
      <4>1. Ends(p, l, k) = {p}
        BY <3>2, EndsEquation
      <4>2. w[p] = p
        BY <1>1, <4>1
      <4>3. QED
        BY <3>2, <4>2 DEF GoesOn
    <3>3. QED
      BY <3>1, <3>2
  <2>2. QED
    BY <1>1, <2>1
<1>3. PICK f : f = Advance(l, k)
  OBVIOUS
<1>4. f = CHOOSE walk : walk = [p \in Positions |-> body(walk, p)]
  BY <1>3 DEF Advance, Positions
<1> HIDE DEF body
<1>5. f = [p \in Positions |-> body(f, p)]
  BY <1>2, <1>4
<1> USE DEF body
<1>6. QED
  BY <1>3, <1>5 DEF AdvanceStep

\* A walk does not leave a set that the links of the level do not lead out of.
LEMMA AdvanceStays ==
  ASSUME Links, NEW l \in Levels, NEW k, NEW X \in SUBSET Positions,
         \A q \in X : next(q, l) \in Nodes => next(q, l) \in X
  PROVE  \A p \in X : Advance(l, k)[p] \in X
<1>1. PICK f : f = Advance(l, k)
  OBVIOUS
<1>2. \A p \in Positions : f[p] = IF GoesOn(p, l, k) THEN f[next(p, l)] ELSE p
  BY <1>1, AdvanceEquation DEF AdvanceStep, GoesOn
<1>3. PICK r : Ranks(r, l)
  BY DEF Links
<1> DEFINE Astray == {p \in X \cap Nodes : f[p] \notin X}
           T == {r[p] : p \in Astray}
<1>4. ASSUME Astray # {}
      PROVE  FALSE
  <2>1. T \in SUBSET Nat /\ T # {}
    BY <1>3, <1>4 DEF Ranks
  <2>2. PICK i \in T : \A j \in T : i <= j
    BY <2>1, LeastNumber
  <2>3. PICK p \in Astray : r[p] = i
    OBVIOUS
  <2>4. GoesOn(p, l, k) /\ f[p] = f[next(p, l)]
    BY <1>2, <2>3
  <2>5. next(p, l) \in Astray /\ r[next(p, l)] < r[p]
    BY <1>3, <2>3, <2>4 DEF GoesOn, Ranks
  <2>6. r[next(p, l)] \in Nat /\ r[p] \in Nat /\ r[p] <= r[next(p, l)]
    BY <1>3, <2>2, <2>3, <2>5 DEF Ranks
  <2>7. QED
    BY <2>5, <2>6
<1>5. ASSUME NEW p \in X
      PROVE  f[p] \in X
  <2>1. CASE ~GoesOn(p, l, k)
    BY <1>2, <2>1
  <2>2. CASE GoesOn(p, l, k)
    BY <1>2, <1>4, <2>2 DEF GoesOn
  <2>3. QED
    BY <2>1, <2>2
<1>6. QED
  BY <1>1, <1>5

LEMMA AdvanceStands ==
  ASSUME Links, NEW l \in Levels, NEW k
  PROVE  /\ \A p \in Stand(l) : Advance(l, k)[p] \in Stand(l)
         /\ \A p \in Positions : Advance(l, k)[p] \in Positions
<1>1. Stand(l) \in SUBSET Positions /\ \A q \in Stand(l) : next(q, l) \in Nodes => next(q, l) \in Stand(l)
  BY StandsOn DEF Links, Stand
<1>2. \A q \in Positions : next(q, l) \in Nodes => next(q, l) \in Positions
  BY DEF Positions
<1>3. QED
  BY <1>1, <1>2, AdvanceStays

-----------------------------------------------------------------------------
(* The nodes of a level.                                                     *)

\* The nodes that links of level l lead to from p.
Onwards(p, l) ==
  {n \in Nodes : \A X \in SUBSET Nodes :
     (/\ next(p, l) \in Nodes => next(p, l) \in X
      /\ \A q \in X : next(q, l) \in Nodes => next(q, l) \in X) => n \in X}

LEMMA OnwardsEquation ==
  ASSUME NEW l, NEW p
  PROVE  Onwards(p, l) = IF next(p, l) \in Nodes
                         THEN {next(p, l)} \cup Onwards(next(p, l), l) ELSE {}
<1>1. CASE next(p, l) \notin Nodes
  <2>1. {} \in SUBSET Nodes /\ \A q \in {} : next(q, l) \in Nodes => next(q, l) \in {}
    OBVIOUS
  <2>2. \A n : n \notin Onwards(p, l)
    BY <1>1, <2>1 DEF Onwards
  <2>3. QED
    BY <1>1, <2>2
<1>2. CASE next(p, l) \in Nodes
  <2> DEFINE c == next(p, l)
  <2>1. c \in Onwards(p, l)
    BY <1>2 DEF Onwards
  <2>2. ASSUME NEW n \in Onwards(c, l)
        PROVE  n \in Onwards(p, l)
    BY <1>2, <2>2 DEF Onwards
  <2>3. ASSUME NEW n \in Onwards(p, l), n # c
        PROVE  n \in Onwards(c, l)
    <3> SUFFICES ASSUME NEW X \in SUBSET Nodes, next(c, l) \in Nodes => next(c, l) \in X,
                        \A q \in X : next(q, l) \in Nodes => next(q, l) \in X
                 PROVE  n \in X
      BY DEF Onwards
    <3>1. X \cup {c} \in SUBSET Nodes
          /\ \A q \in X \cup {c} : next(q, l) \in Nodes => next(q, l) \in X \cup {c}
      BY <1>2
    <3>2. n \in X \cup {c}
      BY <1>2, <3>1 DEF Onwards
    <3>3. QED
      BY <2>3, <3>2
  <2>4. QED
    BY <1>2, <2>1, <2>2, <2>3
<1>3. QED
  BY <1>1, <1>2

\* X has all that links of level l lead to from dummyHead and from X; the smallest one.
Leads(X, l) ==
  /\ next(dummyHead, l) \in Nodes => next(dummyHead, l) \in X
  /\ \A q \in X : next(q, l) \in Nodes => next(q, l) \in X

IsCollected(C, l) ==
  /\ C \in SUBSET Nodes /\ Leads(C, l)
  /\ \A X \in SUBSET Nodes : Leads(X, l) => C \subseteq X

\* Whatever satisfies the equation collects these nodes.
LEMMA CollectedAreLeast ==
  ASSUME Links, NEW l \in Levels, NEW f,
         \A p \in Positions : f[p] = IF next(p, l) \in Nodes THEN {next(p, l)} \cup f[next(p, l)] ELSE {}
  PROVE  IsCollected(f[dummyHead], l)
<1>1. PICK r : Ranks(r, l)
  BY DEF Links
<1> DEFINE Open(p) == \A q \in f[p] : next(q, l) \in Nodes => next(q, l) \in f[p]
<1>2. ASSUME NEW X \in SUBSET Nodes, Leads(X, l)
      PROVE  f[dummyHead] \subseteq X
  <2> DEFINE Astray == {p \in X : ~(f[p] \subseteq X)}
             T == {r[p] : p \in Astray}
  <2>1. ASSUME Astray # {}
        PROVE  FALSE
    <3>1. T \in SUBSET Nat /\ T # {}
      BY <1>1, <2>1 DEF Ranks
    <3>2. PICK i \in T : \A j \in T : i <= j
      BY <3>1, LeastNumber
    <3>3. PICK p \in Astray : r[p] = i
      OBVIOUS
    <3>4. next(p, l) \in Nodes /\ f[p] = {next(p, l)} \cup f[next(p, l)] /\ next(p, l) \in X
      BY <1>2, <3>3 DEF Positions, Leads
    <3>5. next(p, l) \in Astray /\ r[next(p, l)] < r[p]
      BY <1>1, <3>3, <3>4 DEF Ranks
    <3>6. r[next(p, l)] \in Nat /\ r[p] \in Nat /\ r[p] <= r[next(p, l)]
      BY <1>1, <3>2, <3>3, <3>5 DEF Ranks
    <3>7. QED
      BY <3>5, <3>6
  <2>2. CASE next(dummyHead, l) \in Nodes
    BY <1>2, <2>1, <2>2 DEF Positions, Leads
  <2>3. CASE next(dummyHead, l) \notin Nodes
    BY <2>3 DEF Positions
  <2>4. QED
    BY <2>2, <2>3
<1>3. ASSUME NEW p \in Nodes
      PROVE  Open(p)
  <2> DEFINE Astray == {q \in Nodes : ~Open(q)}
             T == {r[q] : q \in Astray}
  <2>1. ASSUME Astray # {}
        PROVE  FALSE
    <3>1. T \in SUBSET Nat /\ T # {}
      BY <1>1, <2>1 DEF Ranks
    <3>2. PICK i \in T : \A j \in T : i <= j
      BY <3>1, LeastNumber
    <3>3. PICK q \in Astray : r[q] = i
      OBVIOUS
    <3>4. next(q, l) \in Nodes /\ f[q] = {next(q, l)} \cup f[next(q, l)]
      BY <3>3 DEF Positions
    <3>5. PICK c \in Nodes : c = next(q, l)
      BY <3>4
    <3>6. ~Open(c)
      <4>1. next(c, l) \in Nodes => next(c, l) \in f[c]
        BY <3>5 DEF Positions
      <4>2. QED
        BY <3>3, <3>4, <3>5, <4>1
    <3>7. c \in Astray /\ r[c] < r[q]
      BY <1>1, <3>3, <3>5, <3>6 DEF Ranks
    <3>8. r[c] \in Nat /\ r[q] \in Nat /\ r[q] <= r[c]
      BY <1>1, <3>2, <3>3, <3>7 DEF Ranks
    <3>9. QED
      BY <3>7, <3>8
  <2>2. QED
    BY <2>1
<1>4. Leads(f[dummyHead], l)
  <2>1. CASE next(dummyHead, l) \in Nodes
    <3>1. PICK c \in Nodes : c = next(dummyHead, l)
      BY <2>1
    <3>2. f[dummyHead] = {c} \cup f[c] /\ Open(c)
      BY <1>3, <3>1 DEF Positions
    <3>3. next(c, l) \in Nodes => next(c, l) \in f[c]
      BY <3>1 DEF Positions
    <3>4. QED
      BY <3>1, <3>2, <3>3 DEF Leads
  <2>2. CASE next(dummyHead, l) \notin Nodes
    BY <2>2 DEF Positions, Leads
  <2>3. QED
    BY <2>1, <2>2
<1>5. Leads(Nodes, l)
  BY DEF Leads
<1>6. QED
  BY <1>2, <1>4, <1>5 DEF IsCollected

LEMMA LevelIsCollected ==
  ASSUME Links, NEW l \in Levels
  PROVE  IsCollected(OnLevel(l), l) /\ OnLevel(l) \subseteq Targets(l)
<1> DEFINE body(from, p) == IF next(p, l) \in Nodes THEN {next(p, l)} \cup from[next(p, l)] ELSE {}
<1>1. PICK w : w = [p \in Positions |-> Onwards(p, l)]
  OBVIOUS
<1>2. w = [p \in Positions |-> body(w, p)]
  <2>1. ASSUME NEW p \in Positions
        PROVE  w[p] = body(w, p)
    BY <1>1, OnwardsEquation DEF Positions
  <2>2. QED
    BY <1>1, <2>1
<1>3. PICK f : f = CHOOSE from : from = [p \in Positions |-> body(from, p)]
  OBVIOUS
<1>4. OnLevel(l) = f[dummyHead]
  BY <1>3 DEF OnLevel, Positions
<1> HIDE DEF body
<1>5. f = [p \in Positions |-> body(f, p)]
  BY <1>2, <1>3
<1> USE DEF body
<1>6. \A p \in Positions : f[p] = body(f, p)
  BY <1>5
<1>7. IsCollected(OnLevel(l), l)
  BY <1>4, <1>6, CollectedAreLeast
<1>8. Targets(l) \in SUBSET Nodes /\ Leads(Targets(l), l)
  BY DEF Links, Leads, Targets, Positions
<1>9. QED
  BY <1>7, <1>8 DEF IsCollected

LEMMA ChainIsCollected ==
  ASSUME Links
  PROVE  IsCollected(Chain, 0) /\ Chain \subseteq Targets(0)
<1> DEFINE body(rest, p) == IF next(p, 0) \in Nodes THEN {next(p, 0)} \cup rest[next(p, 0)] ELSE {}
<1>1. PICK w : w = [p \in Positions |-> Onwards(p, 0)]
  OBVIOUS
<1>2. w = [p \in Positions |-> body(w, p)]
  <2>1. ASSUME NEW p \in Positions
        PROVE  w[p] = body(w, p)
    BY <1>1, OnwardsEquation DEF Positions
  <2>2. QED
    BY <1>1, <2>1
<1>3. PICK f : f = CHOOSE rest : rest = [p \in Positions |-> body(rest, p)]
  OBVIOUS
<1>4. Chain = f[dummyHead]
  BY <1>3 DEF Chain, ChainFrom, Positions
<1> HIDE DEF body
<1>5. f = [p \in Positions |-> body(f, p)]
  BY <1>2, <1>3
<1> USE DEF body
<1>6. \A p \in Positions : f[p] = body(f, p)
  BY <1>5
<1>7. IsCollected(Chain, 0)
  BY <1>4, <1>6, CollectedAreLeast, Addresses
<1>8. Targets(0) \in SUBSET Nodes /\ Leads(Targets(0), 0)
  BY Addresses DEF Links, Leads, Targets, Positions
<1>9. QED
  BY <1>7, <1>8 DEF IsCollected

-----------------------------------------------------------------------------
(* The search and the ascent, whatever the links are.                        *)

SearchStart == [prev |-> dummyHead, cur |-> dummyTail]

\* The search for k down to level i.
Searches(a, k, i) ==
  \A l \in i..FromTop : a[l] = IF l = FromTop THEN SearchStart ELSE SearchStep(l, k, a[l + 1])

LEMMA SearchExists ==
  ASSUME NEW k
  PROVE  \E a : a = [l \in 0..FromTop |-> IF l = FromTop THEN SearchStart ELSE SearchStep(l, k, a[l + 1])]
<1>1. FromTop \in Nat
  BY SkipListAssumption DEF FromTop
<1> DEFINE Missing == {i \in 0..FromTop : ~\E a : Searches(a, k, i)}
<1>2. ASSUME Missing # {}
      PROVE  FALSE
  <2>1. Missing \in SUBSET Nat /\ \A i \in Missing : i <= FromTop
    BY <1>1
  <2>2. PICK i \in Missing : \A j \in Missing : j <= i
    BY <1>1, <1>2, <2>1, GreatestNumber
  <2>3. CASE i = FromTop
    <3> DEFINE a == [l \in {FromTop} |-> SearchStart]
    <3>1. Searches(a, k, i)
      BY <1>1, <2>3 DEF Searches
    <3>2. QED
      BY <2>2, <3>1
  <2>4. CASE i # FromTop
    <3>1. i \in Nat /\ i + 1 \in 0..FromTop /\ ~(i + 1 <= i)
      BY <1>1, <2>2, <2>4
    <3>2. PICK a : Searches(a, k, i + 1)
      BY <2>2, <3>1
    <3> DEFINE u == [l \in i..FromTop |-> IF l = i THEN SearchStep(i, k, a[i + 1]) ELSE a[l]]
    <3>3. ASSUME NEW l \in i..FromTop
          PROVE  u[l] = IF l = FromTop THEN SearchStart ELSE SearchStep(l, k, u[l + 1])
      <4>1. CASE l = i
        <5>1. u[l] = SearchStep(i, k, a[i + 1]) /\ u[i + 1] = a[i + 1]
          BY <1>1, <3>1, <4>1
        <5>2. QED
          BY <2>4, <4>1, <5>1
      <4>2. CASE l # i
        <5>1. l \in (i + 1)..FromTop /\ u[l] = a[l]
          BY <1>1, <3>1, <4>2
        <5>2. l # FromTop => u[l + 1] = a[l + 1]
          BY <1>1, <3>1, <5>1
        <5>3. a[l] = IF l = FromTop THEN SearchStart ELSE SearchStep(l, k, a[l + 1])
          BY <3>2, <5>1 DEF Searches
        <5>4. QED
          BY <5>1, <5>2, <5>3
      <4>3. QED
        BY <4>1, <4>2
    <3>4. Searches(u, k, i)
      BY <3>3 DEF Searches
    <3>5. QED
      BY <2>2, <3>4
  <2>5. QED
    BY <2>3, <2>4
<1>3. PICK a : Searches(a, k, 0)
  <2>1. 0 \in 0..FromTop
    BY <1>1
  <2>2. QED
    BY <1>2, <2>1
<1> DEFINE u == [l \in 0..FromTop |-> a[l]]
<1>4. \A l \in 0..FromTop : u[l] = IF l = FromTop THEN SearchStart ELSE SearchStep(l, k, u[l + 1])
  <2>1. \A l \in 0..FromTop : l # FromTop => l + 1 \in 0..FromTop
    BY <1>1
  <2>2. \A l \in 0..FromTop : a[l] = IF l = FromTop THEN SearchStart ELSE SearchStep(l, k, a[l + 1])
    BY <1>3 DEF Searches
  <2>3. QED
    BY <2>1, <2>2
<1>5. u = [l \in 0..FromTop |-> IF l = FromTop THEN SearchStart ELSE SearchStep(l, k, u[l + 1])]
  BY <1>4
<1>6. QED
  BY <1>5

LEMMA DescentSteps ==
  ASSUME NEW k
  PROVE  \E a : Searches(a, k, 0) /\ Descent(k) = a[0]
<1> DEFINE body(after, l) ==
             IF l = FromTop THEN SearchStart ELSE SearchStep(l, k, after[l + 1])
<1>1. PICK f : f = CHOOSE after : after = [l \in 0..FromTop |-> body(after, l)]
  OBVIOUS
<1>2. Descent(k) = f[0]
  BY <1>1 DEF Descent, SearchStep, SearchStart
<1>3. \E a : a = [l \in 0..FromTop |-> body(a, l)]
  BY SearchExists
<1> HIDE DEF body
<1>4. f = [l \in 0..FromTop |-> body(f, l)]
  BY <1>1, <1>3
<1>5. \A l \in 0..FromTop : f[l] = body(f, l)
  BY <1>4
<1>6. Searches(f, k, 0)
  BY <1>5 DEF Searches, body
<1>7. QED
  BY <1>2, <1>6

\* The search ends at a place of level 0, and at a node or the tail.
LEMMA DescentStands ==
  ASSUME Links, NEW k
  PROVE  Descent(k).prev \in Stand(0) /\ Descent(k).cur \in Targets(0) \cup {dummyTail}
<1>1. PICK a : Searches(a, k, 0) /\ Descent(k) = a[0]
  BY DescentSteps
<1>2. FromTop \in Nat /\ FromTop # 0 /\ FromTop \notin Levels /\ 0 \in Levels
      /\ \A l \in 0..FromTop : l \in Nat /\ (l # FromTop => l \in Levels /\ l + 1 \in 0..FromTop)
  BY SkipListAssumption, Addresses DEF FromTop, Levels
<1> DEFINE Right(l) == /\ a[l].prev \in Stand(0) /\ a[l].cur \in Targets(0) \cup {dummyTail}
                       /\ l \in Levels => a[l].prev \in Stand(l)
                       /\ l = FromTop => a[l].prev = dummyHead
           Wrong == {l \in 0..FromTop : ~Right(l)}
<1>3. ASSUME Wrong # {}
      PROVE  FALSE
  <2>1. Wrong \in SUBSET Nat /\ \A l \in Wrong : l <= FromTop
    BY <1>2
  <2>2. PICK l \in Wrong : \A m \in Wrong : m <= l
    BY <1>2, <1>3, <2>1, GreatestNumber
  <2>3. a[l] = IF l = FromTop THEN SearchStart ELSE SearchStep(l, k, a[l + 1])
    BY <1>1, <2>2 DEF Searches
  <2>4. l # FromTop
    BY <1>2, <2>2, <2>3 DEF SearchStart, Stand
  <2>5. l \in Levels /\ l + 1 \in 0..FromTop /\ ~(l + 1 <= l) /\ l + 1 \notin Wrong
    BY <1>2, <2>2, <2>4
  <2>6. PICK above : above = a[l + 1]
    OBVIOUS
  <2>7. Right(l + 1)
    BY <2>5
  <2>8. above.prev \in Stand(l) /\ above.prev \in Stand(0) /\ above.cur \in Targets(0) \cup {dummyTail}
    <3>1. CASE l + 1 = FromTop
      BY <2>6, <2>7, <3>1 DEF Stand
    <3>2. CASE l + 1 # FromTop
      <4>1. l + 1 \in Levels /\ l <= l + 1
        BY <1>2, <2>5, <3>2
      <4>2. QED
        BY <2>5, <2>6, <2>7, <4>1, StandsOn
    <3>3. QED
      BY <3>1, <3>2
  <2>9. PICK p : p = Advance(l, k)[above.prev]
    OBVIOUS
  <2>10. p \in Stand(l) /\ p \in Stand(0) /\ next(p, l) \in Targets(0) \cup {dummyTail}
    <3>1. p \in Stand(l)
      BY <2>5, <2>8, <2>9, AdvanceStands
    <3>2. 0 <= l
      BY <1>2, <2>5
    <3>3. QED
      BY <1>2, <2>5, <3>1, <3>2, StandsOn
  <2>11. a[l] \in {above, [prev |-> p, cur |-> next(p, l)]}
    BY <2>3, <2>4, <2>6, <2>9 DEF SearchStep
  <2>12. Right(l)
    BY <2>4, <2>8, <2>10, <2>11
  <2>13. QED
    BY <2>2, <2>12
<1>4. 0 \in 0..FromTop
  BY <1>2
<1>5. QED
  BY <1>1, <1>3, <1>4

\* The ascent of an insertion up to level i.
Ascends(b, k, h, prev, i) == \A l \in 0..i : b[l] = AscentStep(l, k, h, prev, b)

LEMMA AscentExists ==
  ASSUME NEW k, NEW h, NEW prev
  PROVE  \E b : b = [l \in Levels |-> b[l]] /\ \A l \in Levels : b[l] = AscentStep(l, k, h, prev, b)
<1>1. LIST_HEIGHT \in Nat \ {0} /\ \A l \in Levels : l \in Nat
  BY SkipListAssumption, Addresses
<1> DEFINE Missing == {i \in Levels : ~\E b : Ascends(b, k, h, prev, i)}
<1>2. ASSUME NEW b, NEW c, NEW l \in Levels, l # 0 => b[l - 1] = c[l - 1]
      PROVE  AscentStep(l, k, h, prev, b) = AscentStep(l, k, h, prev, c)
  <2>1. l - 1 \in LinkedHigh(h, prev) => b[l - 1] = c[l - 1]
    BY <1>1, <1>2 DEF LinkedHigh, Levels
  <2>2. QED
    BY <2>1 DEF AscentStep
<1>3. ASSUME Missing # {}
      PROVE  FALSE
  <2>1. Missing \in SUBSET Nat
    BY <1>1
  <2>2. PICK i \in Missing : \A j \in Missing : i <= j
    BY <1>3, <2>1, LeastNumber
  <2>3. \E b : i # 0 => Ascends(b, k, h, prev, i - 1)
    <3>1. CASE i = 0
      BY <3>1
    <3>2. CASE i # 0
      <4>1. i - 1 \in Levels /\ ~(i <= i - 1)
        BY <1>1, <2>2, <3>2 DEF Levels
      <4>2. QED
        BY <2>2, <4>1
    <3>3. QED
      BY <3>1, <3>2
  <2>4. PICK b : i # 0 => Ascends(b, k, h, prev, i - 1)
    BY <2>3
  <2>5. i \in Nat /\ i \in Levels
    BY <1>1, <2>2
  <2> DEFINE u == [l \in 0..i |-> IF l < i THEN b[l] ELSE AscentStep(i, k, h, prev, b)]
  <2>6. ASSUME NEW l \in 0..i
        PROVE  u[l] = AscentStep(l, k, h, prev, u)
    <3>1. l \in Levels /\ l \in Nat
      BY <1>1, <2>5 DEF Levels
    <3>2. l # 0 => b[l - 1] = u[l - 1]
      BY <2>5
    <3>3. AscentStep(l, k, h, prev, b) = AscentStep(l, k, h, prev, u)
      BY <1>2, <3>1, <3>2
    <3>4. u[l] = AscentStep(l, k, h, prev, b)
      <4>1. CASE l = i
        BY <2>5, <4>1
      <4>2. CASE l # i
        <5>1. u[l] = b[l] /\ l \in 0..(i - 1) /\ i # 0
          BY <2>5, <4>2
        <5>2. QED
          BY <2>4, <5>1 DEF Ascends
      <4>3. QED
        BY <4>1, <4>2
    <3>5. QED
      BY <3>3, <3>4
  <2>7. Ascends(u, k, h, prev, i)
    BY <2>6 DEF Ascends
  <2>8. QED
    BY <2>2, <2>7
<1>4. PICK b : Ascends(b, k, h, prev, LIST_HEIGHT - 1)
  BY <1>3, Addresses
<1> DEFINE u == [l \in Levels |-> b[l]]
<1>5. ASSUME NEW l \in Levels
      PROVE  u[l] = AscentStep(l, k, h, prev, u)
  <2>1. l # 0 => b[l - 1] = u[l - 1]
    BY Addresses
  <2>2. AscentStep(l, k, h, prev, b) = AscentStep(l, k, h, prev, u)
    BY <1>2, <2>1
  <2>3. u[l] = AscentStep(l, k, h, prev, b)
    BY <1>4 DEF Ascends, Levels
  <2>4. QED
    BY <2>2, <2>3
<1>6. u = [l \in Levels |-> u[l]]
  OBVIOUS
<1> HIDE DEF u
<1>7. QED
  BY <1>5, <1>6

LEMMA PredecessorSteps ==
  ASSUME NEW k, NEW h, NEW prev
  PROVE  \A l \in Levels : Predecessor(k, h, prev)[l] = AscentStep(l, k, h, prev, Predecessor(k, h, prev))
<1> DEFINE body(before, l) == AscentStep(l, k, h, prev, before)
<1>1. PICK f : f = CHOOSE before : before = [l \in Levels |-> body(before, l)]
  OBVIOUS
<1>2. Predecessor(k, h, prev) = f
  BY <1>1 DEF Predecessor, AscentStep
<1>3. \E b : b = [l \in Levels |-> body(b, l)]
  <2>1. PICK b : b = [l \in Levels |-> b[l]] /\ \A l \in Levels : b[l] = body(b, l)
    BY AscentExists
  <2>2. b = [l \in Levels |-> body(b, l)]
    BY <2>1
  <2>3. QED
    BY <2>2
<1> HIDE DEF body
<1>4. f = [l \in Levels |-> body(f, l)]
  BY <1>1, <1>3
<1>5. \A l \in Levels : f[l] = body(f, l)
  BY <1>4
<1>6. QED
  BY <1>2, <1>5 DEF body

\* On every level of the new node it is linked behind a place that has a link there,
\* unless the ascent met NULL.
LEMMA PredecessorStands ==
  ASSUME Links, NEW k, NEW h \in Levels, NEW prev \in Stand(0), ~MeetsNULL(k, h, prev),
         NEW l \in Levels, l <= h
  PROVE  /\ Predecessor(k, h, prev)[l] \in allocated \cup {dummyHead}
         /\ next(Predecessor(k, h, prev)[l], l) # NULL
         /\ next(Predecessor(k, h, prev)[l], l) \in Targets(l) \cup {dummyTail}
<1>1. PICK f : f = Predecessor(k, h, prev)
  OBVIOUS
<1>2. \A i \in Levels : f[i] = AscentStep(i, k, h, prev, f)
  BY <1>1, PredecessorSteps
<1>3. prev \in Positions /\ prev # NULL /\ dummyHead \in Positions /\ dummyHead # NULL
  BY Addresses DEF Stand, Targets, Positions
<1> DEFINE Wrong == {i \in Levels : f[i] \notin Positions \cup {NULL}}
<1>4. ASSUME Wrong # {}
      PROVE  FALSE
  <2>1. Wrong \in SUBSET Nat
    BY Addresses
  <2>2. PICK i \in Wrong : \A j \in Wrong : i <= j
    BY <1>4, <2>1, LeastNumber
  <2>3. PICK from : from = IF i - 1 \in LinkedHigh(h, prev) THEN f[i - 1] ELSE dummyHead
    OBVIOUS
  <2>4. from \in Positions \cup {NULL}
    <3>1. i - 1 \in LinkedHigh(h, prev) => i - 1 \in Levels /\ ~(i <= i - 1)
      BY <2>2, Addresses DEF LinkedHigh
    <3>2. i - 1 \in LinkedHigh(h, prev) => i - 1 \notin Wrong
      BY <2>2, <3>1
    <3>3. QED
      BY <1>3, <2>3, <3>1, <3>2
  <2>5. f[i] \in {prev, NULL} \/ (from # NULL /\ f[i] = Advance(i, k)[from])
    BY <1>2, <2>2, <2>3 DEF AscentStep
  <2>6. from # NULL => Advance(i, k)[from] \in Positions
    BY <2>2, <2>4, AdvanceStands
  <2>7. QED
    BY <1>3, <2>2, <2>5, <2>6
<1>5. f[l] \in Positions /\ next(f[l], l) # NULL
  <2>1. l \in Nat /\ mem[prev].levelHeight \in Nat
    BY <1>3, Addresses DEF Links, NodeType
  <2>2. CASE l \in LinkedLow(h, prev)
    <3>1. f[l] = prev /\ l <= mem[prev].levelHeight
      BY <1>2, <2>2 DEF AscentStep, LinkedLow
    <3>2. next(prev, l) # NULL
      BY <3>1 DEF Stand, Targets, Entire, Links
    <3>3. QED
      BY <1>3, <3>1, <3>2
  <2>3. CASE l \notin LinkedLow(h, prev)
    <3>1. l \in LinkedHigh(h, prev)
      BY <2>1, <2>3 DEF LinkedLow, LinkedHigh
    <3>2. f[l] # NULL
      BY <1>1, <3>1 DEF MeetsNULL
    <3>3. next(f[l], l) # NULL
      BY <1>2, <2>3, <3>2 DEF AscentStep
    <3>4. QED
      BY <1>4, <3>2, <3>3
  <2>4. QED
    BY <2>2, <2>3
<1>6. f[l] \in allocated \cup {dummyHead}
  BY <1>5 DEF Links, EmptyNode, next, Positions
<1>7. next(f[l], l) \in Nodes \cup {dummyTail, NULL}
  BY <1>5 DEF Links, NodeType, next
<1>8. QED
  BY <1>1, <1>5, <1>6, <1>7 DEF Links


-----------------------------------------------------------------------------
(* Every step keeps the links, Deletes included.                             *)

LEMMA InsertNodes ==
  ASSUME Links, NEW k \in Keys, NEW v \in Values, NEW h \in Levels, NEW prev \in Stand(0),
         ~MeetsNULL(k, h, prev), NEW n \in Nodes \ allocated,
         mem' = Linked(n, k, v, h, prev)
  PROVE  \E before :
           /\ NodesLinked(n, k, v, h, before) /\ before[0] = prev
           /\ \A l \in Levels : l <= h => /\ before[l] \in allocated \cup {dummyHead}
                                         /\ next(before[l], l) # NULL
                                         /\ next(before[l], l) \in Targets(l) \cup {dummyTail}
<1>1. PICK before : before = Predecessor(k, h, prev)
  OBVIOUS
<1>2. \A l \in Levels : l <= h => /\ before[l] \in allocated \cup {dummyHead}
                                /\ next(before[l], l) # NULL
                                /\ next(before[l], l) \in Targets(l) \cup {dummyTail}
  BY <1>1, PredecessorStands
<1>3. NodesLinked(n, k, v, h, before)
  BY <1>1, <1>2, NodesAreLinked DEF Links, Positions
<1>4. before[0] = prev
  <2>1. 0 <= h /\ 0 <= mem[prev].levelHeight
    BY Addresses DEF Stand, Targets, Links, Levels
  <2>2. 0 \in LinkedLow(h, prev)
    BY <2>1, Addresses DEF LinkedLow
  <2>3. QED
    BY <1>1, <2>2, PredecessorSteps, Addresses DEF AscentStep
<1>5. QED
  BY <1>2, <1>3, <1>4

LEMMA InsertLinks ==
  ASSUME Links, NEW k \in Keys, NEW v \in Values, NEW h \in Levels, NEW prev \in Stand(0),
         ~MeetsNULL(k, h, prev), NEW n \in Nodes \ allocated,
         mem' = Linked(n, k, v, h, prev), allocated' = allocated \cup {n}
  PROVE  Links'
<1>1. PICK before :
        /\ NodesLinked(n, k, v, h, before) /\ before[0] = prev
        /\ \A l \in Levels : l <= h => /\ before[l] \in allocated \cup {dummyHead}
                                      /\ next(before[l], l) # NULL
                                      /\ next(before[l], l) \in Targets(l) \cup {dummyTail}
  BY InsertNodes
<1>2. \A l \in Levels : l <= h => /\ before[l] \in allocated \cup {dummyHead}
                                /\ next(before[l], l) # NULL
                                /\ next(before[l], l) \in Targets(l) \cup {dummyTail}
  BY <1>1
<1>3. NodesLinked(n, k, v, h, before)
  BY <1>1
<1>4. n \in Nodes /\ n \notin allocated /\ n # NULL /\ n # dummyHead /\ n # dummyTail
      /\ h \in Nat /\ \A l \in Levels : l \in Nat /\ n \notin Targets(l)
  BY Addresses DEF Targets, Entire
<1>5. /\ mem'[n].levelHeight = h
      /\ \A l \in Levels : next(n, l)' = IF l <= h THEN next(before[l], l) ELSE NULL
      /\ \A p \in Positions \ {n} :
           /\ mem'[p].levelHeight = mem[p].levelHeight
           /\ \A l \in Levels : next(p, l)' = IF l <= h /\ before[l] = p THEN n ELSE next(p, l)
  BY <1>3 DEF NodesLinked, next, Positions
<1>6. ASSUME NEW l \in Levels, NEW m \in Targets(l)
      PROVE  m \in Targets(l)'
  <2>1. m \in Nodes /\ m # n /\ m \in Positions /\ m \in allocated /\ l <= mem[m].levelHeight
        /\ \A i \in Levels : next(m, i) # NULL <=> i <= mem[m].levelHeight
    BY <1>4 DEF Targets, Entire, Positions
  <2>2. mem'[m].levelHeight = mem[m].levelHeight
    BY <1>5, <2>1
  <2>3. \A i \in Levels : next(m, i)' # NULL <=> i <= mem'[m].levelHeight
    <3>1. ASSUME NEW i \in Levels, i <= h, before[i] = m
          PROVE  next(m, i) # NULL /\ next(m, i)' # NULL
      BY <1>2, <1>4, <1>5, <2>1, <3>1
    <3>2. ASSUME NEW i \in Levels, ~(i <= h /\ before[i] = m)
          PROVE  next(m, i)' = next(m, i)
      BY <1>5, <2>1, <3>2
    <3>3. QED
      BY <2>1, <2>2, <3>1, <3>2
  <2>4. m \in allocated'
    BY <2>1
  <2>5. QED
    BY <2>1, <2>2, <2>3, <2>4 DEF Targets, Entire
<1>7. ASSUME NEW l \in Levels, l <= h
      PROVE  n \in Targets(l)'
  <2>1. \A i \in Levels : next(n, i)' # NULL <=> i <= mem'[n].levelHeight
    BY <1>2, <1>5
  <2>2. n \in allocated'
    OBVIOUS
  <2>3. QED
    BY <1>4, <1>5, <1>7, <2>1, <2>2 DEF Targets, Entire
<1>8. ASSUME NEW l \in Levels, NEW p \in Positions, next(p, l)' \in Nodes
      PROVE  next(p, l)' \in Targets(l)'
  <2>1. CASE p = n
    <3>1. l <= h /\ next(p, l)' = next(before[l], l)
      BY <1>5, <1>8, <2>1, Addresses
    <3>2. next(p, l)' \in Targets(l)
      BY <1>2, <1>8, <3>1, Addresses
    <3>3. QED
      BY <1>6, <3>2
  <2>2. CASE p # n /\ l <= h /\ before[l] = p
    BY <1>5, <1>7, <2>2
  <2>3. CASE p # n /\ ~(l <= h /\ before[l] = p)
    <3>1. next(p, l)' = next(p, l)
      BY <1>5, <2>3
    <3>2. next(p, l) \in Targets(l)
      BY <1>8, <3>1 DEF Links
    <3>3. QED
      BY <1>6, <3>1, <3>2
  <2>4. QED
    BY <2>1, <2>2, <2>3
<1>9. ASSUME NEW l \in Levels
      PROVE  (\E r : Ranks(r, l))'
  <2>1. PICK r : Ranks(r, l)
    BY DEF Links
  <2>2. r \in [Nodes -> Nat] /\ \A p \in Nodes : next(p, l) \in Nodes => r[next(p, l)] < r[p]
    BY <2>1 DEF Ranks
  <2>3. CASE l <= h
    <3>1. PICK c : c = next(before[l], l)
      OBVIOUS
    <3>2. c \in Targets(l) \cup {dummyTail} /\ before[l] \in allocated \cup {dummyHead}
          /\ (c \in Nodes => c # n)
      BY <1>2, <1>4, <2>3, <3>1, Addresses
    <3> DEFINE u == [q \in Nodes |-> IF q = n THEN IF c \in Nodes THEN 2 * r[c] + 3 ELSE 0
                                     ELSE 2 * r[q] + 2]
    <3>3. u \in [Nodes -> Nat]
      BY <2>2
    <3>4. ASSUME NEW p \in Nodes, next(p, l)' \in Nodes
          PROVE  u[next(p, l)'] < u[p]
      <4>1. CASE p = n
        <5>1. next(p, l)' = c
          BY <1>5, <2>3, <3>1, <4>1
        <5>2. c \in Nodes /\ c # n /\ r[c] \in Nat /\ u[c] = 2 * r[c] + 2 /\ u[p] = 2 * r[c] + 3
          BY <2>2, <3>2, <3>4, <4>1, <5>1
        <5>3. QED
          BY <5>1, <5>2
      <4>2. CASE p # n /\ before[l] = p
        <5>1. next(p, l)' = n /\ next(p, l) = c
          BY <1>5, <2>3, <3>1, <4>2 DEF Positions
        <5>2. u[p] = 2 * r[p] + 2 /\ r[p] \in Nat
              /\ u[n] = IF c \in Nodes THEN 2 * r[c] + 3 ELSE 0
          BY <1>4, <2>2, <4>2
        <5>3. c \in Nodes => r[c] < r[p] /\ r[c] \in Nat
          BY <2>2, <5>1
        <5>4. QED
          BY <5>1, <5>2, <5>3
      <4>3. CASE p # n /\ before[l] # p
        <5>1. next(p, l)' = next(p, l)
          BY <1>5, <4>3 DEF Positions
        <5>2. next(p, l) # n /\ next(p, l) \in Nodes
          BY <1>4, <3>4, <5>1 DEF Links, Positions
        <5>3. r[next(p, l)] < r[p] /\ r[next(p, l)] \in Nat /\ r[p] \in Nat
          BY <2>2, <5>2
        <5>4. u[next(p, l)] = 2 * r[next(p, l)] + 2 /\ u[p] = 2 * r[p] + 2
          BY <4>3, <5>2
        <5>5. QED
          BY <5>1, <5>3, <5>4
      <4>4. QED
        BY <4>1, <4>2, <4>3
    <3> HIDE DEF u
    <3>5. Ranks(u, l)'
      BY <3>3, <3>4 DEF Ranks
    <3>6. QED
      BY <3>5
  <2>4. CASE ~(l <= h)
    <3>1. \A p \in Nodes : next(p, l)' = IF p = n THEN NULL ELSE next(p, l)
      BY <1>5, <2>4 DEF Positions
    <3>2. Ranks(r, l)'
      BY <2>2, <3>1, Addresses DEF Ranks
    <3>3. QED
      BY <3>2
  <2>5. QED
    BY <2>3, <2>4
<1>10. \A l \in Levels : next(dummyHead, l)' # NULL
  BY <1>4, <1>5 DEF Links, Positions
<1>11. mem' \in [Positions -> NodeType] /\ \A q \in Nodes \ allocated' : mem'[q] = EmptyNode
  BY <1>3 DEF NodesLinked, Positions
<1>12. allocated' \subseteq Nodes /\ IsFiniteSet(allocated')
  BY <1>4, FS_AddElement DEF Links
<1>13. mem'[dummyHead].levelHeight = LIST_HEIGHT - 1
  BY <1>4, <1>5 DEF Links, Positions
<1>14. QED
  BY <1>8, <1>9, <1>10, <1>11, <1>12, <1>13 DEF Links

\* No link is new, but for those that skip a node of their level.
Skips(p, l) == next(p, l) \in Nodes /\ next(p, l)' = next(next(p, l), l)

LEMMA RelinkedKeeps ==
  ASSUME Links, mem' \in [Positions -> NodeType], allocated' = allocated,
         \A q \in Nodes \ allocated : mem'[q] = EmptyNode,
         \A p \in Positions : mem'[p].levelHeight = mem[p].levelHeight,
         \A l \in Levels : \A p \in Positions : next(p, l)' = next(p, l) \/ Skips(p, l)
  PROVE  Links'
<1>1. ASSUME NEW l \in Levels, NEW p \in Positions, Skips(p, l)
      PROVE  /\ next(p, l) \in Targets(l) /\ next(p, l)' # NULL
             /\ next(p, l)' \in Targets(l) \cup {dummyTail}
  <2>1. next(p, l) \in Targets(l) /\ next(p, l) \in Stand(l)
    BY <1>1 DEF Links, Skips, Stand
  <2>2. QED
    BY <1>1, <2>1, StandsOn DEF Skips
<1>2. ASSUME NEW l \in Levels, NEW p \in Positions
      PROVE  next(p, l)' = NULL <=> next(p, l) = NULL
  BY <1>1, Addresses DEF Skips
<1>3. \A l \in Levels : Targets(l) \subseteq Targets(l)'
  BY <1>2 DEF Targets, Entire, Positions
<1>4. ASSUME NEW l \in Levels, NEW p \in Positions, next(p, l)' \in Nodes
      PROVE  next(p, l)' \in Targets(l)'
  <2>1. CASE next(p, l)' = next(p, l)
    BY <1>3, <1>4, <2>1 DEF Links
  <2>2. CASE Skips(p, l)
    BY <1>1, <1>3, <1>4, <2>2, Addresses
  <2>3. QED
    BY <2>1, <2>2
<1>5. ASSUME NEW l \in Levels
      PROVE  (\E r : Ranks(r, l))'
  <2>1. PICK r : Ranks(r, l)
    BY DEF Links
  <2>2. r \in [Nodes -> Nat] /\ \A p \in Nodes : next(p, l) \in Nodes => r[next(p, l)] < r[p]
    BY <2>1 DEF Ranks
  <2>3. ASSUME NEW p \in Nodes, next(p, l)' \in Nodes
        PROVE  r[next(p, l)'] < r[p]
    <3>1. CASE next(p, l)' = next(p, l)
      BY <2>2, <2>3, <3>1
    <3>2. CASE Skips(p, l)
      <4>1. PICK c : c = next(p, l)
        OBVIOUS
      <4>2. c \in Nodes /\ next(p, l)' = next(c, l)
        BY <3>2, <4>1 DEF Skips
      <4>3. r[c] < r[p] /\ r[next(c, l)] < r[c]
        BY <2>2, <2>3, <4>1, <4>2
      <4>4. r[c] \in Nat /\ r[p] \in Nat /\ r[next(c, l)] \in Nat
        BY <2>2, <2>3, <4>2
      <4>5. QED
        BY <4>2, <4>3, <4>4
    <3>3. QED
      BY <3>1, <3>2 DEF Positions
  <2>4. Ranks(r, l)'
    BY <2>2, <2>3 DEF Ranks
  <2>5. QED
    BY <2>4
<1>6. dummyHead \in Positions
  BY DEF Positions
<1>7. QED
  BY <1>2, <1>4, <1>5, <1>6 DEF Links

\* An update changes the value and the state of the node that was found.
Updates(k, v) ==
  mem' = [mem EXCEPT ![Descent(k).cur].value = v, ![Descent(k).cur].state = "NORMAL"]

LEMMA UpdatedNodes ==
  ASSUME Links, NEW k, NEW v \in Values, Found(k), Updates(k, v)
  PROVE  \E c \in Targets(0) :
           /\ c = Descent(k).cur
           /\ mem' \in [Positions -> NodeType]
           /\ mem'[c].value = v /\ mem'[c].state = "NORMAL"
           /\ \A p \in Positions : /\ p # c => mem'[p] = mem[p]
                                  /\ mem'[p].key = mem[p].key
                                  /\ mem'[p].levelHeight = mem[p].levelHeight
                                  /\ \A l \in Levels : next(p, l)' = next(p, l)
<1>1. PICK c : c = Descent(k).cur
  OBVIOUS
<1>2. c \in Targets(0)
  BY <1>1, DescentStands, Addresses DEF Found
<1>3. c \in Positions
  BY <1>2 DEF Targets, Positions
<1>4. PICK mid : mid = [mem EXCEPT ![c].value = v]
  OBVIOUS
<1>5. mem' = [mid EXCEPT ![c].state = "NORMAL"]
  BY <1>1, <1>4 DEF Updates
<1>6. mid = [p \in Positions |-> IF p = c THEN [mem[c] EXCEPT !.value = v] ELSE mem[p]]
  BY <1>4 DEF Links
<1>7. mid[c] \in NodeType /\ mid[c].levelNext = mem[c].levelNext /\ mid[c].value = v
      /\ mid[c].levelHeight = mem[c].levelHeight /\ mid[c].key = mem[c].key
  BY <1>3, <1>6 DEF NodeType, Links
<1>8. mem' = [p \in Positions |-> IF p = c THEN [mid[c] EXCEPT !.state = "NORMAL"] ELSE mid[p]]
  BY <1>5, <1>6
<1>9. mem'[c] \in NodeType /\ mem'[c].levelNext = mid[c].levelNext /\ mem'[c].state = "NORMAL"
      /\ mem'[c].levelHeight = mid[c].levelHeight /\ mem'[c].key = mid[c].key
      /\ mem'[c].value = mid[c].value
  BY <1>3, <1>7, <1>8 DEF NodeType, NodeStates
<1>10. \A p \in Positions : p # c => mem'[p] = mem[p]
  BY <1>6, <1>8
<1>11. mem' \in [Positions -> NodeType]
  BY <1>8, <1>9, <1>10 DEF Links
<1>12. \A p \in Positions : /\ mem'[p].key = mem[p].key
                            /\ mem'[p].levelHeight = mem[p].levelHeight
                            /\ \A l \in Levels : next(p, l)' = next(p, l)
  BY <1>7, <1>9, <1>10 DEF next
<1>13. QED
  BY <1>1, <1>2, <1>7, <1>9, <1>10, <1>11, <1>12

LEMMA UpdateLinks ==
  ASSUME Links, NEW k, NEW v \in Values, Found(k), allocated' = allocated, Updates(k, v)
  PROVE  Links'
<1>1. PICK c \in Targets(0) :
        /\ c = Descent(k).cur
        /\ mem' \in [Positions -> NodeType]
        /\ mem'[c].value = v /\ mem'[c].state = "NORMAL"
        /\ \A p \in Positions : /\ p # c => mem'[p] = mem[p]
                               /\ mem'[p].key = mem[p].key
                               /\ mem'[p].levelHeight = mem[p].levelHeight
                               /\ \A l \in Levels : next(p, l)' = next(p, l)
  BY UpdatedNodes
<1>2. \A q \in Nodes \ allocated : mem'[q] = EmptyNode
  BY <1>1, StandsOn, Addresses DEF Links, Positions
<1>3. QED
  BY <1>1, <1>2, RelinkedKeeps

LEMMA UnlinkedNodes ==
  ASSUME Links, NEW k, NEW n \in Nodes, mem' = Unlinked(n, k)
  PROVE  \A p \in Positions :
           /\ mem'[p] \in NodeType /\ mem'[p].levelHeight = mem[p].levelHeight
           /\ mem'[p].key = mem[p].key /\ mem'[p].value = mem[p].value /\ mem'[p].state = mem[p].state
           /\ \A l \in Levels : next(p, l)' = IF Unlinks(n, l, k) /\ BeforeOn(l, k) = p
                                               THEN next(n, l) ELSE next(p, l)
<1> SUFFICES ASSUME NEW p \in Positions
             PROVE  /\ mem'[p] \in NodeType /\ mem'[p].levelHeight = mem[p].levelHeight
                    /\ mem'[p].key = mem[p].key /\ mem'[p].value = mem[p].value
                    /\ mem'[p].state = mem[p].state
                    /\ \A l \in Levels : next(p, l)' = IF Unlinks(n, l, k) /\ BeforeOn(l, k) = p
                                                        THEN next(n, l) ELSE next(p, l)
  OBVIOUS
<1>1. PICK links : links = [l \in Levels |-> IF Unlinks(n, l, k) /\ BeforeOn(l, k) = p
                                             THEN next(n, l) ELSE mem[p].levelNext[l]]
  OBVIOUS
<1>2. mem'[p] = [mem[p] EXCEPT !.levelNext = links]
  BY <1>1 DEF Unlinked, Links, NodeType
<1>3. mem[p] \in NodeType /\ mem[n] \in NodeType
  BY DEF Links, Positions
<1>4. links \in [Levels -> Nodes \cup {dummyTail, NULL}]
  BY <1>1, <1>3 DEF NodeType, next
<1>5. QED
  BY <1>1, <1>2, <1>3, <1>4 DEF NodeType, next

LEMMA UnlinkLinks ==
  ASSUME Links, NEW k, Found(k), allocated' = allocated, mem' = Unlinked(Descent(k).cur, k)
  PROVE  Links'
<1>1. PICK n : n = Descent(k).cur
  OBVIOUS
<1>2. n \in Nodes /\ n \in Positions
  BY <1>1 DEF Found, Positions
<1>3. \A p \in Positions :
        /\ mem'[p] \in NodeType /\ mem'[p].levelHeight = mem[p].levelHeight
        /\ mem'[p].key = mem[p].key /\ mem'[p].value = mem[p].value /\ mem'[p].state = mem[p].state
        /\ \A l \in Levels : next(p, l)' = IF Unlinks(n, l, k) /\ BeforeOn(l, k) = p
                                            THEN next(n, l) ELSE next(p, l)
  BY <1>1, <1>2, UnlinkedNodes
<1>4. mem' \in [Positions -> NodeType]
  BY <1>3 DEF Unlinked, Links
<1>5. ASSUME NEW l \in Levels, NEW p \in Positions
      PROVE  next(p, l)' = next(p, l) \/ Skips(p, l)
  BY <1>2, <1>3 DEF Unlinks, Skips
<1>6. ASSUME NEW q \in Nodes \ allocated
      PROVE  mem'[q] = EmptyNode
  <2>1. q \in Positions /\ mem[q] = EmptyNode
    BY DEF Links, Positions
  <2>2. ASSUME NEW l \in Levels
        PROVE  next(q, l)' = next(q, l)
    BY <1>5, <2>1, Addresses DEF Skips, next, EmptyNode
  <2>3. mem'[q].levelNext = mem[q].levelNext
    BY <1>3, <2>1, <2>2 DEF NodeType, next, Links
  <2>4. mem'[q] = mem[q]
    BY <1>3, <2>1, <2>3 DEF NodeType, Links
  <2>5. QED
    BY <2>1, <2>4
<1>7. QED
  BY <1>3, <1>4, <1>5, <1>6, RelinkedKeeps

\* A list without links from nodes: at the start, and after Clear.
NothingLinked ==
  /\ mem = [p \in Positions |-> IF p = dummyHead THEN EmptyHead ELSE EmptyNode]
  /\ allocated \subseteq Nodes /\ IsFiniteSet(allocated)

LEMMA NothingLinkedLinks == NothingLinked => Links
<1> SUFFICES ASSUME NothingLinked
             PROVE  Links
  OBVIOUS
<1> USE DEF NothingLinked
<1>1. mem \in [Positions -> NodeType]
  BY EmptyType
<1>2. mem[dummyHead] = EmptyHead /\ \A n \in Nodes : mem[n] = EmptyNode
  BY Addresses DEF Positions
<1>3. mem[dummyHead].levelHeight = LIST_HEIGHT - 1
  BY <1>2 DEF EmptyHead
<1>4. \A l \in Levels : /\ next(dummyHead, l) = dummyTail
                        /\ \A p \in Positions : next(p, l) \notin Nodes
  BY <1>2, Addresses DEF next, EmptyHead, EmptyNode, Positions
<1>5. ASSUME NEW l \in Levels
      PROVE  \E r : Ranks(r, l)
  <2>1. [n \in Nodes |-> 0] \in [Nodes -> Nat]
    OBVIOUS
  <2>2. Ranks([n \in Nodes |-> 0], l)
    BY <1>4, <2>1 DEF Ranks, Positions
  <2>3. QED
    BY <2>2
<1>6. QED
  BY <1>1, <1>2, <1>3, <1>4, <1>5, Addresses DEF Links

LEMMA NothingLinkedLinksNext == (NothingLinked => Links)'
<1>1. NothingLinked => Links
  BY NothingLinkedLinks
<1>2. QED
  BY <1>1, PTL

LEMMA SameLinks ==
  ASSUME Links, UNCHANGED <<mem, allocated>>
  PROVE  Links'
BY DEF Links, Targets, Entire, Ranks, next

LEMMA LinkInitially ==
  ASSUME ListInit
  PROVE  LinkInv
<1>1. Links
  BY NothingLinkedLinks, FS_EmptySet DEF ListInit, Positions, NothingLinked
<1>2. nodeCount \in Sizes /\ deleted \in BOOLEAN /\ status \in {"ok", "crashed", "hung"}
      /\ last.result \in Results
  BY Counting DEF ListInit, Answer, Results
<1>3. QED
  BY <1>1, <1>2 DEF LinkInv

LEMMA LinkFailureKeeps ==
  ASSUME LinkInv, NEW how \in {"crashed", "hung"}, Fails(how)
  PROVE  LinkInv'
<1>1. Links'
  BY SameLinks DEF LinkInv, Fails
<1>2. QED
  BY <1>1 DEF LinkInv, Fails

\* An insertion that goes well has linked node n.
InsertsNode(n, h, k, v) ==
  /\ ~Found(k) /\ ~MeetsNULL(k, h, Descent(k).prev)
  /\ mem' = Linked(n, k, v, h, Descent(k).prev)
  /\ allocated' = allocated \cup {n}
  /\ nodeCount' = Plus(nodeCount, 1)
  /\ last' = Answer("set", k, v, "DATA_INSERT")
  /\ UNCHANGED <<deleted, status>>

LEMMA InsertOrFail ==
  ASSUME Links, NEW k \in Keys, NEW v \in Values, SetInsert(k, v)
  PROVE  \/ \E how \in {"crashed", "hung"} : Fails(how)
         \/ \E h \in Levels : \E n \in Nodes \ allocated : InsertsNode(n, h, k, v)
<1>1. PICK h \in Levels :
        LET prev == Descent(k).prev
            n == CHOOSE n \in Nodes \ allocated : TRUE
        IN /\ allocated # Nodes
           /\ IF MeetsKey(k, h, prev) THEN Fails("hung")
              ELSE IF MeetsNULL(k, h, prev) THEN Fails("crashed")
              ELSE /\ mem' = Linked(n, k, v, h, prev)
                   /\ allocated' = allocated \cup {n}
                   /\ nodeCount' = Plus(nodeCount, 1)
                   /\ Returns(Answer("set", k, v, "DATA_INSERT"))
                   /\ UNCHANGED deleted
  BY DEF SetInsert, RandomHeights
<1>2. PICK prev : prev = Descent(k).prev
  OBVIOUS
<1>3. PICK n : n = CHOOSE m \in Nodes \ allocated : TRUE
  OBVIOUS
<1>4. n \in Nodes \ allocated
  BY <1>1, <1>3 DEF Links
<1>5. CASE MeetsKey(k, h, prev) \/ MeetsNULL(k, h, prev)
  BY <1>1, <1>2, <1>5
<1>6. CASE ~MeetsKey(k, h, prev) /\ ~MeetsNULL(k, h, prev)
  <2>1. /\ mem' = Linked(n, k, v, h, prev)
        /\ allocated' = allocated \cup {n}
        /\ nodeCount' = Plus(nodeCount, 1)
        /\ last' = Answer("set", k, v, "DATA_INSERT")
        /\ UNCHANGED <<deleted, status>>
    BY <1>1, <1>2, <1>3, <1>6 DEF Returns
  <2>2. ~Found(k)
    BY DEF SetInsert
  <2>3. InsertsNode(n, h, k, v)
    BY <1>2, <1>6, <2>1, <2>2, Zenon DEF InsertsNode
  <2>4. QED
    BY <1>4, <2>3
<1>7. QED
  BY <1>5, <1>6

LEMMA SetKeepsLinks ==
  ASSUME LinkInv, NEW k \in Keys, NEW v \in Values, Set(k, v)
  PROVE  LinkInv'
<1>1. CASE SetFound(k, v)
  <2>1. Links'
    BY <1>1, UpdateLinks DEF SetFound, LinkInv, Updates
  <2>2. nodeCount' = nodeCount /\ deleted' = deleted /\ status' = status /\ last'.result \in Results
    BY <1>1 DEF SetFound, Returns, Answer, Results
  <2>3. QED
    BY <2>1, <2>2 DEF LinkInv
<1>2. CASE SetInsert(k, v)
  <2>1. ASSUME NEW h \in Levels, NEW n \in Nodes \ allocated, InsertsNode(n, h, k, v)
        PROVE  LinkInv'
    <3>1. PICK prev : prev = Descent(k).prev
      OBVIOUS
    <3>2. prev \in Stand(0)
      BY <3>1, DescentStands DEF LinkInv
    <3>3. ~MeetsNULL(k, h, prev) /\ mem' = Linked(n, k, v, h, prev)
          /\ allocated' = allocated \cup {n}
      BY <2>1, <3>1 DEF InsertsNode
    <3>4. Links'
      BY <3>2, <3>3, InsertLinks, Zenon DEF LinkInv
    <3>5. nodeCount' \in Sizes /\ last'.result \in Results
      BY <2>1, Counting DEF InsertsNode, LinkInv, Answer, Results
    <3>6. QED
      BY <2>1, <3>4, <3>5 DEF LinkInv, InsertsNode
  <2>2. QED
    BY <1>2, <2>1, InsertOrFail, LinkFailureKeeps DEF LinkInv
<1>3. CASE SetNoMemory(k)
  BY <1>3, LinkFailureKeeps DEF SetNoMemory
<1>4. QED
  BY <1>1, <1>2, <1>3 DEF Set

LEMMA DeleteKeepsLinks ==
  ASSUME LinkInv, NEW k \in Keys, Delete(k)
  PROVE  LinkInv'
<1>1. CASE DeleteMissing(k)
  <2>1. UNCHANGED <<mem, nodeCount, allocated, deleted, status>> /\ last'.result \in Results
    BY <1>1 DEF DeleteMissing, Returns, Answer, Results
  <2>2. Links'
    BY <2>1, SameLinks DEF LinkInv
  <2>3. QED
    BY <2>1, <2>2 DEF LinkInv
<1>2. CASE DeleteFound(k)
  <2>1. Links'
    BY <1>2, UnlinkLinks DEF DeleteFound, LinkInv
  <2>2. nodeCount' \in Sizes
    BY <1>2, Counting DEF DeleteFound, LinkInv
  <2>3. deleted' \in BOOLEAN /\ status' = status /\ last'.result \in Results
    BY <1>2 DEF DeleteFound, Returns, Answer, Results
  <2>4. QED
    BY <2>1, <2>2, <2>3 DEF LinkInv
<1>3. QED
  BY <1>1, <1>2 DEF Delete

LEMMA ClearKeepsLinks ==
  ASSUME LinkInv, Clear
  PROVE  LinkInv'
<1>1. IsFiniteSet(Chain) /\ Cardinality(Chain) \in Nat
  BY ChainIsCollected, StandsOn, Addresses, FS_Subset, FS_CardinalityType DEF LinkInv, Links
<1>2. allocated' \subseteq Nodes /\ IsFiniteSet(allocated')
  BY FS_Subset DEF Clear, LinkInv, Links
<1>3. mem' = [p \in Positions |-> IF p = dummyHead THEN EmptyHead ELSE EmptyNode]
  BY DEF Clear, ClearedHead, LinkInv, Links
<1>4. Links'
  BY <1>2, <1>3, NothingLinkedLinksNext DEF NothingLinked
<1>5. nodeCount' \in Sizes
  BY <1>1, Counting DEF Clear, LinkInv
<1>6. deleted' \in BOOLEAN /\ status' = status /\ last'.result \in Results
  BY DEF Clear, Returns, Answer, Results
<1>7. QED
  BY <1>4, <1>5, <1>6 DEF LinkInv

LEMMA LinkStep ==
  ASSUME LinkInv, [ListNext]_listVars
  PROVE  LinkInv'
<1>1. ASSUME NEW k \in Keys, Get(k)
      PROVE  LinkInv'
  <2>1. UNCHANGED <<mem, nodeCount, allocated, deleted, status>> /\ last'.result \in Results
    BY <1>1 DEF Get, Returns, Answer, Results
  <2>2. Links'
    BY <2>1, SameLinks DEF LinkInv
  <2>3. QED
    BY <2>1, <2>2 DEF LinkInv
<1>2. CASE UNCHANGED listVars
  <2>1. Links'
    BY <1>2, SameLinks DEF LinkInv, listVars
  <2>2. QED
    BY <1>2, <2>1 DEF LinkInv, listVars
<1>3. QED
  BY <1>1, <1>2, SetKeepsLinks, DeleteKeepsLinks, ClearKeepsLinks DEF ListNext

\* Deletes included: whatever nodes they leave linked on some levels, a link leads to
\* an owned node of that level, and no links of a level form a circle.
THEOREM LinkInvariant == ListSpec => []LinkInv
<1>1. ListInit => LinkInv
  BY LinkInitially
<1>2. LinkInv /\ [ListNext]_listVars => LinkInv'
  BY LinkStep
<1>3. QED
  BY <1>1, <1>2, PTL DEF ListSpec

\* The types are right, Deletes included: no link leads to a wrong address, no counter
\* leaves its range.
THEOREM ListTypeCorrect == ListSpec => []ListTypeOK
<1>1. LinkInv => ListTypeOK
  BY DEF LinkInv, Links, ListTypeOK, NodeType, Positions
<1>2. QED
  BY <1>1, LinkInvariant, PTL

\* No search, no unlinking and no walk of Clear comes to a NULL link, whatever links
\* to deleted nodes it follows.
THEOREM SearchesEnd == ListSpec => []SearchesMeetNoNULL
<1>1. LinkInv => SearchesMeetNoNULL
  <2> SUFFICES ASSUME LinkInv
               PROVE  SearchesMeetNoNULL
    OBVIOUS
  <2>1. ASSUME NEW k \in Keys
        PROVE  Descent(k).cur # NULL
    BY DescentStands, Addresses DEF LinkInv, Targets
  <2>2. ASSUME NEW k \in Keys, NEW l \in Levels
        PROVE  next(BeforeOn(l, k), l) # NULL
    <3>1. BeforeOn(l, k) \in Stand(l)
      BY AdvanceStands DEF LinkInv, BeforeOn, Stand
    <3>2. QED
      BY <3>1, StandsOn DEF LinkInv
  <2>3. ASSUME NEW p \in OnLevel(0) \cup {dummyHead}
        PROVE  next(p, 0) # NULL
    <3>1. p \in Stand(0)
      BY LevelIsCollected, Addresses DEF LinkInv, Stand
    <3>2. QED
      BY <3>1, StandsOn, Addresses DEF LinkInv
  <2>4. QED
    BY <2>1, <2>2, <2>3 DEF SearchesMeetNoNULL
<1>2. QED
  BY <1>1, LinkInvariant, PTL

\* No link, however far one follows them from the head, leads to a node that was
\* freed or never allocated: Delete does not free what it may leave linked, and what
\* Clear does not free it cannot reach any more.
THEOREM LinksNeverDangle == IsFiniteSet(Nodes) => (ListSpec => []NoDanglingLink)
<1> SUFFICES ASSUME IsFiniteSet(Nodes)
             PROVE  ListSpec => []NoDanglingLink
  OBVIOUS
<1>1. LinkInv => NoDanglingLink
  <2> SUFFICES ASSUME LinkInv
               PROVE  NoDanglingLink
    OBVIOUS
  <2> DEFINE N == Cardinality(Nodes)
             w == CHOOSE w : LinksWithin(w, N)
  <2>1. N \in Nat
    BY FS_CardinalityType
  <2>2. LinksWithin(w, N)
    BY <2>1, LinksWithinExists
  <2>3. \A p \in allocated \cup {dummyHead} : Linkage(p) \subseteq allocated
    <3> SUFFICES ASSUME NEW p \in allocated \cup {dummyHead}, NEW l \in Levels,
                        next(p, l) \notin {dummyTail, NULL}
                 PROVE  next(p, l) \in allocated
      BY DEF Linkage, next
    <3>1. p \in Positions /\ next(p, l) \in Nodes
      BY DEF LinkInv, Links, NodeType, next, Positions
    <3>2. QED
      BY <3>1 DEF LinkInv, Links, Targets, Entire
  <2>4. w[N] \subseteq allocated
    <3> HIDE DEF N, w
    <3>1. QED
      BY <2>1, <2>2, <2>3, LinksWithinStay
  <2>5. ReachableFrom = w[N]
    BY DEF ReachableFrom, LinksWithin
  <2>6. QED
    BY <2>4, <2>5 DEF NoDanglingLink
<1>2. QED
  BY <1>1, LinkInvariant, PTL

-----------------------------------------------------------------------------
(* What Set stored is found, Deletes included.                               *)

\* On level l the next state has no new link but those of the places D to node n.
CutAt(D, l, n, k) ==
  /\ \A p \in Positions \ {n} :
       /\ p # dummyHead => mem'[p].key = mem[p].key
       /\ next(p, l)' = IF p \in D THEN n ELSE next(p, l)
       /\ next(p, l) \in Nodes => next(p, l) # n
  /\ D # {} => n \in Nodes /\ mem'[n].key = k

LEMMA AdvanceEquationNext ==
  ASSUME NEW l, NEW k
  PROVE  (\A p \in Positions : Advance(l, k)[p] = AdvanceStep(l, k, Advance(l, k), p))'
<1>1. \A p \in Positions : Advance(l, k)[p] = AdvanceStep(l, k, Advance(l, k), p)
  BY AdvanceEquation
<1>2. QED
  BY <1>1, PTL

\* The walk ends where it did, or earlier at one of these places.
LEMMA AdvanceNext ==
  ASSUME Links, NEW l \in Levels, NEW k \in Keys, NEW D, NEW n, CutAt(D, l, n, k)
  PROVE  \A p \in Positions \ {n} :
           \/ Advance(l, k)'[p] = Advance(l, k)[p] /\ Advance(l, k)[p] \in Positions \ {n}
           \/ Advance(l, k)'[p] \in D \cap (Positions \ {n})
<1>1. PICK f : f = Advance(l, k)
  OBVIOUS
<1>2. PICK g : g = Advance(l, k)'
  OBVIOUS
<1>3. \A p \in Positions : f[p] = IF GoesOn(p, l, k) THEN f[next(p, l)] ELSE p
  BY <1>1, AdvanceEquation DEF AdvanceStep, GoesOn
<1>4. \A p \in Positions : g[p] = IF GoesOn(p, l, k)' THEN g[next(p, l)'] ELSE p
  BY <1>2, AdvanceEquationNext DEF AdvanceStep, GoesOn, Positions
<1>5. \A p \in (Positions \ {n}) \cap D : g[p] = p
  <2>1. ASSUME NEW p \in (Positions \ {n}) \cap D
        PROVE  ~GoesOn(p, l, k)'
    <3>1. next(p, l)' = n /\ mem'[n].key = k /\ k \in Nat
      BY Addresses DEF CutAt
    <3>2. QED
      BY <3>1 DEF GoesOn, Before
  <2>2. QED
    BY <1>4, <2>1
<1>6. ASSUME NEW p \in Positions \ {n}, p \notin D
      PROVE  \/ ~GoesOn(p, l, k) /\ f[p] = p /\ g[p] = p
             \/ /\ GoesOn(p, l, k) /\ next(p, l) \in Nodes \ {n}
                /\ f[p] = f[next(p, l)] /\ g[p] = g[next(p, l)]
  <2>1. next(p, l)' = next(p, l) /\ (next(p, l) \in Nodes => next(p, l) # n)
    BY <1>6 DEF CutAt
  <2>2. next(p, l) \in Nodes => mem'[next(p, l)].key = mem[next(p, l)].key
    BY <2>1, Addresses DEF CutAt, Positions
  <2>3. GoesOn(p, l, k)' <=> GoesOn(p, l, k)
    BY <2>1, <2>2 DEF GoesOn, Before
  <2>4. QED
    BY <1>3, <1>4, <2>1, <2>3 DEF GoesOn
<1> DEFINE Right(p) == \/ g[p] = f[p] /\ f[p] \in Positions \ {n}
                       \/ g[p] \in D \cap (Positions \ {n})
           Wrong == {p \in Nodes \ {n} : ~Right(p)}
<1>7. PICK r : Ranks(r, l)
  BY DEF Links
<1>8. ASSUME Wrong # {}
      PROVE  FALSE
  <2> DEFINE T == {r[p] : p \in Wrong}
  <2>1. T \in SUBSET Nat /\ T # {}
    BY <1>7, <1>8 DEF Ranks
  <2>2. PICK i \in T : \A j \in T : i <= j
    BY <2>1, LeastNumber
  <2>3. PICK p \in Wrong : r[p] = i
    OBVIOUS
  <2>4. p \in Positions \ {n} /\ p \notin D
    BY <1>5, <2>3 DEF Positions
  <2>5. next(p, l) \in Wrong /\ GoesOn(p, l, k)
    BY <1>6, <2>3, <2>4
  <2>6. r[next(p, l)] < r[p] /\ r[next(p, l)] \in Nat /\ r[p] \in Nat /\ r[p] <= r[next(p, l)]
    BY <1>7, <2>2, <2>3, <2>5 DEF Ranks
  <2>7. QED
    BY <2>6
<1>9. ASSUME NEW p \in Positions \ {n}
      PROVE  Right(p)
  <2>1. CASE p \in D
    BY <1>5, <2>1
  <2>2. CASE p \notin D
    BY <1>6, <1>8, <2>2
  <2>3. QED
    BY <2>1, <2>2
<1>10. QED
  BY <1>1, <1>2, <1>9

LEMMA DescentStepsNext ==
  ASSUME NEW k
  PROVE  (\E a : Searches(a, k, 0) /\ Descent(k) = a[0])'
<1>1. \E a : Searches(a, k, 0) /\ Descent(k) = a[0]
  BY DescentSteps
<1>2. QED
  BY <1>1, PTL

\* The search ends as it did, or it comes to the new node. It does come to it when it
\* was linked where the search had ended.
LEMMA DescentNext ==
  ASSUME Links, NEW k \in Keys, NEW D, NEW n, n # dummyHead,
         \A l \in Levels : CutAt(D[l], l, n, k)
  PROVE  /\ Descent(k)' = Descent(k) \/ (Descent(k)'.cur = n /\ \E l \in Levels : D[l] # {})
         /\ Descent(k).prev \in D[0] /\ ~Found(k) => Descent(k)'.cur = n
<1>1. PICK a : Searches(a, k, 0) /\ Descent(k) = a[0]
  BY DescentSteps
<1>2. PICK b : Searches(b, k, 0)' /\ Descent(k)' = b[0]
  BY DescentStepsNext
<1>3. FromTop \in Nat /\ FromTop # 0 /\ FromTop \notin Levels /\ 0 \in Levels
      /\ \A l \in 0..FromTop : l \in Nat /\ (l # FromTop => l \in Levels /\ l + 1 \in 0..FromTop)
  BY SkipListAssumption, Addresses DEF FromTop, Levels
<1> DEFINE Stopped(c) == c.cur = NULL \/ (c.cur \in Nodes /\ mem[c.cur].key = k)
           Same(l) == /\ b[l] = a[l] /\ a[l].prev \in Positions \ {n}
                      /\ a[l].cur \in Nodes => a[l].cur # n
                      /\ l \in Levels => Stopped(a[l]) \/ a[l].prev \notin D[l]
           Met(l) == b[l].cur = n /\ \E m \in Levels : D[m] # {}
           Wrong == {l \in 0..FromTop : ~(Same(l) \/ Met(l))}
<1>4. (\E m \in Levels : D[m] # {}) => n \in Nodes /\ mem'[n].key = k
  BY DEF CutAt
<1>5. ASSUME Wrong # {}
      PROVE  FALSE
  <2>1. Wrong \in SUBSET Nat /\ \A l \in Wrong : l <= FromTop
    BY <1>3
  <2>2. PICK l \in Wrong : \A m \in Wrong : m <= l
    BY <1>3, <1>5, <2>1, GreatestNumber
  <2>3. /\ a[l] = IF l = FromTop THEN SearchStart ELSE SearchStep(l, k, a[l + 1])
        /\ b[l] = IF l = FromTop THEN SearchStart ELSE SearchStep(l, k, b[l + 1])'
    BY <1>1, <1>2, <2>2 DEF Searches, SearchStart, FromTop
  <2>4. l # FromTop
    BY <1>3, <2>2, <2>3, Addresses DEF SearchStart, Positions
  <2>5. l \in Levels /\ l + 1 \in 0..FromTop /\ ~(l + 1 <= l) /\ l + 1 \notin Wrong
    BY <1>3, <2>2, <2>4
  <2>6. PICK over : over = a[l + 1]
    OBVIOUS
  <2>7. PICK above : above = b[l + 1]
    OBVIOUS
  <2>8. /\ a[l] = IF Stopped(over) THEN over
                  ELSE [prev |-> Advance(l, k)[over.prev], cur |-> next(Advance(l, k)[over.prev], l)]
        /\ b[l] = IF above.cur = NULL \/ (above.cur \in Nodes /\ mem'[above.cur].key = k) THEN above
                  ELSE [prev |-> Advance(l, k)'[above.prev], cur |-> next(Advance(l, k)[above.prev], l)']
    BY <2>3, <2>4, <2>6, <2>7 DEF SearchStep
  <2>9. CASE Same(l + 1)
    <3>1. above = over /\ over.prev \in Positions \ {n} /\ (over.cur \in Nodes => over.cur # n)
      BY <2>6, <2>7, <2>9
    <3>2. over.cur \in Nodes => mem'[over.cur].key = mem[over.cur].key
      BY <2>5, <3>1, Addresses DEF CutAt, Positions
    <3>3. CASE Stopped(over)
      <4>1. b[l] = above /\ a[l] = over
        BY <2>8, <3>1, <3>2, <3>3
      <4>2. Same(l)
        BY <3>1, <3>3, <4>1
      <4>3. QED
        BY <2>2, <4>2
    <3>4. CASE ~Stopped(over)
      <4>1. PICK p : p = Advance(l, k)[over.prev]
        OBVIOUS
      <4>2. PICK q : q = Advance(l, k)'[over.prev]
        OBVIOUS
      <4>3. /\ a[l] = [prev |-> p, cur |-> next(p, l)]
            /\ b[l] = [prev |-> q, cur |-> next(q, l)']
        BY <2>8, <3>1, <3>2, <3>4, <4>1, <4>2
      <4>4. (q = p /\ p \in Positions \ {n}) \/ q \in D[l] \cap (Positions \ {n})
        BY <2>5, <3>1, <4>1, <4>2, AdvanceNext
      <4>5. CASE q \in D[l] /\ q \in Positions \ {n}
        <5>1. next(q, l)' = n
          BY <2>5, <4>5 DEF CutAt
        <5>2. Met(l)
          BY <2>5, <4>3, <4>5, <5>1
        <5>3. QED
          BY <2>2, <5>2
      <4>6. CASE q = p /\ p \in Positions \ {n} /\ p \notin D[l]
        <5>1. next(p, l)' = next(p, l) /\ (next(p, l) \in Nodes => next(p, l) # n)
          BY <2>5, <4>6 DEF CutAt
        <5>2. Same(l)
          BY <4>3, <4>6, <5>1
        <5>3. QED
          BY <2>2, <5>2
      <4>7. QED
        BY <4>4, <4>5, <4>6
    <3>5. QED
      BY <3>3, <3>4
  <2>10. CASE Met(l + 1)
    <3>1. above.cur = n /\ n \in Nodes /\ mem'[n].key = k
      BY <1>4, <2>7, <2>10
    <3>2. b[l] = above
      BY <2>8, <3>1
    <3>3. Met(l)
      BY <2>7, <2>10, <3>2
    <3>4. QED
      BY <2>2, <3>3
  <2>11. QED
    BY <2>5, <2>9, <2>10
<1>6. Same(0) \/ Met(0)
  BY <1>3, <1>5
<1>7. Descent(k).cur # NULL
  BY DescentStands, Addresses DEF Targets
<1>8. Stopped(a[0]) <=> Found(k)
  BY <1>1, <1>7 DEF Found
<1>9. QED
  BY <1>1, <1>2, <1>3, <1>6, <1>8

\* The new node is what the next search for its key finds.
LEMMA InsertIsReadBack ==
  ASSUME Links, NEW k \in Keys, NEW v \in Values, NEW h \in Levels,
         NEW prev, prev = Descent(k).prev, ~Found(k), ~MeetsNULL(k, h, prev),
         NEW n \in Nodes \ allocated, mem' = Linked(n, k, v, h, prev)
  PROVE  Lookup(k)' = v
<1>1. prev \in Stand(0)
  BY DescentStands
<1>2. PICK before : NodesLinked(n, k, v, h, before) /\ before[0] = prev
  BY <1>1, InsertNodes
<1>4. NodesLinked(n, k, v, h, before)
  BY <1>2
<1>5. before[0] = prev
  BY <1>2
<1>6. PICK D : D = [l \in Levels |-> IF l <= h THEN {before[l]} ELSE {}]
  OBVIOUS
<1>7. ASSUME NEW l \in Levels
      PROVE  CutAt(D[l], l, n, k)
  <2>1. ASSUME NEW p \in Positions \ {n}
        PROVE  /\ mem'[p].key = mem[p].key
               /\ next(p, l)' = IF p \in D[l] THEN n ELSE next(p, l)
               /\ next(p, l) \in Nodes => next(p, l) # n
    <3>1. p \in D[l] <=> l <= h /\ before[l] = p
      BY <1>6
    <3>2. next(p, l) \in Nodes => next(p, l) \in allocated
      BY DEF Links, Targets, Entire
    <3>3. QED
      BY <1>4, <3>1, <3>2 DEF NodesLinked, next, Positions
  <2>2. mem'[n].key = k
    BY <1>4 DEF NodesLinked
  <2>3. QED
    BY <2>1, <2>2 DEF CutAt
<1>8. prev \in D[0] /\ n # dummyHead
  BY <1>5, <1>6, Addresses DEF Levels
<1>9. Descent(k)'.cur = n
  BY <1>7, <1>8, DescentNext
<1>10. mem'[n].key = k /\ mem'[n].value = v /\ mem'[n].state = "NORMAL"
  BY <1>4 DEF NodesLinked
<1>11. QED
  BY <1>9, <1>10 DEF Lookup

\* Where no link and no key changes, the search ends as it did.
LEMMA DescentSame ==
  ASSUME Links, NEW k \in Keys,
         \A p \in Positions : /\ mem'[p].key = mem[p].key
                              /\ \A l \in Levels : next(p, l)' = next(p, l)
  PROVE  Descent(k)' = Descent(k)
<1>1. PICK D : D = [l \in Levels |-> {}]
  OBVIOUS
<1>2. \A l \in Levels : D[l] = {} /\ CutAt(D[l], l, dummyTail, k)
  BY <1>1, Addresses DEF CutAt
<1>3. QED
  BY <1>2, DescentNext, Addresses

LEMMA UpdateIsReadBack ==
  ASSUME Links, NEW k \in Keys, NEW v \in Values, Found(k), Updates(k, v)
  PROVE  Lookup(k)' = v
<1>1. PICK c \in Targets(0) :
        /\ c = Descent(k).cur
        /\ mem' \in [Positions -> NodeType]
        /\ mem'[c].value = v /\ mem'[c].state = "NORMAL"
        /\ \A p \in Positions : /\ p # c => mem'[p] = mem[p]
                               /\ mem'[p].key = mem[p].key
                               /\ mem'[p].levelHeight = mem[p].levelHeight
                               /\ \A l \in Levels : next(p, l)' = next(p, l)
  BY UpdatedNodes
<1>2. Descent(k)' = Descent(k)
  BY <1>1, DescentSame
<1>3. c \in Nodes /\ c \in Positions /\ mem[c].key = k
  BY <1>1 DEF Found, Targets, Positions
<1>4. QED
  BY <1>1, <1>2, <1>3 DEF Lookup

LEMMA FailureReadsBack ==
  ASSUME LinkInv, LastSetStored, UNCHANGED <<mem, last>>
  PROVE  LastSetStored'
<1>1. ASSUME last.key \in Keys
      PROVE  Lookup(last.key)' = Lookup(last.key)
  <2>1. PICK k \in Keys : k = last.key
    BY <1>1
  <2>2. Descent(k)' = Descent(k)
    BY DescentSame DEF LinkInv, next
  <2>3. Lookup(k)' = Lookup(k)
    BY <2>2 DEF Lookup
  <2>4. last.key' = k
    BY <2>1
  <2>5. QED
    BY <2>1, <2>3, <2>4
<1>2. QED
  BY <1>1 DEF LastSetStored

LEMMA ReadBackStep ==
  ASSUME LinkInv, LastSetStored, [ListNext]_listVars
  PROVE  LastSetStored'
<1>1. ASSUME NEW k \in Keys, NEW v \in Values, Lookup(k)' = v, last' = Answer("set", k, v, last'.result)
      PROVE  LastSetStored'
  <2>1. last'.key = k /\ last'.value = v
    BY <1>1 DEF Answer
  <2>2. QED
    BY <1>1, <2>1 DEF LastSetStored
<1>2. ASSUME NEW k \in Keys, NEW v \in Values, SetFound(k, v)
      PROVE  LastSetStored'
  <2>1. Lookup(k)' = v
    BY <1>2, UpdateIsReadBack DEF SetFound, LinkInv, Updates
  <2>2. last' = Answer("set", k, v, last'.result)
    BY <1>2 DEF SetFound, Returns, Answer
  <2>3. QED
    BY <1>1, <2>1, <2>2
<1>3. ASSUME NEW k \in Keys, NEW v \in Values, SetInsert(k, v)
      PROVE  LastSetStored'
  <2>1. ASSUME NEW h \in Levels, NEW n \in Nodes \ allocated, InsertsNode(n, h, k, v)
        PROVE  LastSetStored'
    <3>1. PICK prev : prev = Descent(k).prev
      OBVIOUS
    <3>2. ~Found(k) /\ ~MeetsNULL(k, h, prev) /\ mem' = Linked(n, k, v, h, prev)
      BY <2>1, <3>1 DEF InsertsNode
    <3>3. Lookup(k)' = v
      BY <3>1, <3>2, InsertIsReadBack, Zenon DEF LinkInv
    <3>4. last' = Answer("set", k, v, last'.result)
      BY <2>1 DEF InsertsNode, Answer
    <3>5. QED
      BY <1>1, <3>3, <3>4
  <2>2. QED
    BY <1>3, <2>1, InsertOrFail, FailureReadsBack DEF LinkInv, Fails
<1>4. ASSUME NEW k \in Keys, SetNoMemory(k)
      PROVE  LastSetStored'
  BY <1>4, FailureReadsBack DEF SetNoMemory, Fails
<1>5. ASSUME NEW k \in Keys, Get(k) \/ Delete(k)
      PROVE  LastSetStored'
  BY <1>5 DEF Get, Delete, DeleteMissing, DeleteFound, Returns, Answer, LastSetStored
<1>6. CASE Clear
  BY <1>6 DEF Clear, Returns, Answer, LastSetStored
<1>7. CASE UNCHANGED listVars
  BY <1>7, FailureReadsBack DEF listVars
<1>8. QED
  BY <1>2, <1>3, <1>4, <1>5, <1>6, <1>7 DEF ListNext, Set

\* A Set that returned, of a new key or of one that was there, is seen by the next
\* search, at whatever height its node was linked and whatever nodes Delete has left
\* linked around it: the search comes to the new node where it came to the place
\* before, or on a higher level.
THEOREM SetsAreReadBack == ListSpec => []SetIsReadBack
<1>1. ListInit => LastSetStored
  BY DEF ListInit, Answer, LastSetStored
<1>2. LinkInv /\ LastSetStored /\ [ListNext]_listVars => LastSetStored'
  BY ReadBackStep
<1>3. LastSetStored => SetIsReadBack
  BY DEF LastSetStored, SetIsReadBack
<1>4. QED
  BY <1>1, <1>2, <1>3, LinkInvariant, PTL DEF ListSpec

-----------------------------------------------------------------------------
(* The size, as the database sees it, Deletes included.                      *)

\* The bound that TableSize puts on the nodes of level 0 is one of the heap.
HeapIsBounded == IsFiniteSet(Nodes) /\ Cardinality(Nodes) <= MaxNodes

\* Until the first Delete the walk of Clear comes to every node that is linked.
WholeChain == ~deleted => Targets(0) \subseteq Chain

LEMMA ChainIsCollectedNext == (Links => IsCollected(Chain, 0) /\ Chain \subseteq Targets(0))'
<1>1. Links => IsCollected(Chain, 0) /\ Chain \subseteq Targets(0)
  BY ChainIsCollected
<1>2. QED
  BY <1>1, PTL

\* The chain gets the node that is linked behind a place of it, and no other.
LEMMA InsertedChain ==
  ASSUME Links, Links', NEW prev \in Stand(0), NEW n \in Nodes \ allocated,
         next(n, 0)' = next(prev, 0),
         \A p \in Positions \ {n} : next(p, 0)' = IF p = prev THEN n ELSE next(p, 0)
  PROVE  n \notin Chain /\ Chain' = IF prev \in Chain \cup {dummyHead} THEN Chain \cup {n} ELSE Chain
<1>0. PICK C : C = Chain
  OBVIOUS
<1>1. /\ C \in SUBSET Nodes /\ Leads(C, 0) /\ n \notin C /\ n # dummyHead
      /\ \A X \in SUBSET Nodes : Leads(X, 0) => C \subseteq X
  BY <1>0, ChainIsCollected, StandsOn, Addresses DEF IsCollected
<1>2. /\ Chain' \in SUBSET Nodes /\ Leads(Chain, 0)'
      /\ \A X \in SUBSET Nodes : Leads(X, 0)' => Chain' \subseteq X
  BY ChainIsCollectedNext DEF IsCollected
<1>3. next(n, 0) = NULL /\ NULL \notin Nodes /\ prev \in Positions /\ prev # n
  <2>1. mem[n] = EmptyNode /\ n \notin Stand(0)
    BY StandsOn, Addresses DEF Links, Stand
  <2>2. QED
    BY <2>1, StandsOn, Addresses DEF next, EmptyNode
<1>4. C \subseteq Chain'
  <2>1. next(dummyHead, 0) \in Nodes => next(dummyHead, 0) \in Chain'
    BY <1>1, <1>2, <1>3 DEF Leads, Positions
  <2>2. ASSUME NEW q \in Chain', next(q, 0) \in Nodes
        PROVE  next(q, 0) \in Chain'
    <3>1. q # n /\ q \in Positions
      BY <1>2, <1>3, <2>2 DEF Positions
    <3>2. CASE q = prev
      BY <1>2, <2>2, <3>1, <3>2 DEF Leads
    <3>3. CASE q # prev
      BY <1>2, <2>2, <3>1, <3>3 DEF Leads
    <3>4. QED
      BY <3>2, <3>3
  <2>3. QED
    BY <1>1, <1>2, <2>1, <2>2 DEF Leads
<1>5. ASSUME prev \in C \cup {dummyHead}
      PROVE  Chain' = C \cup {n}
  <2>1. n \in Chain'
    BY <1>2, <1>3, <1>4, <1>5 DEF Leads
  <2>2. Leads(C \cup {n}, 0)'
    <3>1. next(prev, 0) \in Nodes => next(prev, 0) \in C
      BY <1>1, <1>5 DEF Leads
    <3>2. next(dummyHead, 0)' \in Nodes => next(dummyHead, 0)' \in C \cup {n}
      BY <1>1 DEF Leads, Positions
    <3>3. ASSUME NEW q \in C \cup {n}, next(q, 0)' \in Nodes
          PROVE  next(q, 0)' \in C \cup {n}
      BY <1>1, <3>1, <3>3 DEF Leads, Positions
    <3>4. QED
      BY <1>4, <2>1, <3>2, <3>3 DEF Leads
  <2>3. QED
    BY <1>1, <1>2, <1>4, <2>1, <2>2
<1>6. ASSUME prev \notin C \cup {dummyHead}
      PROVE  Chain' = C
  <2>1. next(dummyHead, 0)' \in Nodes => next(dummyHead, 0)' \in C
    BY <1>1, <1>6 DEF Leads, Positions
  <2>2. ASSUME NEW q \in C, next(q, 0)' \in Nodes
        PROVE  next(q, 0)' \in C
    BY <1>1, <1>6, <2>2 DEF Leads, Positions
  <2>3. Leads(C, 0)'
    BY <2>1, <2>2 DEF Leads
  <2>4. QED
    BY <1>1, <1>2, <1>4, <2>3
<1>7. QED
  BY <1>1, <1>5, <1>6, <1>0

\* It loses the node that is unlinked from it, and no other.
LEMMA UnlinkedChain ==
  ASSUME Links, Links', NEW p \in Positions, NEW n \in Nodes, next(p, 0) = n,
         \A q \in Positions : next(q, 0)' = IF q = p THEN next(n, 0) ELSE next(q, 0)
  PROVE  Chain' \subseteq Chain /\ Chain \subseteq Chain' \cup {n}
<1>0. PICK C : C = Chain
  OBVIOUS
<1>1. /\ C \in SUBSET Nodes /\ Leads(C, 0)
      /\ \A X \in SUBSET Nodes : Leads(X, 0) => C \subseteq X
  BY <1>0, ChainIsCollected DEF IsCollected
<1>2. /\ Chain' \in SUBSET Nodes /\ Leads(Chain, 0)'
      /\ \A X \in SUBSET Nodes : Leads(X, 0)' => Chain' \subseteq X
  BY ChainIsCollectedNext DEF IsCollected
<1>3. PICK r : Ranks(r, 0)
  BY Addresses DEF Links
<1>4. Chain' \subseteq C
  <2>1. next(dummyHead, 0)' \in Nodes => next(dummyHead, 0)' \in C
    BY <1>1 DEF Leads, Positions
  <2>2. \A q \in C : next(q, 0)' \in Nodes => next(q, 0)' \in C
    BY <1>1 DEF Leads, Positions
  <2>3. QED
    BY <1>1, <1>2, <2>1, <2>2 DEF Leads
<1>5. CASE p \in Chain' \cup {dummyHead}
  <2>1. next(dummyHead, 0) \in Nodes => next(dummyHead, 0) \in Chain' \cup {n}
    BY <1>2 DEF Leads, Positions
  <2>2. next(n, 0) \in Nodes => next(n, 0) \in Chain'
    BY <1>2, <1>5 DEF Leads, Positions
  <2>3. \A q \in Chain' : next(q, 0) \in Nodes => next(q, 0) \in Chain' \cup {n}
    BY <1>2 DEF Leads, Positions
  <2>4. PICK Y : Y = Chain' \cup {n}
    OBVIOUS
  <2>5. Y \in SUBSET Nodes /\ Leads(Y, 0)
    BY <1>2, <2>1, <2>2, <2>3, <2>4 DEF Leads
  <2>6. QED
    BY <1>0, <1>1, <1>4, <2>4, <2>5
<1>6. CASE p \notin Chain' \cup {dummyHead}
  <2> DEFINE Y == {q \in Nodes : q \in Chain' \/ r[q] < r[p]}
  <2>1. p \in Nodes /\ r[p] \in Nat /\ \A q \in Nodes : r[q] \in Nat
    BY <1>3, <1>6 DEF Positions, Ranks
  <2>2. next(dummyHead, 0) \in Nodes => next(dummyHead, 0) \in Y
    BY <1>2, <1>6 DEF Leads, Positions
  <2>3. ASSUME NEW q \in Y, next(q, 0) \in Nodes
        PROVE  next(q, 0) \in Y
    <3>1. CASE q \in Chain'
      BY <1>2, <1>6, <2>3, <3>1 DEF Leads, Positions
    <3>2. CASE r[q] < r[p]
      <4>1. r[next(q, 0)] < r[q]
        BY <1>3, <2>3 DEF Ranks
      <4>2. r[next(q, 0)] < r[p]
        BY <2>1, <2>3, <3>2, <4>1
      <4>3. QED
        BY <2>3, <4>2
    <3>3. QED
      BY <3>1, <3>2
  <2>4. C \subseteq Y
    BY <1>1, <2>2, <2>3 DEF Leads
  <2>5. p \notin C
    BY <1>6, <2>1, <2>4
  <2>6. next(dummyHead, 0) \in Nodes => next(dummyHead, 0) \in Chain'
    BY <1>2, <1>6 DEF Leads, Positions
  <2>7. \A q \in Chain' : next(q, 0) \in Nodes => next(q, 0) \in Chain'
    BY <1>2, <1>6 DEF Leads, Positions
  <2>8. PICK Z : Z = Chain'
    OBVIOUS
  <2>9. Z \in SUBSET Nodes /\ Leads(Z, 0)
    BY <1>2, <2>6, <2>7, <2>8 DEF Leads
  <2>10. QED
    BY <1>0, <1>1, <1>4, <2>8, <2>9
<1>7. QED
  BY <1>4, <1>5, <1>6, <1>0

LEMMA SameChain ==
  ASSUME Links, Links', \A p \in Positions : next(p, 0)' = next(p, 0)
  PROVE  Chain' = Chain
<1>1. PICK C : C = Chain
  OBVIOUS
<1>2. PICK E : E = Chain'
  OBVIOUS
<1>3. /\ C \in SUBSET Nodes /\ Leads(C, 0)
      /\ \A X \in SUBSET Nodes : Leads(X, 0) => C \subseteq X
  BY <1>1, ChainIsCollected DEF IsCollected
<1>4. /\ Chain' \in SUBSET Nodes /\ Leads(Chain, 0)'
      /\ \A X \in SUBSET Nodes : Leads(X, 0)' => Chain' \subseteq X
  BY ChainIsCollectedNext DEF IsCollected
<1>5. E \subseteq C
  <2>1. Leads(C, 0)'
    BY <1>3 DEF Leads, Positions
  <2>2. QED
    BY <1>2, <1>3, <1>4, <2>1
<1>6. C \subseteq E
  <2>1. E \in SUBSET Nodes /\ Leads(E, 0)
    BY <1>2, <1>4 DEF Leads, Positions
  <2>2. QED
    BY <1>3, <2>1
<1>7. QED
  BY <1>1, <1>2, <1>5, <1>6

LEMMA ChainCounts ==
  ASSUME Links
  PROVE  /\ IsFiniteSet(Chain) /\ Cardinality(Chain) \in Nat
         /\ HeapIsBounded => Cardinality(Chain) \in 0..MaxNodes
<1>1. Chain \subseteq allocated /\ Chain \subseteq Nodes
  BY ChainIsCollected, StandsOn, Addresses DEF Links
<1>2. IsFiniteSet(Chain) /\ Cardinality(Chain) \in Nat
  BY <1>1, FS_Subset, FS_CardinalityType DEF Links
<1>3. ASSUME HeapIsBounded
      PROVE  Cardinality(Chain) \in 0..MaxNodes
  <2>1. Cardinality(Chain) <= Cardinality(Nodes) /\ Cardinality(Nodes) \in Nat
    BY <1>1, <1>3, FS_Subset, FS_CardinalityType DEF HeapIsBounded
  <2>2. QED
    BY <1>2, <1>3, <2>1, SizeAssumption DEF HeapIsBounded
<1>4. QED
  BY <1>2, <1>3

LEMMA ChainCountsNext ==
  (Links => /\ IsFiniteSet(Chain) /\ Cardinality(Chain) \in Nat
            /\ HeapIsBounded => Cardinality(Chain) \in 0..MaxNodes)'
<1>1. Links => /\ IsFiniteSet(Chain) /\ Cardinality(Chain) \in Nat
               /\ HeapIsBounded => Cardinality(Chain) \in 0..MaxNodes
  BY ChainCounts
<1>2. QED
  BY <1>1, PTL

\* What the step of a call does to the size; one that failed says nothing of it.
SizeStep ==
  status' = "ok" =>
    Size' \in CASE last'.op = "set"    -> AfterSet(Size)
                [] last'.op = "delete" -> AfterDelete(Size)
                [] last'.op = "clear"  -> AfterClear(Size)
                [] OTHER               -> {Size}

\* A node is found on level 0, or a Delete has left it somewhere.
LEMMA FoundIsCounted ==
  ASSUME Links, WholeChain, NEW k, Found(k)
  PROVE  MayFind(Size)
<1>1. Descent(k).cur \in Targets(0)
  BY DescentStands, Addresses DEF Found
<1>2. CASE deleted
  BY <1>2 DEF MayFind, Size
<1>3. CASE ~deleted
  <2>1. Chain # {}
    BY <1>1, <1>3 DEF WholeChain
  <2>2. Cardinality(Chain) # 0 /\ Cardinality(Chain) \in Nat
    BY <2>1, ChainCounts, FS_EmptySet
  <2>3. QED
    BY <2>2 DEF MayFind, Size
<1>4. QED
  BY <1>2, <1>3

LEMMA FoundSizes ==
  ASSUME LinkInv, LinkInv', WholeChain, NEW k \in Keys, NEW v \in Values, SetFound(k, v)
  PROVE  SizeStep /\ WholeChain'
<1>1. /\ Links /\ Links' /\ Found(k) /\ last'.op = "set"
      /\ UNCHANGED <<nodeCount, allocated, deleted>>
  BY DEF LinkInv, SetFound, Returns, Answer
<1>2. \A p \in Positions : /\ mem'[p].levelHeight = mem[p].levelHeight
                           /\ \A l \in Levels : next(p, l)' = next(p, l)
  BY <1>1, UpdatedNodes DEF SetFound, Updates
<1>3. Chain' = Chain
  BY <1>1, <1>2, SameChain, Addresses
<1>4. Size' = Size /\ MayFind(Size)
  BY <1>1, <1>3, FoundIsCounted DEF Size
<1>5. Targets(0)' \subseteq Targets(0)
  BY <1>1, <1>2 DEF Targets, Entire, Positions
<1>6. QED
  BY <1>1, <1>3, <1>4, <1>5 DEF SizeStep, WholeChain, AfterSet

LEMMA InsertSizes ==
  ASSUME HeapIsBounded, LinkInv, LinkInv', WholeChain,
         NEW k \in Keys, NEW v \in Values, NEW h \in Levels, NEW n \in Nodes \ allocated,
         InsertsNode(n, h, k, v)
  PROVE  SizeStep /\ WholeChain'
<1>1. PICK prev : prev = Descent(k).prev
  OBVIOUS
<1>2. /\ Links /\ Links' /\ ~MeetsNULL(k, h, prev) /\ mem' = Linked(n, k, v, h, prev)
      /\ allocated' = allocated \cup {n} /\ nodeCount' = Plus(nodeCount, 1)
      /\ deleted' = deleted /\ last'.op = "set" /\ prev \in Stand(0)
  BY <1>1, DescentStands DEF LinkInv, InsertsNode, Answer
<1>3. PICK before :
        /\ NodesLinked(n, k, v, h, before) /\ before[0] = prev
        /\ \A l \in Levels : l <= h => next(before[l], l) # NULL
  BY <1>2, InsertNodes
<1>4. /\ 0 <= h /\ 0 \in Levels /\ n # NULL
      /\ next(n, 0)' = next(prev, 0)
      /\ \A p \in Positions \ {n} :
           /\ mem'[p].levelHeight = mem[p].levelHeight
           /\ \A l \in Levels : next(p, l)' = IF l <= h /\ before[l] = p THEN n ELSE next(p, l)
  BY <1>3, Addresses DEF NodesLinked, next, Positions, Levels
<1>5. n \notin Chain /\ Chain' = IF prev \in Chain \cup {dummyHead} THEN Chain \cup {n} ELSE Chain
  BY <1>2, <1>3, <1>4, InsertedChain
<1>6. Targets(0)' \subseteq Targets(0) \cup {n}
  <2>1. ASSUME NEW m \in Targets(0)', m # n
        PROVE  m \in Targets(0)
    <3>1. m \in Positions \ {n} /\ m \in Nodes /\ m \in allocated /\ 0 <= mem'[m].levelHeight
      BY <1>2, <2>1 DEF Targets, Entire, Positions
    <3>2. \A l \in Levels : next(m, l)' # NULL <=> l <= mem'[m].levelHeight
      BY DEF Targets, Entire
    <3>3. \A l \in Levels : next(m, l)' # NULL <=> next(m, l) # NULL
      BY <1>3, <1>4, <3>1
    <3>4. QED
      BY <1>4, <3>1, <3>2, <3>3 DEF Targets, Entire
  <2>2. QED
    BY <2>1
<1>7. ASSUME ~deleted
      PROVE  Chain' = Chain \cup {n} /\ Targets(0)' \subseteq Chain'
  BY <1>2, <1>5, <1>6, <1>7 DEF WholeChain, Stand
<1>8. PICK c : c = Cardinality(Chain')
  OBVIOUS
<1>9. c \in 0..MaxNodes /\ (c = Cardinality(Chain) + 1 \/ (deleted /\ c = Cardinality(Chain)))
  <2>1. c \in 0..MaxNodes /\ IsFiniteSet(Chain)
    BY <1>2, <1>8, ChainCounts, ChainCountsNext
  <2>2. Cardinality(Chain \cup {n}) = Cardinality(Chain) + 1
    BY <1>5, <2>1, FS_AddElement
  <2>3. QED
    BY <1>5, <1>7, <1>8, <2>1, <2>2
<1>10. Size' = [[Size EXCEPT !.nodeCount = Plus(Size.nodeCount, 1)] EXCEPT !.chain = c]
  <2>1. PICK u : u = [Size EXCEPT !.nodeCount = Plus(Size.nodeCount, 1)]
    OBVIOUS
  <2>2. u = [nodeCount |-> Plus(nodeCount, 1), chain |-> Cardinality(Chain), deleted |-> deleted]
    BY <2>1 DEF Size
  <2>3. [u EXCEPT !.chain = c] = [nodeCount |-> Plus(nodeCount, 1), chain |-> c, deleted |-> deleted]
    BY <2>2
  <2>4. Size' = [nodeCount |-> Plus(nodeCount, 1), chain |-> c, deleted |-> deleted]
    BY <1>2, <1>8 DEF Size
  <2>5. QED
    BY <2>1, <2>3, <2>4, Zenon
<1>11. Size' \in AfterSet(Size)
  BY <1>9, <1>10 DEF AfterSet, Size
<1>12. QED
  BY <1>2, <1>7, <1>11 DEF SizeStep, WholeChain

LEMMA DeleteSizes ==
  ASSUME HeapIsBounded, LinkInv, LinkInv', WholeChain, NEW k \in Keys, DeleteFound(k)
  PROVE  SizeStep /\ WholeChain'
<1>1. PICK n : n = Descent(k).cur
  OBVIOUS
<1>2. /\ Links /\ Links' /\ Found(k) /\ n \in Nodes /\ mem' = Unlinked(n, k)
      /\ nodeCount' = Minus(nodeCount, 1) /\ deleted' = TRUE /\ last'.op = "delete"
  BY <1>1 DEF LinkInv, DeleteFound, Found, Returns, Answer
<1>3. PICK p : p = BeforeOn(0, k)
  OBVIOUS
<1>4. p \in Positions
  BY <1>2, <1>3, AdvanceStands, Addresses DEF BeforeOn, Positions
<1>5. \A q \in Positions : next(q, 0)' = IF Unlinks(n, 0, k) /\ p = q THEN next(n, 0) ELSE next(q, 0)
  BY <1>2, <1>3, UnlinkedNodes, Addresses
<1>6. PICK C : C = Chain
  OBVIOUS
<1>7. PICK E : E = Chain'
  OBVIOUS
<1>8. E \subseteq C /\ C \subseteq E \cup {n}
  <2>1. CASE Unlinks(n, 0, k)
    <3>1. next(p, 0) = n
      BY <1>3, <2>1 DEF Unlinks
    <3>2. QED
      BY <1>2, <1>4, <1>5, <1>6, <1>7, <2>1, <3>1, UnlinkedChain
  <2>2. CASE ~Unlinks(n, 0, k)
    BY <1>2, <1>5, <1>6, <1>7, <2>2, SameChain
  <2>3. QED
    BY <2>1, <2>2
<1>9. IsFiniteSet(C) /\ Cardinality(C) \in Nat /\ Cardinality(E) \in Nat
  BY <1>2, <1>6, <1>7, ChainCounts, ChainCountsNext
<1>10. Cardinality(E) = Cardinality(C) \/ Cardinality(E) + 1 = Cardinality(C)
  <2>1. CASE n \in C /\ n \notin E
    <3>1. E = C \ {n}
      BY <1>8, <2>1
    <3>2. Cardinality(E) = Cardinality(C) - 1
      BY <1>9, <2>1, <3>1, FS_RemoveElement
    <3>3. QED
      BY <1>9, <3>2
  <2>2. CASE ~(n \in C /\ n \notin E)
    <3>1. E = C
      BY <1>8, <2>2
    <3>2. QED
      BY <3>1
  <2>3. QED
    BY <2>1, <2>2
<1>11. Size' \in AfterDelete(Size)
  <2>1. MayFind(Size) /\ Size.nodeCount = nodeCount /\ Size.chain = Cardinality(C)
    BY <1>2, <1>6, FoundIsCounted DEF Size
  <2>2. Cardinality(E) \in 0..MaxNodes
    BY <1>2, <1>7, ChainCountsNext
  <2>3. Size' = [nodeCount |-> Minus(nodeCount, 1), chain |-> Cardinality(E), deleted |-> TRUE]
    BY <1>2, <1>7 DEF Size
  <2>4. QED
    BY <1>10, <2>1, <2>2, <2>3 DEF AfterDelete
<1>12. QED
  BY <1>2, <1>11 DEF SizeStep, WholeChain

\* Where nothing changes, or a call failed, the chain is what it was.
LEMMA SameSize ==
  ASSUME LinkInv, LinkInv', WholeChain, UNCHANGED <<mem, nodeCount, allocated, deleted>>
  PROVE  Size' = Size /\ WholeChain'
<1>1. Links /\ Links' /\ \A p \in Positions : next(p, 0)' = next(p, 0)
  BY DEF LinkInv, next
<1>2. Chain' = Chain
  BY <1>1, SameChain
<1>3. Targets(0)' = Targets(0)
  BY DEF Targets, Entire, next
<1>4. QED
  BY <1>2, <1>3 DEF Size, WholeChain

\* An empty list has nothing on level 0, whatever nodes Delete has leaked.
LEMMA NothingCounted ==
  ASSUME NothingLinked
  PROVE  Chain = {} /\ Targets(0) = {}
<1>1. Links
  BY NothingLinkedLinks
<1>2. next(dummyHead, 0) = dummyTail /\ \A n \in Nodes : next(n, 0) = NULL /\ mem[n].levelHeight = 0
  BY Addresses DEF NothingLinked, next, EmptyHead, EmptyNode, Positions
<1>3. Leads({}, 0)
  BY <1>2, Addresses DEF Leads
<1>4. Chain = {}
  BY <1>1, <1>3, ChainIsCollected DEF IsCollected
<1>5. Targets(0) = {}
  BY <1>2, Addresses DEF Targets, Entire
<1>6. QED
  BY <1>4, <1>5

LEMMA NothingCountedNext == (NothingLinked => Chain = {} /\ Targets(0) = {})'
<1>1. NothingLinked => Chain = {} /\ Targets(0) = {}
  BY NothingCounted
<1>2. QED
  BY <1>1, PTL

LEMMA ClearSizes ==
  ASSUME LinkInv, LinkInv', Clear
  PROVE  SizeStep /\ WholeChain'
<1>1. NothingLinked'
  BY DEF Clear, ClearedHead, LinkInv, Links, NothingLinked
<1>2. Chain' = {} /\ Targets(0)' = {}
  BY <1>1, NothingCountedNext
<1>3. nodeCount' = Minus(nodeCount, Cardinality(Chain)) /\ deleted' = FALSE /\ last'.op = "clear"
  BY DEF Clear, Returns, Answer
<1>4. Size' = [nodeCount |-> Minus(Size.nodeCount, Size.chain), chain |-> 0, deleted |-> FALSE]
  BY <1>2, <1>3, FS_EmptySet DEF Size
<1>5. QED
  BY <1>2, <1>3, <1>4 DEF AfterClear, SizeStep, WholeChain

LEMMA SizeNext ==
  ASSUME HeapIsBounded, LinkInv, LinkInv', WholeChain, [ListNext]_listVars
  PROVE  [SizeStep]_listVars /\ WholeChain'
<1>1. ASSUME NEW how \in {"crashed", "hung"}, Fails(how)
      PROVE  SizeStep /\ WholeChain'
  BY <1>1, SameSize DEF Fails, SizeStep
<1>2. ASSUME NEW k \in Keys, NEW v \in Values, Set(k, v)
      PROVE  SizeStep /\ WholeChain'
  <2>1. CASE SetInsert(k, v)
    BY <1>1, <2>1, InsertOrFail, InsertSizes DEF LinkInv
  <2>2. QED
    BY <1>1, <1>2, <2>1, FoundSizes DEF Set, SetNoMemory
<1>3. ASSUME NEW k \in Keys, Get(k)
      PROVE  SizeStep /\ WholeChain'
  <2>1. Size' = Size /\ WholeChain' /\ last'.op = "get"
    BY <1>3, SameSize DEF Get, Returns, Answer
  <2>2. QED
    BY <2>1 DEF SizeStep
<1>4. ASSUME NEW k \in Keys, DeleteMissing(k)
      PROVE  SizeStep /\ WholeChain'
  <2>1. Size' = Size /\ WholeChain' /\ last'.op = "delete"
    BY <1>4, SameSize DEF DeleteMissing, Returns, Answer
  <2>2. QED
    BY <2>1 DEF SizeStep, AfterDelete
<1>5. CASE UNCHANGED listVars
  <2>1. WholeChain'
    BY <1>5, SameSize DEF listVars
  <2>2. QED
    BY <1>5, <2>1
<1>6. QED
  BY <1>2, <1>3, <1>4, <1>5, DeleteSizes, ClearSizes DEF ListNext, Delete

\* What the database may rely on for the size of its table is what the list does,
\* Deletes included: an update changes nothing and finds a node that is counted on
\* level 0 or was deleted, an insertion counts the node it links, a Delete counts one
\* node less and takes at most that one off level 0, and a Clear counts down by what
\* it finds there.
THEOREM SizesKeepContract == HeapIsBounded => (ListSpec => SizeContract)
<1> SUFFICES ASSUME HeapIsBounded
             PROVE  ListSpec => SizeContract
  OBVIOUS
<1>1. ListInit => WholeChain
  <2> SUFFICES ASSUME ListInit
               PROVE  Targets(0) = {}
    BY DEF WholeChain
  <2>1. NothingLinked
    BY FS_EmptySet DEF ListInit, NothingLinked, Positions
  <2>2. QED
    BY <2>1, NothingCounted
<1>2. LinkInv /\ LinkInv' /\ WholeChain /\ [ListNext]_listVars => [SizeStep]_listVars /\ WholeChain'
  BY SizeNext
<1>3. QED
  BY <1>1, <1>2, LinkInvariant, PTL DEF ListSpec, SizeContract, SizeStep

=============================================================================
