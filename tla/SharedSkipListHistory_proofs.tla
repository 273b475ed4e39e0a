-------------------- MODULE SharedSkipListHistory_proofs --------------------
(***************************************************************************)
(* What a call that overlaps others finds, judged by the history of the    *)
(* list since the call, for any number of readers, keys, nodes and levels. *)
(***************************************************************************)
EXTENDS SharedSkipList_proofs

LOCAL L == INSTANCE SkipList_proofs

-----------------------------------------------------------------------------
(* The nodes behind a place of level 0.                                      *)

\* The assumption on the constants that the lemmas of L rest on.
LEMMA SameAssumption ==
  /\ Keys \subseteq Nat
  /\ NULL \notin Keys \cup Values
  /\ L!Cardinality({dummyHead, dummyTail, NULL}) = 3
  /\ Nodes \cap {dummyHead, dummyTail, NULL} = {}
  /\ LIST_HEIGHT \in Nat \ {0}
  /\ AllocMayFail \in BOOLEAN
BY SkipListAssumption DEF L!Cardinality, Cardinality

Places == Nodes \cup {dummyHead}

\* The link of level 0 in memory m, and what is behind p if c is behind its next.
Behind0(m, p) == m[p].levelNext[0]
Collected(m, c, p) ==
  IF Behind0(m, p) \in Nodes THEN {Behind0(m, p)} \cup c[Behind0(m, p)] ELSE {}

Chains(m) == CHOOSE c : c = [p \in Places |-> Collected(m, c, p)]

\* The recursion of ChainFrom is that of memory mem.
LEMMA ChainFromIs == ChainFrom = Chains(mem) /\ ChainFrom' = Chains(mem')
<1>1. ChainFrom = Chains(mem)
  BY DEF ChainFrom, Chains, Collected, Behind0, next, Places
<1>2. ChainFrom' = Chains(mem')
  BY DEF ChainFrom, Chains, Collected, Behind0, next, Places
<1>3. QED
  BY <1>1, <1>2

\* It has a solution whatever the links, even if they go round: the least sets that
\* contain the next node and the next one of each of theirs.
LEMMA ChainsAre ==
  ASSUME NEW m, NEW p \in Places
  PROVE  Chains(m)[p] = Collected(m, Chains(m), p)
<1> DEFINE Closed(q, S) == /\ Behind0(m, q) \in Nodes => Behind0(m, q) \in S
                           /\ \A x \in S : Behind0(m, x) \in Nodes => Behind0(m, x) \in S
           Least(q) == {x \in Nodes : \A S \in SUBSET Nodes : Closed(q, S) => x \in S}
<1>1. PICK g : g = [q \in Places |-> Least(q)]
  OBVIOUS
<1>2. ASSUME NEW q \in Places
      PROVE  Least(q) = Collected(m, g, q)
  <2>1. CASE Behind0(m, q) \notin Nodes
    <3>1. Closed(q, {})
      BY <2>1
    <3>2. \A x \in Least(q) : x \in {}
      <4>1. {} \in SUBSET Nodes
        OBVIOUS
      <4>2. QED
        BY <3>1, <4>1
    <3>3. QED
      BY <2>1, <3>2 DEF Collected
  <2>2. CASE Behind0(m, q) \in Nodes
    <3>1. PICK n \in Nodes : n = Behind0(m, q)
      BY <2>2
    <3>2. g[n] = Least(n)
      BY <1>1 DEF Places
    <3>3. \A x \in Least(n) : Behind0(m, x) \in Nodes => Behind0(m, x) \in Least(n)
      OBVIOUS
    <3>4. Behind0(m, n) \in Nodes => Behind0(m, n) \in Least(n)
      OBVIOUS
    <3>5. Closed(q, {n} \cup Least(n))
      BY <3>1, <3>3, <3>4
    <3>6. Least(q) \subseteq {n} \cup Least(n)
      BY <3>5
    <3>7. \A S \in SUBSET Nodes : Closed(q, S) => n \in S /\ Closed(n, S)
      BY <3>1
    <3>8. {n} \cup Least(n) \subseteq Least(q)
      BY <3>7
    <3>9. QED
      BY <3>1, <3>2, <3>6, <3>8 DEF Collected
  <2>3. QED
    BY <2>1, <2>2
<1> HIDE DEF Least
<1>3. g = [q \in Places |-> Collected(m, g, q)]
  BY <1>1, <1>2
<1>4. PICK c : c = Chains(m)
  OBVIOUS
<1>5. c = CHOOSE d : d = [q \in Places |-> Collected(m, d, q)]
  BY <1>4 DEF Chains
<1>6. c = [q \in Places |-> Collected(m, c, q)]
  BY <1>3, <1>5
<1>7. c[p] = Collected(m, c, p)
  BY <1>6
<1>8. QED
  BY <1>4, <1>7

\* What is behind p in the list, before and after a step.
LEMMA ChainStep ==
  ASSUME NEW p \in Places
  PROVE  /\ ChainFrom[p] = IF next(p, 0) \in Nodes
                           THEN {next(p, 0)} \cup ChainFrom[next(p, 0)] ELSE {}
         /\ ChainFrom'[p] = IF next(p, 0)' \in Nodes
                            THEN {next(p, 0)'} \cup ChainFrom'[next(p, 0)'] ELSE {}
<1>1. ChainFrom[p] = Collected(mem, ChainFrom, p) /\ ChainFrom'[p] = Collected(mem', ChainFrom', p)
  BY ChainFromIs, ChainsAre
<1>2. next(p, 0) = Behind0(mem, p) /\ next(p, 0)' = Behind0(mem', p)
  BY DEF next, Behind0
<1>3. QED
  BY <1>1, <1>2 DEF Collected

LEMMA SameChain ==
  ASSUME NEW p \in Places, NEW q \in Places, next(p, 0)' = next(q, 0)'
  PROVE  ChainFrom'[p] = ChainFrom'[q]
<1>1. PICK n : n = next(p, 0)' /\ n = next(q, 0)'
  OBVIOUS
<1>2. ChainFrom'[p] = IF n \in Nodes THEN {n} \cup ChainFrom'[n] ELSE {}
  BY <1>1, ChainStep
<1>3. ChainFrom'[q] = IF n \in Nodes THEN {n} \cup ChainFrom'[n] ELSE {}
  BY <1>1, ChainStep
<1>4. QED
  BY <1>2, <1>3

-----------------------------------------------------------------------------
(* Level 0 as it is between the steps of a writer.                           *)

\* Only so many keys are in use: a walk cannot ascend for ever.
Bounded == \E b \in Nat : \A n : Live(n) => mem[n].key <= b

\* Whatever holds of the next node, too, of each place that it holds of, holds of none.
LEMMA NoEndlessLevel ==
  ASSUME SharedInv, ListOK, Bounded, NEW S,
         \A a \in S : Reached(a, 0) /\ next(a, 0) \in Nodes /\ next(a, 0) \in S
  PROVE  S = {}
<1> SUFFICES ASSUME NEW s \in S
             PROVE  FALSE
  OBVIOUS
<1> DEFINE T == {mem[n].key : n \in S \cap Nodes}
<1>1. PICK b \in Nat : \A n : Live(n) => mem[n].key <= b
  BY DEF Bounded
<1>2. \A n \in S \cap Nodes : Live(n) /\ mem[n].key \in Nat /\ Reached(n, 0) /\ n # dummyHead
  BY LiveHasKey, Addresses DEF Reached
<1>3. T \in SUBSET Nat /\ T # {} /\ \A i \in T : i <= b
  BY <1>1, <1>2
<1>4. PICK i \in T : \A j \in T : j <= i
  BY <1>1, <1>3, SameAssumption, SizeAssumption, L!GreatestNumber
<1>5. PICK n \in S \cap Nodes : i = mem[n].key
  OBVIOUS
<1>6. next(n, 0) \in S \cap Nodes /\ mem[n].key < mem[next(n, 0)].key
  BY <1>2, <1>5, AheadOfReached, Addresses
<1>7. mem[next(n, 0)].key <= mem[n].key
  BY <1>4, <1>5, <1>6
<1>8. QED
  BY <1>2, <1>5, <1>6, <1>7

\* What the recursion collects at a place: the next node is in the list, too, and
\* has a greater key.
LEMMA NextPlace ==
  ASSUME SharedInv, ListOK, NEW a, Reached(a, 0)
  PROVE  /\ a \in Places
         /\ \/ next(a, 0) = dummyTail /\ ChainFrom[a] = {}
            \/ /\ next(a, 0) \in Nodes /\ Reached(next(a, 0), 0) /\ Live(next(a, 0))
               /\ mem[next(a, 0)].key \in Nat
               /\ a # dummyHead => mem[a].key \in Nat /\ mem[a].key < mem[next(a, 0)].key
               /\ ChainFrom[a] = {next(a, 0)} \cup ChainFrom[next(a, 0)]
<1>1. a \in Places
  BY DEF Places, Reached, Live, SharedInv
<1>2. Target(next(a, 0), 0) /\ (next(a, 0) \in Nodes => Reached(next(a, 0), 0))
  BY <1>1, AheadOfReached, Addresses DEF Places
<1>3. CASE next(a, 0) = dummyTail
  BY <1>1, <1>3, ChainStep, Addresses
<1>4. CASE next(a, 0) # dummyTail
  <2>1. Live(next(a, 0)) /\ next(a, 0) \in Nodes
    BY <1>2, <1>4 DEF Target, Live, SharedInv
  <2>2. a # dummyHead => mem[a].key \in Nat /\ mem[a].key < mem[next(a, 0)].key
    BY <1>1, <2>1, AheadOfReached, LiveHasKey, Addresses DEF Places, Reached
  <2>3. QED
    BY <1>1, <1>2, <2>1, <2>2, ChainStep, LiveHasKey
<1>5. QED
  BY <1>1, <1>3, <1>4

\* The nodes behind a place are in the list, with greater keys, and so are the ones
\* behind them.
LEMMA ChainAscends ==
  ASSUME SharedInv, ListOK, Bounded, NEW a, Reached(a, 0), NEW y \in ChainFrom[a]
  PROVE  /\ Reached(y, 0) /\ Live(y) /\ y \in Nodes /\ mem[y].key \in Nat
         /\ a # dummyHead => mem[a].key < mem[y].key
         /\ ChainFrom[y] \subseteq ChainFrom[a]
<1> DEFINE Good(b, z) == /\ Reached(z, 0) /\ Live(z) /\ z \in Nodes /\ mem[z].key \in Nat
                         /\ b # dummyHead => mem[b].key < mem[z].key
                         /\ ChainFrom[z] \subseteq ChainFrom[b]
           Bad == {b \in Places : Reached(b, 0) /\ \E z \in ChainFrom[b] : ~Good(b, z)}
<1>1. ASSUME NEW b \in Bad
      PROVE  Reached(b, 0) /\ next(b, 0) \in Nodes /\ next(b, 0) \in Bad
  <2>1. PICK z \in ChainFrom[b] : ~Good(b, z)
    OBVIOUS
  <2>2. PICK n \in Nodes : n = next(b, 0) /\ Reached(n, 0) /\ Live(n) /\ mem[n].key \in Nat
                           /\ (b # dummyHead => mem[b].key \in Nat /\ mem[b].key < mem[n].key)
                           /\ ChainFrom[b] = {n} \cup ChainFrom[n]
    BY <2>1, NextPlace
  <2>3. Good(b, n)
    BY <2>2
  <2>4. z \in ChainFrom[n]
    BY <2>1, <2>2, <2>3
  <2>5. ~Good(n, z)
    BY <2>1, <2>2, Addresses
  <2>6. QED
    BY <2>2, <2>4, <2>5 DEF Places
<1>2. Bad = {}
  BY <1>1, NoEndlessLevel
<1>3. a \in Places
  BY NextPlace
<1>4. QED
  BY <1>2, <1>3

\* Of two nodes behind a place one is behind the other, or they are the same.
LEMMA ChainOrder ==
  ASSUME SharedInv, ListOK, Bounded, NEW a, Reached(a, 0),
         NEW y \in ChainFrom[a], NEW z \in ChainFrom[a]
  PROVE  y = z \/ z \in ChainFrom[y] \/ y \in ChainFrom[z]
<1> DEFINE Apart(b) == \E u, v \in ChainFrom[b] :
                         u # v /\ v \notin ChainFrom[u] /\ u \notin ChainFrom[v]
           Bad == {b \in Places : Reached(b, 0) /\ Apart(b)}
<1>1. ASSUME NEW b \in Bad
      PROVE  Reached(b, 0) /\ next(b, 0) \in Nodes /\ next(b, 0) \in Bad
  <2>1. PICK u, v \in ChainFrom[b] : u # v /\ v \notin ChainFrom[u] /\ u \notin ChainFrom[v]
    OBVIOUS
  <2>2. PICK n \in Nodes : n = next(b, 0) /\ Reached(n, 0) /\ ChainFrom[b] = {n} \cup ChainFrom[n]
    BY <2>1, NextPlace
  <2>3. u \in ChainFrom[n] /\ v \in ChainFrom[n]
    BY <2>1, <2>2
  <2>4. QED
    BY <2>1, <2>2, <2>3 DEF Places
<1>2. Bad = {}
  BY <1>1, NoEndlessLevel
<1>3. a \in Places
  BY NextPlace
<1>4. QED
  BY <1>2, <1>3

-----------------------------------------------------------------------------
(* Iterations: the inductive invariant.                                      *)

SeenIn(f) == {f.seen[i] : i \in DOMAIN f.seen}

\* The keys that an iteration has still ahead of it.
KeysBehind(q) == {mem[n].key : n \in ChainFrom[q]}
KeysFrom(q) == IF q = dummyTail THEN {} ELSE {mem[q].key} \cup KeysBehind(q)
StillAhead(f) ==
  CASE f.at = "begin" -> KeysBehind(dummyHead)
    [] f.at = "visit" -> KeysFrom(f.node)
    [] f.at = "next" -> KeysBehind(f.node)
    [] OTHER -> {}

\* No key that has been in the list all the time is behind the iteration, unseen.
WalkOK(t) ==
  frame[t].op = "iterate" => watch[t] \subseteq SeenIn(frame[t]) \cup StillAhead(frame[t])

\* A Delete that unlinks a node from level 0 is on the way from dummyHead to it, and a
\* Set links its node to what prev is linked to.
InPlace(f) ==
  /\ f.op = "delete" /\ f.doing = "unlink" /\ f.at \in {"walk", "cut"} /\ f.level = 0 =>
       f.prev = dummyHead \/ f.prev \in ChainFrom[dummyHead]
  /\ f.at = "cut" => link(f.prev, f.level) = f.node
  /\ f.at = "publish" => next(f.node, f.level) = link(f.prev, f.level)

WalkInv ==
  /\ SharedInv
  /\ Bounded
  /\ \A t \in Readers : WalkOK(t)
  /\ \A t \in Writers : InPlace(frame[t])

-----------------------------------------------------------------------------
(* What a store does to the nodes behind a place.                            *)

\* Nothing that was behind a place is withdrawn, but for a node x that is cut off.
LEMMA ChainsGrow ==
  ASSUME SharedInv, ListOK, Bounded, NEW x,
         \A a : Reached(a, 0) =>
           \/ next(a, 0)' = next(a, 0)
           \/ \E n \in Nodes : next(a, 0)' = n /\ next(n, 0)' = next(a, 0)
           \/ /\ next(a, 0) = x /\ next(a, 0)' = next(x, 0) /\ next(x, 0)' = next(x, 0),
         NEW a, Reached(a, 0), NEW y \in ChainFrom[a], y # x
  PROVE  y \in ChainFrom'[a]
<1> DEFINE Bad == {b \in Places : Reached(b, 0) /\
                                  \E z \in ChainFrom[b] : z # x /\ z \notin ChainFrom'[b]}
<1>1. ASSUME NEW b \in Bad
      PROVE  Reached(b, 0) /\ next(b, 0) \in Nodes /\ next(b, 0) \in Bad
  <2>1. PICK z \in ChainFrom[b] : z # x /\ z \notin ChainFrom'[b]
    OBVIOUS
  <2>2. PICK n \in Nodes : n = next(b, 0) /\ Reached(n, 0) /\ ChainFrom[b] = {n} \cup ChainFrom[n]
    BY <2>1, NextPlace
  <2>3. n \in Places /\ b \in Places
    BY DEF Places
  <2>4. z \in ChainFrom[n] /\ z \notin ChainFrom'[n]
    <3>1. CASE next(b, 0)' = n
      <4>1. ChainFrom'[b] = {n} \cup ChainFrom'[n]
        BY <2>3, <3>1, ChainStep
      <4>2. QED
        BY <2>1, <2>2, <4>1
    <3>2. CASE \E m \in Nodes : next(b, 0)' = m /\ next(m, 0)' = n
      <4>1. PICK m \in Nodes : next(b, 0)' = m /\ next(m, 0)' = n
        BY <3>2
      <4>2. ChainFrom'[b] = {m} \cup ChainFrom'[m] /\ ChainFrom'[m] = {n} \cup ChainFrom'[n]
        BY <2>3, <4>1, ChainStep DEF Places
      <4>3. QED
        BY <2>1, <2>2, <4>2
    <3>3. CASE n = x /\ next(b, 0)' = next(x, 0) /\ next(x, 0)' = next(x, 0)
      <4>1. ChainFrom'[b] = ChainFrom'[n]
        BY <2>3, <3>3, SameChain
      <4>2. QED
        BY <2>1, <2>2, <3>3, <4>1
    <3>4. QED
      BY <1>1, <2>2, <3>1, <3>2, <3>3
  <2>5. QED
    BY <2>1, <2>2, <2>3, <2>4
<1>2. Bad = {}
  BY <1>1, NoEndlessLevel
<1>3. a \in Places
  BY NextPlace
<1>4. QED
  BY <1>2, <1>3

\* If x is cut off behind its predecessor on the way from dummyHead, nothing on that
\* way has the key of x any more.
LEMMA CutOff ==
  ASSUME SharedInv, ListOK, Bounded, NEW p, NEW x, Reached(p, 0), next(p, 0) = x, x \in Nodes,
         p = dummyHead \/ p \in ChainFrom[dummyHead],
         \A a : Reached(a, 0) => next(a, 0)' = IF a = p THEN next(x, 0) ELSE next(a, 0),
         NEW y \in ChainFrom'[dummyHead]
  PROVE  y \in ChainFrom[dummyHead] /\ mem[y].key # mem[x].key
<1>1. Reached(x, 0) /\ p \in Places /\ x \in Places /\ p # x /\ mem[x].key \in Nat /\ x # dummyHead
  BY NextPlace, Addresses DEF Places
<1>2. next(x, 0)' = next(x, 0)
  BY <1>1
<1>3. ASSUME NEW a, Reached(a, 0), NEW z \in ChainFrom'[a]
      PROVE  z \in ChainFrom[a]
  <2> DEFINE Bad == {b \in Places : Reached(b, 0) /\
                                    \E w \in ChainFrom'[b] : w \notin ChainFrom[b]}
  <2>1. ASSUME NEW b \in Bad
        PROVE  Reached(b, 0) /\ next(b, 0) \in Nodes /\ next(b, 0) \in Bad
    <3>1. PICK w \in ChainFrom'[b] : w \notin ChainFrom[b]
      OBVIOUS
    <3>2. CASE b # p
      <4>1. next(b, 0)' = next(b, 0) /\ b \in Places /\ Reached(b, 0)
        BY <3>2
      <4>2. ChainFrom'[b] = {next(b, 0)} \cup ChainFrom'[next(b, 0)] /\ next(b, 0) \in Nodes
        BY <3>1, <4>1, ChainStep
      <4>3. ChainFrom[b] = {next(b, 0)} \cup ChainFrom[next(b, 0)] /\ Reached(next(b, 0), 0)
        BY <4>1, <4>2, NextPlace, Addresses
      <4>4. w \in ChainFrom'[next(b, 0)] /\ w \notin ChainFrom[next(b, 0)]
        BY <3>1, <4>2, <4>3
      <4>5. QED
        BY <4>1, <4>2, <4>3, <4>4 DEF Places
    <3>3. CASE b = p
      <4>1. ChainFrom'[p] = ChainFrom'[x]
        BY <1>1, <1>2, SameChain
      <4>2. ChainFrom[p] = {x} \cup ChainFrom[x]
        BY <1>1, ChainStep
      <4>3. QED
        BY <1>1, <3>1, <3>3, <4>1, <4>2
    <3>4. QED
      BY <3>2, <3>3
  <2>2. Bad = {}
    BY <2>1, NoEndlessLevel
  <2>3. a \in Places
    BY <1>3, NextPlace
  <2>4. QED
    BY <1>3, <2>2, <2>3
<1>4. Reached(dummyHead, 0) /\ dummyHead \in Places
  BY DEF Reached, Places
<1>5. x \in ChainFrom[dummyHead]
  <2>1. x \in ChainFrom[p]
    BY <1>1, ChainStep
  <2>2. QED
    BY <1>4, <2>1, ChainAscends
<1>6. y \in ChainFrom[dummyHead]
  BY <1>3, <1>4
<1>7. x \notin ChainFrom'[x] /\ x \notin ChainFrom[x]
  BY <1>1, <1>3, ChainAscends
<1>8. x \notin ChainFrom'[dummyHead]
  <2> DEFINE Bad == {b \in Places : /\ b = dummyHead \/ b \in ChainFrom[dummyHead]
                                    /\ Reached(b, 0) /\ x \in ChainFrom'[b]}
  <2>1. ASSUME NEW b \in Bad
        PROVE  Reached(b, 0) /\ next(b, 0) \in Nodes /\ next(b, 0) \in Bad
    <3>1. Reached(b, 0) /\ b \in Places /\ x \in ChainFrom'[b] /\ x \in ChainFrom[b]
      BY <1>3
    <3>2. b # p
      <4>1. ChainFrom'[p] = ChainFrom'[x]
        BY <1>1, <1>2, SameChain
      <4>2. QED
        BY <1>7, <3>1, <4>1
    <3>3. /\ next(b, 0) \in Nodes /\ Reached(next(b, 0), 0) /\ next(b, 0)' = next(b, 0)
          /\ ChainFrom[b] = {next(b, 0)} \cup ChainFrom[next(b, 0)]
          /\ ChainFrom'[b] = {next(b, 0)} \cup ChainFrom'[next(b, 0)]
      BY <3>1, <3>2, NextPlace, ChainStep
    <3>4. next(b, 0) # x
      <4>1. SUFFICES ASSUME next(b, 0) = x
                     PROVE  FALSE
        OBVIOUS
      <4>2. ChainFrom[b] = {x} \cup ChainFrom[x] /\ ChainFrom[p] = {x} \cup ChainFrom[x]
        BY <1>1, <3>3, <4>1, ChainStep
      <4>3. p \in ChainFrom[b] \/ b \in ChainFrom[p]
        <5>1. CASE p = dummyHead
          BY <3>2, <5>1
        <5>2. CASE b = dummyHead
          BY <3>2, <5>2
        <5>3. CASE p \in ChainFrom[dummyHead] /\ b \in ChainFrom[dummyHead]
          BY <1>4, <3>2, <5>3, ChainOrder
        <5>4. QED
          BY <5>1, <5>2, <5>3
      <4>4. p \in ChainFrom[x] \/ b \in ChainFrom[x]
        <5>1. b # x /\ p # x
          BY <1>1, <1>7, <3>1
        <5>2. QED
          BY <4>2, <4>3, <5>1
      <4>5. PICK c \in {b, p} : c \in ChainFrom[x] /\ x \in ChainFrom[c] /\ Reached(c, 0)
        BY <1>1, <3>1, <4>2, <4>4
      <4>6. mem[x].key < mem[c].key /\ mem[c].key \in Nat /\ c \in Nodes
        BY <1>1, <4>5, ChainAscends
      <4>7. mem[c].key < mem[x].key
        BY <4>5, <4>6, ChainAscends, Addresses
      <4>8. QED
        BY <1>1, <4>6, <4>7
    <3>5. next(b, 0) \in ChainFrom[dummyHead]
      BY <1>4, <3>3, ChainAscends
    <3>6. QED
      BY <3>1, <3>3, <3>4, <3>5 DEF Places
  <2>2. Bad = {}
    BY <2>1, NoEndlessLevel
  <2>3. QED
    BY <1>4, <2>2
<1>9. ASSUME mem[y].key = mem[x].key
      PROVE  FALSE
  <2>1. y # x
    BY <1>8
  <2>2. x \in ChainFrom[y] \/ y \in ChainFrom[x]
    BY <1>4, <1>5, <1>6, <2>1, ChainOrder
  <2>3. Reached(y, 0) /\ y \in Nodes /\ y # dummyHead
    BY <1>4, <1>6, ChainAscends, Addresses
  <2>4. mem[y].key < mem[x].key \/ mem[x].key < mem[y].key
    BY <1>1, <2>2, <2>3, ChainAscends
  <2>5. QED
    BY <1>1, <1>9, <2>4
<1>10. QED
  BY <1>6, <1>9

-----------------------------------------------------------------------------
(* Iterations, when a step leaves the links as they are.                     *)

\* The history goes on as in SharedNext.
Watching == watch' = [t \in Readers |-> Watched(t)]

LEMMA WatchOf ==
  ASSUME Watching, NEW t \in Readers, frame'[t].op = "iterate"
  PROVE  watch'[t] = IF frame[t] = Idle THEN KeysOnLevel0' ELSE watch[t] \cap KeysOnLevel0'
BY DEF Watching, Watched

\* The call of t goes from f to g, and no link changes.
LEMMA QuietKeeps ==
  ASSUME WalkInv, SharedInv', Watching, mem' = mem, allocated' \subseteq allocated,
         NEW t \in Threads, NEW g, frame' = [frame EXCEPT ![t] = g],
         t \in Readers /\ g.op = "iterate" =>
           IF frame[t] = Idle THEN g.at = "begin"
           ELSE SeenIn(frame[t]) \cup StillAhead(frame[t]) \subseteq SeenIn(g) \cup StillAhead(g)
                /\ frame[t].op = "iterate",
         t \in Writers => InPlace(g)
  PROVE  WalkInv'
<1>1. \A u \in Threads : frame'[u] = IF u = t THEN g ELSE frame[u]
  BY TypeOfFrames DEF WalkInv, SharedInv
<1>2. ChainFrom' = ChainFrom
  BY ChainFromIs
<1>3. /\ \A q : KeysBehind(q)' = KeysBehind(q) /\ KeysFrom(q)' = KeysFrom(q)
      /\ KeysOnLevel0' = KeysBehind(dummyHead)
  BY <1>2 DEF KeysBehind, KeysFrom, KeysOnLevel0, Chain
<1>4. \A f : StillAhead(f)' = StillAhead(f)
  BY <1>3 DEF StillAhead
<1>5. Bounded'
  BY DEF WalkInv, Bounded, Live
<1>6. ASSUME NEW u \in Readers, frame'[u].op = "iterate"
      PROVE  watch'[u] \subseteq SeenIn(frame'[u]) \cup StillAhead(frame'[u])
  <2>1. u \in Threads /\ watch'[u] = IF frame[u] = Idle THEN KeysOnLevel0'
                                     ELSE watch[u] \cap KeysOnLevel0'
    BY <1>6, WatchOf DEF Threads
  <2>2. Idle.op = "none"
    BY DEF Idle
  <2>3. CASE u = t /\ frame[t] = Idle
    <3>1. g.at = "begin" /\ frame'[u] = g
      BY <1>1, <1>6, <2>1, <2>3
    <3>2. StillAhead(g) = KeysBehind(dummyHead)
      BY <3>1 DEF StillAhead
    <3>3. QED
      BY <1>3, <2>1, <2>3, <3>1, <3>2
  <2>4. CASE u = t /\ frame[t] # Idle
    <3>1. frame'[u] = g /\ g.op = "iterate"
      BY <1>1, <1>6, <2>1, <2>4
    <3>2. SeenIn(frame[t]) \cup StillAhead(frame[t]) \subseteq SeenIn(g) \cup StillAhead(g)
          /\ frame[t].op = "iterate"
      BY <1>6, <2>4, <3>1
    <3>3. watch[t] \subseteq SeenIn(frame[t]) \cup StillAhead(frame[t])
      BY <1>6, <2>4, <3>2 DEF WalkInv, WalkOK
    <3>4. QED
      BY <2>1, <2>4, <3>1, <3>2, <3>3
  <2>5. CASE u # t
    <3>1. frame'[u] = frame[u] /\ frame[u] # Idle /\ frame[u].op = "iterate"
      BY <1>1, <1>6, <2>1, <2>2, <2>5
    <3>2. watch[u] \subseteq SeenIn(frame[u]) \cup StillAhead(frame[u])
      BY <1>6, <3>1 DEF WalkInv, WalkOK
    <3>3. QED
      BY <2>1, <3>1, <3>2
  <2>6. QED
    BY <2>3, <2>4, <2>5
<1>7. \A u \in Readers : WalkOK(u)'
  <2>1. ASSUME NEW u \in Readers
        PROVE  WalkOK(u)'
    <3>1. PICK f : f = frame'[u]
      OBVIOUS
    <3>2. StillAhead(frame[u])' = StillAhead(f)
      <4>1. StillAhead(frame[u])' = StillAhead(f)'
        BY <3>1 DEF StillAhead, KeysBehind, KeysFrom
      <4>2. QED
        BY <1>4, <4>1
    <3>3. SeenIn(frame[u])' = SeenIn(f)
      BY <3>1 DEF SeenIn
    <3>4. QED
      BY <1>6, <3>1, <3>2, <3>3 DEF WalkOK
  <2>2. QED
    BY <2>1
<1>8. \A u \in Writers : InPlace(frame[u])'
  <2>1. ASSUME NEW u \in Writers
        PROVE  InPlace(frame[u])'
    <3>1. PICK f : f = frame'[u]
      OBVIOUS
    <3>2. InPlace(f)
      BY <1>1, <3>1 DEF WalkInv, Threads
    <3>3. link(f.prev, f.level)' = link(f.prev, f.level)
          /\ next(f.node, f.level)' = next(f.node, f.level)
      BY DEF link, next
    <3>4. QED
      BY <1>2, <3>1, <3>2, <3>3 DEF InPlace
  <2>2. QED
    BY <2>1
<1>9. QED
  BY <1>5, <1>7, <1>8 DEF WalkInv

\* Where an iteration goes no key is skipped.
LEMMA IterationGoesOn ==
  ASSUME WalkInv, SharedInv', Watching, NEW t \in Threads, NEW f \in FrameType, CallOf(t, f),
         Safe(f), WalkStep(t, f)
  PROVE  WalkInv'
<1>1. mem' = mem /\ allocated' = allocated /\ SharedInv
  BY DEF WalkStep, WalkBegins, WalkEnds, WalkVisits, WalkSteps, Reads, listVars, WalkInv
<1>2. f.at \in {"begin", "visit", "next"}
  BY DEF WalkStep, WalkBegins, WalkEnds, WalkVisits, WalkSteps
<1>3. f.op \in Walks
  <2>1. f.op \in {"none", "get", "set", "delete", "clear"} \cup Walks
    BY DEF FrameType
  <2>2. Shape(t, f)
    BY <1>1, FrameFacts
  <2>3. QED
    BY <1>2, <2>1, <2>2 DEF Shape, Idle
<1>4. t \in Readers /\ t \notin Writers /\ ReaderOK(f)
  BY <1>1, <1>3, FrameFacts, SharedAssumption DEF Walks, ReaderOps, Threads
<1>5. ListOK /\ frame[t] = f /\ f # Idle
  <2>1. Idle.op = "none"
    BY DEF Idle
  <2>2. QED
    BY <1>1, <1>3, <2>1, NoClear DEF Walks, CallOf
<1>6. ASSUME NEW g, frame' = [frame EXCEPT ![t] = g], g.op = f.op,
             f.op = "iterate" =>
               SeenIn(f) \cup StillAhead(f) \subseteq SeenIn(g) \cup StillAhead(g)
      PROVE  WalkInv'
  BY <1>1, <1>4, <1>5, <1>6, QuietKeeps
<1>7. Target(next(dummyHead, 0), 0) /\ Reached(dummyHead, 0)
  BY <1>5, Addresses DEF ListOK, HeadOK, Reached
<1>8. ASSUME NEW a, Reached(a, 0)
      PROVE  KeysBehind(a) = KeysFrom(next(a, 0))
  <2>1. CASE next(a, 0) = dummyTail /\ ChainFrom[a] = {}
    BY <2>1 DEF KeysBehind, KeysFrom
  <2>2. CASE next(a, 0) \in Nodes /\ ChainFrom[a] = {next(a, 0)} \cup ChainFrom[next(a, 0)]
    BY <2>2, Addresses DEF KeysBehind, KeysFrom
  <2>3. QED
    BY <1>1, <1>5, <1>8, <2>1, <2>2, NextPlace
<1>9. CASE WalkBegins(t, f)
  <2>1. PICK g : /\ g = [f EXCEPT !.node = next(dummyHead, 0), !.at = "visit"]
                 /\ frame' = [frame EXCEPT ![t] = g]
    BY <1>9 DEF WalkBegins, Reads, Go
  <2>2. g.op = f.op /\ g.at = "visit" /\ g.seen = f.seen /\ g.node = next(dummyHead, 0)
    BY <2>1 DEF FrameType
  <2>3. StillAhead(f) = KeysBehind(dummyHead) /\ StillAhead(g) = KeysFrom(next(dummyHead, 0))
    BY <1>9, <2>2 DEF WalkBegins, StillAhead
  <2>4. QED
    BY <1>6, <1>7, <1>8, <2>1, <2>2, <2>3 DEF SeenIn
<1>10. CASE WalkEnds(t, f)
  <2>1. PICK g : g = [f EXCEPT !.at = "return"] /\ frame' = [frame EXCEPT ![t] = g]
    BY <1>10 DEF WalkEnds, Reads, Go
  <2>2. g.op = f.op /\ g.at = "return" /\ g.seen = f.seen
    BY <2>1 DEF FrameType
  <2>3. f.op = "iterate" => f.at = "visit" /\ f.node = dummyTail
    BY <1>10 DEF WalkEnds, WalkOver, IterEnds
  <2>4. f.op = "iterate" => StillAhead(f) = {}
    BY <2>3 DEF StillAhead, KeysFrom
  <2>5. QED
    BY <1>6, <2>1, <2>2, <2>4 DEF SeenIn
<1>11. CASE WalkVisits(t, f)
  <2>1. f.at = "visit" /\ ~WalkOver(f)
    BY <1>11 DEF WalkVisits
  <2>2. PICK seen : seen = IF f.op = "iterate" THEN Append(f.seen, keyOf(f.node)) ELSE f.seen
    OBVIOUS
  <2>3. PICK g : g = [f EXCEPT !.seen = seen, !.at = "next"] /\ frame' = [frame EXCEPT ![t] = g]
    BY <1>11, <2>2 DEF WalkVisits, Reads, Go
  <2>4. g.op = f.op /\ g.at = "next" /\ g.seen = seen /\ g.node = f.node
    BY <2>3 DEF FrameType
  <2>5. ASSUME f.op = "iterate"
        PROVE  SeenIn(f) \cup StillAhead(f) \subseteq SeenIn(g) \cup StillAhead(g)
    <3>1. f.node # dummyTail /\ Target(f.node, 0)
      BY <1>4, <2>1, <2>5 DEF ReaderOK, WalkOver, IterEnds
    <3>2. PICK k \in Keys : k = mem[f.node].key /\ k = keyOf(f.node)
      BY <1>1, <1>5, <3>1, LiveHasKey DEF keyOf, Target
    <3>3. f.seen \in Seq(Keys \cup {NULL}) /\ seen = Append(f.seen, k)
      BY <2>2, <2>5, <3>2 DEF FrameType
    <3>4. /\ DOMAIN seen = 1..(Len(f.seen) + 1) /\ DOMAIN f.seen = 1..Len(f.seen)
          /\ Len(f.seen) \in Nat /\ seen[Len(f.seen) + 1] = k
          /\ \A i \in 1..Len(f.seen) : seen[i] = f.seen[i]
      BY <3>3
    <3>5. SeenIn(f) \cup {k} \subseteq SeenIn(g)
      <4>1. k \in SeenIn(g)
        <5>1. Len(f.seen) + 1 \in DOMAIN seen
          BY <3>4
        <5>2. QED
          BY <2>4, <3>4, <5>1 DEF SeenIn
      <4>2. ASSUME NEW i \in DOMAIN f.seen
            PROVE  f.seen[i] \in SeenIn(g)
        <5>1. i \in DOMAIN seen /\ seen[i] = f.seen[i]
          BY <3>4
        <5>2. QED
          BY <2>4, <5>1 DEF SeenIn
      <4>3. QED
        BY <4>1, <4>2 DEF SeenIn
    <3>6. StillAhead(f) = {k} \cup KeysBehind(f.node) /\ StillAhead(g) = KeysBehind(f.node)
      BY <2>1, <2>4, <3>1, <3>2 DEF StillAhead, KeysFrom
    <3>7. QED
      BY <3>5, <3>6
  <2>6. QED
    BY <1>6, <2>3, <2>4, <2>5
<1>12. CASE WalkSteps(t, f)
  <2>1. f.at = "next"
    BY <1>12 DEF WalkSteps
  <2>2. PICK q : q = link(f.node, 0)
    OBVIOUS
  <2>3. PICK g : g = [f EXCEPT !.node = q, !.at = "visit"] /\ frame' = [frame EXCEPT ![t] = g]
    BY <1>12, <2>2 DEF WalkSteps, Reads, Go, Incremented
  <2>4. g.op = f.op /\ g.at = "visit" /\ g.seen = f.seen /\ g.node = q
    BY <2>3 DEF FrameType
  <2>5. ASSUME f.op = "iterate"
        PROVE  SeenIn(f) \cup StillAhead(f) \subseteq SeenIn(g) \cup StillAhead(g)
    <3>1. f.node # dummyTail /\ Target(f.node, 0)
      BY <1>4, <2>1, <2>5 DEF ReaderOK
    <3>2. Reached(f.node, 0) /\ f.node \in Nodes
      BY <1>1, <1>5, <3>1, LiveHasKey DEF Target, Reached
    <3>3. q = next(f.node, 0)
      BY <2>2, <3>2, LinkIsNext
    <3>4. StillAhead(f) = KeysBehind(f.node) /\ StillAhead(g) = KeysFrom(q)
      BY <2>1, <2>4 DEF StillAhead
    <3>5. QED
      BY <1>8, <2>4, <3>2, <3>3, <3>4 DEF SeenIn
  <2>6. QED
    BY <1>6, <2>3, <2>4, <2>5
<1>13. QED
  BY <1>9, <1>10, <1>11, <1>12 DEF WalkStep

\* A search, a Get, a call that ends or fails, and what Set, Delete and Clear read.
LEMMA ReadGoesOn ==
  ASSUME WalkInv, SharedInv', Watching, NEW t \in Threads, NEW f \in FrameType, CallOf(t, f),
         \/ Forward(t, f) \/ SearchStops(t, f) \/ GetEnds(t, f) \/ ReaderReturns(t, f)
         \/ ClimbStops(t, f) \/ SetCounts(t, f)
         \/ DeleteMisses(t, f) \/ DeleteHits(t, f) \/ DeleteTests(t, f) \/ UnlinkStops(t, f)
         \/ DeleteCounts(t, f) \/ ClearPops(t, f) \/ ClearFrees(t, f)
         \/ SetGetsNULL(t, f) \/ Fault(t, f)
  PROVE  WalkInv'
<1>1. SharedInv /\ frame[t] = f /\ Shape(t, f)
  BY FrameFacts DEF WalkInv, CallOf
<1>2. mem' = mem /\ allocated' \subseteq allocated
  BY DEF Forward, SearchStops, GetEnds, ReaderReturns, ClimbStops, SetCounts, DeleteMisses,
         DeleteHits, DeleteTests, UnlinkStops, DeleteCounts, ClearPops, ClearFrees, SetGetsNULL,
         Fault, Reads, Fails, listVars, heapVars, NotDeallocated, Deallocated
<1>3. ASSUME NEW g, frame' = [frame EXCEPT ![t] = g], InPlace(g), g.op # "iterate"
      PROVE  WalkInv'
  BY <1>1, <1>2, <1>3, QuietKeeps
<1>4. Idle.op = "none" /\ Idle.at = "idle" /\ InPlace(Idle)
  BY DEF Idle, InPlace
<1>5. CASE SetGetsNULL(t, f) \/ Fault(t, f) \/ (ClimbStops(t, f) /\ Equal(f))
  <2>1. frame' = frame
    BY <1>5 DEF SetGetsNULL, Fault, ClimbStops
  <2>2. frame' = [frame EXCEPT ![t] = f]
    BY <1>1, <2>1, TypeOfFrames DEF SharedInv
  <2>3. t \in Writers => InPlace(f)
    BY <1>1 DEF WalkInv
  <2>4. f.op = "iterate" => f # Idle
    BY <1>4
  <2>5. QED
    BY <1>1, <1>2, <2>2, <2>3, <2>4, QuietKeeps
<1>6. CASE ReaderReturns(t, f) \/ SetCounts(t, f) \/ DeleteMisses(t, f) \/ DeleteCounts(t, f)
  <2>1. frame' = [frame EXCEPT ![t] = Idle]
    BY <1>6 DEF ReaderReturns, SetCounts, DeleteMisses, DeleteCounts, Reads, WriterReturns, Go
  <2>2. QED
    BY <1>3, <1>4, <2>1
<1>7. ASSUME NEW g \in FrameType, frame' = [frame EXCEPT ![t] = g],
             g.op = f.op, g.op # "iterate", g.at \notin {"walk", "cut", "publish"}
      PROVE  WalkInv'
  BY <1>3, <1>7 DEF InPlace
<1>8. CASE Forward(t, f)
  <2>1. /\ f.at = "walk" /\ Ahead(f) \in Nodes
        /\ frame' = [frame EXCEPT ![t] = [f EXCEPT !.prev = Ahead(f)]]
    BY <1>8 DEF Forward, Less, Reads, Go
  <2>2. PICK g : g = [f EXCEPT !.prev = Ahead(f)]
    OBVIOUS
  <2>3. /\ g.op = f.op /\ g.doing = f.doing /\ g.at = f.at /\ g.level = f.level
        /\ g.prev = Ahead(f)
    BY <2>2 DEF FrameType
  <2>4. f.op \in {"get", "set", "delete"}
    BY <1>1, <2>1, AtSearch
  <2>5. InPlace(g)
    <3>1. SUFFICES ASSUME f.op = "delete", f.doing = "unlink", f.level = 0
                   PROVE  Ahead(f) \in ChainFrom[dummyHead]
      BY <2>1, <2>3 DEF InPlace
    <3>2. t \in Writers /\ ListOK /\ WriterOK(f) /\ InPlace(f)
      BY <1>1, <3>1, WriterFacts, NoClear DEF WriterOps, WalkInv
    <3>3. f.prev = dummyHead \/ f.prev \in ChainFrom[dummyHead]
      BY <2>1, <3>1, <3>2 DEF InPlace
    <3>4. Reached(f.prev, 0) /\ Reached(dummyHead, 0) /\ Bounded
      BY <2>1, <3>1, <3>2 DEF WriterOK, WalkInv, Reached
    <3>5. f.prev \in Places /\ Ahead(f) = next(f.prev, 0)
      BY <1>1, <3>1, <3>2, <3>4, NextPlace, LinkIsNext DEF Ahead, Places
    <3>6. Ahead(f) \in ChainFrom[f.prev]
      BY <2>1, <3>5, ChainStep
    <3>7. QED
      BY <1>1, <3>2, <3>3, <3>4, <3>6, ChainAscends
  <2>6. QED
    BY <1>3, <2>1, <2>2, <2>3, <2>4, <2>5
<1>9. CASE SearchStops(t, f)
  <2>1. f.at = "walk" /\ f.doing = "search"
    BY <1>9 DEF SearchStops, Stops
  <2>2. f.op \in {"get", "set", "delete"}
    BY <1>1, <2>1, AtSearch
  <2>3. PICK g : /\ frame' = [frame EXCEPT ![t] = g]
                 /\ g = IF Equal(f) THEN [f EXCEPT !.node = Ahead(f), !.at = "found"]
                        ELSE IF Lowest(f) THEN [f EXCEPT !.at = "missed"]
                        ELSE [f EXCEPT !.level = @ - 1]
    BY <1>9 DEF SearchStops, Reads, Go
  <2>4. g.op = f.op /\ g.doing = "search" /\ g.at \in {"walk", "found", "missed"}
    BY <2>1, <2>3 DEF FrameType
  <2>5. QED
    BY <1>3, <2>2, <2>3, <2>4 DEF InPlace
<1>10. CASE GetEnds(t, f)
  <2>1. PICK v : frame' = [frame EXCEPT ![t] = [f EXCEPT !.at = "return", !.value = v]]
    BY <1>10 DEF GetEnds, Reads, Go
  <2>2. PICK g : g = [f EXCEPT !.at = "return", !.value = v]
    OBVIOUS
  <2>3. g.op = f.op /\ g.at = "return" /\ f.op = "get"
    BY <1>10, <2>2 DEF FrameType, GetEnds
  <2>4. QED
    BY <1>3, <2>1, <2>2, <2>3 DEF InPlace
<1>11. CASE ClimbStops(t, f) /\ ~Equal(f)
  <2>1. f.at = "walk" /\ f.doing = "climb"
    BY <1>11 DEF ClimbStops, Stops
  <2>2. f.op = "set"
    BY <1>1, <2>1, AtSearch DEF Shape
  <2>3. PICK g : g = [f EXCEPT !.at = "copy"] /\ frame' = [frame EXCEPT ![t] = g]
    BY <1>11 DEF ClimbStops, Reads, Go
  <2>4. g.op = f.op /\ g.at = "copy"
    BY <2>3 DEF FrameType
  <2>5. QED
    BY <1>3, <2>2, <2>3, <2>4 DEF InPlace
<1>12. CASE DeleteHits(t, f)
  <2>1. PICK g : /\ g = [f EXCEPT !.level = LIST_HEIGHT - 1, !.doing = "unlink", !.at = "test"]
                 /\ frame' = [frame EXCEPT ![t] = g]
    BY <1>12 DEF DeleteHits, Reads, Go
  <2>2. g.op = f.op /\ g.at = "test" /\ f.op = "delete"
    BY <1>1, <1>12, <2>1 DEF FrameType, DeleteHits, At
  <2>3. QED
    BY <1>3, <2>1, <2>2 DEF InPlace
<1>13. ASSUME NEW g, g = LevelDone(f), frame' = [frame EXCEPT ![t] = g], f.op = "delete"
       PROVE  WalkInv'
  <2>1. g.op = f.op /\ g.at \in {"test", "uncount"}
    BY <1>13, LevelDoneFacts
  <2>2. QED
    BY <1>3, <1>13, <2>1 DEF InPlace
<1>14. CASE DeleteTests(t, f)
  <2>1. f.op = "delete"
    BY <1>1, <1>14 DEF DeleteTests, At
  <2>2. CASE link(f.node, f.level) = dummyTail
    BY <1>13, <1>14, <2>1, <2>2 DEF DeleteTests, Reads, Go
  <2>3. CASE link(f.node, f.level) # dummyTail
    <3>1. PICK g : /\ g = [f EXCEPT !.prev = dummyHead, !.at = "walk"]
                   /\ frame' = [frame EXCEPT ![t] = g]
      BY <1>14, <2>3 DEF DeleteTests, Reads, Go
    <3>2. g.op = f.op /\ g.at = "walk" /\ g.prev = dummyHead
      BY <3>1 DEF FrameType
    <3>3. QED
      BY <1>3, <2>1, <3>1, <3>2 DEF InPlace
  <2>4. QED
    BY <2>2, <2>3
<1>15. CASE UnlinkStops(t, f)
  <2>1. f.at = "walk" /\ f.doing = "unlink" /\ f.op = "delete" /\ t \in Writers
    <3>1. f.at = "walk" /\ f.doing = "unlink"
      BY <1>15 DEF UnlinkStops, Stops
    <3>2. f.op = "delete"
      BY <1>1, <3>1, AtSearch DEF Shape
    <3>3. QED
      BY <1>1, <3>1, <3>2, WriterFacts DEF WriterOps
  <2>2. CASE Ahead(f) # f.node
    BY <1>13, <1>15, <2>1, <2>2 DEF UnlinkStops, Reads, Go
  <2>3. CASE Ahead(f) = f.node
    <3>1. PICK g : g = [f EXCEPT !.at = "cut"] /\ frame' = [frame EXCEPT ![t] = g]
      BY <1>15, <2>3 DEF UnlinkStops, Reads, Go
    <3>2. /\ g.op = f.op /\ g.at = "cut" /\ g.prev = f.prev /\ g.level = f.level
          /\ g.node = f.node /\ g.doing = f.doing
      BY <3>1 DEF FrameType
    <3>3. InPlace(f)
      BY <1>1, <2>1 DEF WalkInv
    <3>4. QED
      BY <1>3, <2>1, <2>3, <3>1, <3>2, <3>3 DEF InPlace, Ahead
  <2>4. QED
    BY <2>2, <2>3
<1>16. CASE ClearPops(t, f) \/ ClearFrees(t, f)
  <2>1. f.op = "clear"
    BY <1>1, <1>16 DEF ClearPops, ClearFrees, At
  <2>2. PICK g : /\ frame' = [frame EXCEPT ![t] = g]
                 /\ \/ \E n, a : a \in {"reset", "unhead"} /\ g = [f EXCEPT !.node = n, !.at = a]
                    \/ g = [f EXCEPT !.at = "pop"]
    BY <1>16 DEF ClearPops, ClearFrees, Reads, Go
  <2>3. g.op = f.op /\ g.at \in {"reset", "unhead", "pop"}
    BY <2>2 DEF FrameType
  <2>4. QED
    BY <1>3, <2>1, <2>2, <2>3 DEF InPlace
<1>17. QED
  BY <1>5, <1>6, <1>8, <1>9, <1>10, <1>11, <1>12, <1>14, <1>15, <1>16

-----------------------------------------------------------------------------
(* Iterations, when a writer stores.                                         *)

\* What was behind a place still is, or its key is not on level 0 any more.
ChainsGoOn ==
  \A a, y : Reached(a, 0) /\ y \in ChainFrom[a] =>
    y \in ChainFrom'[a] \/ mem[y].key \notin KeysOnLevel0'

\* So an iteration has still ahead of it what it had, of the keys that stay.
LEMMA WatchKept ==
  ASSUME WalkInv, ListOK, Watching, ChainsGoOn, \A y : Live(y) => mem'[y].key = mem[y].key,
         NEW u \in Readers, frame'[u] = frame[u]
  PROVE  WalkOK(u)'
<1> SUFFICES ASSUME frame[u].op = "iterate"
             PROVE  watch'[u] \subseteq (SeenIn(frame[u]) \cup StillAhead(frame[u]))'
  BY DEF WalkOK
<1>1. PICK f : f = frame[u] /\ f = frame'[u] /\ f.op = "iterate"
  OBVIOUS
<1>2. f # Idle /\ SharedInv /\ Bounded /\ ReaderOK(f)
  BY <1>1 DEF Idle, WalkInv, SharedInv
<1>3. watch'[u] = watch[u] \cap KeysOnLevel0'
  BY <1>1, <1>2, WatchOf
<1>4. watch[u] \subseteq SeenIn(f) \cup StillAhead(f)
  BY <1>1 DEF WalkInv, WalkOK
<1>5. ASSUME NEW a, Reached(a, 0)
      PROVE  KeysBehind(a) \cap KeysOnLevel0' \subseteq KeysBehind(a)'
  <2>1. ASSUME NEW y \in ChainFrom[a], mem[y].key \in KeysOnLevel0'
        PROVE  mem[y].key \in KeysBehind(a)'
    <3>1. y \in ChainFrom'[a] /\ Live(y)
      BY <1>2, <1>5, <2>1, ChainAscends DEF ChainsGoOn
    <3>2. QED
      BY <3>1 DEF KeysBehind
  <2>2. QED
    BY <2>1 DEF KeysBehind
<1>6. StillAhead(f) \cap KeysOnLevel0' \subseteq StillAhead(f)'
  <2>1. CASE f.at = "begin"
    <3>1. Reached(dummyHead, 0)
      BY DEF Reached
    <3>2. QED
      BY <1>5, <2>1, <3>1 DEF StillAhead
  <2>2. CASE f.at = "visit" /\ f.node = dummyTail
    BY <2>2 DEF StillAhead, KeysFrom
  <2>3. CASE f.at = "visit" /\ f.node # dummyTail
    <3>1. Reached(f.node, 0) /\ mem'[f.node].key = mem[f.node].key
      BY <1>1, <1>2, <2>3 DEF ReaderOK, Target, Reached
    <3>2. /\ StillAhead(f) = {mem[f.node].key} \cup KeysBehind(f.node)
          /\ StillAhead(f)' = {mem[f.node].key} \cup KeysBehind(f.node)'
      BY <2>3, <3>1 DEF StillAhead, KeysFrom
    <3>3. QED
      BY <1>5, <3>1, <3>2
  <2>4. CASE f.at = "next"
    <3>1. Reached(f.node, 0)
      BY <1>1, <1>2, <2>4 DEF ReaderOK, Target, Reached
    <3>2. QED
      BY <1>5, <2>4, <3>1 DEF StillAhead
  <2>5. CASE f.at \notin {"begin", "visit", "next"}
    BY <2>5 DEF StillAhead
  <2>6. QED
    BY <2>1, <2>2, <2>3, <2>4, <2>5
<1>7. (SeenIn(frame[u]) \cup StillAhead(frame[u]))' = SeenIn(f) \cup StillAhead(f)'
  BY <1>1 DEF SeenIn, StillAhead, KeysFrom, KeysBehind
<1>8. QED
  BY <1>3, <1>4, <1>6, <1>7

LEMMA StoreGoesOn ==
  ASSUME WalkInv, SharedInv', Watching, NEW t \in Writers, frame[t].op \in {"set", "delete"},
         NEW g, frame' = [frame EXCEPT ![t] = g], g = Idle \/ g.op = frame[t].op,
         \A y : Live(y) => mem'[y].key = mem[y].key, Bounded', ChainsGoOn, InPlace(g)'
  PROVE  WalkInv'
<1>1. SharedInv /\ ListOK /\ t \notin Readers
  BY NoClear, SharedAssumption DEF WalkInv, Threads
<1>2. \A u \in Threads : frame'[u] = IF u = t THEN g ELSE frame[u]
  BY <1>1, TypeOfFrames DEF SharedInv
<1>3. \A u \in Readers : WalkOK(u)'
  BY <1>1, <1>2, WatchKept DEF Threads
<1>4. ASSUME NEW u \in Writers
      PROVE  InPlace(frame[u])'
  <2>1. CASE u = t
    BY <1>2, <2>1 DEF InPlace, Threads
  <2>2. CASE u # t
    <3>1. frame'[u] = Idle
      BY <1>1, <1>2, <2>2 DEF SharedInv, Exclusion, Threads
    <3>2. QED
      BY <3>1 DEF InPlace, Idle
  <2>3. QED
    BY <2>1, <2>2
<1>5. QED
  BY <1>3, <1>4 DEF WalkInv

\* The links of level 0 grow or stay.
LEMMA ChainsStay ==
  ASSUME WalkInv, ListOK,
         \A a : Reached(a, 0) =>
           \/ next(a, 0)' = next(a, 0)
           \/ \E n \in Nodes : next(a, 0)' = n /\ next(n, 0)' = next(a, 0)
  PROVE  ChainsGoOn
<1>1. SharedInv /\ Bounded
  BY DEF WalkInv
<1>2. ASSUME NEW a, NEW y, Reached(a, 0), y \in ChainFrom[a]
      PROVE  y \in ChainFrom'[a]
  <2>1. y # NULL
    BY <1>1, <1>2, ChainAscends, Addresses
  <2>2. QED
    BY <1>1, <1>2, <2>1, ChainsGrow
<1>3. QED
  BY <1>2 DEF ChainsGoOn

LEMMA UpdateGoesOn ==
  ASSUME WalkInv, SharedInv', Watching, NEW t \in Threads, NEW f \in FrameType, CallOf(t, f),
         SetUpdates(t, f)
  PROVE  WalkInv'
<1>1. f.op = "set" /\ f.at = "found" /\ frame[t] = f /\ SharedInv
  BY DEF SetUpdates, At, CallOf, WalkInv
<1>2. t \in Writers /\ WriterOK(f) /\ ListOK
  BY <1>1, WriterFacts, NoClear DEF WriterOps
<1>3. /\ mem' = [mem EXCEPT ![f.node].value = f.value, ![f.node].state = "NORMAL"]
      /\ allocated' = allocated /\ frame' = [frame EXCEPT ![t] = Idle]
  BY DEF SetUpdates, WriterReturns, Go
<1>4. Live(f.node) /\ MemType /\ f.node \in Nodes
  BY <1>1, <1>2 DEF WriterOK, SharedInv, Live
<1>5. \A r \in Nodes \cup {dummyHead} :
        mem'[r].key = mem[r].key /\ next(r, 0)' = next(r, 0)
  BY <1>3, <1>4 DEF MemType, next
<1>6. \A r : (Live(r)' => Live(r)) /\ (Live(r) => r \in Nodes)
  <2>1. \A r \in Nodes : r # f.node => mem'[r] = mem[r]
    BY <1>3, <1>4 DEF MemType
  <2>2. QED
    BY <1>1, <1>3, <1>4, <2>1 DEF Live, SharedInv
<1>7. Bounded'
  BY <1>5, <1>6 DEF WalkInv, Bounded
<1>8. ChainsGoOn
  BY <1>2, <1>5, <1>6, ChainsStay DEF Reached
<1>9. InPlace(Idle)'
  BY DEF InPlace, Idle
<1>10. QED
  BY <1>1, <1>2, <1>3, <1>5, <1>6, <1>7, <1>8, <1>9, StoreGoesOn

LEMMA AllocationGoesOn ==
  ASSUME WalkInv, SharedInv', Watching, NEW t \in Threads, NEW f \in FrameType, CallOf(t, f),
         SetAllocates(t, f)
  PROVE  WalkInv'
<1>1. f.op = "set" /\ f.at = "missed" /\ frame[t] = f /\ SharedInv
  BY DEF SetAllocates, At, CallOf, WalkInv
<1>2. t \in Writers /\ Shape(t, f) /\ ListOK /\ f.key \in Nat
  BY <1>1, WriterFacts, NoClear, Addresses DEF WriterOps, Shape
<1>3. PICK n \in Nodes \ allocated, h \in Levels :
        /\ mem' = [mem EXCEPT ![n] = [EmptyNode EXCEPT !.key = f.key, !.value = f.value,
                                                       !.state = "NORMAL", !.levelHeight = h]]
        /\ allocated' = allocated \cup {n}
        /\ frame' = [frame EXCEPT ![t] = [f EXCEPT !.node = n, !.level = 0, !.at = "copy"]]
  <2>1. PICK n : n = CHOOSE m \in Nodes \ allocated : TRUE
    OBVIOUS
  <2>2. n \in Nodes \ allocated
    BY <1>1, <2>1 DEF SetAllocates, SharedInv
  <2>3. QED
    BY <2>1, <2>2 DEF SetAllocates, Go, RandomHeights
<1>4. PICK g : g = [f EXCEPT !.node = n, !.level = 0, !.at = "copy"]
  OBVIOUS
<1>5. g.op = f.op /\ g.at = "copy"
  BY <1>4 DEF FrameType
<1>6. /\ \A r \in Nodes \cup {dummyHead} : r # n => mem'[r] = mem[r]
      /\ mem'[n].key = f.key
  <2>1. MemType
    BY <1>1 DEF SharedInv
  <2>2. QED
    BY <1>3, <2>1 DEF MemType, EmptyNode
<1>7. /\ \A r : Live(r) => r \in Nodes /\ r # n /\ Live(r)'
      /\ \A r : Live(r)' => Live(r) \/ r = n
  BY <1>1, <1>3, <1>6 DEF Live, SharedInv
<1>8. Bounded'
  <2>1. PICK b \in Nat : \A r : Live(r) => mem[r].key <= b
    BY DEF WalkInv, Bounded
  <2>2. PICK c \in Nat : c = b + f.key
    BY <1>2
  <2>3. ASSUME NEW r, Live(r)'
        PROVE  mem'[r].key <= c
    <3>1. CASE r = n
      BY <1>2, <1>6, <2>2, <3>1
    <3>2. CASE r # n
      <4>1. Live(r) /\ mem'[r].key = mem[r].key /\ mem[r].key <= b /\ mem[r].key \in Nat
        BY <1>1, <1>2, <1>6, <1>7, <2>1, <2>3, <3>2, LiveHasKey
      <4>2. QED
        BY <1>2, <2>2, <4>1
    <3>3. QED
      BY <3>1, <3>2
  <2>4. QED
    BY <2>3 DEF Bounded
<1>9. ChainsGoOn
  <2>1. \A a : Reached(a, 0) => next(a, 0)' = next(a, 0)
    BY <1>3, <1>6, <1>7, Addresses DEF Reached, next
  <2>2. QED
    BY <1>2, <2>1, ChainsStay
<1>10. InPlace(g)'
  BY <1>1, <1>5 DEF InPlace
<1>11. \A y : Live(y) => mem'[y].key = mem[y].key
  BY <1>6, <1>7
<1>12. frame' = [frame EXCEPT ![t] = g]
  BY <1>3, <1>4
<1>13. QED
  BY <1>1, <1>2, <1>5, <1>8, <1>9, <1>10, <1>11, <1>12, StoreGoesOn

\* One link of a place p is stored: a call that does so goes on.
LEMMA LinkStored ==
  ASSUME WalkInv, NEW p \in Nodes \cup {dummyHead}, NEW l \in Levels,
         NEW q \in Nodes \cup {dummyTail, NULL}, StoresLink(p, l, q), allocated' = allocated
  PROVE  /\ Bounded' /\ \A y : Live(y) => mem'[y].key = mem[y].key
         /\ \A r \in Nodes \cup {dummyHead}, m \in Levels :
              next(r, m)' = IF r = p /\ m = l THEN q ELSE next(r, m)
<1>1. SharedInv
  BY DEF WalkInv
<1>2. /\ MemType'
      /\ \A r \in Nodes \cup {dummyHead} :
           /\ mem'[r].key = mem[r].key /\ mem'[r].state = mem[r].state
           /\ mem'[r].levelHeight = mem[r].levelHeight
           /\ \A m \in Levels : next(r, m)' = IF r = p /\ m = l THEN q ELSE next(r, m)
  BY <1>1, OneLink
<1>3. \A y : (Live(y) => y \in Nodes) /\ (Live(y)' <=> Live(y))
  BY <1>1, <1>2 DEF Live, SharedInv
<1>4. \A y : Live(y) => mem'[y].key = mem[y].key
  BY <1>2, <1>3
<1>5. PICK b \in Nat : \A y : Live(y) => mem[y].key <= b
  BY DEF WalkInv, Bounded
<1>6. Bounded'
  BY <1>3, <1>4, <1>5 DEF Bounded
<1>7. QED
  BY <1>2, <1>4, <1>6

\* The node that a Set has not published on a level is not in the list there.
LEMMA CopyGoesOn ==
  ASSUME WalkInv, SharedInv', Watching, NEW t \in Threads, NEW f \in FrameType, CallOf(t, f),
         SetCopies(t, f)
  PROVE  WalkInv'
<1>1. f.op = "set" /\ f.at = "copy" /\ frame[t] = f /\ SharedInv
  BY DEF SetCopies, At, CallOf, WalkInv
<1>2. t \in Writers /\ WriterOK(f) /\ ListOK /\ Building(f)
  BY <1>1, WriterFacts, NoClear DEF WriterOps, Building
<1>3. PICK n, l, p, q : n = f.node /\ l = f.level /\ p = f.prev /\ q = link(f.prev, f.level)
  OBVIOUS
<1>4. PICK g : g = [f EXCEPT !.at = "publish"] /\ frame' = [frame EXCEPT ![t] = g]
  BY DEF SetCopies, Stores, Go
<1>5. g.op = f.op /\ g.at = "publish" /\ g.level = l /\ g.node = n /\ g.prev = p
  BY <1>3, <1>4 DEF FrameType
<1>6. /\ Live(n) /\ n \in Nodes /\ l \in Levels /\ l \in Nat /\ 0 \in Levels
      /\ p \in Nodes \cup {dummyHead} /\ p # n /\ Reached(p, l)
  BY <1>1, <1>2, <1>3, Addresses DEF WriterOK, Live, SharedInv, FrameType
<1>7. Target(q, l) /\ q \in Nodes \cup {dummyTail, NULL}
  BY <1>1, <1>2, <1>3, <1>6, AheadOfReached DEF Target, Live, SharedInv
<1>8. StoresLink(n, l, q) /\ allocated' = allocated
  BY <1>3 DEF SetCopies, Stores, StoresLink
<1>9. /\ Bounded' /\ \A y : Live(y) => mem'[y].key = mem[y].key
      /\ \A r \in Nodes \cup {dummyHead}, m \in Levels :
           next(r, m)' = IF r = n /\ m = l THEN q ELSE next(r, m)
  BY <1>6, <1>7, <1>8, LinkStored
<1>10. ChainsGoOn
  <2>1. ASSUME NEW a, Reached(a, 0)
        PROVE  next(a, 0)' = next(a, 0)
    <3>1. a \in Nodes \cup {dummyHead}
      BY <1>1, <2>1 DEF Reached, Live, SharedInv
    <3>2. l = 0 => a # n
      <4>1. SUFFICES ASSUME l = 0
                     PROVE  ~Published(n, 0)
        BY <1>6, <2>1, Addresses DEF Reached
      <4>2. Published(n, 0) => 0 < f.level
        BY <1>1, <1>2, <1>3, <1>6, Built
      <4>3. QED
        BY <1>3, <4>1, <4>2
    <3>3. QED
      BY <1>6, <1>9, <3>1, <3>2
  <2>2. QED
    BY <1>2, <2>1, ChainsStay
<1>11. InPlace(g)'
  <2>1. next(n, l)' = q /\ link(p, l)' = q
    <3>1. link(p, l) = next(p, l) /\ p # dummyTail
      BY <1>6, LinkIsNext, Addresses
    <3>2. QED
      BY <1>3, <1>6, <1>9, <3>1 DEF link
  <2>2. next(g.node, g.level)' = link(g.prev, g.level)'
    BY <1>5, <2>1 DEF next, link
  <2>3. QED
    BY <1>1, <1>5, <2>2 DEF InPlace
<1>12. QED
  BY <1>1, <1>2, <1>4, <1>5, <1>9, <1>10, <1>11, StoreGoesOn

LEMMA PublishGoesOn ==
  ASSUME WalkInv, SharedInv', Watching, NEW t \in Threads, NEW f \in FrameType, CallOf(t, f),
         SetPublishes(t, f)
  PROVE  WalkInv'
<1>1. f.op = "set" /\ f.at = "publish" /\ frame[t] = f /\ SharedInv
  BY DEF SetPublishes, At, CallOf, WalkInv
<1>2. t \in Writers /\ WriterOK(f) /\ InPlace(f) /\ ListOK /\ Building(f)
  BY <1>1, WriterFacts, NoClear DEF WriterOps, Building, WalkInv
<1>3. PICK n, l, p : n = f.node /\ l = f.level /\ p = f.prev
  OBVIOUS
<1>4. PICK g : g = Beyond(f) /\ frame' = [frame EXCEPT ![t] = g]
  BY DEF SetPublishes, Stores, Go, Beyond
<1>5. /\ Live(n) /\ n \in Nodes /\ l \in Levels /\ l \in Nat /\ 0 \in Levels
      /\ p \in Nodes \cup {dummyHead} /\ p # n /\ Reached(p, l)
  BY <1>1, <1>2, <1>3, Addresses DEF WriterOK, Live, SharedInv, FrameType
<1>6. g.op = f.op /\ g.at \in {"count", "walk", "copy"}
  BY <1>1, <1>2, <1>3, <1>4, <1>5, AfterPublish
<1>7. StoresLink(p, l, n) /\ allocated' = allocated
  BY <1>3 DEF SetPublishes, Stores, StoresLink
<1>8. /\ Bounded' /\ \A y : Live(y) => mem'[y].key = mem[y].key
      /\ \A r \in Nodes \cup {dummyHead}, m \in Levels :
           next(r, m)' = IF r = p /\ m = l THEN n ELSE next(r, m)
  BY <1>5, <1>7, LinkStored
<1>9. next(n, l) = next(p, l)
  BY <1>1, <1>2, <1>3, <1>5, LinkIsNext DEF InPlace
<1>10. ChainsGoOn
  <2>1. ASSUME NEW a, Reached(a, 0)
        PROVE  \/ next(a, 0)' = next(a, 0)
               \/ \E m \in Nodes : next(a, 0)' = m /\ next(m, 0)' = next(a, 0)
    <3>1. a \in Nodes \cup {dummyHead}
      BY <1>1, <2>1 DEF Reached, Live, SharedInv
    <3>2. CASE a = p /\ l = 0
      <4>1. next(a, 0)' = n /\ next(n, 0)' = next(n, 0)
        BY <1>5, <1>8, <3>2
      <4>2. QED
        BY <1>5, <1>9, <3>2, <4>1
    <3>3. CASE ~(a = p /\ l = 0)
      BY <1>5, <1>8, <3>1, <3>3
    <3>4. QED
      BY <3>2, <3>3
  <2>2. QED
    BY <1>2, <2>1, ChainsStay
<1>11. InPlace(g)'
  BY <1>1, <1>6 DEF InPlace
<1>12. QED
  BY <1>1, <1>2, <1>4, <1>6, <1>8, <1>10, <1>11, StoreGoesOn

\* When Delete cuts a node off level 0, its key is not on level 0 any more.
LEMMA CutGoesOn ==
  ASSUME WalkInv, SharedInv', Watching, NEW t \in Threads, NEW f \in FrameType, CallOf(t, f),
         DeleteCuts(t, f)
  PROVE  WalkInv'
<1>1. f.op = "delete" /\ f.at = "cut" /\ frame[t] = f /\ SharedInv /\ Bounded
  BY DEF DeleteCuts, At, CallOf, WalkInv
<1>2. t \in Writers /\ WriterOK(f) /\ InPlace(f) /\ ListOK /\ Shape(t, f)
  BY <1>1, WriterFacts, NoClear DEF WriterOps, WalkInv
<1>3. PICK p, x, l, q : p = f.prev /\ x = f.node /\ l = f.level /\ q = link(f.node, f.level)
  OBVIOUS
<1>4. PICK g : g = LevelDone(f) /\ frame' = [frame EXCEPT ![t] = g]
  BY DEF DeleteCuts, Stores, Go
<1>5. g.op = f.op /\ g.at \in {"test", "uncount"}
  BY <1>4, LevelDoneFacts
<1>6. /\ f.doing = "unlink" /\ Live(x) /\ x \in Nodes /\ l \in Levels /\ l \in Nat /\ 0 \in Levels
      /\ p \in Nodes \cup {dummyHead} /\ Reached(p, l)
  BY <1>1, <1>2, <1>3, Addresses DEF WriterOK, Live, SharedInv, FrameType, Shape
<1>7. next(p, l) = x /\ q = next(x, l) /\ q \in Nodes \cup {dummyTail, NULL}
  <2>1. link(p, l) = x /\ link(p, l) = next(p, l)
    BY <1>1, <1>2, <1>3, <1>6, LinkIsNext DEF InPlace
  <2>2. link(x, l) = next(x, l) /\ x \in Nodes \cup {dummyHead}
    BY <1>6, LinkIsNext
  <2>3. next(x, l) \in Nodes \cup {dummyTail, NULL}
    BY <1>1, <1>6, <2>2, NodeFields DEF SharedInv
  <2>4. QED
    BY <1>3, <2>1, <2>2, <2>3
<1>8. StoresLink(p, l, q) /\ allocated' = allocated
  BY <1>3 DEF DeleteCuts, Stores, StoresLink
<1>9. /\ Bounded' /\ \A y : Live(y) => mem'[y].key = mem[y].key
      /\ \A r \in Nodes \cup {dummyHead}, m \in Levels :
           next(r, m)' = IF r = p /\ m = l THEN q ELSE next(r, m)
  <2>1. PICK p1 \in Nodes \cup {dummyHead}, l1 \in Levels, q1 \in Nodes \cup {dummyTail, NULL} :
          p1 = p /\ l1 = l /\ q1 = q
    BY <1>6, <1>7
  <2>2. StoresLink(p1, l1, q1)
    BY <1>8, <2>1
  <2>3. /\ Bounded' /\ \A y : Live(y) => mem'[y].key = mem[y].key
        /\ \A r \in Nodes \cup {dummyHead}, m \in Levels :
             next(r, m)' = IF r = p1 /\ m = l1 THEN q1 ELSE next(r, m)
    BY <1>8, <2>2, LinkStored
  <2>4. QED
    BY <2>1, <2>3
<1>10. \A a : Reached(a, 0) => a \in Nodes \cup {dummyHead}
  BY <1>1 DEF Reached, Live, SharedInv
<1>11. CASE l # 0
  <2>1. \A a : Reached(a, 0) => next(a, 0)' = next(a, 0)
    BY <1>6, <1>9, <1>10, <1>11
  <2>2. ChainsGoOn
    BY <1>2, <2>1, ChainsStay
  <2>3. QED
    BY <1>1, <1>2, <1>4, <1>5, <1>9, <2>2, StoreGoesOn DEF InPlace
<1>12. CASE l = 0
  <2>1. Reached(p, 0) /\ next(p, 0) = x /\ (p = dummyHead \/ p \in ChainFrom[dummyHead])
    BY <1>1, <1>2, <1>3, <1>6, <1>7, <1>12 DEF InPlace
  <2>2. \A a : Reached(a, 0) => next(a, 0)' = IF a = p THEN next(x, 0) ELSE next(a, 0)
    BY <1>6, <1>7, <1>9, <1>10, <1>12
  <2>3. Reached(x, 0) /\ x # p
    BY <1>1, <1>2, <1>6, <2>1, NextPlace, Addresses
  <2>4. next(x, 0)' = next(x, 0)
    BY <2>2, <2>3
  <2>5. mem[x].key \notin KeysOnLevel0'
    <3>1. ASSUME NEW y \in ChainFrom'[dummyHead]
          PROVE  mem'[y].key # mem[x].key
      <4>1. y \in ChainFrom[dummyHead] /\ mem[y].key # mem[x].key
        BY <1>1, <1>2, <1>6, <2>1, <2>2, CutOff
      <4>2. Live(y)
        BY <1>1, <1>2, <4>1, ChainAscends DEF Reached
      <4>3. QED
        BY <1>9, <4>1, <4>2
    <3>2. QED
      BY <3>1 DEF KeysOnLevel0, Chain
  <2>6. ChainsGoOn
    <3>1. ASSUME NEW a, NEW y, Reached(a, 0), y \in ChainFrom[a], y # x
          PROVE  y \in ChainFrom'[a]
      <4>1. \A b : Reached(b, 0) =>
              \/ next(b, 0)' = next(b, 0)
              \/ \E n \in Nodes : next(b, 0)' = n /\ next(n, 0)' = next(b, 0)
              \/ /\ next(b, 0) = x /\ next(b, 0)' = next(x, 0) /\ next(x, 0)' = next(x, 0)
        BY <2>1, <2>2, <2>4
      <4>2. QED
        BY <1>1, <1>2, <3>1, <4>1, ChainsGrow
    <3>2. QED
      BY <2>5, <3>1 DEF ChainsGoOn
  <2>7. QED
    BY <1>1, <1>2, <1>4, <1>5, <1>9, <2>6, StoreGoesOn DEF InPlace
<1>13. QED
  BY <1>11, <1>12

\* Clear is alone.
LEMMA ClearGoesOn ==
  ASSUME WalkInv, SharedInv', Watching, NEW t \in Threads, NEW f \in FrameType, CallOf(t, f),
         ClearUnlinks(t, f) \/ ClearZeroes(t, f) \/ ClearResets(t, f)
  PROVE  WalkInv'
<1>1. f.op = "clear" /\ frame[t] = f /\ SharedInv
  BY DEF ClearUnlinks, ClearZeroes, ClearResets, At, CallOf, WalkInv
<1>2. t \in Writers /\ t \notin Readers
  BY <1>1, WriterFacts DEF WriterOps
<1>3. PICK g : /\ frame' = [frame EXCEPT ![t] = g] /\ InPlace(g)'
  <2>1. CASE ClearUnlinks(t, f)
    <3>1. PICK g : g = [f EXCEPT !.at = "free"] /\ frame' = [frame EXCEPT ![t] = g]
      BY <2>1 DEF ClearUnlinks, Stores, Go
    <3>2. g.at = "free"
      BY <3>1 DEF FrameType
    <3>3. QED
      BY <3>1, <3>2 DEF InPlace
  <2>2. CASE ClearZeroes(t, f)
    <3>1. PICK g : g = [f EXCEPT !.at = "heads"] /\ frame' = [frame EXCEPT ![t] = g]
      BY <2>2 DEF ClearZeroes, Stores, Go
    <3>2. g.at = "heads"
      BY <3>1 DEF FrameType
    <3>3. QED
      BY <3>1, <3>2 DEF InPlace
  <2>3. CASE ClearResets(t, f)
    <3>1. frame' = [frame EXCEPT ![t] = Idle]
      BY <2>3 DEF ClearResets, WriterReturns, Go
    <3>2. InPlace(Idle)'
      BY DEF InPlace, Idle
    <3>3. QED
      BY <3>1, <3>2
  <2>4. QED
    BY <2>1, <2>2, <2>3
<1>4. \A u \in Threads : frame'[u] = IF u = t THEN g ELSE Idle
  BY <1>1, <1>2, <1>3, TypeOfFrames DEF SharedInv, Exclusion, Threads
<1>5. ASSUME NEW y, Live(y)'
      PROVE  Live(y) /\ mem'[y].key = mem[y].key
  <2>1. CASE ClearUnlinks(t, f) \/ ClearZeroes(t, f)
    <3>1. allocated' = allocated /\ allocated \subseteq Nodes /\ MemType
      BY <1>1, <2>1 DEF ClearUnlinks, ClearZeroes, Stores, SharedInv
    <3>2. \A r \in Nodes : mem'[r] = mem[r]
      <4>1. CASE ClearUnlinks(t, f)
        BY <3>1, <4>1, Addresses DEF ClearUnlinks, Stores, MemType
      <4>2. CASE ClearZeroes(t, f)
        BY <3>1, <4>2, Addresses DEF ClearZeroes, Stores, MemType
      <4>3. QED
        BY <2>1, <4>1, <4>2
    <3>3. QED
      BY <1>5, <3>1, <3>2 DEF Live
  <2>2. CASE ClearResets(t, f)
    <3>1. allocated' = allocated /\ allocated \subseteq Nodes /\ MemType
      BY <1>1, <2>2 DEF ClearResets, SharedInv
    <3>2. \A u \in Threads \ {t} : frame[u] = Idle
      BY <1>1, <1>2 DEF SharedInv, Exclusion, Threads
    <3>3. \A r \in Nodes : mem'[r] = EmptyNode
      BY <2>2, <3>1, <3>2, Addresses DEF ClearResets, MemType
    <3>4. QED
      BY <1>5, <3>1, <3>3 DEF Live, EmptyNode
  <2>3. QED
    BY <2>1, <2>2
<1>6. Bounded'
  BY <1>5 DEF WalkInv, Bounded
<1>7. \A u \in Readers : WalkOK(u)'
  BY <1>2, <1>4 DEF WalkOK, Idle, Threads
<1>8. \A u \in Writers : InPlace(frame[u])'
  <2>1. ASSUME NEW u \in Writers
        PROVE  InPlace(frame[u])'
    <3>1. CASE u = t
      BY <1>3, <1>4, <3>1 DEF InPlace, Threads
    <3>2. CASE u # t
      BY <1>4, <3>2 DEF InPlace, Threads, Idle
    <3>3. QED
      BY <3>1, <3>2
  <2>2. QED
    BY <2>1
<1>9. QED
  BY <1>6, <1>7, <1>8 DEF WalkInv

-----------------------------------------------------------------------------
(* Calls, and the theorem.                                                   *)

LEMMA CallsGoOn ==
  ASSUME WalkInv, SharedInv', Watching, NEW t \in Threads, NEW op, NEW k, NEW v, Call(t, op, k, v)
  PROVE  WalkInv'
<1>1. PICK g : /\ g = [Idle EXCEPT !.op = op, !.at = Entry(op), !.key = k, !.value = v,
                                   !.level = LIST_HEIGHT - 1]
               /\ frame' = [frame EXCEPT ![t] = g]
  BY DEF Call, Go
<1>2. frame[t] = Idle /\ mem' = mem /\ allocated' = allocated
  BY DEF Call, listVars
<1>3. g.op = op /\ g.at = Entry(op) /\ g.doing = "search"
  BY <1>1 DEF Idle
<1>4. Entry(op) \in {"pop", "begin", "walk"} /\ (op = "iterate" => Entry(op) = "begin")
  BY DEF Entry, Walks
<1>5. InPlace(g)
  BY <1>3, <1>4 DEF InPlace
<1>6. QED
  BY <1>1, <1>2, <1>3, <1>4, <1>5, QuietKeeps

LEMMA WalksBegin == SharedInit => WalkInv
<1> SUFFICES ASSUME SharedInit
             PROVE  WalkInv
  OBVIOUS
<1>1. SharedInv
  BY InitGivesInv
<1>2. allocated = {} /\ frame = [t \in Threads |-> Idle]
  BY DEF SharedInit, ListInit
<1>3. \A n : ~Live(n)
  BY <1>2 DEF Live
<1>4. Bounded
  BY <1>3 DEF Bounded
<1>5. \A t \in Threads : frame[t].op = "none" /\ InPlace(frame[t])
  BY <1>2 DEF Idle, InPlace
<1>6. QED
  BY <1>1, <1>4, <1>5 DEF WalkInv, WalkOK, Threads

LEMMA WalksGoOn ==
  ASSUME WalkInv, CallersExclude, [SharedNext]_sharedVars
  PROVE  WalkInv'
<1>1. SharedInv /\ SharedInv'
  BY NextKeepsInv DEF WalkInv
<1>2. CASE UNCHANGED sharedVars
  <2>1. /\ mem' = mem /\ allocated' = allocated /\ frame' = frame /\ watch' = watch
    BY <1>2 DEF sharedVars, listVars
  <2>2. ChainFrom' = ChainFrom
    BY <2>1, ChainFromIs
  <2>3. Bounded'
    BY <2>1 DEF WalkInv, Bounded, Live
  <2>4. ASSUME NEW u \in Readers
        PROVE  WalkOK(u)'
    BY <2>1, <2>2 DEF WalkInv, WalkOK, SeenIn, StillAhead, KeysFrom, KeysBehind
  <2>5. ASSUME NEW u \in Writers
        PROVE  InPlace(frame[u])'
    BY <2>1, <2>2 DEF WalkInv, InPlace, link, next
  <2>6. QED
    BY <1>1, <2>3, <2>4, <2>5 DEF WalkInv
<1>3. CASE SharedNext
  <2>1. PICK t \in Threads : Calling(t) \/ Step(t, frame[t])
    BY <1>3 DEF SharedNext
  <2>2. Watching
    BY <1>3 DEF SharedNext, Watching
  <2>3. CASE Calling(t)
    <3>1. PICK op, k, v : Call(t, op, k, v)
      BY <2>3 DEF Calling
    <3>2. QED
      BY <1>1, <2>2, <3>1, CallsGoOn
  <2>4. CASE Step(t, frame[t])
    <3>1. PICK f \in FrameType : f = frame[t]
      BY <1>1, TypeOfFrames DEF SharedInv
    <3>2. Step(t, f) /\ CallOf(t, f)
      BY <2>4, <3>1 DEF CallOf
    <3>3. CASE Safe(f) /\ WalkStep(t, f)
      BY <1>1, <2>2, <3>2, <3>3, IterationGoesOn
    <3>4. CASE SetStep(t, f)
      BY <1>1, <2>2, <3>2, <3>4, UpdateGoesOn, AllocationGoesOn, CopyGoesOn, PublishGoesOn,
         ReadGoesOn DEF SetStep
    <3>5. CASE DeleteStep(t, f)
      BY <1>1, <2>2, <3>2, <3>5, CutGoesOn, ReadGoesOn DEF DeleteStep
    <3>6. CASE ClearStep(t, f)
      BY <1>1, <2>2, <3>2, <3>6, ClearGoesOn, ReadGoesOn DEF ClearStep
    <3>7. CASE Fault(t, f) \/ Forward(t, f) \/ SearchStops(t, f) \/ GetEnds(t, f) \/ ReaderReturns(t, f)
      BY <1>1, <2>2, <3>2, <3>7, ReadGoesOn
    <3>8. QED
      BY <3>2, <3>3, <3>4, <3>5, <3>6, <3>7 DEF Step
  <2>5. QED
    BY <2>1, <2>3, <2>4
<1>4. QED
  BY <1>2, <1>3

\* An iteration that returns has visited every key that was on level 0 all the time
\* since it began, whatever was inserted, updated, unlinked or left linked meanwhile.
THEOREM WalksAreComplete == CallersExclude => (SharedSpec => []WalkIsComplete)
<1> SUFFICES ASSUME CallersExclude
             PROVE  SharedSpec => []WalkIsComplete
  OBVIOUS
<1>1. SharedInit => WalkInv
  BY WalksBegin
<1>2. WalkInv /\ [SharedNext]_sharedVars => WalkInv'
  BY WalksGoOn
<1>3. WalkInv => WalkIsComplete
  <2>1. ASSUME WalkInv, NEW t \in Readers, At(t, "iterate", "return")
        PROVE  watch[t] \subseteq {frame[t].seen[i] : i \in DOMAIN frame[t].seen}
    <3>1. frame[t].op = "iterate" /\ frame[t].at = "return"
      BY <2>1 DEF At
    <3>2. StillAhead(frame[t]) = {}
      BY <3>1 DEF StillAhead
    <3>3. QED
      BY <2>1, <3>1, <3>2 DEF WalkInv, WalkOK, SeenIn
  <2>2. QED
    BY <2>1 DEF WalkIsComplete
<1>4. QED
  BY <1>1, <1>2, <1>3, PTL DEF SharedSpec

-----------------------------------------------------------------------------
(* Gets: the levels of a list from which nothing is deleted, as they are     *)
(* between the steps of a writer.                                            *)

NoDeletes == "delete" \notin TableOps

\* The nodes that a search may meet on level l.
Shown(l) == {n \in Nodes : Live(n) /\ Published(n, l)}

\* Node n comes after place p.
After(n, p) == p = dummyHead \/ mem[p].key < mem[n].key

\* A link of level l leads to the shown node with the next key, or to the tail.
Follows(p, l) ==
  \/ next(p, l) = dummyTail /\ \A n \in Shown(l) : ~After(n, p)
  \/ /\ next(p, l) \in Shown(l) /\ After(next(p, l), p)
     /\ \A n \in Shown(l) : After(n, p) => mem[next(p, l)].key <= mem[n].key

LevelsOK ==
  /\ \A n, m \in Shown(0) : mem[n].key = mem[m].key => n = m
  /\ \A l \in Levels : \A p \in Shown(l) \cup {dummyHead} : Follows(p, l)
  /\ \A l \in Levels : \A p \in Nodes \ Shown(l) : next(p, l) \in Shown(l) \cup {dummyTail, NULL}

\* The key of a node that is being linked is new, and on every level behind its place.
BuildOK(f) ==
  /\ Building(f) => \A n \in Shown(0) \ {f.node} : mem[n].key # f.key
  /\ f.at \in {"copy", "publish"} => AheadGreater(f)

\* What a Get has come to, given the values w its key has had since the call.
GetOK(f, w) ==
  f.op = "get" =>
    /\ Lookup(f.key) \in w
    /\ f.at = "walk" => Behind(f)
    /\ f.at = "found" => f.node \in Shown(0) /\ mem[f.node].key = f.key
    /\ f.at = "missed" => NULL \in w
    /\ f.at = "return" => f.value \in w

FindInv ==
  /\ WalkInv
  /\ \A t \in Writers : frame[t].op # "delete"
  /\ ~Clearing => LevelsOK
  /\ \A t \in Writers : BuildOK(frame[t])
  /\ \A t \in Readers : GetOK(frame[t], watch[t])

-----------------------------------------------------------------------------
(* What a whole search finds in such a list.                                 *)

\* A call hides its node from level l until it has published it there.
Hides(f, p, l) == Building(f) /\ f.node = p /\ f.at # "count" /\ ~(l < f.level)

LEMMA PublishedIs ==
  ASSUME NEW p, NEW l
  PROVE  Published(p, l) <=> l <= mem[p].levelHeight /\ \A t \in Writers : ~Hides(frame[t], p, l)
BY DEF Published, Hides

LEMMA ShownIs ==
  ASSUME SharedInv
  PROVE  /\ \A p, l : Reached(p, l) <=> p = dummyHead \/ p \in Shown(l)
         /\ \A q, l : Target(q, l) <=> q = dummyTail \/ q \in Shown(l)
         /\ \A l : \A n \in Shown(l) : n \in Nodes /\ n # dummyHead /\ n # dummyTail /\ n # NULL
BY Addresses DEF SharedInv, Shown, Reached, Target, Live

\* Level l has no node that a lower one has not.
LEMMA ShownBelow ==
  ASSUME SharedInv, ListOK, NEW l \in Levels, NEW m \in Levels, m <= l
  PROVE  Shown(l) \subseteq Shown(m)
<1>1. \A t \in Threads : frame[t].level \in Nat
  BY TypeOfFrames, Addresses DEF SharedInv, FrameType
<1>2. l \in Nat /\ m \in Nat /\ MemType
  BY Addresses DEF SharedInv
<1>3. ASSUME NEW n \in Shown(l)
      PROVE  n \in Shown(m)
  <2>1. n \in Nodes /\ Live(n) /\ Published(n, l) /\ mem[n].levelHeight \in Nat
    BY <1>2, <1>3, NodeFields, Addresses DEF Shown
  <2>2. \A t \in Writers : frame[t].level \in Nat
    BY <1>1 DEF Threads
  <2>3. Published(n, m)
    BY <1>2, <2>1, <2>2 DEF Published
  <2>4. QED
    BY <2>1, <2>3 DEF Shown
<1>4. QED
  BY <1>3

\* A shown node has a key, and a highest level.
LEMMA ShownNode ==
  ASSUME SharedInv, ListOK, NEW l \in Levels, NEW n \in Shown(l)
  PROVE  /\ n \in Shown(0) /\ n \in Nodes /\ Live(n)
         /\ mem[n].key \in Keys /\ mem[n].key \in Nat /\ mem[n].state = "NORMAL"
         /\ \E i \in Levels : \A j \in Levels : n \in Shown(j) <=> j <= i
<1>1. l \in Nat /\ 0 \in Levels /\ MemType
  BY Addresses DEF SharedInv
<1>2. n \in Shown(0) /\ n \in Nodes /\ Live(n)
  BY <1>1, ShownBelow DEF Shown
<1>3. mem[n].key \in Keys /\ mem[n].key \in Nat /\ mem[n].state = "NORMAL"
  BY <1>2, LiveHasKey DEF Live
<1>4. PICK h \in Levels : h = mem[n].levelHeight
  BY <1>1, <1>2, NodeFields
<1>5. \A j \in Levels : n \in Shown(j) <=> Published(n, j)
  BY <1>2 DEF Shown
<1>6. CASE \E t \in Writers : \E j \in Levels : Hides(frame[t], n, j)
  <2>1. PICK t \in Writers : Building(frame[t]) /\ frame[t].node = n /\ frame[t].at # "count"
    BY <1>6 DEF Hides
  <2>2. frame[t].op # "none" /\ frame[t].level \in Levels /\ frame[t].level \in Nat
    BY <2>1, TypeOfFrames, Addresses DEF Building, SharedInv, FrameType, Threads
  <2>3. \A j \in Levels : Published(n, j) <=> j <= h /\ j < frame[t].level
    BY <1>4, <2>1, <2>2, OneBuilder
  <2>4. 0 < frame[t].level
    BY <1>1, <1>2, <1>5, <2>3
  <2>5. PICK i \in Levels : i = IF h < frame[t].level THEN h ELSE frame[t].level - 1
    BY <2>2, <2>4, Addresses
  <2>6. \A j \in Levels : (j <= h /\ j < frame[t].level) <=> j <= i
    BY <1>4, <2>2, <2>5, Addresses
  <2>7. QED
    BY <1>2, <1>3, <1>5, <2>3, <2>6
<1>7. CASE ~\E t \in Writers : \E j \in Levels : Hides(frame[t], n, j)
  <2>1. \A j \in Levels : Published(n, j) <=> j <= h
    BY <1>4, <1>7, PublishedIs
  <2>2. QED
    BY <1>2, <1>3, <1>4, <1>5, <2>1
<1>8. QED
  BY <1>6, <1>7

ShownLevels == [l \in Levels |-> Shown(l)]

LEMMA ShownLevelled ==
  ASSUME SharedInv, ListOK, LevelsOK
  PROVE  L!Levelled(ShownLevels)
<1> DEFINE S == ShownLevels
<1>1. 0 \in Levels /\ \A l \in Levels : S[l] = Shown(l)
  BY Addresses DEF ShownLevels
<1>2. \A l \in Levels : S[l] \subseteq S[0]
  BY <1>1, ShownNode
<1>3. \A n \in S[0] : n \in Nodes /\ mem[n].key \in Keys /\ \E i : L!IsTop(S, n, i)
  <2>1. ASSUME NEW n \in S[0]
        PROVE  n \in Nodes /\ mem[n].key \in Keys /\ \E i : L!IsTop(S, n, i)
    <3>1. PICK i \in Levels : \A j \in Levels : n \in Shown(j) <=> j <= i
      BY <1>1, ShownNode
    <3>2. L!IsTop(S, n, i)
      BY <1>1, <3>1 DEF L!IsTop, L!Levels, Levels
    <3>3. n \in Nodes /\ mem[n].key \in Keys
      BY <1>1, ShownNode
    <3>4. QED
      BY <3>2, <3>3
  <2>2. QED
    BY <2>1
<1>4. \A n, m \in S[0] : mem[n].key = mem[m].key => n = m
  BY <1>1 DEF LevelsOK
<1>5. ASSUME NEW l \in Levels
      PROVE  /\ \A p \in L!PlaceIn(S, l) : L!SuccessorIn(S, p, l)
             /\ \A p \in Nodes \ S[l] : L!next(p, l) \in S[l] \cup {dummyTail, NULL}
  <2>1. S[l] = Shown(l) /\ \A p : L!next(p, l) = next(p, l)
    BY <1>1 DEF L!next, next
  <2>2. \A p \in Shown(l) \cup {dummyHead} : Follows(p, l)
    BY DEF LevelsOK
  <2>3. \A p \in Shown(l) \cup {dummyHead} : L!SuccessorIn(S, p, l)
    BY <2>1, <2>2 DEF L!SuccessorIn, L!After, Follows, After
  <2>4. QED
    BY <2>1, <2>3 DEF L!PlaceIn, LevelsOK
<1> HIDE DEF S
<1>6. QED
  BY <1>2, <1>3, <1>4, <1>5 DEF L!Levelled, L!Levels, Levels, S

\* A search that no one disturbs finds the node that has the key, if one is shown.
LEMMA LookupIs ==
  ASSUME SharedInv, ListOK, LevelsOK, NEW k \in Keys
  PROVE  /\ \A n \in Shown(0) : mem[n].key = k => Lookup(k) = mem[n].value
         /\ (\A n \in Shown(0) : mem[n].key # k) => Lookup(k) = NULL
<1>1. L!Descent(k) = Descent(k)
  BY DEF L!Descent, Descent, L!Advance, Advance, L!next, next, L!Before, Before, L!FromTop, FromTop
<1>2. ShownLevels[0] = Shown(0)
  BY Addresses DEF ShownLevels
<1>3. PICK c : c = Descent(k).cur
  OBVIOUS
<1>4. L!Levelled(ShownLevels)
  BY ShownLevelled
<1>5. PICK S : S = ShownLevels
  OBVIOUS
<1>6. /\ \A n \in S[0] : mem[n].key = k => L!Descent(k).cur = n
      /\ (\A n \in S[0] : mem[n].key # k) =>
           ~(L!Descent(k).cur \in Nodes /\ mem[L!Descent(k).cur].key = k)
  BY <1>4, <1>5, SameAssumption, SizeAssumption, L!SearchFindsIn
<1>7. Lookup(k) = IF c \in Nodes /\ mem[c].key = k /\ mem[c].state = "NORMAL"
                  THEN mem[c].value ELSE NULL
  BY <1>3 DEF Lookup
<1>8. \A n \in Shown(0) : n \in Nodes /\ mem[n].state = "NORMAL"
  BY Addresses, ShownNode
<1>9. QED
  BY <1>1, <1>2, <1>3, <1>5, <1>6, <1>7, <1>8

\* Between a place before the key and what is ahead of it the key is not.
LEMMA KeyAbsent ==
  ASSUME SharedInv, ListOK, LevelsOK, NEW l \in Levels, NEW p, Reached(p, l), NEW k \in Keys,
         p # dummyHead => mem[p].key < k,
         next(p, l) \in Nodes => k < mem[next(p, l)].key
  PROVE  \A n \in Shown(l) : mem[n].key # k
<1>1. p \in Shown(l) \cup {dummyHead} /\ Follows(p, l) /\ k \in Nat
  BY ShownIs, Addresses DEF LevelsOK
<1>2. ASSUME NEW n \in Shown(l), mem[n].key = k
      PROVE  FALSE
  <2>1. After(n, p)
    BY <1>2 DEF After
  <2>2. PICK q \in Shown(l) : q = next(p, l) /\ mem[q].key <= mem[n].key
    BY <1>1, <2>1 DEF Follows
  <2>3. mem[q].key \in Nat /\ q \in Nodes
    BY ShownNode
  <2>4. QED
    BY <1>1, <1>2, <2>2, <2>3
<1>3. QED
  BY <1>2

\* The search of Lookup in memory m.
MemAdvance(m, l, k) ==
  LET walk[p \in Nodes \cup {dummyHead}] ==
        LET cur == m[p].levelNext[l]
        IN IF cur \in Nodes /\ m[cur].key < k THEN walk[cur] ELSE p
  IN walk

MemDescent(m, k) ==
  LET after[l \in 0..LIST_HEIGHT] ==
        IF l = LIST_HEIGHT THEN [prev |-> dummyHead, cur |-> dummyTail]
        ELSE LET above == after[l + 1]
                 prev == MemAdvance(m, l, k)[above.prev]
             IN IF above.cur = NULL \/ (above.cur \in Nodes /\ m[above.cur].key = k)
                THEN above
                ELSE [prev |-> prev, cur |-> m[prev].levelNext[l]]
  IN after[0]

MemLookup(m, k) ==
  LET cur == MemDescent(m, k).cur
  IN IF cur \in Nodes /\ m[cur].key = k /\ m[cur].state = "NORMAL" THEN m[cur].value ELSE NULL

LEMMA LookupOfMem ==
  /\ \A k : Lookup(k) = MemLookup(mem, k) /\ Lookup(k)' = MemLookup(mem', k)
  /\ \A t : Lookup(frame[t].key)' = MemLookup(mem', frame'[t].key)
BY DEF Lookup, MemLookup, Descent, MemDescent, Advance, MemAdvance, next, Before, FromTop

-----------------------------------------------------------------------------
(* Gets and writers, when a step leaves the links as they are.               *)

\* The history of a Get only grows, and has what its key has now.
LEMMA WatchOfGet ==
  ASSUME Watching, NEW t \in Readers, frame'[t].op = "get"
  PROVE  /\ frame[t] = Idle \/ mem' # mem => MemLookup(mem', frame'[t].key) \in watch'[t]
         /\ watch[t] \subseteq watch'[t]
BY LookupOfMem DEF Watching, Watched

\* A level is the same at a place: so is what follows there.
LEMMA SameFollows ==
  ASSUME NEW l, NEW p \in Shown(l) \cup {dummyHead}, Follows(p, l), Shown(l)' = Shown(l),
         next(p, l)' = next(p, l), \A n \in Shown(l) : mem'[n].key = mem[n].key
  PROVE  Follows(p, l)'
<1>1. \A n \in Shown(l) : After(n, p)' <=> After(n, p)
  BY DEF After
<1>2. CASE next(p, l) = dummyTail /\ \A n \in Shown(l) : ~After(n, p)
  BY <1>1, <1>2 DEF Follows
<1>3. CASE /\ next(p, l) \in Shown(l) /\ After(next(p, l), p)
           /\ \A n \in Shown(l) : After(n, p) => mem[next(p, l)].key <= mem[n].key
  <2>1. PICK q \in Shown(l) : q = next(p, l) /\ q = next(p, l)'
    BY <1>3
  <2>2. After(q, p)' /\ \A n \in Shown(l) : After(n, p)' => mem'[q].key <= mem'[n].key
    BY <1>1, <1>3, <2>1
  <2>3. After(next(p, l), p)'
    BY <2>1, <2>2 DEF After
  <2>4. QED
    BY <2>1, <2>2, <2>3 DEF Follows
<1>4. QED
  BY <1>2, <1>3 DEF Follows

\* The levels are the same: so is what holds of them.
LEMMA SameLevels ==
  ASSUME LevelsOK, \A l \in Levels : Shown(l)' = Shown(l),
         \A n : Live(n) => mem'[n].key = mem[n].key,
         \A l \in Levels : \A p \in Shown(l) \cup {dummyHead} : next(p, l)' = next(p, l),
         \A l \in Levels : \A p \in Nodes \ Shown(l) :
           next(p, l)' \in Shown(l) \cup {next(p, l), dummyTail, NULL}
  PROVE  LevelsOK'
<1>1. \A l : \A n \in Shown(l) : n \in Nodes /\ mem'[n].key = mem[n].key
  BY DEF Shown
<1>2. 0 \in Levels
  BY Addresses
<1>3. ASSUME NEW l \in Levels, NEW p \in Shown(l) \cup {dummyHead}
      PROVE  Follows(p, l)'
  BY <1>1, SameFollows DEF LevelsOK
<1>4. \A n, m \in Shown(0) : mem'[n].key = mem'[m].key => n = m
  BY <1>1 DEF LevelsOK
<1>5. ASSUME NEW l \in Levels, NEW p \in Nodes \ Shown(l)
      PROVE  next(p, l)' \in Shown(l) \cup {dummyTail, NULL}
  BY DEF LevelsOK
<1>6. QED
  BY <1>2, <1>3, <1>4, <1>5 DEF LevelsOK

\* Nothing is hidden that was shown: a Get that is in the list stays what it is.
LEMMA GetsKept ==
  ASSUME SharedInv, FindInv, Watching, NEW u \in Readers, frame'[u] = frame[u],
         \A n : Live(n) => mem'[n].key = mem[n].key, Shown(0) \subseteq Shown(0)'
  PROVE  GetOK(frame[u], watch[u])'
<1> SUFFICES ASSUME frame[u].op = "get"
             PROVE  GetOK(frame[u], watch[u])'
  BY DEF GetOK
<1>1. PICK f, w, x : f = frame[u] /\ w = watch[u] /\ x = watch'[u]
  OBVIOUS
<1>2. f = frame'[u] /\ f.op = "get" /\ f # Idle /\ ReaderOK(f) /\ GetOK(f, w)
  BY <1>1 DEF FindInv, SharedInv, Idle
<1>3. (mem' # mem => MemLookup(mem', f.key) \in x) /\ w \subseteq x
  BY <1>1, <1>2, WatchOfGet
<1>4. MemLookup(mem', f.key) \in x
  BY <1>2, <1>3, LookupOfMem DEF GetOK
<1>5. f.at = "walk" => Behind(f)'
  BY <1>2 DEF GetOK, Behind, ReaderOK, Reached
<1>6. f.at = "found" => f.node \in Shown(0)' /\ mem'[f.node].key = f.key
  BY <1>2 DEF GetOK, Shown
<1>7. GetOK(f, x)'
  BY <1>2, <1>3, <1>4, <1>5, <1>6, LookupOfMem DEF GetOK
<1>8. GetOK(frame[u], watch[u])' <=> GetOK(f, x)'
  BY <1>1, <1>2, LookupOfMem DEF GetOK, Behind
<1>9. QED
  BY <1>7, <1>8

\* The call of t goes from f to g, and nothing in the list changes.
LEMMA QuietFinds ==
  ASSUME FindInv, WalkInv', Watching, mem' = mem, \A n : Live(n)' <=> Live(n),
         NEW t \in Threads, NEW g, frame' = [frame EXCEPT ![t] = g],
         frame[t].op = "clear" => g.op = "clear", g.op # "delete",
         t \in Writers => BuildOK(g) /\ \A p, l : Hides(g, p, l) <=> Hides(frame[t], p, l),
         t \in Readers => GetOK(g, watch'[t])
  PROVE  FindInv'
<1>1. \A u \in Threads : frame'[u] = IF u = t THEN g ELSE frame[u]
  BY TypeOfFrames DEF FindInv, WalkInv, SharedInv
<1>2. \A u \in Writers : \A p, l : Hides(frame[u], p, l)' <=> Hides(frame[u], p, l)
  <2>1. ASSUME NEW u \in Writers, NEW p, NEW l
        PROVE  Hides(frame[u], p, l)' <=> Hides(frame[u], p, l)
    <3>1. PICK h : h = frame'[u]
      OBVIOUS
    <3>2. Hides(frame[u], p, l)' <=> Hides(h, p, l)
      BY <3>1 DEF Hides, Building
    <3>3. Hides(h, p, l) <=> Hides(frame[u], p, l)
      BY <1>1, <3>1 DEF Threads
    <3>4. QED
      BY <3>2, <3>3
  <2>2. QED
    BY <2>1
<1>3. \A l : Shown(l)' = Shown(l)
  <2>1. ASSUME NEW l, NEW n
        PROVE  Published(n, l)' <=> Published(n, l)
    <3>1. Published(n, l) <=> l <= mem[n].levelHeight /\ \A u \in Writers : ~Hides(frame[u], n, l)
      BY PublishedIs
    <3>2. Published(n, l)' <=> /\ l <= mem'[n].levelHeight
                               /\ \A u \in Writers : ~Hides(frame[u], n, l)'
      BY DEF Published, Hides
    <3>3. QED
      BY <1>2, <3>1, <3>2
  <2>2. QED
    BY <2>1 DEF Shown
<1>4. ~Clearing' => LevelsOK'
  <2>1. SUFFICES ASSUME ~Clearing'
                 PROVE  LevelsOK'
    OBVIOUS
  <2>2. ~Clearing
    BY <1>1, <2>1 DEF Clearing, Threads
  <2>3. LevelsOK
    BY <2>2 DEF FindInv
  <2>4. QED
    BY <1>3, <2>3, SameLevels DEF next
<1>5. ASSUME NEW u \in Writers
      PROVE  BuildOK(frame[u])'
  <2>1. PICK h : h = frame'[u]
    OBVIOUS
  <2>2. BuildOK(h)
    BY <1>1, <2>1 DEF FindInv, Threads
  <2>3. BuildOK(h)'
    BY <1>3, <2>2 DEF BuildOK, AheadGreater, Ahead, link, next
  <2>4. QED
    BY <2>1, <2>3 DEF BuildOK, AheadGreater, Ahead, link, next, Building
<1>6. ASSUME NEW u \in Readers
      PROVE  GetOK(frame[u], watch[u])'
  <2>1. CASE u = t
    <3>1. PICK x : x = watch'[u]
      OBVIOUS
    <3>2. frame'[u] = g /\ GetOK(g, x)
      BY <1>1, <2>1, <3>1
    <3>3. GetOK(g, x)'
      BY <1>3, <3>2, LookupOfMem DEF GetOK, Behind
    <3>4. GetOK(frame[u], watch[u])' <=> GetOK(g, x)'
      BY <3>1, <3>2, LookupOfMem DEF GetOK, Behind
    <3>5. QED
      BY <3>3, <3>4
  <2>2. CASE u # t
    <3>1. frame'[u] = frame[u] /\ SharedInv
      BY <1>1, <2>2 DEF Threads, FindInv, WalkInv
    <3>2. QED
      BY <1>3, <3>1, GetsKept
  <2>3. QED
    BY <2>1, <2>2
<1>7. \A u \in Writers : frame'[u].op # "delete"
  BY <1>1 DEF FindInv, Threads
<1>8. QED
  BY <1>4, <1>5, <1>6, <1>7 DEF FindInv

\* A thread that reads, its own links or those of others, goes on to what it finds.
LEMMA ReadFinds ==
  ASSUME FindInv, WalkInv', Watching, NEW t \in Threads, NEW f \in FrameType, CallOf(t, f),
         \/ Forward(t, f) \/ SearchStops(t, f) \/ GetEnds(t, f) \/ ReaderReturns(t, f)
         \/ WalkStep(t, f) \/ ClimbStops(t, f) \/ SetCounts(t, f)
         \/ SetGetsNULL(t, f) \/ Fault(t, f)
  PROVE  FindInv'
<1>1. SharedInv /\ frame[t] = f /\ Shape(t, f)
  BY FrameFacts DEF FindInv, WalkInv, CallOf
<1>2. mem' = mem /\ \A n : Live(n)' <=> Live(n)
  BY DEF Forward, SearchStops, GetEnds, ReaderReturns, WalkStep, WalkBegins, WalkEnds, WalkVisits,
         WalkSteps, ClimbStops, SetCounts, SetGetsNULL, Fault, Reads, Fails, listVars, Live
<1>3. t \in Writers => f.op # "delete" /\ BuildOK(f)
  BY <1>1 DEF FindInv
<1>4. ASSUME NEW g, frame' = [frame EXCEPT ![t] = g], f.op = "clear" => g.op = "clear",
             g.op # "delete",
             t \in Writers => BuildOK(g) /\ \A p, l : Hides(g, p, l) <=> Hides(f, p, l),
             t \in Readers => GetOK(g, watch'[t])
      PROVE  FindInv'
  BY <1>1, <1>2, <1>4, QuietFinds
<1>5. Idle.op = "none" /\ Idle.at = "idle"
  BY DEF Idle
<1>6. t \in Readers => f.op \notin {"set", "delete", "clear"}
  BY <1>1, FrameFacts DEF WriterOps
<1>7. f.op # "delete"
  BY <1>3, <1>6 DEF Threads
<1>8. PICK w, x : w = watch[t] /\ x = watch'[t]
  OBVIOUS
<1>9. ASSUME t \in Readers, frame'[t].op = "get", f.op = "get"
      PROVE  /\ w \subseteq x /\ Lookup(f.key) \in x /\ GetOK(f, w)
             /\ ReaderOK(f) /\ ListOK /\ LevelsOK /\ f.key \in Keys
  <2>1. GetOK(f, w) /\ ReaderOK(f)
    BY <1>1, <1>8, <1>9, FrameFacts DEF FindInv
  <2>2. w \subseteq x
    BY <1>8, <1>9, WatchOfGet
  <2>3. ListOK /\ LevelsOK
    BY <1>1, <1>9, NoClear DEF FindInv
  <2>4. f.key \in Keys
    BY <1>1, <1>9 DEF Shape
  <2>5. QED
    BY <1>9, <2>1, <2>2, <2>3, <2>4 DEF GetOK
<1>10. \A g : frame' = [frame EXCEPT ![t] = g] => frame'[t] = g
  BY <1>1, TypeOfFrames DEF SharedInv
<1>11. CASE SetGetsNULL(t, f) \/ Fault(t, f) \/ (ClimbStops(t, f) /\ Equal(f))
  <2>1. frame' = frame
    BY <1>11 DEF SetGetsNULL, Fault, ClimbStops
  <2>2. frame' = [frame EXCEPT ![t] = f]
    BY <1>1, <2>1, TypeOfFrames DEF SharedInv
  <2>3. t \in Readers => GetOK(f, x)
    <3>1. SUFFICES ASSUME t \in Readers, f.op = "get"
                   PROVE  GetOK(f, x)
      BY DEF GetOK
    <3>2. frame'[t].op = "get"
      BY <1>10, <2>2, <3>1
    <3>3. QED
      BY <1>9, <3>1, <3>2 DEF GetOK
  <2>4. QED
    BY <1>3, <1>4, <1>7, <1>8, <2>2, <2>3
<1>12. CASE ReaderReturns(t, f) \/ SetCounts(t, f)
  <2>1. frame' = [frame EXCEPT ![t] = Idle]
    BY <1>12 DEF ReaderReturns, SetCounts, Reads, WriterReturns, Go
  <2>2. f.at \in {"return", "count"}
    BY <1>1, <1>12 DEF ReaderReturns, SetCounts, At
  <2>3. \A p, l : ~Hides(f, p, l) /\ ~Hides(Idle, p, l)
    BY <1>1, <1>5, <2>2 DEF Hides, Building, Shape
  <2>4. BuildOK(Idle) /\ \A y : GetOK(Idle, y)
    BY <1>5 DEF BuildOK, GetOK, Building
  <2>5. f.op # "clear"
    BY <1>1, <2>2 DEF Shape
  <2>6. QED
    BY <1>4, <1>5, <2>1, <2>3, <2>4, <2>5
<1>13. CASE Forward(t, f)
  <2>1. f.at = "walk" /\ Ahead(f) \in Nodes /\ mem[Ahead(f)].key < f.key
    BY <1>13 DEF Forward, Less, Before
  <2>2. PICK g : g = [f EXCEPT !.prev = Ahead(f)] /\ frame' = [frame EXCEPT ![t] = g]
    BY <1>13 DEF Forward, Reads, Go
  <2>3. /\ g.op = f.op /\ g.doing = f.doing /\ g.at = f.at /\ g.level = f.level
        /\ g.prev = Ahead(f) /\ g.node = f.node /\ g.key = f.key
    BY <2>2 DEF FrameType
  <2>4. t \in Writers => BuildOK(g) /\ \A p, l : Hides(g, p, l) <=> Hides(f, p, l)
    BY <1>3, <2>1, <2>3 DEF BuildOK, Hides, Building
  <2>5. t \in Readers => GetOK(g, x)
    <3>1. SUFFICES ASSUME t \in Readers, f.op = "get"
                   PROVE  GetOK(g, x)
      BY <2>3 DEF GetOK
    <3>2. Lookup(f.key) \in x
      BY <1>9, <1>10, <2>2, <2>3, <3>1
    <3>3. QED
      BY <2>1, <2>3, <3>2 DEF GetOK, Behind
  <2>6. QED
    BY <1>4, <1>7, <1>8, <2>2, <2>3, <2>4, <2>5
<1>14. CASE SearchStops(t, f)
  <2>1. f.at = "walk" /\ f.doing = "search" /\ ~Less(f)
    BY <1>14 DEF SearchStops, Stops
  <2>2. PICK g : /\ frame' = [frame EXCEPT ![t] = g]
                 /\ g = IF Equal(f) THEN [f EXCEPT !.node = Ahead(f), !.at = "found"]
                        ELSE IF Lowest(f) THEN [f EXCEPT !.at = "missed"]
                        ELSE [f EXCEPT !.level = @ - 1]
    BY <1>14 DEF SearchStops, Reads, Go
  <2>3. /\ g.op = f.op /\ g.doing = f.doing /\ g.at \in {"walk", "found", "missed"}
        /\ g.prev = f.prev /\ g.key = f.key
        /\ g.at = "found" => Equal(f) /\ g.node = Ahead(f)
        /\ g.at = "missed" => ~Equal(f) /\ f.level = 0
    BY <2>1, <2>2 DEF FrameType, Lowest
  <2>4. t \in Writers => BuildOK(g) /\ \A p, l : Hides(g, p, l) <=> Hides(f, p, l)
    BY <2>1, <2>3 DEF BuildOK, Hides, Building
  <2>5. t \in Readers => GetOK(g, x)
    <3>1. SUFFICES ASSUME t \in Readers, f.op = "get"
                   PROVE  GetOK(g, x)
      BY <2>3 DEF GetOK
    <3>2. /\ Lookup(f.key) \in x /\ GetOK(f, w) /\ ListOK /\ LevelsOK /\ f.key \in Keys
          /\ Reached(f.prev, f.level) /\ Behind(f)
      BY <1>9, <1>10, <2>1, <2>2, <2>3, <3>1 DEF ReaderOK, GetOK
    <3>3. f.level \in Levels /\ f.prev \in Nodes \cup {dummyHead}
      BY DEF FrameType
    <3>4. Ahead(f) = next(f.prev, f.level) /\ Target(Ahead(f), f.level)
      BY <1>1, <3>2, <3>3, AheadOfReached DEF Ahead
    <3>5. g.at = "walk" => Behind(g)
      BY <2>3, <3>2 DEF Behind
    <3>6. g.at = "found" => g.node \in Shown(0) /\ mem[g.node].key = g.key
      <4>1. SUFFICES ASSUME Ahead(f) \in Nodes, mem[Ahead(f)].key = f.key
                     PROVE  Ahead(f) \in Shown(0)
        BY <2>3 DEF Equal
      <4>2. Ahead(f) \in Shown(f.level)
        BY <1>1, <3>4, <4>1, ShownIs, Addresses
      <4>3. QED
        BY <1>1, <3>2, <3>3, <4>2, ShownNode
    <3>7. g.at = "missed" => NULL \in x
      <4>1. SUFFICES ASSUME f.level = 0, ~Equal(f)
                     PROVE  NULL \in x
        BY <2>3
      <4>2. Ahead(f) \in Nodes => f.key < mem[Ahead(f)].key
        <5>1. SUFFICES ASSUME Ahead(f) \in Nodes
                       PROVE  f.key < mem[Ahead(f)].key
          OBVIOUS
        <5>2. Live(Ahead(f))
          BY <3>4, <5>1, Addresses DEF Target
        <5>3. mem[Ahead(f)].key \in Nat /\ f.key \in Nat
          BY <1>1, <3>2, <5>2, LiveHasKey, Addresses
        <5>4. QED
          BY <2>1, <4>1, <5>1, <5>3 DEF Less, Equal, Before
      <4>3. \A n \in Shown(0) : mem[n].key # f.key
        BY <1>1, <3>2, <3>3, <3>4, <4>1, <4>2, KeyAbsent DEF Behind
      <4>4. Lookup(f.key) = NULL
        BY <1>1, <3>2, <4>3, LookupIs
      <4>5. QED
        BY <3>2, <4>4
    <3>8. QED
      BY <2>3, <3>2, <3>5, <3>6, <3>7 DEF GetOK
  <2>6. f.op # "clear"
    BY <1>1, <2>1, AtSearch
  <2>7. QED
    BY <1>4, <1>7, <1>8, <2>2, <2>3, <2>4, <2>5, <2>6
<1>15. CASE GetEnds(t, f)
  <2>1. f.op = "get" /\ f.at \in {"found", "missed"}
    BY <1>15 DEF GetEnds
  <2>2. PICK v : v = IF f.at = "found" /\ mem[f.node].state = "NORMAL"
                     THEN mem[f.node].value ELSE NULL
    OBVIOUS
  <2>3. PICK g : /\ g = [f EXCEPT !.at = "return", !.value = v]
                 /\ frame' = [frame EXCEPT ![t] = g]
    BY <1>15, <2>2 DEF GetEnds, Reads, Go
  <2>4. g.op = f.op /\ g.at = "return" /\ g.value = v /\ g.key = f.key
    BY <2>3 DEF FrameType
  <2>5. t \notin Writers
    BY <1>1, <2>1, FrameFacts DEF ReaderOps
  <2>6. t \in Readers => GetOK(g, x)
    <3>1. SUFFICES ASSUME t \in Readers
                   PROVE  GetOK(g, x)
      OBVIOUS
    <3>2. /\ Lookup(f.key) \in x /\ w \subseteq x /\ GetOK(f, w)
          /\ ListOK /\ LevelsOK /\ f.key \in Keys
      BY <1>9, <1>10, <2>1, <2>3, <2>4, <3>1
    <3>3. CASE f.at = "missed"
      BY <2>1, <2>2, <2>4, <3>2, <3>3 DEF GetOK
    <3>4. CASE f.at = "found"
      <4>1. f.node \in Shown(0) /\ mem[f.node].key = f.key
        BY <2>1, <3>2, <3>4 DEF GetOK
      <4>2. mem[f.node].state = "NORMAL" /\ Lookup(f.key) = mem[f.node].value
        BY <1>1, <3>2, <4>1, LookupIs, ShownNode, Addresses
      <4>3. QED
        BY <2>2, <2>4, <3>2, <3>4, <4>2 DEF GetOK
    <3>5. QED
      BY <2>1, <3>3, <3>4
  <2>7. QED
    BY <1>4, <1>8, <2>1, <2>3, <2>4, <2>5, <2>6
<1>16. CASE WalkStep(t, f)
  <2>1. f.at \in {"begin", "visit", "next"}
    BY <1>16 DEF WalkStep, WalkBegins, WalkEnds, WalkVisits, WalkSteps
  <2>2. f.op \in Walks
    <3>1. f.op \in {"none", "get", "set", "delete", "clear"} \cup Walks
      BY DEF FrameType
    <3>2. QED
      BY <1>1, <2>1, <3>1 DEF Shape, Idle
  <2>3. t \notin Writers
    BY <1>1, <2>2, FrameFacts DEF ReaderOps
  <2>4. PICK g : frame' = [frame EXCEPT ![t] = g] /\ g.op = f.op
    <3>1. CASE WalkBegins(t, f)
      <4>1. PICK g : /\ g = [f EXCEPT !.node = next(dummyHead, 0), !.at = "visit"]
                     /\ frame' = [frame EXCEPT ![t] = g]
        BY <3>1 DEF WalkBegins, Reads, Go
      <4>2. g.op = f.op
        BY <4>1 DEF FrameType
      <4>3. QED
        BY <4>1, <4>2
    <3>2. CASE WalkEnds(t, f)
      <4>1. PICK g : g = [f EXCEPT !.at = "return"] /\ frame' = [frame EXCEPT ![t] = g]
        BY <3>2 DEF WalkEnds, Reads, Go
      <4>2. g.op = f.op
        BY <4>1 DEF FrameType
      <4>3. QED
        BY <4>1, <4>2
    <3>3. CASE WalkVisits(t, f)
      <4>1. PICK s : s = IF f.op = "iterate" THEN Append(f.seen, keyOf(f.node)) ELSE f.seen
        OBVIOUS
      <4>2. PICK g : g = [f EXCEPT !.seen = s, !.at = "next"] /\ frame' = [frame EXCEPT ![t] = g]
        BY <3>3, <4>1 DEF WalkVisits, Reads, Go
      <4>3. g.op = f.op
        BY <4>2 DEF FrameType
      <4>4. QED
        BY <4>2, <4>3
    <3>4. CASE WalkSteps(t, f)
      <4>1. PICK g : /\ g = [f EXCEPT !.node = Incremented(f.node), !.at = "visit"]
                     /\ frame' = [frame EXCEPT ![t] = g]
        BY <3>4 DEF WalkSteps, Reads, Go
      <4>2. g.op = f.op
        BY <4>1 DEF FrameType
      <4>3. QED
        BY <4>1, <4>2
    <3>5. QED
      BY <1>16, <3>1, <3>2, <3>3, <3>4 DEF WalkStep
  <2>5. g.op \notin {"get", "delete", "clear"} /\ f.op # "clear"
    BY <2>2, <2>4 DEF Walks
  <2>6. GetOK(g, x)
    BY <2>5 DEF GetOK
  <2>7. QED
    BY <1>4, <1>8, <2>3, <2>4, <2>5, <2>6
<1>17. CASE ClimbStops(t, f) /\ ~Equal(f)
  <2>1. f.at = "walk" /\ f.doing = "climb" /\ ~Less(f)
    BY <1>17 DEF ClimbStops, Stops
  <2>2. f.op = "set" /\ Building(f)
    BY <1>1, <2>1, AtSearch DEF Shape, Building
  <2>3. PICK g : g = [f EXCEPT !.at = "copy"] /\ frame' = [frame EXCEPT ![t] = g]
    BY <1>17 DEF ClimbStops, Reads, Go
  <2>4. /\ g.op = f.op /\ g.at = "copy" /\ g.doing = f.doing /\ g.level = f.level
        /\ g.prev = f.prev /\ g.node = f.node /\ g.key = f.key
    BY <2>3 DEF FrameType
  <2>5. t \in Writers /\ ListOK /\ f.key \in Nat
    BY <1>1, <2>2, WriterFacts, Addresses DEF WriterOps, Shape
  <2>6. Reached(f.prev, f.level)
    <3>1. WriterOK(frame[t])' /\ frame'[t] = g
      BY <1>10, <2>3, <2>5 DEF WalkInv, SharedInv
    <3>2. Reached(f.prev, f.level)'
      BY <2>4, <3>1 DEF WriterOK, Reached, Live, Published
    <3>3. Building(g) /\ f.op # "none"
      BY <2>2, <2>4 DEF Building
    <3>4. Published(f.prev, f.level)' <=> Published(f.prev, f.level)
      <4>1. PICK p, l : p = f.prev /\ l = f.level
        OBVIOUS
      <4>2. Published(p, l) <=> l <= mem[p].levelHeight /\ (f.node = p => l < f.level)
        BY <1>1, <2>1, <2>2, <2>5, <3>3, OneBuilder
      <4>3. Published(p, l)' <=> l <= mem'[p].levelHeight /\ (f.node = p => l < f.level)
        <5>1. frame' = [frame EXCEPT ![t] = g] /\ frame[t].op # "none" /\ t \in Writers
          BY <1>1, <2>3, <2>5, <3>3
        <5>2. Published(p, l)' <=> /\ l <= mem'[p].levelHeight
                                   /\ Building(g) /\ g.node = p => g.at = "count" \/ l < g.level
          BY <1>1, <5>1, OneBuilderNext
        <5>3. QED
          BY <2>4, <3>3, <5>2
      <4>4. QED
        BY <1>2, <4>1, <4>2, <4>3
    <3>5. QED
      BY <1>2, <3>2, <3>4 DEF Reached
  <2>7. f.level \in Levels /\ f.prev \in Nodes \cup {dummyHead}
    BY DEF FrameType
  <2>8. AheadGreater(g)
    <3>1. SUFFICES ASSUME Ahead(f) \in Nodes
                   PROVE  f.key < mem[Ahead(f)].key
      BY <2>4 DEF AheadGreater, Ahead
    <3>2. Live(Ahead(f))
      BY <1>1, <2>5, <2>6, <2>7, <3>1, AheadOfReached, Addresses DEF Ahead, Target
    <3>3. mem[Ahead(f)].key \in Nat
      BY <1>1, <2>5, <3>2, LiveHasKey
    <3>4. QED
      BY <1>17, <2>1, <2>5, <3>1, <3>3 DEF Less, Equal, Before
  <2>9. BuildOK(g) /\ \A p, l : Hides(g, p, l) <=> Hides(f, p, l)
    BY <1>3, <2>1, <2>2, <2>4, <2>5, <2>8 DEF BuildOK, Hides, Building
  <2>10. t \notin Readers
    BY <2>5, SharedAssumption
  <2>11. QED
    BY <1>4, <2>2, <2>3, <2>4, <2>9, <2>10
<1>18. QED
  BY <1>11, <1>12, <1>13, <1>14, <1>15, <1>16, <1>17

-----------------------------------------------------------------------------
(* Gets and writers, when a Set stores.                                      *)

LEMMA SetFinds ==
  ASSUME FindInv, WalkInv', Watching, NEW t \in Writers, frame[t].op = "set",
         NEW g, frame' = [frame EXCEPT ![t] = g], g.op \notin {"delete", "clear"},
         LevelsOK', BuildOK(g)',
         \A y : Live(y) => mem'[y].key = mem[y].key, Shown(0) \subseteq Shown(0)'
  PROVE  FindInv'
<1>1. SharedInv /\ t \in Threads /\ t \notin Readers
  BY SharedAssumption DEF FindInv, WalkInv, Threads
<1>2. \A u \in Threads : frame'[u] = IF u = t THEN g ELSE frame[u]
  BY <1>1, TypeOfFrames DEF SharedInv
<1>3. ASSUME NEW u \in Writers
      PROVE  BuildOK(frame[u])' /\ frame'[u].op # "delete"
  <2>1. CASE u = t
    <3>1. frame'[u] = g
      BY <1>1, <1>2, <2>1
    <3>2. BuildOK(frame[u])' <=> BuildOK(g)'
      BY <3>1 DEF BuildOK, Building, AheadGreater, Ahead, link, next
    <3>3. QED
      BY <3>1, <3>2
  <2>2. CASE u # t
    <3>1. frame'[u] = Idle
      BY <1>1, <1>2, <2>2 DEF SharedInv, Exclusion, Threads
    <3>2. QED
      BY <3>1 DEF BuildOK, Building, Idle
  <2>3. QED
    BY <2>1, <2>2
<1>4. ASSUME NEW u \in Readers
      PROVE  GetOK(frame[u], watch[u])'
  <2>1. frame'[u] = frame[u]
    BY <1>1, <1>2 DEF Threads
  <2>2. QED
    BY <1>1, <2>1, GetsKept
<1>5. QED
  BY <1>3, <1>4 DEF FindInv

\* Which nodes are shown, before and after a step of a Set.
LEMMA ShownBySet ==
  ASSUME SharedInv, NEW t \in Writers, frame[t].op # "none", NEW g,
         frame' = [frame EXCEPT ![t] = g]
  PROVE  /\ \A l : Shown(l) = {n \in Nodes : /\ Live(n) /\ l <= mem[n].levelHeight
                                             /\ ~Hides(frame[t], n, l)}
         /\ \A l : Shown(l)' = {n \in Nodes : /\ Live(n)' /\ l <= mem'[n].levelHeight
                                              /\ ~Hides(g, n, l)}
<1>1. ASSUME NEW n, NEW l
      PROVE  /\ Published(n, l) <=> l <= mem[n].levelHeight /\ ~Hides(frame[t], n, l)
             /\ Published(n, l)' <=> l <= mem'[n].levelHeight /\ ~Hides(g, n, l)
  <2>1. Published(n, l) <=> l <= mem[n].levelHeight /\ ~Hides(frame[t], n, l)
    BY OneBuilder DEF Hides
  <2>2. Published(n, l)' <=> l <= mem'[n].levelHeight /\ ~Hides(g, n, l)
    BY OneBuilderNext DEF Hides
  <2>3. QED
    BY <2>1, <2>2
<1>2. QED
  BY <1>1 DEF Shown

LEMMA UpdateFinds ==
  ASSUME FindInv, WalkInv', Watching, NEW t \in Threads, NEW f \in FrameType, CallOf(t, f),
         SetUpdates(t, f)
  PROVE  FindInv'
<1>1. f.op = "set" /\ f.at = "found" /\ frame[t] = f /\ SharedInv
  BY DEF SetUpdates, At, CallOf, FindInv, WalkInv
<1>2. t \in Writers /\ WriterOK(f) /\ ListOK /\ Shape(t, f) /\ LevelsOK
  <2>1. t \in Writers /\ WriterOK(f) /\ Shape(t, f)
    BY <1>1, WriterFacts DEF WriterOps
  <2>2. ~Clearing /\ ListOK
    BY <1>1, NoClear
  <2>3. QED
    BY <2>1, <2>2 DEF FindInv
<1>3. /\ mem' = [mem EXCEPT ![f.node].value = f.value, ![f.node].state = "NORMAL"]
      /\ allocated' = allocated /\ frame' = [frame EXCEPT ![t] = Idle]
  BY DEF SetUpdates, WriterReturns, Go
<1>4. Live(f.node) /\ MemType /\ f.node \in Nodes
  BY <1>1, <1>2 DEF WriterOK, SharedInv, Live
<1>5. \A r \in Nodes \cup {dummyHead} :
        /\ mem'[r].key = mem[r].key /\ mem'[r].levelHeight = mem[r].levelHeight
        /\ mem'[r].levelNext = mem[r].levelNext
  BY <1>3, <1>4 DEF MemType
<1>6. \A r : (Live(r)' <=> Live(r)) /\ (Live(r) => r \in Nodes)
  <2>1. (\A r \in Nodes : r # f.node => mem'[r] = mem[r]) /\ mem'[f.node].state = "NORMAL"
    BY <1>3, <1>4 DEF MemType
  <2>2. QED
    BY <1>1, <1>3, <1>4, <2>1 DEF Live, SharedInv
<1>7. \A n, l : ~Hides(f, n, l) /\ ~Hides(Idle, n, l)
  BY <1>1, <1>2 DEF Hides, Building, Idle, Shape
<1>8. \A l : Shown(l)' = Shown(l)
  <2>1. ASSUME NEW l
        PROVE  Shown(l)' = Shown(l)
    <3>1. f.op # "none"
      BY <1>1
    <3>2. Shown(l) = {r \in Nodes : Live(r) /\ l <= mem[r].levelHeight /\ ~Hides(f, r, l)}
      BY <1>1, <1>2, <1>3, <3>1, ShownBySet
    <3>3. Shown(l)' = {r \in Nodes : Live(r)' /\ l <= mem'[r].levelHeight /\ ~Hides(Idle, r, l)}
      BY <1>1, <1>2, <1>3, <3>1, ShownBySet
    <3>4. QED
      BY <1>5, <1>6, <1>7, <3>2, <3>3
  <2>2. QED
    BY <2>1
<1>9. LevelsOK'
  <2>1. \A l : \A p \in Nodes \cup {dummyHead} : next(p, l)' = next(p, l)
    BY <1>5 DEF next
  <2>2. \A l : Shown(l) \subseteq Nodes
    BY DEF Shown
  <2>3. \A n : Live(n) => mem'[n].key = mem[n].key
    BY <1>5, <1>6
  <2>4. QED
    BY <1>2, <1>8, <2>1, <2>2, <2>3, SameLevels
<1>10. BuildOK(Idle)' /\ Idle.op = "none"
  BY DEF BuildOK, Building, Idle
<1>11. QED
  BY <1>1, <1>2, <1>3, <1>5, <1>6, <1>8, <1>9, <1>10, SetFinds

LEMMA AllocationFinds ==
  ASSUME FindInv, WalkInv', Watching, NEW t \in Threads, NEW f \in FrameType, CallOf(t, f),
         SetAllocates(t, f)
  PROVE  FindInv'
<1>1. f.op = "set" /\ f.at = "missed" /\ frame[t] = f /\ SharedInv
  BY DEF SetAllocates, At, CallOf, FindInv, WalkInv
<1>2. t \in Writers /\ Shape(t, f) /\ WriterOK(f) /\ ListOK /\ LevelsOK /\ f.key \in Keys
  <2>1. t \in Writers /\ WriterOK(f) /\ Shape(t, f)
    BY <1>1, WriterFacts DEF WriterOps
  <2>2. ~Clearing /\ ListOK
    BY <1>1, NoClear
  <2>3. QED
    BY <1>1, <2>1, <2>2 DEF FindInv, Shape
<1>3. PICK n \in Nodes \ allocated, h \in Levels :
        /\ mem' = [mem EXCEPT ![n] = [EmptyNode EXCEPT !.key = f.key, !.value = f.value,
                                                       !.state = "NORMAL", !.levelHeight = h]]
        /\ allocated' = allocated \cup {n}
        /\ frame' = [frame EXCEPT ![t] = [f EXCEPT !.node = n, !.level = 0, !.at = "copy"]]
  <2>1. PICK n : n = CHOOSE m \in Nodes \ allocated : TRUE
    OBVIOUS
  <2>2. n \in Nodes \ allocated
    BY <1>1, <2>1 DEF SetAllocates, SharedInv
  <2>3. QED
    BY <2>1, <2>2 DEF SetAllocates, Go, RandomHeights
<1>4. PICK g : g = [f EXCEPT !.node = n, !.level = 0, !.at = "copy"]
  OBVIOUS
<1>5. g.op = f.op /\ g.at = "copy" /\ g.level = 0 /\ g.node = n /\ g.key = f.key /\ g.prev = f.prev
  BY <1>4 DEF FrameType
<1>6. /\ \A r \in Nodes \cup {dummyHead} : r # n => mem'[r] = mem[r]
      /\ \A l \in Levels : next(n, l)' = NULL
  <2>1. MemType
    BY <1>1 DEF SharedInv
  <2>2. QED
    BY <1>3, <2>1 DEF MemType, EmptyNode, next
<1>7. \A r : (Live(r) => r \in Nodes /\ r # n) /\ (r # n => (Live(r)' <=> Live(r)))
  BY <1>1, <1>3, <1>6 DEF Live, SharedInv
<1>8. \A r, l : ~Hides(f, r, l) /\ (Hides(g, r, l) <=> r = n /\ ~(l < 0))
  BY <1>1, <1>2, <1>5 DEF Hides, Building, Shape
<1>9. \A l \in Levels : Shown(l)' = Shown(l)
  <2>1. frame' = [frame EXCEPT ![t] = g] /\ f.op # "none"
    BY <1>1, <1>3, <1>4
  <2>2. ASSUME NEW l \in Levels
        PROVE  Shown(l)' = Shown(l)
    <3>1. ~(l < 0)
      BY Addresses
    <3>2. Shown(l) = {r \in Nodes : Live(r) /\ l <= mem[r].levelHeight}
      BY <1>1, <1>2, <1>8, <2>1, ShownBySet
    <3>3. Shown(l)' = {r \in Nodes : Live(r)' /\ l <= mem'[r].levelHeight /\ r # n}
      <4>1. Shown(l)' = {r \in Nodes : Live(r)' /\ l <= mem'[r].levelHeight /\ ~Hides(g, r, l)}
        BY <1>1, <1>2, <2>1, ShownBySet
      <4>2. QED
        BY <1>8, <3>1, <4>1
    <3>4. QED
      BY <1>6, <1>7, <3>2, <3>3
  <2>3. QED
    BY <2>2
<1>10. \A y : Live(y) => mem'[y].key = mem[y].key
  BY <1>6, <1>7
<1>11. LevelsOK'
  <2>1. \A l \in Levels : \A p \in Shown(l) \cup {dummyHead} : next(p, l)' = next(p, l)
    <3>1. dummyHead # n
      BY Addresses
    <3>2. QED
      BY <1>6, <1>7, <3>1 DEF Shown, next
  <2>2. \A l \in Levels : \A p \in Nodes \ Shown(l) :
          next(p, l)' \in Shown(l) \cup {next(p, l), dummyTail, NULL}
    BY <1>6 DEF next
  <2>3. QED
    BY <1>2, <1>9, <1>10, <2>1, <2>2, SameLevels
<1>12. BuildOK(g)'
  <2>1. AheadGreater(g)'
    <3>1. frame'[t] = g /\ WriterOK(frame[t])'
      BY <1>1, <1>2, <1>3, <1>4, TypeOfFrames DEF WalkInv, SharedInv
    <3>2. AheadGreater(frame[t])'
      BY <1>5, <3>1 DEF WriterOK
    <3>3. QED
      BY <3>1, <3>2 DEF AheadGreater, Ahead, link, next
  <2>2. f.level = 0 /\ Reached(f.prev, 0) /\ Behind(f) /\ AheadGreater(f)
    BY <1>1, <1>2 DEF WriterOK
  <2>3. Ahead(f) = next(f.prev, 0) /\ 0 \in Levels
    BY <2>2, LinkIsNext, Addresses DEF Ahead, FrameType
  <2>4. \A r \in Shown(0) : mem[r].key # f.key
    BY <1>1, <1>2, <2>2, <2>3, KeyAbsent DEF Behind, AheadGreater
  <2>5. \A r \in Shown(0)' : mem'[r].key # f.key
    BY <1>9, <1>10, <2>3, <2>4 DEF Shown
  <2>6. QED
    BY <1>5, <2>1, <2>5 DEF BuildOK
<1>13. QED
  <2>1. frame' = [frame EXCEPT ![t] = g] /\ Shown(0) \subseteq Shown(0)'
    BY <1>3, <1>4, <1>9, Addresses
  <2>2. QED
    BY <1>1, <1>2, <1>5, <1>10, <1>11, <1>12, <2>1, SetFinds

LEMMA CopyFinds ==
  ASSUME FindInv, WalkInv', Watching, NEW t \in Threads, NEW f \in FrameType, CallOf(t, f),
         SetCopies(t, f)
  PROVE  FindInv'
<1>1. f.op = "set" /\ f.at = "copy" /\ frame[t] = f /\ SharedInv /\ WalkInv
  BY DEF SetCopies, At, CallOf, FindInv, WalkInv
<1>2. t \in Writers /\ WriterOK(f) /\ ListOK /\ Building(f) /\ LevelsOK /\ BuildOK(f)
  <2>1. t \in Writers /\ WriterOK(f) /\ Building(f)
    BY <1>1, WriterFacts DEF WriterOps, Building
  <2>2. ~Clearing /\ ListOK
    BY <1>1, NoClear
  <2>3. QED
    BY <1>1, <2>1, <2>2 DEF FindInv
<1>3. PICK n, l, p, q : n = f.node /\ l = f.level /\ p = f.prev /\ q = link(f.prev, f.level)
  OBVIOUS
<1>4. PICK g : g = [f EXCEPT !.at = "publish"] /\ frame' = [frame EXCEPT ![t] = g]
  BY DEF SetCopies, Stores, Go
<1>5. /\ g.op = f.op /\ g.at = "publish" /\ g.level = l /\ g.node = n /\ g.prev = p
      /\ g.key = f.key
  BY <1>3, <1>4 DEF FrameType
<1>6. /\ Live(n) /\ n \in Nodes /\ l \in Levels /\ l \in Nat
      /\ p \in Nodes \cup {dummyHead} /\ p # n /\ Reached(p, l)
  BY <1>1, <1>2, <1>3, Addresses DEF WriterOK, Live, SharedInv, FrameType
<1>7. Target(q, l) /\ q \in Nodes \cup {dummyTail, NULL}
  BY <1>1, <1>2, <1>3, <1>6, AheadOfReached DEF Target, Live, SharedInv
<1>8. StoresLink(n, l, q) /\ allocated' = allocated
  BY <1>3 DEF SetCopies, Stores, StoresLink
<1>9. \A r \in Nodes \cup {dummyHead} :
        /\ mem'[r].key = mem[r].key /\ mem'[r].state = mem[r].state
        /\ mem'[r].levelHeight = mem[r].levelHeight
        /\ \A m \in Levels : next(r, m)' = IF r = n /\ m = l THEN q ELSE next(r, m)
  <2>1. PICK p1 \in Nodes \cup {dummyHead}, l1 \in Levels, q1 \in Nodes \cup {dummyTail, NULL} :
          p1 = n /\ l1 = l /\ q1 = q
    BY <1>6, <1>7
  <2>2. StoresLink(p1, l1, q1)
    BY <1>8, <2>1
  <2>3. \A r \in Nodes \cup {dummyHead} :
          /\ mem'[r].key = mem[r].key /\ mem'[r].state = mem[r].state
          /\ mem'[r].levelHeight = mem[r].levelHeight
          /\ \A m \in Levels : next(r, m)' = IF r = p1 /\ m = l1 THEN q1 ELSE next(r, m)
    BY <1>1, <2>2, OneLink
  <2>4. QED
    BY <2>1, <2>3
<1>10. \A y : (Live(y) => y \in Nodes) /\ (Live(y)' <=> Live(y))
  BY <1>1, <1>8, <1>9 DEF Live, SharedInv
<1>11. \A r, m : Hides(g, r, m) <=> Hides(f, r, m)
  BY <1>1, <1>3, <1>5 DEF Hides, Building
<1>12. ASSUME NEW m \in Levels
       PROVE  Shown(m)' = Shown(m)
  <2>1. frame[t].op # "none" /\ frame' = [frame EXCEPT ![t] = g]
    BY <1>1, <1>4
  <2>2. Shown(m) = {r \in Nodes : Live(r) /\ m <= mem[r].levelHeight /\ ~Hides(f, r, m)}
    BY <1>1, <1>2, <2>1, ShownBySet
  <2>3. Shown(m)' = {r \in Nodes : Live(r)' /\ m <= mem'[r].levelHeight /\ ~Hides(g, r, m)}
    BY <1>1, <1>2, <2>1, ShownBySet
  <2>4. QED
    BY <1>9, <1>10, <1>11, <2>2, <2>3
<1>13. n \notin Shown(l) /\ (q \in Shown(l) \/ q = dummyTail)
  <2>1. Hides(f, n, l)
    BY <1>1, <1>2, <1>3, <1>6 DEF Hides
  <2>2. n \notin Shown(l)
    BY <1>1, <1>2, <2>1, PublishedIs DEF Shown
  <2>3. QED
    BY <1>1, <1>7, <2>2, ShownIs
<1>14. \A y : Live(y) => mem'[y].key = mem[y].key
  BY <1>9, <1>10
<1>15. LevelsOK'
  <2>1. \A m \in Levels : \A r \in Shown(m) \cup {dummyHead} :
          next(r, m)' = next(r, m)
    BY <1>6, <1>9, <1>13, Addresses DEF Shown
  <2>2. \A m \in Levels : \A r \in Nodes \ Shown(m) :
          next(r, m)' \in Shown(m) \cup {next(r, m), dummyTail, NULL}
    BY <1>9, <1>13
  <2>3. QED
    BY <1>2, <1>12, <1>14, <2>1, <2>2, SameLevels
<1>16. BuildOK(g)'
  <2>1. link(p, l)' = q
    <3>1. link(p, l) = next(p, l) /\ p # dummyTail
      BY <1>6, LinkIsNext, Addresses
    <3>2. QED
      BY <1>3, <1>6, <1>9, <3>1 DEF link
  <2>2. Ahead(g)' = q
    BY <1>5, <2>1 DEF Ahead, link, next
  <2>3. q \in Nodes => f.key < mem'[q].key
    BY <1>1, <1>2, <1>3, <1>9 DEF BuildOK, AheadGreater, Ahead
  <2>4. AheadGreater(g)'
    BY <1>5, <2>2, <2>3 DEF AheadGreater
  <2>5. \A r \in Shown(0) \ {n} : mem'[r].key # f.key
    BY <1>2, <1>3, <1>9 DEF BuildOK, Shown
  <2>6. QED
    BY <1>5, <1>12, <2>4, <2>5, Addresses DEF BuildOK
<1>17. QED
  <2>1. Shown(0) \subseteq Shown(0)'
    BY <1>12, Addresses
  <2>2. QED
    BY <1>1, <1>2, <1>4, <1>5, <1>14, <1>15, <1>16, <2>1, SetFinds

\* A node n that is linked behind p on level l, the place of its key, leaves the level
\* ascending.
LEMMA LinkFollows ==
  ASSUME SharedInv, ListOK, LevelsOK, NEW l \in Levels, NEW n \in Nodes \ Shown(l), NEW p,
         p \in Shown(l) \cup {dummyHead}, Shown(l)' = Shown(l) \cup {n},
         \A r \in Shown(l) \cup {n} : mem'[r].key = mem[r].key,
         mem[n].key \in Nat,
         p # dummyHead => mem[p].key < mem[n].key,
         next(p, l) \in Nodes => mem[n].key < mem[next(p, l)].key,
         next(n, l)' = next(p, l), next(p, l)' = n,
         \A r \in Shown(l) \cup {dummyHead} : r # p => next(r, l)' = next(r, l),
         NEW r \in Shown(l)' \cup {dummyHead}
  PROVE  Follows(r, l)'
<1>1. /\ \A y \in Shown(l) : y \in Nodes /\ y # dummyHead /\ y # n /\ mem[y].key \in Nat
      /\ n # dummyHead /\ dummyTail \notin Nodes
  BY ShownIs, ShownNode, Addresses
<1>2. PICK q : q = next(p, l)
  OBVIOUS
<1>3. PICK k \in Nat : k = mem[n].key
  OBVIOUS
<1>4. Follows(p, l)
  BY DEF LevelsOK
<1>5. ASSUME NEW y \in Shown(l), NEW z
      PROVE  After(y, z) <=> z = dummyHead \/ mem[z].key < mem[y].key
  BY DEF After
<1>6. \A y \in Shown(l) : After(y, p) =>
        q \in Shown(l) /\ mem[q].key <= mem[y].key /\ k < mem[y].key
  BY <1>1, <1>2, <1>3, <1>4 DEF Follows
<1>7. q \in Shown(l) \/ (q = dummyTail /\ \A y \in Shown(l) : ~After(y, p))
  BY <1>2, <1>4 DEF Follows
<1>8. q \in Shown(l) => k < mem[q].key
  BY <1>1, <1>2, <1>3
<1>9. ASSUME NEW y \in Shown(l) \cup {n}, NEW z \in Shown(l) \cup {n, dummyHead}
      PROVE  After(y, z)' <=> After(y, z)
  BY <1>1 DEF After
<1>10. CASE r = p
  <2>1. After(n, p)
    BY DEF After
  <2>2. \A y \in Shown(l) \cup {n} : After(y, p) => mem[n].key <= mem[y].key
    BY <1>1, <1>3, <1>6
  <2>3. /\ n \in Shown(l)' /\ After(n, p)'
        /\ \A y \in Shown(l)' : After(y, p)' => mem'[n].key <= mem'[y].key
    BY <1>9, <2>1, <2>2
  <2>4. After(next(p, l), p)'
    BY <2>3 DEF After
  <2>5. QED
    BY <1>10, <2>3, <2>4 DEF Follows
<1>11. CASE r = n
  <2>1. \A y \in Shown(l) : After(y, n) => After(y, p)
    BY <1>1, <1>3 DEF After
  <2>2. ~After(n, n)
    BY <1>1, <1>3 DEF After
  <2>3. CASE q \in Shown(l)
    <3>1. After(q, n)
      BY <1>3, <1>8, <2>3 DEF After
    <3>2. \A y \in Shown(l) \cup {n} : After(y, n) => mem[q].key <= mem[y].key
      BY <1>6, <2>1, <2>2
    <3>3. /\ q \in Shown(l)' /\ After(q, n)'
          /\ \A y \in Shown(l)' : After(y, n)' => mem'[q].key <= mem'[y].key
      BY <1>9, <2>3, <3>1, <3>2
    <3>4. next(n, l)' = q /\ After(next(n, l), n)'
      BY <1>2, <3>3 DEF After
    <3>5. QED
      BY <1>11, <3>3, <3>4 DEF Follows
  <2>4. CASE q = dummyTail /\ \A y \in Shown(l) : ~After(y, p)
    <3>1. \A y \in Shown(l)' : ~After(y, n)'
      BY <1>9, <2>1, <2>2, <2>4
    <3>2. QED
      BY <1>2, <1>11, <2>4, <3>1 DEF Follows
  <2>5. QED
    BY <1>7, <2>3, <2>4
<1>12. CASE r # p /\ r # n
  <2>1. r \in Shown(l) \cup {dummyHead} /\ Follows(r, l)
    BY <1>12 DEF LevelsOK
  <2>2. PICK s : s = next(r, l) /\ s = next(r, l)'
    BY <1>12, <2>1
  <2>3. After(n, r) => p \in Shown(l) /\ After(p, r)
    <3>1. SUFFICES ASSUME After(n, r), ~(p \in Shown(l) /\ After(p, r))
                   PROVE  FALSE
      OBVIOUS
    <3>2. CASE r = dummyHead
      BY <1>12, <3>1, <3>2 DEF After
    <3>3. CASE r # dummyHead
      <4>1. r \in Shown(l) /\ mem[r].key < k /\ mem[r].key \in Nat
        BY <1>1, <1>3, <2>1, <3>1, <3>3 DEF After
      <4>2. ~After(r, p)
        BY <1>3, <1>6, <4>1
      <4>3. p \in Shown(l) /\ mem[p].key \in Nat /\ ~(mem[p].key < mem[r].key)
        BY <1>1, <4>2 DEF After
      <4>4. mem[p].key # mem[r].key
        <5>1. p \in Shown(0) /\ r \in Shown(0)
          BY <4>1, <4>3, ShownNode
        <5>2. QED
          BY <1>12, <5>1 DEF LevelsOK
      <4>5. mem[r].key < mem[p].key
        BY <4>1, <4>3, <4>4
      <4>6. QED
        BY <3>1, <3>3, <4>2, <4>3, <4>5 DEF After
    <3>4. QED
      BY <3>2, <3>3
  <2>4. CASE s = dummyTail /\ \A y \in Shown(l) : ~After(y, r)
    <3>1. \A y \in Shown(l)' : ~After(y, r)'
      BY <1>9, <2>1, <2>3, <2>4
    <3>2. QED
      BY <2>2, <2>4, <3>1 DEF Follows
  <2>5. CASE /\ s \in Shown(l) /\ After(s, r)
             /\ \A y \in Shown(l) : After(y, r) => mem[s].key <= mem[y].key
    <3>1. After(n, r) => mem[s].key <= mem[n].key
      <4>1. SUFFICES ASSUME After(n, r)
                     PROVE  mem[s].key <= k
        BY <1>3
      <4>2. p \in Shown(l) /\ mem[s].key <= mem[p].key /\ mem[p].key < k
        BY <1>1, <1>3, <2>3, <2>5, <4>1
      <4>3. QED
        BY <1>1, <2>5, <4>2
    <3>2. /\ s \in Shown(l)' /\ After(s, r)'
          /\ \A y \in Shown(l)' : After(y, r)' => mem'[s].key <= mem'[y].key
      BY <1>9, <2>1, <2>5, <3>1
    <3>3. After(next(r, l), r)'
      BY <2>2, <3>2 DEF After
    <3>4. QED
      BY <2>2, <3>2, <3>3 DEF Follows
  <2>6. QED
    BY <2>1, <2>2, <2>4, <2>5 DEF Follows
<1>13. QED
  BY <1>10, <1>11, <1>12

LEMMA PublishFinds ==
  ASSUME FindInv, WalkInv', Watching, NEW t \in Threads, NEW f \in FrameType, CallOf(t, f),
         SetPublishes(t, f)
  PROVE  FindInv'
<1>1. f.op = "set" /\ f.at = "publish" /\ frame[t] = f /\ SharedInv /\ WalkInv
  BY DEF SetPublishes, At, CallOf, FindInv, WalkInv
<1>2. /\ t \in Writers /\ WriterOK(f) /\ ListOK /\ Building(f) /\ LevelsOK /\ BuildOK(f)
      /\ InPlace(f) /\ Shape(t, f)
  <2>1. t \in Writers /\ WriterOK(f) /\ Building(f) /\ Shape(t, f)
    BY <1>1, WriterFacts DEF WriterOps, Building
  <2>2. ~Clearing /\ ListOK
    BY <1>1, NoClear
  <2>3. QED
    BY <1>1, <2>1, <2>2 DEF FindInv, WalkInv
<1>3. PICK n, l, p, q : n = f.node /\ l = f.level /\ p = f.prev /\ q = next(p, l)
  OBVIOUS
<1>4. PICK g : g = Beyond(f) /\ frame' = [frame EXCEPT ![t] = g]
  BY DEF SetPublishes, Stores, Go, Beyond
<1>5. /\ Live(n) /\ n \in Nodes /\ l \in Levels /\ l \in Nat /\ l <= mem[n].levelHeight
      /\ p \in Nodes \cup {dummyHead} /\ p # n /\ Reached(p, l)
      /\ mem[n].key = f.key /\ f.key \in Nat
      /\ p # dummyHead => mem[p].key < f.key
  BY <1>1, <1>2, <1>3, Addresses DEF WriterOK, Live, SharedInv, FrameType, Shape, Behind
<1>6. /\ g \in FrameType /\ g.op = f.op /\ g.node = n /\ g.key = f.key
      /\ \/ l = mem[n].levelHeight /\ g.at = "count"
         \/ /\ l + 1 <= mem[n].levelHeight /\ g.level = l + 1
            /\ g.at = "walk" /\ g.doing = "climb"
         \/ /\ l + 1 <= mem[n].levelHeight /\ g.level = l + 1
            /\ g.at = "copy" /\ g.prev = p
  <2>1. f.node \in Nodes
    BY <1>3, <1>5
  <2>2. QED
    BY <1>1, <1>2, <1>3, <1>4, <2>1, AfterPublish
<1>7. link(p, l) = q /\ next(n, l) = q /\ (q \in Nodes => f.key < mem[q].key)
  <2>1. link(p, l) = q
    BY <1>3, <1>5, LinkIsNext
  <2>2. QED
    BY <1>1, <1>2, <1>3, <2>1 DEF InPlace, BuildOK, AheadGreater, Ahead
<1>8. StoresLink(p, l, n) /\ allocated' = allocated
  BY <1>3 DEF SetPublishes, Stores, StoresLink
<1>9. \A r \in Nodes \cup {dummyHead} :
        /\ mem'[r].key = mem[r].key /\ mem'[r].state = mem[r].state
        /\ mem'[r].levelHeight = mem[r].levelHeight
        /\ \A m \in Levels : next(r, m)' = IF r = p /\ m = l THEN n ELSE next(r, m)
  <2>1. PICK p1 \in Nodes \cup {dummyHead}, l1 \in Levels, n1 \in Nodes \cup {dummyTail, NULL} :
          p1 = p /\ l1 = l /\ n1 = n
    BY <1>5
  <2>2. StoresLink(p1, l1, n1)
    BY <1>8, <2>1
  <2>3. \A r \in Nodes \cup {dummyHead} :
          /\ mem'[r].key = mem[r].key /\ mem'[r].state = mem[r].state
          /\ mem'[r].levelHeight = mem[r].levelHeight
          /\ \A m \in Levels : next(r, m)' = IF r = p1 /\ m = l1 THEN n1 ELSE next(r, m)
    BY <1>1, <2>2, OneLink
  <2>4. QED
    BY <2>1, <2>3
<1>10. \A y : (Live(y) => y \in Nodes) /\ (Live(y)' <=> Live(y))
  BY <1>1, <1>8, <1>9 DEF Live, SharedInv
<1>11. \A y : Live(y) => mem'[y].key = mem[y].key
  BY <1>9, <1>10
<1>12. mem[n].levelHeight \in Nat
  BY <1>1, <1>5, NodeFields, Addresses DEF SharedInv
<1>13. \A m \in Levels : Shown(m)' = IF m = l THEN Shown(l) \cup {n} ELSE Shown(m)
  <2>1. ASSUME NEW m \in Levels
        PROVE  Shown(m)' = IF m = l THEN Shown(l) \cup {n} ELSE Shown(m)
    <3>1. frame[t].op # "none" /\ frame' = [frame EXCEPT ![t] = g] /\ m \in Nat
      BY <1>1, <1>4, Addresses
    <3>2. Shown(m) = {r \in Nodes : Live(r) /\ m <= mem[r].levelHeight /\ ~Hides(f, r, m)}
      BY <1>1, <1>2, <3>1, ShownBySet
    <3>3. Shown(m)' = {r \in Nodes : Live(r)' /\ m <= mem'[r].levelHeight /\ ~Hides(g, r, m)}
      BY <1>1, <1>2, <3>1, ShownBySet
    <3>4. \A r : Hides(f, r, m) <=> r = n /\ ~(m < l)
      BY <1>1, <1>2, <1>3 DEF Hides
    <3>5. \A r : /\ r # n => ~Hides(g, r, m)
                 /\ m <= mem[n].levelHeight /\ ~Hides(g, n, m) <=> m <= l
      <4>1. g.at = "copy" \/ g.at = "walk" =>
              (Building(g) <=> g.op = "set" /\ (g.at = "copy" \/ g.doing = "climb"))
        BY DEF Building
      <4>2. CASE g.at = "count"
        BY <1>6, <4>2 DEF Hides
      <4>3. CASE g.at # "count"
        <5>1. Building(g) /\ g.level = l + 1 /\ l + 1 <= mem[n].levelHeight
          BY <1>1, <1>6, <4>3 DEF Building
        <5>2. \A r : Hides(g, r, m) <=> r = n /\ ~(m < l + 1)
          BY <1>6, <4>3, <5>1 DEF Hides
        <5>3. QED
          BY <1>5, <1>12, <3>1, <5>1, <5>2
      <4>4. QED
        BY <4>2, <4>3
    <3>6. QED
      BY <1>5, <1>9, <1>10, <1>12, <3>1, <3>2, <3>3, <3>4, <3>5
  <2>2. QED
    BY <2>1
<1>14. n \notin Shown(l)
  <2>1. Hides(f, n, l)
    BY <1>1, <1>2, <1>3, <1>5 DEF Hides
  <2>2. QED
    BY <1>1, <1>2, <2>1, PublishedIs DEF Shown
<1>15. p \in Shown(l) \cup {dummyHead}
  BY <1>1, <1>5, ShownIs
<1>16. \A r \in Shown(0) \ {n} : mem[r].key # f.key
  BY <1>2, <1>3 DEF BuildOK
<1>17. LevelsOK'
  <2>1. ASSUME NEW y, NEW z, y \in Shown(0)', z \in Shown(0)', mem'[y].key = mem'[z].key
        PROVE  y = z
    <3>1. y \in Shown(0) \cup {n} /\ z \in Shown(0) \cup {n}
      BY <1>13, <2>1, Addresses
    <3>2. mem[y].key = mem[z].key
      BY <1>5, <1>9, <2>1, <3>1 DEF Shown
    <3>3. QED
      BY <1>2, <1>5, <1>16, <3>1, <3>2 DEF LevelsOK
  <2>2. ASSUME NEW m \in Levels, NEW r, r \in Shown(m)' \cup {dummyHead}
        PROVE  Follows(r, m)'
    <3>1. CASE m = l
      <4>1. Shown(l)' = Shown(l) \cup {n} /\ \A y \in Shown(l) \cup {n} : mem'[y].key = mem[y].key
        BY <1>5, <1>9, <1>13 DEF Shown
      <4>2. next(n, l)' = next(p, l) /\ next(p, l)' = n
        BY <1>3, <1>5, <1>7, <1>9
      <4>3. \A y \in Shown(l) \cup {dummyHead} : y # p => next(y, l)' = next(y, l)
        BY <1>5, <1>9 DEF Shown
      <4>4. /\ p # dummyHead => mem[p].key < mem[n].key
            /\ next(p, l) \in Nodes => mem[n].key < mem[next(p, l)].key
        BY <1>3, <1>5, <1>7
      <4>5. PICK s : s = r
        OBVIOUS
      <4>6. Follows(s, l)'
        BY <1>1, <1>2, <1>5, <1>14, <1>15, <2>2, <3>1, <4>1, <4>2, <4>3, <4>4, <4>5, LinkFollows
      <4>7. QED
        BY <3>1, <4>5, <4>6
    <3>2. CASE m # l
      <4>1. Shown(m)' = Shown(m) /\ r \in Shown(m) \cup {dummyHead} /\ Follows(r, m)
        BY <1>2, <1>13, <2>2, <3>2 DEF LevelsOK
      <4>2. next(r, m)' = next(r, m) /\ \A y \in Shown(m) : mem'[y].key = mem[y].key
        BY <1>9, <3>2, <4>1 DEF Shown
      <4>3. QED
        BY <4>1, <4>2, SameFollows
    <3>3. QED
      BY <3>1, <3>2
  <2>3. ASSUME NEW m \in Levels, NEW r \in Nodes, r \notin Shown(m)'
        PROVE  next(r, m)' \in Shown(m)' \cup {dummyTail, NULL}
    <3>1. r \notin Shown(m) /\ Shown(m) \subseteq Shown(m)' /\ (m = l => r # n)
      BY <1>13, <2>3
    <3>2. next(r, m)' = next(r, m)
      <4>1. ~(r = p /\ m = l)
        BY <1>15, <2>3, <3>1, Addresses
      <4>2. QED
        BY <1>9, <4>1
    <3>3. QED
      BY <1>2, <3>1, <3>2 DEF LevelsOK
  <2>4. QED
    BY <2>1, <2>2, <2>3 DEF LevelsOK
<1>18. Shown(0)' \subseteq Shown(0) \cup {n} /\ Shown(0) \subseteq Shown(0)'
  BY <1>13, Addresses
<1>19. BuildOK(g)'
  <2>1. \A r \in Shown(0)' \ {n} : mem'[r].key # f.key
    BY <1>9, <1>16, <1>18 DEF Shown
  <2>2. ASSUME g.at = "copy"
        PROVE  AheadGreater(g)'
    <3>1. g.level = l + 1 /\ g.prev = p /\ l + 1 \in Levels /\ l < l + 1 /\ l <= l + 1 /\ l # l + 1
      BY <1>5, <1>6, <2>2 DEF FrameType
    <3>2. PICK m \in Levels : m = l + 1
      BY <3>1
    <3>3. p = dummyHead \/ p \in Shown(m)
      <4>1. frame'[t] = g /\ WriterOK(frame[t])'
        BY <1>1, <1>2, <1>4, TypeOfFrames DEF WalkInv, SharedInv
      <4>2. Reached(p, m)'
        BY <2>2, <3>1, <3>2, <4>1 DEF WriterOK, Reached, Live, Published
      <4>3. p = dummyHead \/ p \in Shown(m)'
        BY <1>5, <4>2 DEF Reached, Shown
      <4>4. QED
        BY <1>13, <3>1, <3>2, <4>3
    <3>4. PICK s : s = next(p, m)
      OBVIOUS
    <3>5. Ahead(g)' = s
      <4>1. p # dummyTail /\ next(p, m)' = s
        BY <1>5, <1>9, <3>1, <3>2, <3>4, Addresses
      <4>2. QED
        BY <3>1, <3>2, <4>1 DEF Ahead, link, next
    <3>6. ASSUME s \in Nodes
          PROVE  f.key < mem[s].key
      <4>1. Follows(p, m) /\ Follows(p, l)
        BY <1>2, <1>5, <1>15, <3>3 DEF LevelsOK
      <4>2. s \in Shown(m) /\ After(s, p)
        BY <3>4, <3>6, <4>1, Addresses DEF Follows
      <4>3. s \in Shown(l)
        BY <1>1, <1>2, <1>5, <3>1, <3>2, <4>2, ShownBelow
      <4>4. q \in Shown(l) /\ mem[q].key <= mem[s].key
        BY <1>3, <4>1, <4>2, <4>3 DEF Follows
      <4>5. mem[q].key \in Nat /\ q \in Nodes /\ mem[s].key \in Nat
        BY <1>1, <1>2, <1>5, <4>3, <4>4, ShownNode
      <4>6. QED
        BY <1>5, <1>7, <4>4, <4>5
    <3>7. QED
      BY <1>6, <1>9, <3>5, <3>6 DEF AheadGreater
  <2>3. g.at # "publish"
    BY <1>6
  <2>4. QED
    BY <1>6, <2>1, <2>2, <2>3 DEF BuildOK
<1>20. g.op \notin {"delete", "clear"}
  BY <1>1, <1>6
<1>21. QED
  BY <1>1, <1>2, <1>4, <1>11, <1>17, <1>18, <1>19, <1>20, SetFinds

\* Clear is alone, and leaves an empty list.
LEMMA ClearFinds ==
  ASSUME FindInv, WalkInv', NEW t \in Threads, NEW f \in FrameType, CallOf(t, f),
         ClearStep(t, f)
  PROVE  FindInv'
<1>1. f.op = "clear" /\ frame[t] = f /\ SharedInv
  BY DEF ClearStep, ClearPops, ClearUnlinks, ClearFrees, ClearZeroes, ClearResets, At, CallOf,
         FindInv, WalkInv
<1>2. t \in Writers /\ t \notin Readers
  BY <1>1, WriterFacts DEF WriterOps
<1>3. PICK g : /\ frame' = [frame EXCEPT ![t] = g]
               /\ \/ g = Idle
                  \/ g.op = "clear" /\ g.at \in {"reset", "unhead", "free", "pop", "heads"}
               /\ g = Idle => ClearResets(t, f)
  <2>1. CASE ClearPops(t, f)
    <3>1. PICK a : a = IF next(dummyHead, 0) = dummyTail THEN "reset" ELSE "unhead"
      OBVIOUS
    <3>2. PICK g : /\ g = [f EXCEPT !.node = next(dummyHead, 0), !.at = a]
                   /\ frame' = [frame EXCEPT ![t] = g]
      BY <2>1, <3>1 DEF ClearPops, Reads, Go
    <3>3. g.op = "clear" /\ g.at = a
      BY <1>1, <3>2 DEF FrameType
    <3>4. g # Idle /\ a \in {"reset", "unhead"}
      BY <3>1, <3>3 DEF Idle
    <3>5. g.op = "clear" /\ g.at \in {"reset", "unhead", "free", "pop", "heads"}
      BY <3>3, <3>4
    <3>6. frame' = [frame EXCEPT ![t] = g]
      BY <3>2
    <3>7. QED
      BY <3>4, <3>5, <3>6
  <2>2. CASE ClearUnlinks(t, f) \/ ClearFrees(t, f) \/ ClearZeroes(t, f)
    <3>1. PICK g : /\ frame' = [frame EXCEPT ![t] = g]
                   /\ \E a \in {"free", "pop", "heads"} : g = [f EXCEPT !.at = a]
      BY <2>2 DEF ClearUnlinks, ClearFrees, ClearZeroes, Stores, Go
    <3>2. g.op = "clear" /\ g.at \in {"free", "pop", "heads"}
      BY <1>1, <3>1 DEF FrameType
    <3>3. g # Idle
      BY <3>2 DEF Idle
    <3>4. QED
      BY <3>1, <3>2, <3>3
  <2>3. CASE ClearResets(t, f)
    BY <2>3 DEF ClearResets, WriterReturns, Go
  <2>4. QED
    BY <2>1, <2>2, <2>3 DEF ClearStep
<1>4. \A u \in Threads : frame'[u] = IF u = t THEN g ELSE Idle
  BY <1>1, <1>2, <1>3, TypeOfFrames DEF SharedInv, Exclusion, Threads
<1>5. Idle.op = "none" /\ Idle.at = "idle"
  BY DEF Idle
<1>6. ASSUME NEW u \in Writers
      PROVE  BuildOK(frame[u])' /\ frame'[u].op # "delete"
  <2>1. u \in Threads
    BY DEF Threads
  <2>2. PICK h : h = frame'[u] /\ h.op \in {"none", "clear"} /\ h.at \notin {"copy", "publish"}
    BY <1>3, <1>4, <1>5, <2>1
  <2>3. QED
    BY <2>2 DEF BuildOK, Building
<1>7. \A u \in Readers : GetOK(frame[u], watch[u])'
  BY <1>2, <1>4, <1>5 DEF GetOK, Threads
<1>8. CASE g # Idle
  <2>1. frame'[t].op = "clear"
    BY <1>2, <1>3, <1>4, <1>8 DEF Threads
  <2>2. Clearing'
    BY <1>2, <2>1 DEF Clearing
  <2>3. QED
    BY <1>6, <1>7, <2>2 DEF FindInv
<1>9. CASE g = Idle
  <2>1. ClearResets(t, f)
    BY <1>3, <1>9
  <2>2. \A u \in Threads \ {t} : frame[u] = Idle
    BY <1>1, <1>2 DEF SharedInv, Exclusion, Threads
  <2>3. (\A r \in Nodes : mem'[r] = EmptyNode) /\ mem'[dummyHead] = EmptyHead
    BY <1>1, <2>1, <2>2, Addresses DEF ClearResets, MemType, SharedInv, ClearedHead
  <2>4. \A l : Shown(l)' = {}
    BY <2>3 DEF Shown, Live, EmptyNode
  <2>5. \A l \in Levels : next(dummyHead, l)' = dummyTail /\ \A r \in Nodes : next(r, l)' = NULL
    BY <2>3 DEF next, EmptyNode, EmptyHead
  <2>6. LevelsOK'
    BY <2>4, <2>5 DEF LevelsOK, Follows
  <2>7. QED
    BY <1>6, <1>7, <2>6 DEF FindInv
<1>10. QED
  BY <1>8, <1>9

-----------------------------------------------------------------------------
(* Calls, and the theorem.                                                   *)

LEMMA CallFinds ==
  ASSUME NoDeletes, FindInv, WalkInv', Watching,
         NEW t \in Threads, NEW op, NEW k, NEW v, Call(t, op, k, v)
  PROVE  FindInv'
<1>1. PICK g : /\ g = [Idle EXCEPT !.op = op, !.at = Entry(op), !.key = k, !.value = v,
                                   !.level = LIST_HEIGHT - 1]
               /\ frame' = [frame EXCEPT ![t] = g]
  BY DEF Call, Go
<1>2. frame[t] = Idle /\ mem' = mem /\ allocated' = allocated /\ op \in TableOps
  BY DEF Call, listVars, Calls
<1>3. g.op = op /\ g.at = Entry(op) /\ g.doing = "search" /\ g.prev = dummyHead /\ g.op # "delete"
  BY <1>1, <1>2 DEF Idle, NoDeletes
<1>4. Entry(op) \in {"pop", "begin", "walk"}
  BY DEF Entry, Walks
<1>5. BuildOK(g) /\ \A p, l : ~Hides(g, p, l) /\ ~Hides(Idle, p, l)
  BY <1>3, <1>4 DEF BuildOK, Hides, Building, Idle
<1>6. ASSUME t \in Readers
      PROVE  GetOK(g, watch'[t])
  <2>1. SUFFICES ASSUME g.op = "get"
                 PROVE  GetOK(g, watch'[t])
    BY DEF GetOK
  <2>2. frame'[t] = g
    BY <1>1, TypeOfFrames DEF FindInv, WalkInv, SharedInv
  <2>3. MemLookup(mem', g.key) \in watch'[t]
    BY <1>2, <1>6, <2>1, <2>2, WatchOfGet
  <2>4. Lookup(g.key) \in watch'[t]
    BY <1>2, <2>3, LookupOfMem
  <2>5. QED
    BY <1>3, <1>4, <2>4 DEF GetOK, Behind
<1>7. \A n : Live(n)' <=> Live(n)
  BY <1>2 DEF Live
<1>8. Idle.op = "none"
  BY DEF Idle
<1>9. QED
  BY <1>1, <1>2, <1>3, <1>5, <1>6, <1>7, <1>8, QuietFinds

LEMMA FindsBegin == SharedInit => FindInv
<1> SUFFICES ASSUME SharedInit
             PROVE  FindInv
  OBVIOUS
<1>1. WalkInv
  BY WalksBegin
<1>2. /\ mem = [p \in Nodes \cup {dummyHead} |-> IF p = dummyHead THEN EmptyHead ELSE EmptyNode]
      /\ frame = [t \in Threads |-> Idle]
  BY DEF SharedInit, ListInit
<1>3. (\A r \in Nodes : mem[r] = EmptyNode) /\ mem[dummyHead] = EmptyHead
  BY <1>2, Addresses
<1>4. \A l : Shown(l) = {}
  BY <1>3 DEF Shown, Live, EmptyNode
<1>5. \A l \in Levels : next(dummyHead, l) = dummyTail /\ \A r \in Nodes : next(r, l) = NULL
  BY <1>3 DEF next, EmptyNode, EmptyHead
<1>6. LevelsOK
  BY <1>4, <1>5 DEF LevelsOK, Follows
<1>7. \A t \in Threads : frame[t].op = "none" /\ frame[t].at = "idle"
  BY <1>2 DEF Idle
<1>8. QED
  BY <1>1, <1>6, <1>7 DEF FindInv, GetOK, BuildOK, Building, Threads

LEMMA FindsGoOn ==
  ASSUME FindInv, NoDeletes, CallersExclude, [SharedNext]_sharedVars
  PROVE  FindInv'
<1>1. WalkInv /\ SharedInv /\ WalkInv'
  BY WalksGoOn DEF FindInv, WalkInv
<1>2. CASE UNCHANGED sharedVars
  <2>1. mem' = mem /\ allocated' = allocated /\ frame' = frame /\ watch' = watch
    BY <1>2 DEF sharedVars, listVars
  <2>2. /\ \A l : Shown(l)' = Shown(l)
        /\ \A p, l : next(p, l)' = next(p, l)
        /\ \A p, n : After(n, p)' <=> After(n, p)
    BY <2>1 DEF Shown, Live, Published, next, After
  <2>3. LevelsOK => LevelsOK'
    BY <2>1, <2>2 DEF LevelsOK, Follows
  <2>4. ASSUME NEW u \in Writers
        PROVE  BuildOK(frame[u])' /\ frame'[u].op # "delete"
    BY <2>1, <2>2 DEF FindInv, BuildOK, AheadGreater, Ahead, link, Building
  <2>5. ASSUME NEW u \in Readers
        PROVE  GetOK(frame[u], watch[u])'
    BY <2>1, <2>2, LookupOfMem DEF FindInv, GetOK, Behind
  <2>6. QED
    BY <1>1, <2>1, <2>3, <2>4, <2>5 DEF FindInv, Clearing
<1>3. CASE SharedNext
  <2>1. PICK t \in Threads : Calling(t) \/ Step(t, frame[t])
    BY <1>3 DEF SharedNext
  <2>2. Watching
    BY <1>3 DEF SharedNext, Watching
  <2>3. CASE Calling(t)
    <3>1. PICK op, k, v : Call(t, op, k, v)
      BY <2>3 DEF Calling
    <3>2. QED
      BY <1>1, <2>2, <3>1, CallFinds
  <2>4. CASE Step(t, frame[t])
    <3>1. PICK f \in FrameType : f = frame[t]
      BY <1>1, TypeOfFrames DEF SharedInv
    <3>2. Step(t, f) /\ CallOf(t, f)
      BY <2>4, <3>1 DEF CallOf
    <3>3. CASE SetStep(t, f)
      BY <1>1, <2>2, <3>2, <3>3, UpdateFinds, AllocationFinds, CopyFinds, PublishFinds,
         ReadFinds DEF SetStep
    <3>4. ~DeleteStep(t, f)
      <4>1. f.op # "delete"
        BY <1>1, <3>1, <3>2, FrameFacts DEF FindInv, Threads, WriterOps
      <4>2. f.doing = "unlink" /\ f.at = "walk" => f.op = "delete"
        BY <1>1, <3>2, FrameFacts, AtSearch DEF Shape
      <4>3. QED
        BY <3>1, <4>1, <4>2 DEF DeleteStep, DeleteMisses, DeleteHits, DeleteTests, UnlinkStops,
           Stops, DeleteCuts, DeleteCounts, At
    <3>5. CASE ClearStep(t, f)
      BY <1>1, <3>2, <3>5, ClearFinds
    <3>6. CASE \/ Fault(t, f) \/ Forward(t, f) \/ SearchStops(t, f) \/ GetEnds(t, f)
               \/ ReaderReturns(t, f) \/ WalkStep(t, f)
      BY <1>1, <2>2, <3>2, <3>6, ReadFinds
    <3>7. QED
      BY <3>2, <3>3, <3>4, <3>5, <3>6 DEF Step
  <2>5. QED
    BY <2>1, <2>3, <2>4
<1>4. QED
  BY <1>2, <1>3

\* A Get that overlaps other calls answers with a value that a Get alone would have given
\* at some moment since its call, however far the writer has linked its node.
THEOREM GetsAnswerTruly == NoDeletes /\ CallersExclude => (SharedSpec => []GetAnswersTruly)
<1> SUFFICES ASSUME NoDeletes, CallersExclude
             PROVE  SharedSpec => []GetAnswersTruly
  OBVIOUS
<1>1. SharedInit => FindInv
  BY FindsBegin
<1>2. FindInv /\ [SharedNext]_sharedVars => FindInv'
  BY FindsGoOn
<1>3. FindInv => GetAnswersTruly
  BY DEF FindInv, GetOK, GetAnswersTruly, At
<1>4. QED
  BY <1>1, <1>2, <1>3, PTL DEF SharedSpec

====
