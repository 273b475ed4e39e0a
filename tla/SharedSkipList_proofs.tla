----------------------- MODULE SharedSkipList_proofs -----------------------
(***************************************************************************)
(* The shared skip list for any number of readers, keys, nodes and levels, *)
(* Deletes included: what a thread finds wherever it is inside a list that *)
(* a writer is changing.                                                   *)
(***************************************************************************)
EXTENDS SharedSkipList, FiniteSetTheorems, TLAPS

\* What the callers have to see to: calls that change the list exclude each other,
\* and a Clear excludes every other call, since it frees nodes.
WriterOps == {"set", "delete", "clear"}
ReaderOps == {"get"} \cup Walks

CallersExclude ==
  /\ \A t, u \in Writers : t # u => \A op, op2 \in WriterOps : {op, op2} \in Conflicts
  /\ \A op \in ReaderOps : {"clear", op} \in Conflicts

-----------------------------------------------------------------------------
(* The inductive invariant.                                                  *)

MemType ==
  mem \in [Nodes \cup {dummyHead} ->
             [levelNext : [Levels -> Nodes \cup {dummyTail, NULL}], levelHeight : Levels,
              key : Keys \cup {NULL}, value : Values \cup {NULL}, state : NodeStates]]

\* A node that a Set has filled and no Clear has freed.
Live(p) == p \in allocated /\ mem[p].state = "NORMAL"

\* A Set that has a node, which it links level by level: it copies the link of prev
\* into the node, then publishes the node in prev.
Building(f) == f.op = "set" /\ (f.at \in {"copy", "publish", "count"} \/ f.doing = "climb")

Filled(p, l) ==
  /\ l <= mem[p].levelHeight
  /\ \A t \in Writers : Building(frame[t]) /\ frame[t].node = p =>
       frame[t].at = "count" \/ l < frame[t].level \/ (l = frame[t].level /\ frame[t].at = "publish")

Published(p, l) ==
  /\ l <= mem[p].levelHeight
  /\ \A t \in Writers : Building(frame[t]) /\ frame[t].node = p =>
       frame[t].at = "count" \/ l < frame[t].level

\* Where a search may be on level l, and what may be behind a link of level l.
Reached(p, l) == p = dummyHead \/ (Live(p) /\ Published(p, l))
Target(q, l) == q = dummyTail \/ (Live(q) /\ Published(q, l))

\* On every level that is filled, a link leads to the tail or to a node published on
\* that level; above its height a node has no links; level 0 ascends.  This is true
\* of the nodes that Delete has unlinked, or has left linked, as well.
HeadOK ==
  /\ mem[dummyHead].levelHeight = LIST_HEIGHT - 1
  /\ \A l \in Levels : Target(next(dummyHead, l), l)

NodeOK(p) ==
  /\ mem[p].key \in Keys
  /\ \A l \in Levels : /\ Filled(p, l) => Target(next(p, l), l)
                       /\ l > mem[p].levelHeight => next(p, l) = NULL
  /\ Filled(p, 0) /\ next(p, 0) \in Nodes => mem[p].key < mem[next(p, 0)].key

ListOK == HeadOK /\ \A p \in Nodes : Live(p) => NodeOK(p)

\* Which places an operation has.
Shape(t, f) ==
  /\ f.op = "none" => f = Idle
  /\ f.op # "none" => f.op \in OpsOf(t)
  /\ f.op = "get" => f.at \in {"walk", "found", "missed", "return"} /\ f.doing = "search"
  /\ f.op \in Walks => f.at \in {"begin", "visit", "next", "return"}
  /\ f.op = "set" =>
       \/ f.doing = "search" /\ f.at \in {"walk", "found", "missed", "copy", "publish", "count"}
       \/ f.doing = "climb" /\ f.at \in {"walk", "copy", "publish", "count"}
  /\ f.op = "delete" =>
       \/ f.doing = "search" /\ f.at \in {"walk", "found", "missed"}
       \/ f.doing = "unlink" /\ f.at \in {"walk", "test", "cut", "uncount"}
  /\ f.op = "clear" => f.at \in {"pop", "unhead", "free", "reset", "heads"}
  /\ f.op \in {"get", "set", "delete"} => f.key \in Keys

\* prev is the head or has a smaller key.
Behind(f) == f.prev # dummyHead => mem[f.prev].key < f.key

\* What is ahead of prev has a greater key.
AheadGreater(f) == Ahead(f) \in Nodes => f.key < mem[Ahead(f)].key

ReaderOK(f) ==
  /\ f.at = "walk" => Reached(f.prev, f.level)
  /\ f.at = "found" => Live(f.node)
  /\ f.op = "iterate" /\ f.at = "visit" => Target(f.node, 0)
  /\ f.op = "print" /\ f.at = "visit" => f.node = NULL \/ Target(f.node, 0)
  /\ f.at = "begin" => f.seen = << >>
  /\ f.at = "next" => Target(f.node, 0)
  /\ f.op = "iterate" =>
       /\ f.at = "next" => f.node # dummyTail
       /\ \A i \in DOMAIN f.seen : f.seen[i] \in Keys
       /\ \A i, j \in DOMAIN f.seen : i < j => f.seen[i] < f.seen[j]
       /\ f.at = "visit" /\ f.node # dummyTail => \A i \in DOMAIN f.seen : f.seen[i] < mem[f.node].key
       /\ f.at = "next" => \A i \in DOMAIN f.seen : f.seen[i] <= mem[f.node].key

WriterOK(f) ==
  /\ f.at = "walk" /\ f.doing # "climb" => Reached(f.prev, f.level) /\ Behind(f)
  /\ f.at = "walk" /\ f.doing = "climb" =>
       /\ f.prev = dummyHead \/ (Live(f.prev) /\ f.prev # f.node)
       /\ Behind(f) /\ f.level > 0
  /\ f.at = "found" => Live(f.node) /\ mem[f.node].key = f.key
  /\ f.op = "set" /\ f.at = "missed" =>
       f.level = 0 /\ Reached(f.prev, 0) /\ Behind(f) /\ AheadGreater(f)
  /\ Building(f) => /\ Live(f.node) /\ mem[f.node].key = f.key
                    /\ f.level <= mem[f.node].levelHeight
  /\ f.at \in {"copy", "publish"} => /\ Reached(f.prev, f.level) /\ Behind(f)
                                     /\ f.prev # f.node
  /\ f.at = "copy" /\ f.level = 0 => AheadGreater(f)
  /\ f.op = "delete" /\ f.doing = "unlink" => Live(f.node) /\ mem[f.node].key = f.key
  /\ f.at = "cut" => /\ Reached(f.prev, f.level) /\ Behind(f)
                     /\ f.level <= mem[f.node].levelHeight

Clearing == \E t \in Writers : frame[t].op = "clear"

Exclusion ==
  \A t \in Writers :
    /\ frame[t].op # "none" => \A u \in Writers \ {t} : frame[u] = Idle
    /\ frame[t].op = "clear" => \A u \in Readers : frame[u] = Idle

SharedInv ==
  /\ SharedTypeOK
  /\ MemType
  /\ allocated \subseteq Nodes
  /\ \A t \in Threads : Shape(t, frame[t])
  /\ Exclusion
  /\ ~Clearing => ListOK
  /\ \A t \in Readers : ReaderOK(frame[t])
  /\ \A t \in Writers : WriterOK(frame[t])

-----------------------------------------------------------------------------
(* Constants, types, and what a link leads to.                               *)

\* The addresses are all different, there is a level, and keys are numbers.
LEMMA Addresses ==
  /\ dummyHead # dummyTail /\ dummyHead # NULL /\ dummyTail # NULL
  /\ dummyHead \notin Nodes /\ dummyTail \notin Nodes /\ NULL \notin Nodes
  /\ NULL \notin Keys /\ \A k \in Keys : k \in Nat
  /\ 0 \in Levels /\ LIST_HEIGHT - 1 \in Levels
  /\ \A l \in Levels : l \in Nat /\ (l # 0 => l - 1 \in Levels)
<1>1. \A a, b : Cardinality({a, b}) <= 2
  <2>1. ASSUME NEW a, NEW b
        PROVE  Cardinality({a, b}) <= 2
    <3>1. IsFiniteSet({a}) /\ Cardinality({a}) = 1
      BY FS_Singleton
    <3>2. Cardinality({a} \cup {b}) = 1 \/ Cardinality({a} \cup {b}) = 2
      BY <3>1, FS_AddElement
    <3>3. {a, b} = {a} \cup {b}
      OBVIOUS
    <3>4. QED
      BY <3>2, <3>3
  <2>2. QED
    BY <2>1
<1>2. dummyHead # dummyTail /\ dummyHead # NULL /\ dummyTail # NULL
  <2>1. Cardinality({dummyHead, dummyTail, NULL}) = 3
    BY SkipListAssumption
  <2>2. ASSUME dummyHead = dummyTail \/ dummyHead = NULL \/ dummyTail = NULL
        PROVE  FALSE
    <3>1. PICK a, b : {dummyHead, dummyTail, NULL} = {a, b}
      BY <2>2
    <3>2. Cardinality({a, b}) = 3 /\ Cardinality({a, b}) <= 2
      BY <1>1, <2>1, <3>1, Zenon
    <3>3. QED
      BY <3>2
  <2>3. QED
    BY <2>2
<1>3. QED
  BY <1>2, SkipListAssumption DEF Levels

FrameType ==
  [op : {"none", "get", "set", "delete", "clear"} \cup Walks,
   doing : {"search", "climb", "unlink"},
   at : {"idle", "walk", "found", "missed", "copy", "publish", "count",
         "test", "cut", "uncount", "pop", "unhead", "free", "reset", "heads",
         "begin", "visit", "next", "return"},
   key : Keys \cup {NULL}, value : Values \cup {NULL}, level : Levels,
   prev : Nodes \cup {dummyHead}, node : Nodes \cup {dummyTail, NULL},
   seen : Seq(Keys \cup {NULL})]

Statuses == {"ok", "crashed", "hung", "freed"}

LEMMA TypeOfFrames == SharedTypeOK <=> status \in Statuses /\ frame \in [Threads -> FrameType]
BY DEF SharedTypeOK, FrameType, Statuses

\* The status has its type.
LEMMA StatusOK == SharedInv => status \in Statuses
BY TypeOfFrames DEF SharedInv

\* The node at an address has its fields.
LEMMA NodeFields ==
  ASSUME MemType, NEW p \in Nodes \cup {dummyHead}
  PROVE  /\ mem[p].levelHeight \in Levels
         /\ mem[p].key \in Keys \cup {NULL} /\ mem[p].value \in Values \cup {NULL}
         /\ \A l \in Levels : next(p, l) \in Nodes \cup {dummyTail, NULL}
BY DEF MemType, next

\* A link of something other than the tail is its next.
LEMMA LinkIsNext ==
  ASSUME NEW p \in Nodes \cup {dummyHead}, NEW l
  PROVE  link(p, l) = next(p, l)
BY Addresses DEF link

\* A thread that is inside a call, other than Clear, is not inside a Clear.
LEMMA NoClear ==
  ASSUME SharedInv, NEW t \in Threads, frame[t].op \notin {"none", "clear"}
  PROVE  ~Clearing /\ ListOK
<1>1. ASSUME NEW u \in Writers, frame[u].op = "clear"
      PROVE  FALSE
  <2>1. t # u
    BY <1>1
  <2>2. frame[t] = Idle
    BY <1>1, <2>1 DEF SharedInv, Exclusion, Threads
  <2>3. QED
    BY <2>2 DEF Idle
<1>2. QED
  BY <1>1 DEF SharedInv, Clearing

\* On lower levels, too, a node is published that is published on one.
LEMMA ReachedBelow ==
  ASSUME MemType, allocated \subseteq Nodes, NEW p, NEW l \in Levels, Reached(p, l), l # 0,
         \A u \in Writers : frame[u].level \in Levels
  PROVE  Reached(p, l - 1)
<1>1. CASE p = dummyHead
  BY <1>1 DEF Reached
<1>2. CASE Live(p) /\ Published(p, l) /\ p \in Nodes
  <2>1. mem[p].levelHeight \in Nat /\ l \in Nat
    BY <1>2, Addresses, NodeFields
  <2>2. \A u \in Writers : frame[u].level \in Nat
    BY Addresses
  <2>3. QED
    BY <1>2, <2>1, <2>2 DEF Reached, Published
<1>3. QED
  BY <1>1, <1>2 DEF Reached, Live

\* Behind what a search has reached there is the tail or a published node, with a
\* greater key on level 0.
LEMMA AheadOfReached ==
  ASSUME SharedInv, ListOK, NEW p \in Nodes \cup {dummyHead}, NEW l \in Levels, Reached(p, l)
  PROVE  /\ link(p, l) = next(p, l)
         /\ Target(link(p, l), l)
         /\ link(p, l) \in Nodes => Reached(link(p, l), l)
         /\ link(p, l) # NULL
         /\ p # dummyHead /\ l = 0 /\ link(p, 0) \in Nodes => mem[p].key < mem[link(p, 0)].key
<1>1. link(p, l) = next(p, l)
  BY LinkIsNext
<1>2. CASE p = dummyHead
  <2>1. Target(next(p, l), l)
    BY <1>2 DEF ListOK, HeadOK
  <2>2. QED
    BY <1>1, <1>2, <2>1, Addresses DEF Target, Reached, Live, SharedInv
<1>3. CASE p # dummyHead
  <2>1. Live(p) /\ Published(p, l) /\ NodeOK(p)
    BY <1>3 DEF Reached, ListOK
  <2>2. Filled(p, l)
    BY <2>1 DEF Filled, Published
  <2>3. Target(next(p, l), l)
    BY <2>1, <2>2 DEF NodeOK
  <2>4. l = 0 /\ next(p, 0) \in Nodes => mem[p].key < mem[next(p, 0)].key
    BY <2>1, <2>2 DEF NodeOK
  <2>5. QED
    BY <1>1, <2>3, <2>4, Addresses DEF Target, Reached, Live, SharedInv
<1>4. QED
  BY <1>2, <1>3

\* A node that is published has a key.
LEMMA LiveHasKey ==
  ASSUME SharedInv, ListOK, NEW p, Live(p)
  PROVE  p \in Nodes /\ mem[p].key \in Keys /\ mem[p].key \in Nat
BY Addresses DEF SharedInv, Live, ListOK, NodeOK

\* Only the writer that is inside a call can be building.
LEMMA OneBuilder ==
  ASSUME SharedInv, NEW t \in Writers, frame[t].op # "none", NEW p, NEW l
  PROVE  /\ Filled(p, l) <=>
              /\ l <= mem[p].levelHeight
              /\ Building(frame[t]) /\ frame[t].node = p =>
                   \/ frame[t].at = "count" \/ l < frame[t].level
                   \/ l = frame[t].level /\ frame[t].at = "publish"
         /\ Published(p, l) <=>
              /\ l <= mem[p].levelHeight
              /\ Building(frame[t]) /\ frame[t].node = p =>
                   frame[t].at = "count" \/ l < frame[t].level
<1>1. \A u \in Writers \ {t} : ~Building(frame[u])
  BY DEF SharedInv, Exclusion, Building, Idle
<1>2. QED
  BY <1>1 DEF Filled, Published

LEMMA OneBuilderNext ==
  ASSUME SharedInv, NEW t \in Writers, frame[t].op # "none", NEW g,
         frame' = [frame EXCEPT ![t] = g], NEW p, NEW l
  PROVE  /\ Filled(p, l)' <=>
              /\ l <= mem'[p].levelHeight
              /\ Building(g) /\ g.node = p =>
                   g.at = "count" \/ l < g.level \/ (l = g.level /\ g.at = "publish")
         /\ Published(p, l)' <=>
              /\ l <= mem'[p].levelHeight
              /\ Building(g) /\ g.node = p => g.at = "count" \/ l < g.level
<1>1. frame \in [Threads -> FrameType]
  BY TypeOfFrames DEF SharedInv
<1>2. frame'[t] = g /\ \A u \in Writers \ {t} : frame'[u] = frame[u]
  BY <1>1 DEF Threads
<1>3. \A u \in Writers \ {t} : ~Building(frame[u])
  BY DEF SharedInv, Exclusion, Building, Idle
<1>4. \A u \in Writers \ {t} : ~Building(frame[u])'
  BY <1>2, <1>3 DEF Building
<1>5. Building(frame[t])' <=> Building(g)
  BY <1>2 DEF Building
<1>6. QED
  BY <1>2, <1>4, <1>5 DEF Filled, Published

-----------------------------------------------------------------------------
(* Steps that do not change the list, that store, and that clear.            *)

\* The list is the same and every node is as published as it was.
SameList ==
  /\ mem' = mem /\ allocated' = allocated
  /\ \A p, l : (Filled(p, l)' <=> Filled(p, l)) /\ (Published(p, l)' <=> Published(p, l))

\* So is everything the invariant says of it and of a call in it.
LEMMA SameListKeeps ==
  ASSUME SameList, NEW f
  PROVE  /\ ListOK => ListOK'
         /\ ReaderOK(f) => ReaderOK(f)'
         /\ WriterOK(f) => WriterOK(f)'
<1>1. /\ \A p : Live(p)' <=> Live(p)
      /\ \A p, l : next(p, l)' = next(p, l) /\ link(p, l)' = link(p, l)
  BY DEF SameList, Live, next, link
<1>2. \A p, l : (Target(p, l)' <=> Target(p, l)) /\ (Reached(p, l)' <=> Reached(p, l))
  BY <1>1 DEF SameList, Target, Reached
<1>3. \A p : NodeOK(p) => NodeOK(p)'
  BY <1>1, <1>2 DEF SameList, NodeOK
<1>4. ListOK => ListOK'
  BY <1>1, <1>2, <1>3 DEF SameList, ListOK, HeadOK
<1>5. ReaderOK(f) => ReaderOK(f)'
  BY <1>1, <1>2 DEF SameList, ReaderOK
<1>6. WriterOK(f) => WriterOK(f)'
  <2>1. (Behind(f) <=> Behind(f)') /\ (AheadGreater(f) <=> AheadGreater(f)')
    BY <1>1 DEF SameList, Behind, AheadGreater, Ahead
  <2>2. QED
    BY <1>1, <1>2, <2>1 DEF SameList, WriterOK
<1>7. QED
  BY <1>4, <1>5, <1>6

\* The exclusion of the calls, when one begins, goes on or ends.
LEMMA ExclusionKept ==
  ASSUME SharedInv, NEW t \in Threads, NEW g, frame' = [frame EXCEPT ![t] = g],
         g = Idle \/ (g.op = frame[t].op /\ g.op # "none")
  PROVE  Exclusion'
<1>1. \A u \in Threads : frame'[u] = IF u = t THEN g ELSE frame[u]
  BY TypeOfFrames DEF SharedInv
<1>2. Idle.op = "none"
  BY DEF Idle
<1>3. ASSUME NEW u \in Writers, frame'[u].op # "none"
      PROVE  frame[u].op = frame'[u].op
  BY <1>1, <1>2, <1>3 DEF Threads
<1>4. ASSUME NEW u \in Writers, frame'[u].op # "none", NEW v \in Writers \ {u}
      PROVE  frame'[v] = Idle
  <2>1. frame[v] = Idle
    BY <1>3, <1>4 DEF SharedInv, Exclusion
  <2>2. CASE v = t
    BY <1>1, <1>2, <2>1, <2>2
  <2>3. QED
    BY <1>1, <2>1, <2>2 DEF Threads
<1>5. ASSUME NEW u \in Writers, frame'[u].op = "clear", NEW v \in Readers
      PROVE  frame'[v] = Idle
  <2>1. frame[v] = Idle
    BY <1>3, <1>5 DEF SharedInv, Exclusion
  <2>2. CASE v = t
    BY <1>1, <1>2, <2>1, <2>2
  <2>3. QED
    BY <1>1, <2>1, <2>2 DEF Threads
<1>6. QED
  BY <1>4, <1>5 DEF Exclusion

\* A step that leaves the list as it is.
LEMMA ReadKeeps ==
  ASSUME SharedInv, NEW t \in Threads, NEW g \in FrameType,
         frame' = [frame EXCEPT ![t] = g], SameList, status' \in Statuses,
         Shape(t, g), Exclusion', Clearing => Clearing',
         t \in Readers => ReaderOK(g), t \in Writers => WriterOK(g)
  PROVE  SharedInv'
<1>1. frame \in [Threads -> FrameType]
  BY TypeOfFrames DEF SharedInv
<1>2. SharedTypeOK'
  BY <1>1 DEF SharedTypeOK, FrameType, Statuses
<1>3. MemType' /\ allocated' \subseteq Nodes
  BY DEF SharedInv, MemType, SameList
<1>4. \A u \in Threads : frame'[u] = IF u = t THEN g ELSE frame[u]
  BY <1>1
<1>5. ASSUME NEW u \in Threads
      PROVE  Shape(u, frame[u])'
  BY <1>4 DEF SharedInv, Shape
<1>6. ~Clearing' => ListOK'
  BY SameListKeeps DEF SharedInv
<1>7. \A u \in Readers : ReaderOK(frame[u])'
  <2>1. ASSUME NEW u \in Readers
        PROVE  ReaderOK(frame[u])'
    <3>1. PICK f : f = frame'[u]
      OBVIOUS
    <3>2. ReaderOK(f)
      BY <1>4, <3>1 DEF SharedInv, Threads
    <3>3. ReaderOK(f)'
      BY <3>2, SameListKeeps
    <3>4. QED
      BY <3>1, <3>3 DEF ReaderOK
  <2>2. QED
    BY <2>1
<1>8. \A u \in Writers : WriterOK(frame[u])'
  <2>1. ASSUME NEW u \in Writers
        PROVE  WriterOK(frame[u])'
    <3>1. PICK f : f = frame'[u]
      OBVIOUS
    <3>2. WriterOK(f)
      BY <1>4, <3>1 DEF SharedInv, Threads
    <3>3. WriterOK(f)'
      BY <3>2, SameListKeeps
    <3>4. QED
      BY <3>1, <3>3 DEF WriterOK, Behind, AheadGreater, Building, Ahead
  <2>2. QED
    BY <2>1
<1>9. QED
  BY <1>2, <1>3, <1>5, <1>6, <1>7, <1>8 DEF SharedInv

\* A frame outside of all calls satisfies every condition on frames.
LEMMA IdleOK ==
  /\ Idle \in FrameType /\ ReaderOK(Idle) /\ WriterOK(Idle)
  /\ \A t : Shape(t, Idle)
<1>1. Idle \in FrameType
  BY Addresses DEF Idle, FrameType
<1>2. Idle.op = "none" /\ Idle.at = "idle" /\ Idle.doing = "search"
  BY DEF Idle
<1>3. QED
  BY <1>1, <1>2 DEF ReaderOK, WriterOK, Shape, Building, Walks

\* Nothing that was published is withdrawn.
NothingWithdrawn ==
  \A p : Live(p) => /\ Live(p)' /\ mem'[p].key = mem[p].key
                    /\ \A l \in Levels : Published(p, l) => Published(p, l)'

LEMMA ReadersKept ==
  ASSUME NothingWithdrawn, NEW f \in FrameType, ReaderOK(f)
  PROVE  ReaderOK(f)'
<1>1. f.level \in Levels /\ 0 \in Levels
  BY Addresses DEF FrameType
<1>2. \A p, l : l \in Levels => /\ Reached(p, l) => Reached(p, l)'
                                /\ Target(p, l) => Target(p, l)'
  BY DEF NothingWithdrawn, Reached, Target
<1>3. \A p : Target(p, 0) => p = dummyTail \/ mem'[p].key = mem[p].key
  BY DEF NothingWithdrawn, Target
<1>4. \A p : Live(p) => Live(p)'
  BY DEF NothingWithdrawn
<1>5. QED
  BY <1>1, <1>2, <1>3, <1>4 DEF ReaderOK

\* A step of the writer that stores, or begins or ends to build.
LEMMA StoreKeeps ==
  ASSUME SharedInv, NEW t \in Writers, NEW g \in FrameType,
         frame' = [frame EXCEPT ![t] = g], frame[t].op \in {"set", "delete"},
         g = Idle \/ g.op = frame[t].op, status' \in Statuses,
         MemType', allocated' \subseteq Nodes, NothingWithdrawn, ListOK',
         Shape(t, g), WriterOK(g)'
  PROVE  SharedInv'
<1>1. frame \in [Threads -> FrameType]
  BY TypeOfFrames DEF SharedInv
<1>2. SharedTypeOK'
  BY <1>1 DEF SharedTypeOK, FrameType, Statuses
<1>3. \A u \in Threads : frame'[u] = IF u = t THEN g ELSE frame[u]
  BY <1>1
<1>4. ASSUME NEW u \in Threads
      PROVE  Shape(u, frame[u])'
  BY <1>3 DEF SharedInv, Shape
<1>5. Exclusion'
  BY ExclusionKept DEF Threads
<1>6. \A u \in Readers : ReaderOK(frame[u])'
  <2>1. ASSUME NEW u \in Readers
        PROVE  ReaderOK(frame[u])'
    <3>1. frame'[u] = frame[u] /\ u \in Threads
      BY <1>3, SharedAssumption DEF Threads
    <3>2. PICK f \in FrameType : f = frame[u] /\ f = frame'[u]
      BY <1>1, <3>1
    <3>3. ReaderOK(f)
      BY <3>2 DEF SharedInv
    <3>4. ReaderOK(f)'
      BY <3>3, ReadersKept
    <3>5. QED
      BY <3>2, <3>4 DEF ReaderOK
  <2>2. QED
    BY <2>1
<1>7. \A u \in Writers : WriterOK(frame[u])'
  <2>1. ASSUME NEW u \in Writers
        PROVE  WriterOK(frame[u])'
    <3>1. CASE u = t
      BY <1>3, <3>1 DEF Threads, WriterOK, Behind, AheadGreater, Building, Ahead
    <3>2. CASE u # t
      <4>1. frame'[u] = Idle
        BY <1>3, <3>2 DEF Threads, SharedInv, Exclusion
      <4>2. frame'[u].at = "idle" /\ frame'[u].op = "none"
        BY <4>1 DEF Idle
      <4>3. QED
        BY <4>2 DEF WriterOK, Building
    <3>3. QED
      BY <3>1, <3>2
  <2>2. QED
    BY <2>1
<1>8. QED
  BY <1>2, <1>4, <1>5, <1>6, <1>7 DEF SharedInv

\* A step of Clear: nobody else is inside a call.
LEMMA ClearKeeps ==
  ASSUME SharedInv, NEW t \in Writers, frame[t].op = "clear", NEW g \in FrameType,
         frame' = [frame EXCEPT ![t] = g], status' \in Statuses,
         g.op = "clear" \/ (g = Idle /\ ListOK'),
         MemType', allocated' \subseteq Nodes, Shape(t, g)
  PROVE  SharedInv'
<1>1. frame \in [Threads -> FrameType]
  BY TypeOfFrames DEF SharedInv
<1>2. SharedTypeOK'
  BY <1>1 DEF SharedTypeOK, FrameType, Statuses
<1>3. \A u \in Threads : frame'[u] = IF u = t THEN g ELSE Idle
  BY <1>1 DEF SharedInv, Exclusion, Threads
<1>4. ASSUME NEW u \in Threads
      PROVE  Shape(u, frame[u])'
  BY <1>3, IdleOK DEF Shape
<1>5. Exclusion'
  BY ExclusionKept DEF Threads
<1>6. ~Clearing' => ListOK'
  BY <1>3 DEF Clearing, Threads
<1>7. \A u \in Threads : frame'[u].at \notin {"walk", "found", "missed", "copy", "publish",
                                             "count", "begin", "visit", "next", "cut"}
                         /\ frame'[u].op \in {"none", "clear"}
  BY <1>3 DEF Idle, Shape
<1>8. \A u \in Readers : ReaderOK(frame[u])'
  BY <1>7 DEF ReaderOK, Threads, Walks
<1>9. \A u \in Writers : WriterOK(frame[u])'
  BY <1>7 DEF WriterOK, Building, Threads
<1>10. QED
  BY <1>2, <1>4, <1>5, <1>6, <1>8, <1>9 DEF SharedInv

-----------------------------------------------------------------------------
(* The steps of a call that leave the list as it is.                         *)

\* f is the frame of t.
CallOf(t, f) == f = frame[t]

\* The call of t goes on with g, or ends.  If it builds, it stays where it is.
LEMMA CallGoesOn ==
  ASSUME SharedInv, NEW t \in Threads, NEW f \in FrameType, CallOf(t, f), f.op # "none",
         NEW g \in FrameType, frame' = [frame EXCEPT ![t] = g],
         mem' = mem, allocated' = allocated, status' \in Statuses,
         g = Idle \/ g.op = f.op, f.op = "clear" => g.op = f.op,
         Shape(t, g), t \in Readers => ReaderOK(g), t \in Writers => WriterOK(g),
         t \in Writers =>
           \/ ~Building(f) /\ ~Building(g)
           \/ f.at = "count" /\ ~Building(g)
           \/ /\ Building(f) /\ Building(g) /\ g.node = f.node /\ g.level = f.level
              /\ f.at \in {"walk", "copy"} /\ g.at \in {"walk", "copy"}
  PROVE  SharedInv'
<1>1. \A u \in Threads : frame'[u] = IF u = t THEN g ELSE frame[u]
  BY TypeOfFrames DEF SharedInv
<1>2. SameList
  <2>1. CASE t \in Writers
    <3>1. ASSUME NEW p, NEW l
          PROVE  (Filled(p, l)' <=> Filled(p, l)) /\ (Published(p, l)' <=> Published(p, l))
      <4>1. /\ Filled(p, l) <=>
                 /\ l <= mem[p].levelHeight
                 /\ Building(f) /\ f.node = p =>
                      f.at = "count" \/ l < f.level \/ (l = f.level /\ f.at = "publish")
            /\ Published(p, l) <=>
                 /\ l <= mem[p].levelHeight
                 /\ Building(f) /\ f.node = p => f.at = "count" \/ l < f.level
        BY <2>1, OneBuilder DEF CallOf
      <4>2. /\ Filled(p, l)' <=>
                 /\ l <= mem[p].levelHeight
                 /\ Building(g) /\ g.node = p =>
                      g.at = "count" \/ l < g.level \/ (l = g.level /\ g.at = "publish")
            /\ Published(p, l)' <=>
                 /\ l <= mem[p].levelHeight
                 /\ Building(g) /\ g.node = p => g.at = "count" \/ l < g.level
        BY <2>1, OneBuilderNext DEF CallOf
      <4>3. QED
        BY <2>1, <4>1, <4>2
    <3>2. QED
      BY <3>1 DEF SameList
  <2>2. CASE t \notin Writers
    <3>1. \A u \in Writers : frame'[u] = frame[u]
      BY <1>1, <2>2 DEF Threads
    <3>2. QED
      BY <3>1 DEF SameList, Filled, Published, Building
  <2>3. QED
    BY <2>1, <2>2
<1>3. Exclusion'
  BY ExclusionKept DEF CallOf
<1>4. Clearing => Clearing'
  BY <1>1 DEF Clearing, Threads, CallOf
<1>5. QED
  BY <1>2, <1>3, <1>4, ReadKeeps

\* What the frame of a thread is.
LEMMA FrameFacts ==
  ASSUME SharedInv, NEW t \in Threads, NEW f \in FrameType, CallOf(t, f)
  PROVE  /\ Shape(t, f)
         /\ t \in Readers => ReaderOK(f) /\ f.op \notin WriterOps
         /\ t \in Writers => WriterOK(f) /\ f.op \notin ReaderOps
BY SharedAssumption DEF SharedInv, Threads, Shape, OpsOf, WriterOps, ReaderOps, Walks, Idle, CallOf

\* A search belongs to a Get, a Set or a Delete.
LEMMA AtSearch ==
  ASSUME NEW t, NEW f \in FrameType, Shape(t, f), f.at \in {"walk", "found", "missed"}
  PROVE  f.op \in {"get", "set", "delete"}
<1>1. f.op \in {"none", "get", "set", "delete", "clear"} \cup Walks
  BY DEF FrameType
<1>2. f.op # "none"
  BY DEF Shape, Idle
<1>3. QED
  BY <1>1, <1>2 DEF Shape

\* One node further on the level.
LEMMA ForwardKeeps ==
  ASSUME SharedInv, NEW t \in Threads, NEW f \in FrameType, CallOf(t, f), Forward(t, f)
  PROVE  SharedInv'
<1>1. /\ f.at = "walk" /\ Ahead(f) \in Nodes /\ mem[Ahead(f)].key < f.key
      /\ frame' = [frame EXCEPT ![t] = [f EXCEPT !.prev = Ahead(f)]]
      /\ mem' = mem /\ allocated' = allocated /\ status' = status
  BY DEF Forward, Less, Before, Reads, Go, listVars
<1>2. PICK g : g = [f EXCEPT !.prev = Ahead(f)]
  OBVIOUS
<1>3. /\ g \in FrameType /\ g.prev = Ahead(f) /\ g.op = f.op /\ g.at = f.at /\ g.doing = f.doing
      /\ g.key = f.key /\ g.level = f.level /\ g.node = f.node /\ g.seen = f.seen
  BY <1>1, <1>2 DEF FrameType
<1>4. /\ Shape(t, f) /\ f.op \in {"get", "set", "delete"}
      /\ t \in Readers => ReaderOK(f)
      /\ t \in Writers => WriterOK(f)
  BY <1>1, FrameFacts, AtSearch
<1>5. ListOK
  BY <1>4, NoClear DEF CallOf
<1>6. Shape(t, g)
  BY <1>3, <1>4 DEF Shape, Walks
<1>7. Ahead(f) = link(f.prev, f.level) /\ f.prev \in Nodes \cup {dummyHead} /\ f.level \in Levels
  BY DEF Ahead, FrameType
<1>8. CASE f.doing # "climb"
  <2>1. Reached(f.prev, f.level)
    BY <1>1, <1>4, <1>8 DEF ReaderOK, WriterOK, Threads
  <2>2. Reached(g.prev, g.level)
    BY <1>1, <1>3, <1>5, <1>7, <2>1, AheadOfReached
  <2>3. Behind(g)
    BY <1>1, <1>3 DEF Behind
  <2>4. ReaderOK(g)
    BY <1>1, <1>3, <1>4, <2>2 DEF ReaderOK, Walks
  <2>5. t \in Writers => WriterOK(g)
    BY <1>1, <1>3, <1>4, <1>8, <2>2, <2>3 DEF WriterOK, Building
  <2>6. ~Building(f) /\ ~Building(g)
    BY <1>1, <1>3, <1>8 DEF Building
  <2>7. QED
    BY <1>1, <1>2, <1>3, <1>4, <1>6, <2>4, <2>5, <2>6, CallGoesOn, StatusOK
<1>9. CASE f.doing = "climb"
  <2>1. /\ f.op = "set" /\ t \in Writers /\ t \notin Readers /\ WriterOK(f)
        /\ Building(f) /\ Building(g)
    BY <1>1, <1>3, <1>4, <1>9, SharedAssumption DEF Shape, OpsOf, Walks, Threads, Building
  <2>2. f.prev = dummyHead \/ (Live(f.prev) /\ f.prev # f.node)
    BY <1>1, <1>9, <2>1 DEF WriterOK
  <2>3. Live(Ahead(f)) /\ Ahead(f) # f.node
    <3>1. Target(Ahead(f), f.level)
      <4>1. CASE Reached(f.prev, f.level)
        BY <1>5, <1>7, <4>1, AheadOfReached
      <4>2. CASE ~Reached(f.prev, f.level)
        <5>1. Live(f.prev) /\ NodeOK(f.prev) /\ f.prev # dummyHead /\ f.prev # f.node
          BY <1>5, <2>2, <4>2 DEF Reached, ListOK, Live, SharedInv
        <5>2. ~(f.level <= mem[f.prev].levelHeight)
          BY <1>4, <2>1, <4>2, <5>1, OneBuilder DEF Reached, CallOf
        <5>3. next(f.prev, f.level) = NULL
          <6>1. mem[f.prev].levelHeight \in Nat /\ f.level \in Nat
            BY <1>7, NodeFields, Addresses DEF SharedInv
          <6>2. f.level > mem[f.prev].levelHeight
            BY <5>2, <6>1
          <6>3. QED
            BY <1>7, <5>1, <6>2 DEF NodeOK
        <5>4. QED
          BY <1>1, <1>7, <5>3, LinkIsNext, Addresses
      <4>3. QED
        BY <4>1, <4>2
    <3>2. Live(Ahead(f)) /\ Published(Ahead(f), f.level)
      BY <1>1, <3>1, Addresses DEF Target
    <3>3. Ahead(f) # f.node
      <4>1. f.level \in Nat
        BY <1>7, Addresses
      <4>2. QED
        BY <1>1, <1>4, <2>1, <3>2, <4>1, OneBuilder DEF CallOf
    <3>4. QED
      BY <3>2, <3>3
  <2>4. Behind(g)
    BY <1>1, <1>3 DEF Behind
  <2>5. WriterOK(g)
    BY <1>1, <1>3, <1>9, <2>1, <2>3, <2>4 DEF WriterOK, Building
  <2>6. QED
    BY <1>1, <1>2, <1>3, <1>4, <1>6, <2>1, <2>5, CallGoesOn, StatusOK
<1>10. QED
  BY <1>8, <1>9

\* The end of a search on a level.
LEMMA SearchStopsKeeps ==
  ASSUME SharedInv, NEW t \in Threads, NEW f \in FrameType, CallOf(t, f), SearchStops(t, f)
  PROVE  SharedInv'
<1>1. /\ f.at = "walk" /\ f.doing = "search" /\ ~Less(f)
      /\ mem' = mem /\ allocated' = allocated /\ status' = status
  BY DEF SearchStops, Stops, Reads, listVars
<1>2. PICK g : /\ g = (IF Equal(f) THEN [f EXCEPT !.node = Ahead(f), !.at = "found"]
                      ELSE IF Lowest(f) THEN [f EXCEPT !.at = "missed"]
                      ELSE [f EXCEPT !.level = @ - 1])
               /\ frame' = [frame EXCEPT ![t] = g]
  BY DEF SearchStops, Reads, Go
<1>3. f.prev \in Nodes \cup {dummyHead} /\ f.level \in Levels /\ Ahead(f) = link(f.prev, f.level)
  BY DEF FrameType, Ahead
<1>4. /\ g \in FrameType /\ g.op = f.op /\ g.doing = f.doing /\ g.key = f.key
      /\ g.prev = f.prev /\ g.seen = f.seen
      /\ \/ Equal(f) /\ g.at = "found" /\ g.node = Ahead(f)
         \/ ~Equal(f) /\ f.level = 0 /\ g.at = "missed" /\ g.level = 0
         \/ ~Equal(f) /\ f.level # 0 /\ g.at = "walk" /\ g.level = f.level - 1 /\ g.node = f.node
  <2>1. CASE Equal(f)
    <3>1. g = [f EXCEPT !.node = Ahead(f), !.at = "found"] /\ Ahead(f) \in Nodes
      BY <1>2, <2>1 DEF Equal
    <3>2. QED
      BY <2>1, <3>1 DEF FrameType
  <2>2. CASE ~Equal(f) /\ Lowest(f)
    BY <1>2, <2>2 DEF FrameType, Lowest
  <2>3. CASE ~Equal(f) /\ ~Lowest(f)
    <3>1. f.level - 1 \in Levels /\ f.level # 0
      BY <1>3, <2>3, Addresses DEF Lowest
    <3>2. PICK m \in Levels : m = f.level - 1
      BY <3>1
    <3>3. g = [f EXCEPT !.level = m]
      BY <1>2, <2>3, <3>2
    <3>4. /\ g \in FrameType /\ g.op = f.op /\ g.doing = f.doing /\ g.key = f.key
          /\ g.prev = f.prev /\ g.seen = f.seen /\ g.at = f.at /\ g.level = m
          /\ g.node = f.node
      BY <3>3 DEF FrameType
    <3>5. QED
      BY <1>1, <2>3, <3>1, <3>2, <3>4
  <2>4. QED
    BY <2>1, <2>2, <2>3
<1>5. /\ Shape(t, f) /\ f.op \in {"get", "set", "delete"}
      /\ t \in Readers => ReaderOK(f) /\ f.op = "get"
      /\ t \in Writers => WriterOK(f) /\ f.op # "get"
  BY <1>1, FrameFacts, AtSearch DEF WriterOps, ReaderOps
<1>6. ListOK
  BY <1>5, NoClear DEF CallOf
<1>7. Reached(f.prev, f.level)
  BY <1>1, <1>5 DEF ReaderOK, WriterOK, Threads
<1>8. Shape(t, g)
  BY <1>1, <1>4, <1>5 DEF Shape, Walks
<1>9. Equal(f) => Live(Ahead(f)) /\ mem[Ahead(f)].key = f.key
  BY <1>3, <1>6, <1>7, AheadOfReached, Addresses DEF Equal, Target
<1>10. f.level # 0 => Reached(f.prev, f.level - 1)
  BY <1>3, <1>7, ReachedBelow, TypeOfFrames DEF SharedInv, FrameType, Threads
<1>11. ReaderOK(g)
  BY <1>1, <1>4, <1>5, <1>9, <1>10 DEF ReaderOK, Walks
<1>12. t \in Writers => WriterOK(g)
  <2>1. ASSUME t \in Writers
        PROVE  WriterOK(g)
    <3>1. Behind(g)
      BY <1>1, <1>4, <1>5, <2>1 DEF WriterOK, Behind
    <3>2. g.at = "missed" => AheadGreater(g)
      <4>1. ASSUME g.at = "missed", Ahead(f) \in Nodes
            PROVE  f.key < mem[Ahead(f)].key
        <5>1. ~Equal(f) /\ f.level = 0
          BY <1>4, <4>1
        <5>2. mem[Ahead(f)].key \in Nat
          BY <1>3, <1>6, <1>7, <4>1, AheadOfReached, LiveHasKey, Addresses DEF Target
        <5>3. f.key \in Nat
          BY <1>5, Addresses DEF Shape
        <5>4. QED
          BY <1>1, <4>1, <5>1, <5>2, <5>3 DEF Equal, Less, Before
      <4>2. g.at = "missed" => Ahead(g) = Ahead(f)
        BY <1>4 DEF Ahead
      <4>3. QED
        BY <1>4, <4>1, <4>2 DEF AheadGreater
    <3>3. QED
      BY <1>1, <1>4, <1>5, <1>7, <1>9, <1>10, <2>1, <3>1, <3>2 DEF WriterOK, Building
  <2>2. QED
    BY <2>1
<1>13. ~Building(f) /\ ~Building(g)
  BY <1>1, <1>4 DEF Building
<1>14. QED
  BY <1>1, <1>2, <1>4, <1>5, <1>8, <1>11, <1>12, <1>13, CallGoesOn, StatusOK

\* A reader ends its search or returns.
LEMMA GetEndsKeeps ==
  ASSUME SharedInv, NEW t \in Threads, NEW f \in FrameType, CallOf(t, f),
         GetEnds(t, f) \/ ReaderReturns(t, f)
  PROVE  SharedInv'
<1>1. mem' = mem /\ allocated' = allocated /\ status' = status
  BY DEF GetEnds, ReaderReturns, Reads, listVars
<1>2. /\ Shape(t, f) /\ t \in Readers => ReaderOK(f)
  BY FrameFacts
<1>3. CASE GetEnds(t, f)
  <2>1. PICK g : /\ g = [f EXCEPT !.at = "return",
                           !.value = IF f.at = "found" /\ mem[f.node].state = "NORMAL"
                                     THEN mem[f.node].value ELSE NULL]
                 /\ frame' = [frame EXCEPT ![t] = g]
    BY <1>3 DEF GetEnds, Reads, Go
  <2>2. f.op = "get" /\ f.at \in {"found", "missed"} /\ t \in Readers /\ t \notin Writers
    BY <1>2, <1>3, FrameFacts, SharedAssumption DEF GetEnds, Threads, ReaderOps
  <2>3. f.at = "found" => mem[f.node].value \in Values \cup {NULL}
    BY <2>2, FrameFacts, NodeFields DEF ReaderOK, Live, SharedInv
  <2>4. g \in FrameType /\ g.op = "get" /\ g.at = "return" /\ g.doing = f.doing /\ g.key = f.key
    BY <2>1, <2>2, <2>3 DEF FrameType
  <2>5. Shape(t, g)
    BY <2>2, <2>4, FrameFacts DEF Shape, Walks
  <2>6. ReaderOK(g)
    BY <2>4 DEF ReaderOK
  <2>7. QED
    BY <1>1, <2>1, <2>2, <2>4, <2>5, <2>6, CallGoesOn, StatusOK
<1>4. CASE ReaderReturns(t, f)
  <2>1. f.at = "return" /\ frame' = [frame EXCEPT ![t] = Idle]
    BY <1>4 DEF ReaderReturns, Reads, Go
  <2>2. f.op # "none" /\ f.op # "clear" /\ ~Building(f) /\ ~Building(Idle)
    BY <2>1, FrameFacts DEF Shape, Idle, Building
  <2>3. QED
    BY <1>1, <2>1, <2>2, IdleOK, CallGoesOn, StatusOK
<1>5. QED
  BY <1>3, <1>4

\* A walk along level 0.
LEMMA WalkStepKeeps ==
  ASSUME SharedInv, NEW t \in Threads, NEW f \in FrameType, CallOf(t, f), Safe(f), WalkStep(t, f)
  PROVE  SharedInv'
<1>1. mem' = mem /\ allocated' = allocated /\ status' = status
  BY DEF WalkStep, WalkBegins, WalkEnds, WalkVisits, WalkSteps, Reads, listVars
<1>2. f.at \in {"begin", "visit", "next"}
  BY DEF WalkStep, WalkBegins, WalkEnds, WalkVisits, WalkSteps
<1>3. f.op \in Walks
  <2>1. f.op \in {"none", "get", "set", "delete", "clear"} \cup Walks
    BY DEF FrameType
  <2>2. Shape(t, f)
    BY FrameFacts
  <2>3. QED
    BY <1>2, <2>1, <2>2 DEF Shape, Idle
<1>4. /\ Shape(t, f) /\ t \in Readers /\ t \notin Writers /\ ReaderOK(f)
      /\ f.op \notin {"none", "get", "set", "delete", "clear"} /\ ~Building(f)
  BY <1>3, FrameFacts, SharedAssumption DEF Walks, ReaderOps, Threads, Building
<1>5. ListOK
  BY <1>3, <1>4, NoClear DEF Walks, CallOf
<1>6. Target(next(dummyHead, 0), 0)
  BY <1>5, Addresses DEF ListOK, HeadOK
<1>7. f.node \in Nodes \cup {dummyTail, NULL} /\ f.seen \in Seq(Keys \cup {NULL})
  BY DEF FrameType
<1>8. \A q : Target(q, 0) => q # NULL /\ q \in Nodes \cup {dummyTail}
  BY Addresses DEF Target, Live, SharedInv
<1>9. ASSUME NEW g \in FrameType, frame' = [frame EXCEPT ![t] = g], g.op = f.op,
             g.at \in {"begin", "visit", "next", "return"}, ReaderOK(g)
      PROVE  SharedInv'
  <2>1. Shape(t, g)
    BY <1>3, <1>4, <1>9 DEF Shape
  <2>2. QED
    BY <1>1, <1>4, <1>9, <2>1, CallGoesOn, StatusOK
<1>10. CASE WalkBegins(t, f)
  <2>1. PICK g : /\ g = [f EXCEPT !.node = next(dummyHead, 0), !.at = "visit"]
                 /\ frame' = [frame EXCEPT ![t] = g]
    BY <1>10 DEF WalkBegins, Reads, Go
  <2>2. next(dummyHead, 0) \in Nodes \cup {dummyTail, NULL}
    BY <1>6, <1>8
  <2>3. /\ g \in FrameType /\ g.op = f.op /\ g.at = "visit" /\ g.seen = f.seen
        /\ g.node = next(dummyHead, 0)
    <3>1. PICK q \in Nodes \cup {dummyTail, NULL} : q = next(dummyHead, 0)
      BY <2>2
    <3>2. g = [f EXCEPT !.node = q, !.at = "visit"]
      BY <2>1, <3>1
    <3>3. g \in FrameType /\ g.op = f.op /\ g.at = "visit" /\ g.seen = f.seen /\ g.node = q
      BY <3>1, <3>2 DEF FrameType
    <3>4. QED
      BY <3>1, <3>3
  <2>4. f.seen = << >>
    BY <1>4, <1>10 DEF ReaderOK, WalkBegins
  <2>5. ReaderOK(g)
    BY <1>6, <2>3, <2>4 DEF ReaderOK
  <2>6. QED
    BY <1>9, <2>1, <2>3, <2>5
<1>11. CASE WalkEnds(t, f)
  <2>1. PICK g : g = [f EXCEPT !.at = "return"] /\ frame' = [frame EXCEPT ![t] = g]
    BY <1>11 DEF WalkEnds, Reads, Go
  <2>2. g \in FrameType /\ g.op = f.op /\ g.at = "return" /\ g.seen = f.seen
    BY <2>1 DEF FrameType
  <2>3. ReaderOK(g)
    BY <1>4, <2>2 DEF ReaderOK
  <2>4. QED
    BY <1>9, <2>1, <2>2, <2>3
<1>12. CASE WalkVisits(t, f)
  <2>1. f.at = "visit" /\ ~WalkOver(f)
    BY <1>12 DEF WalkVisits
  <2>2. PICK seen : seen = IF f.op = "iterate" THEN Append(f.seen, keyOf(f.node)) ELSE f.seen
    OBVIOUS
  <2>3. PICK g : /\ g = [f EXCEPT !.seen = seen, !.at = "next"]
                 /\ frame' = [frame EXCEPT ![t] = g]
    BY <1>12, <2>2 DEF WalkVisits, Reads, Go
  <2>4. CASE f.op = "iterate"
    <3>1. Live(f.node) /\ f.node # dummyTail /\ Target(f.node, 0)
      BY <1>4, <2>1, <2>4 DEF ReaderOK, Target, WalkOver, IterEnds
    <3>2. PICK k \in Keys : k = mem[f.node].key /\ k = keyOf(f.node)
      BY <1>5, <3>1, LiveHasKey DEF keyOf
    <3>3. /\ seen = Append(f.seen, k) /\ seen \in Seq(Keys \cup {NULL})
          /\ DOMAIN seen = 1..(Len(f.seen) + 1) /\ DOMAIN f.seen = 1..Len(f.seen)
          /\ Len(f.seen) \in Nat
          /\ seen[Len(f.seen) + 1] = k
          /\ \A i \in 1..Len(f.seen) : seen[i] = f.seen[i]
      BY <1>7, <2>2, <2>4, <3>2
    <3>4. /\ \A i \in DOMAIN f.seen : f.seen[i] \in Keys /\ f.seen[i] < k
          /\ \A i, j \in DOMAIN f.seen : i < j => f.seen[i] < f.seen[j]
      BY <1>4, <2>1, <2>4, <3>1, <3>2 DEF ReaderOK
    <3>5. /\ g \in FrameType /\ g.op = f.op /\ g.at = "next" /\ g.seen = seen
          /\ g.node = f.node
      BY <2>3, <3>3 DEF FrameType
    <3>6. \A i \in DOMAIN seen : seen[i] \in Keys /\ seen[i] <= k
      <4>1. ASSUME NEW i \in DOMAIN seen
            PROVE  seen[i] \in Keys /\ seen[i] <= k
        <5>1. CASE i = Len(f.seen) + 1
          BY <3>2, <3>3, <5>1, Addresses
        <5>2. CASE i # Len(f.seen) + 1
          <6>1. i \in 1..Len(f.seen) /\ i \in DOMAIN f.seen
            BY <3>3, <4>1, <5>2
          <6>2. seen[i] = f.seen[i] /\ f.seen[i] \in Keys /\ f.seen[i] < k
            BY <3>3, <3>4, <6>1
          <6>3. seen[i] \in Nat /\ k \in Nat
            BY <3>2, <6>2, Addresses
          <6>4. QED
            BY <6>2, <6>3
        <5>3. QED
          BY <5>1, <5>2
      <4>2. QED
        BY <4>1
    <3>7. \A i, j \in DOMAIN seen : i < j => seen[i] < seen[j]
      <4>1. ASSUME NEW i \in DOMAIN seen, NEW j \in DOMAIN seen, i < j
            PROVE  seen[i] < seen[j]
        <5>1. i \in DOMAIN f.seen /\ seen[i] = f.seen[i]
          BY <3>3, <4>1
        <5>2. CASE j = Len(f.seen) + 1
          BY <3>3, <3>4, <5>1, <5>2
        <5>3. CASE j # Len(f.seen) + 1
          <6>1. j \in DOMAIN f.seen /\ seen[j] = f.seen[j]
            BY <3>3, <4>1, <5>3
          <6>2. QED
            BY <3>4, <4>1, <5>1, <6>1
        <5>4. QED
          BY <5>2, <5>3
      <4>2. QED
        BY <4>1
    <3>8. ReaderOK(g)
      BY <1>4, <3>1, <3>2, <3>5, <3>6, <3>7 DEF ReaderOK
    <3>9. QED
      BY <1>9, <2>3, <3>5, <3>8
  <2>5. CASE f.op # "iterate"
    <3>1. Target(f.node, 0)
      BY <1>3, <1>4, <2>1, <2>5 DEF ReaderOK, WalkOver, Walks
    <3>2. g \in FrameType /\ g.op = f.op /\ g.at = "next" /\ g.node = f.node
      <4>1. g = [f EXCEPT !.seen = f.seen, !.at = "next"]
        BY <2>2, <2>3, <2>5
      <4>2. QED
        BY <4>1 DEF FrameType
    <3>3. ReaderOK(g)
      BY <2>5, <3>1, <3>2 DEF ReaderOK
    <3>4. QED
      BY <1>9, <2>3, <3>2, <3>3
  <2>6. QED
    BY <2>4, <2>5
<1>13. CASE WalkSteps(t, f)
  <2>1. f.at = "next" /\ Target(f.node, 0)
    BY <1>4, <1>13 DEF WalkSteps, ReaderOK
  <2>2. PICK q : q = link(f.node, 0)
    OBVIOUS
  <2>3. PICK g : g = [f EXCEPT !.node = q, !.at = "visit"] /\ frame' = [frame EXCEPT ![t] = g]
    BY <1>13, <2>2 DEF WalkSteps, Reads, Go, Incremented
  <2>4. /\ f.node = dummyTail => q = NULL
        /\ f.node # dummyTail =>
             /\ Live(f.node) /\ Target(q, 0)
             /\ q \in Nodes => mem[f.node].key < mem[q].key
    <3>1. CASE f.node = dummyTail
      BY <2>2, <3>1 DEF link
    <3>2. CASE f.node # dummyTail
      <4>1. Live(f.node) /\ Reached(f.node, 0) /\ f.node \in Nodes /\ f.node # dummyHead
        BY <1>8, <2>1, <3>2, Addresses DEF Target, Reached
      <4>2. QED
        BY <1>5, <2>2, <3>2, <4>1, AheadOfReached, Addresses
    <3>3. QED
      BY <3>1, <3>2
  <2>5. q \in Nodes \cup {dummyTail, NULL}
    BY <1>8, <2>4
  <2>6. g \in FrameType /\ g.op = f.op /\ g.at = "visit" /\ g.seen = f.seen /\ g.node = q
    <3>1. g = [f EXCEPT !.node = q, !.at = "visit"]
      BY <2>3
    <3>2. QED
      BY <2>5, <3>1 DEF FrameType
  <2>7. CASE f.op = "iterate"
    <3>1. f.node # dummyTail
      BY <1>4, <2>1, <2>7 DEF ReaderOK
    <3>2. /\ \A i \in DOMAIN f.seen : f.seen[i] \in Keys /\ f.seen[i] <= mem[f.node].key
          /\ \A i, j \in DOMAIN f.seen : i < j => f.seen[i] < f.seen[j]
      BY <1>4, <2>1, <2>7 DEF ReaderOK
    <3>3. q # dummyTail => \A i \in DOMAIN f.seen : f.seen[i] < mem[q].key
      <4>1. ASSUME q # dummyTail, NEW i \in DOMAIN f.seen
            PROVE  f.seen[i] < mem[q].key
        <5>1. Live(q) /\ Live(f.node) /\ q \in Nodes /\ mem[f.node].key < mem[q].key
          BY <2>4, <3>1, <4>1 DEF Target, Live, SharedInv
        <5>2. mem[q].key \in Nat /\ mem[f.node].key \in Nat
          BY <1>5, <5>1, LiveHasKey
        <5>3. f.seen[i] \in Nat /\ f.seen[i] <= mem[f.node].key
          BY <3>2, Addresses
        <5>4. QED
          BY <5>1, <5>2, <5>3
      <4>2. QED
        BY <4>1
    <3>4. ReaderOK(g)
      BY <2>4, <2>6, <3>1, <3>2, <3>3 DEF ReaderOK
    <3>5. QED
      BY <1>9, <2>3, <2>6, <3>4
  <2>8. CASE f.op # "iterate"
    <3>1. ReaderOK(g)
      BY <2>4, <2>6, <2>8 DEF ReaderOK
    <3>2. QED
      BY <1>9, <2>3, <2>6, <3>1
  <2>9. QED
    BY <2>7, <2>8
<1>14. QED
  BY <1>10, <1>11, <1>12, <1>13 DEF WalkStep

\* A call that fails changes nothing but the status.
LEMMA FailKeeps ==
  ASSUME SharedInv, UNCHANGED <<mem, allocated, frame>>, status' \in Statuses
  PROVE  SharedInv'
<1>1. SameList
  BY DEF SameList, Filled, Published
<1>2. /\ ListOK => ListOK'
      /\ \A f : ReaderOK(f) => ReaderOK(f)'
      /\ \A f : WriterOK(f) => WriterOK(f)'
  BY <1>1, SameListKeeps
<1>3. SharedTypeOK' /\ MemType' /\ allocated' \subseteq Nodes
  BY DEF SharedInv, SharedTypeOK, MemType, Statuses
<1>4. (\A t \in Threads : Shape(t, frame[t])') /\ Exclusion' /\ (~Clearing' => ListOK')
  BY <1>2 DEF SharedInv, Exclusion, Clearing, Shape
<1>5. ASSUME NEW t \in Readers
      PROVE  ReaderOK(frame[t])'
  <2>1. PICK f : f = frame[t] /\ f = frame'[t]
    OBVIOUS
  <2>2. ReaderOK(f)'
    BY <1>2, <2>1 DEF SharedInv
  <2>3. QED
    BY <2>1, <2>2 DEF ReaderOK
<1>6. ASSUME NEW t \in Writers
      PROVE  WriterOK(frame[t])'
  <2>1. PICK f : f = frame[t] /\ f = frame'[t]
    OBVIOUS
  <2>2. WriterOK(f)'
    BY <1>2, <2>1 DEF SharedInv
  <2>3. QED
    BY <2>1, <2>2 DEF WriterOK, Behind, AheadGreater, Building, Ahead
<1>7. QED
  BY <1>3, <1>4, <1>5, <1>6 DEF SharedInv

\* The caller of a writer's operation.
LEMMA WriterFacts ==
  ASSUME SharedInv, NEW t \in Threads, NEW f \in FrameType, CallOf(t, f), f.op \in WriterOps
  PROVE  /\ t \in Writers /\ t \notin Readers /\ Shape(t, f) /\ WriterOK(f)
         /\ frame[t] = f /\ f.op # "none"
         /\ f.op # "clear" => ListOK
<1>1. t \in Writers /\ t \notin Readers /\ Shape(t, f) /\ WriterOK(f)
  BY FrameFacts, SharedAssumption DEF Threads
<1>2. f.op # "clear" => ListOK
  BY NoClear DEF CallOf, WriterOps
<1>3. QED
  BY <1>1, <1>2 DEF CallOf, WriterOps

\* A Set or Delete that does not build, or has built, returns.
LEMMA WriterReturnKeeps ==
  ASSUME SharedInv, NEW t \in Threads, NEW f \in FrameType, CallOf(t, f),
         f.op \in {"set", "delete"}, ~Building(f) \/ f.at = "count",
         mem' = mem, allocated' = allocated, status' = status,
         frame' = [frame EXCEPT ![t] = Idle]
  PROVE  SharedInv'
<1>1. t \in Writers /\ t \notin Readers /\ f.op \notin {"none", "clear"}
  BY WriterFacts DEF WriterOps
<1>2. ~Building(Idle)
  BY DEF Building, Idle
<1>3. QED
  BY <1>1, <1>2, IdleOK, CallGoesOn, StatusOK

\* The ascent stops, before the tail or a greater key: there prev is high enough, as
\* otherwise its link were NULL.
LEMMA ClimbStopsKeeps ==
  ASSUME SharedInv, NEW t \in Threads, NEW f \in FrameType, CallOf(t, f), Safe(f),
         ClimbStops(t, f)
  PROVE  SharedInv'
<1>1. f.at = "walk" /\ f.doing = "climb"
  BY DEF ClimbStops, Stops
<1>2. f.op = "set"
  <2>1. Shape(t, f)
    BY FrameFacts
  <2>2. f.op \in {"get", "set", "delete"}
    BY <1>1, <2>1, AtSearch
  <2>3. QED
    BY <1>1, <2>1, <2>2 DEF Shape
<1>3. /\ t \in Writers /\ t \notin Readers /\ Shape(t, f) /\ WriterOK(f) /\ ListOK
      /\ frame[t] = f
  BY <1>2, WriterFacts DEF WriterOps
<1>4. CASE Equal(f)
  <2>1. UNCHANGED <<mem, allocated, frame>> /\ status' \in Statuses
    BY <1>4 DEF ClimbStops, Fails, Statuses
  <2>2. QED
    BY <2>1, FailKeeps
<1>5. CASE ~Equal(f)
  <2>1. /\ frame' = [frame EXCEPT ![t] = [f EXCEPT !.at = "copy"]]
        /\ mem' = mem /\ allocated' = allocated /\ status' = status
    BY <1>5 DEF ClimbStops, Reads, Go, listVars
  <2>2. PICK g : g = [f EXCEPT !.at = "copy"]
    OBVIOUS
  <2>3. /\ g \in FrameType /\ g.at = "copy" /\ g.op = f.op /\ g.doing = f.doing
        /\ g.key = f.key /\ g.level = f.level /\ g.prev = f.prev /\ g.node = f.node
    BY <2>2 DEF FrameType
  <2>4. /\ f.level \in Levels /\ f.prev \in Nodes \cup {dummyHead}
        /\ Ahead(f) = next(f.prev, f.level)
    BY LinkIsNext DEF FrameType, Ahead
  <2>5. Building(f) /\ Building(g)
    BY <1>1, <1>2, <2>3 DEF Building
  <2>6. Reached(f.prev, f.level) /\ f.prev # f.node
    <3>1. f.prev = dummyHead \/ (Live(f.prev) /\ f.prev # f.node)
      BY <1>1, <1>3 DEF WriterOK
    <3>2. CASE f.prev = dummyHead
      <4>1. Live(f.node)
        BY <1>3, <2>5 DEF WriterOK
      <4>2. QED
        BY <3>2, <4>1, Addresses DEF Reached, Live, SharedInv
    <3>3. CASE Live(f.prev) /\ f.prev # f.node
      <4>1. Ahead(f) # NULL
        BY <1>1, Addresses DEF Safe, Dereferenced, SharedInv
      <4>2. NodeOK(f.prev)
        BY <1>3, <3>3 DEF ListOK, Live, SharedInv
      <4>3. ~(f.level > mem[f.prev].levelHeight)
        BY <2>4, <4>1, <4>2 DEF NodeOK
      <4>4. f.level \in Nat /\ mem[f.prev].levelHeight \in Nat
        BY <2>4, NodeFields, Addresses DEF SharedInv
      <4>5. f.level <= mem[f.prev].levelHeight
        BY <4>3, <4>4
      <4>6. Published(f.prev, f.level)
        BY <1>2, <1>3, <3>3, <4>5, OneBuilder
      <4>7. QED
        BY <3>3, <4>6 DEF Reached
    <3>4. QED
      BY <3>1, <3>2, <3>3
  <2>7. Behind(g)
    BY <1>1, <1>3, <2>3 DEF WriterOK, Behind
  <2>8. WriterOK(g)
    <3>1. f.level > 0 /\ f.level \in Nat
      BY <1>1, <1>3, <2>4, Addresses DEF WriterOK
    <3>2. f.level # 0
      BY <3>1
    <3>3. QED
      BY <1>2, <1>3, <2>3, <2>5, <2>6, <2>7, <3>2 DEF WriterOK
  <2>9. Shape(t, g)
    BY <1>1, <1>2, <1>3, <2>3 DEF Shape, Walks
  <2>10. QED
    BY <1>1, <1>2, <1>3, <2>1, <2>2, <2>3, <2>5, <2>8, <2>9, CallGoesOn, StatusOK
<1>6. QED
  BY <1>4, <1>5

\* Delete goes on with a level, to cut the node off there or with the next one below.
LEMMA DeleteGoesOn ==
  ASSUME SharedInv, NEW t \in Threads, NEW f \in FrameType, CallOf(t, f), f.op = "delete",
         NEW g \in FrameType, frame' = [frame EXCEPT ![t] = g],
         mem' = mem, allocated' = allocated, status' = status,
         g.op = f.op, g.key = f.key, g.doing = "unlink", g.node = f.node,
         g.at \in {"walk", "test", "cut", "uncount"},
         Live(f.node), mem[f.node].key = f.key,
         g.at \in {"walk", "cut"} => Reached(g.prev, g.level) /\ Behind(g),
         g.at = "cut" => g.level <= mem[g.node].levelHeight
  PROVE  SharedInv'
<1>1. t \in Writers /\ t \notin Readers /\ Shape(t, f) /\ WriterOK(f)
  BY WriterFacts DEF WriterOps
<1>2. Shape(t, g)
  BY <1>1 DEF Shape, Walks
<1>3. ~Building(f) /\ ~Building(g)
  BY <1>1 DEF Building, Shape
<1>4. WriterOK(g)
  BY <1>3 DEF WriterOK
<1>5. QED
  BY <1>1, <1>2, <1>3, <1>4, CallGoesOn, StatusOK

\* What LevelDone leaves as it is.
LEMMA LevelDoneFacts ==
  ASSUME NEW f \in FrameType, NEW g, g = LevelDone(f)
  PROVE  /\ g \in FrameType /\ g.op = f.op /\ g.key = f.key /\ g.doing = f.doing
         /\ g.node = f.node /\ g.at \in {"test", "uncount"}
<1>1. CASE f.level = 0
  <2>1. g = [f EXCEPT !.at = "uncount"]
    BY <1>1 DEF LevelDone
  <2>2. QED
    BY <2>1 DEF FrameType
<1>2. CASE f.level # 0
  <2>1. PICK m \in Levels : m = f.level - 1
    BY <1>2, Addresses DEF FrameType
  <2>2. g = [f EXCEPT !.level = m, !.at = "test"]
    BY <1>2, <2>1 DEF LevelDone
  <2>3. QED
    BY <2>2 DEF FrameType
<1>3. QED
  BY <1>1, <1>2

\* The steps of a Delete that change nothing.
LEMMA DeleteReadsKeep ==
  ASSUME SharedInv, NEW t \in Threads, NEW f \in FrameType, CallOf(t, f),
         DeleteHits(t, f) \/ DeleteTests(t, f) \/ UnlinkStops(t, f)
  PROVE  SharedInv'
<1>1. mem' = mem /\ allocated' = allocated /\ status' = status
  BY DEF DeleteHits, DeleteTests, UnlinkStops, Reads, listVars
<1>2. f.op = "delete"
  <2>1. CASE DeleteHits(t, f) \/ DeleteTests(t, f)
    BY <2>1 DEF DeleteHits, DeleteTests, At, CallOf
  <2>2. CASE UnlinkStops(t, f)
    <3>1. f.at = "walk" /\ f.doing = "unlink" /\ Shape(t, f)
      BY <2>2, FrameFacts DEF UnlinkStops, Stops
    <3>2. QED
      BY <3>1, AtSearch DEF Shape
  <2>3. QED
    BY <2>1, <2>2
<1>3. t \in Writers /\ Shape(t, f) /\ WriterOK(f) /\ frame[t] = f /\ ListOK
  BY <1>2, WriterFacts DEF WriterOps
<1>4. /\ Live(f.node) /\ mem[f.node].key = f.key
      /\ f.at = "found" \/ f.doing = "unlink"
  <2>1. f.at = "found" \/ f.doing = "unlink"
    BY <1>2, <1>3 DEF DeleteHits, DeleteTests, UnlinkStops, At, Stops, Shape
  <2>2. QED
    BY <1>2, <1>3, <2>1 DEF WriterOK
<1>5. CASE DeleteHits(t, f)
  <2>1. PICK g : /\ g = [f EXCEPT !.level = LIST_HEIGHT - 1, !.doing = "unlink", !.at = "test"]
                 /\ frame' = [frame EXCEPT ![t] = g]
    BY <1>5 DEF DeleteHits, Reads, Go
  <2>2. g \in FrameType /\ g.op = f.op /\ g.key = f.key /\ g.doing = "unlink"
        /\ g.node = f.node /\ g.at = "test"
    BY <2>1, Addresses DEF FrameType
  <2>3. QED
    BY <1>1, <1>2, <1>4, <2>1, <2>2, DeleteGoesOn
<1>6. CASE DeleteTests(t, f)
  <2>1. f.doing = "unlink"
    BY <1>2, <1>3, <1>6 DEF DeleteTests, At, Shape
  <2>2. PICK g : /\ g = (IF link(f.node, f.level) = dummyTail THEN LevelDone(f)
                         ELSE [f EXCEPT !.prev = dummyHead, !.at = "walk"])
                 /\ frame' = [frame EXCEPT ![t] = g]
    BY <1>6 DEF DeleteTests, Reads, Go
  <2>3. CASE g = LevelDone(f)
    BY <1>1, <1>2, <1>4, <2>1, <2>2, <2>3, LevelDoneFacts, DeleteGoesOn
  <2>4. CASE g = [f EXCEPT !.prev = dummyHead, !.at = "walk"]
    <3>1. g \in FrameType /\ g.op = f.op /\ g.key = f.key /\ g.doing = f.doing
          /\ g.node = f.node /\ g.at = "walk" /\ g.prev = dummyHead
      BY <2>4 DEF FrameType
    <3>2. Reached(g.prev, g.level) /\ Behind(g)
      BY <3>1 DEF Reached, Behind
    <3>3. QED
      BY <1>1, <1>2, <1>4, <2>1, <2>2, <3>1, <3>2, DeleteGoesOn
  <2>5. QED
    BY <2>2, <2>3, <2>4
<1>7. CASE UnlinkStops(t, f)
  <2>1. f.at = "walk" /\ f.doing = "unlink"
    BY <1>7 DEF UnlinkStops, Stops
  <2>2. PICK g : /\ g = (IF Ahead(f) = f.node THEN [f EXCEPT !.at = "cut"] ELSE LevelDone(f))
                 /\ frame' = [frame EXCEPT ![t] = g]
    BY <1>7 DEF UnlinkStops, Reads, Go
  <2>3. CASE Ahead(f) # f.node
    BY <1>1, <1>2, <1>4, <2>1, <2>2, <2>3, LevelDoneFacts, DeleteGoesOn
  <2>4. CASE Ahead(f) = f.node
    <3>1. g = [f EXCEPT !.at = "cut"]
      BY <2>2, <2>4
    <3>2. g \in FrameType /\ g.op = f.op /\ g.key = f.key /\ g.doing = f.doing
          /\ g.node = f.node /\ g.at = "cut" /\ g.prev = f.prev /\ g.level = f.level
      BY <3>1 DEF FrameType
    <3>3. Reached(f.prev, f.level) /\ Behind(f)
      BY <1>3, <2>1 DEF WriterOK
    <3>4. Behind(g)
      BY <3>2, <3>3 DEF Behind
    <3>5. f.level <= mem[f.node].levelHeight
      <4>1. f.prev \in Nodes \cup {dummyHead} /\ f.level \in Levels
        BY DEF FrameType
      <4>2. Target(link(f.prev, f.level), f.level)
        BY <1>3, <3>3, <4>1, AheadOfReached
      <4>3. f.node # dummyTail
        BY <1>4, Addresses DEF Live, SharedInv
      <4>4. QED
        BY <2>4, <4>2, <4>3 DEF Ahead, Target, Published
    <3>6. QED
      BY <1>1, <1>2, <1>4, <2>1, <2>2, <3>2, <3>3, <3>4, <3>5, DeleteGoesOn
  <2>5. QED
    BY <2>3, <2>4
<1>8. QED
  BY <1>5, <1>6, <1>7

-----------------------------------------------------------------------------
(* The stores of Set and Delete.                                             *)

\* A store changes one link of one node, on a level of that node.
StoresLink(p, l, q) ==
  mem' = [mem EXCEPT ![p].levelNext[l] = q]

LEMMA OneLink ==
  ASSUME SharedInv, NEW p \in Nodes \cup {dummyHead}, NEW l \in Levels,
         NEW q \in Nodes \cup {dummyTail, NULL}, StoresLink(p, l, q)
  PROVE  /\ MemType'
         /\ \A r \in Nodes \cup {dummyHead} :
              /\ mem'[r].key = mem[r].key /\ mem'[r].state = mem[r].state
              /\ mem'[r].levelHeight = mem[r].levelHeight
              /\ \A m \in Levels : next(r, m)' = IF r = p /\ m = l THEN q ELSE next(r, m)
<1>1. MemType
  BY DEF SharedInv
<1> DEFINE links == [mem[p].levelNext EXCEPT ![l] = q]
           node == [mem[p] EXCEPT !.levelNext = links]
<1>2. mem' = [mem EXCEPT ![p] = node]
  BY <1>1 DEF StoresLink, MemType
<1>3. /\ mem[p].levelNext \in [Levels -> Nodes \cup {dummyTail, NULL}]
      /\ links \in [Levels -> Nodes \cup {dummyTail, NULL}]
      /\ \A m \in Levels : links[m] = IF m = l THEN q ELSE mem[p].levelNext[m]
  BY <1>1 DEF MemType
<1> HIDE DEF links
<1>4. MemType'
  BY <1>1, <1>2, <1>3 DEF MemType
<1>5. /\ node.key = mem[p].key /\ node.state = mem[p].state
      /\ node.levelHeight = mem[p].levelHeight /\ node.levelNext = links
  BY <1>1 DEF MemType
<1> HIDE DEF node
<1>6. \A r \in Nodes \cup {dummyHead} : mem'[r] = IF r = p THEN node ELSE mem[r]
  BY <1>1, <1>2 DEF MemType
<1>7. QED
  BY <1>3, <1>4, <1>5, <1>6 DEF next

\* Delete cuts a node off on a level: prev is linked to what the node is linked to.
LEMMA DeleteCutsKeeps ==
  ASSUME SharedInv, NEW t \in Threads, NEW f \in FrameType, CallOf(t, f), DeleteCuts(t, f)
  PROVE  SharedInv'
<1>1. f.op = "delete" /\ f.at = "cut"
  BY DEF DeleteCuts, At, CallOf
<1>2. t \in Writers /\ Shape(t, f) /\ WriterOK(f) /\ frame[t] = f /\ ListOK
  BY <1>1, WriterFacts DEF WriterOps
<1>3. f.doing = "unlink" /\ ~Building(f)
  BY <1>1, <1>2 DEF Shape, Building
<1>4. PICK q : q = link(f.node, f.level)
  OBVIOUS
<1>5. PICK g : g = LevelDone(f) /\ frame' = [frame EXCEPT ![t] = g]
  BY DEF DeleteCuts, Stores, Go
<1>6. /\ g \in FrameType /\ g.op = f.op /\ g.key = f.key /\ g.doing = f.doing
      /\ g.node = f.node /\ g.at \in {"test", "uncount"}
  BY <1>5, LevelDoneFacts
<1>7. StoresLink(f.prev, f.level, q) /\ allocated' = allocated /\ status' = status
  BY <1>4 DEF DeleteCuts, Stores, StoresLink
<1>8. /\ f.prev \in Nodes \cup {dummyHead} /\ f.level \in Levels /\ f.level \in Nat
      /\ 0 \in Levels
  BY Addresses DEF FrameType
<1>9. Live(f.node) /\ f.node \in Nodes /\ f.node # dummyHead /\ mem[f.node].key = f.key
  BY <1>1, <1>2, <1>3, Addresses DEF WriterOK, Live, SharedInv
<1>10. Reached(f.node, f.level) /\ Reached(f.prev, f.level) /\ Behind(f)
  <2>1. f.level <= mem[f.node].levelHeight
    BY <1>1, <1>2 DEF WriterOK
  <2>2. Published(f.node, f.level)
    BY <1>1, <1>2, <1>3, <2>1, OneBuilder
  <2>3. QED
    BY <1>1, <1>2, <1>9, <2>2 DEF Reached, WriterOK
<1>11. /\ Target(q, f.level)
       /\ f.level = 0 /\ q \in Nodes => mem[f.node].key < mem[q].key
       /\ q \in Nodes \cup {dummyTail, NULL}
  <2>1. Target(q, f.level)
    BY <1>2, <1>4, <1>8, <1>9, <1>10, AheadOfReached
  <2>2. f.level = 0 /\ q \in Nodes => mem[f.node].key < mem[q].key
    BY <1>2, <1>4, <1>8, <1>9, <1>10, AheadOfReached
  <2>3. QED
    BY <2>1, <2>2 DEF Target, Live, SharedInv
<1>12. /\ MemType'
       /\ \A r \in Nodes \cup {dummyHead} :
            /\ mem'[r].key = mem[r].key /\ mem'[r].state = mem[r].state
            /\ mem'[r].levelHeight = mem[r].levelHeight
            /\ \A m \in Levels :
                 next(r, m)' = IF r = f.prev /\ m = f.level THEN q ELSE next(r, m)
  <2>1. PICK p \in Nodes \cup {dummyHead}, l \in Levels : p = f.prev /\ l = f.level
    BY <1>8
  <2>2. StoresLink(p, l, q)
    BY <1>7, <2>1
  <2>3. QED
    BY <1>11, <2>1, <2>2, OneLink
<1>13. ~Building(g)
  BY <1>1, <1>6 DEF Building
<1>14. \A r \in Nodes \cup {dummyHead}, m \in Levels :
         (Filled(r, m)' <=> Filled(r, m)) /\ (Published(r, m)' <=> Published(r, m))
  <2>1. ASSUME NEW r \in Nodes \cup {dummyHead}, NEW m \in Levels
        PROVE  (Filled(r, m)' <=> Filled(r, m)) /\ (Published(r, m)' <=> Published(r, m))
    <3>1. (Filled(r, m) <=> m <= mem[r].levelHeight) /\ (Published(r, m) <=> m <= mem[r].levelHeight)
      BY <1>1, <1>2, <1>3, OneBuilder
    <3>2. (Filled(r, m)' <=> m <= mem'[r].levelHeight) /\ (Published(r, m)' <=> m <= mem'[r].levelHeight)
      BY <1>1, <1>2, <1>5, <1>13, OneBuilderNext
    <3>3. QED
      BY <1>12, <3>1, <3>2
  <2>2. QED
    BY <2>1
<1>15. \A r : Live(r)' <=> Live(r)
  BY <1>7, <1>12 DEF Live, SharedInv
<1>16. NothingWithdrawn
  BY <1>12, <1>14, <1>15 DEF NothingWithdrawn, Live, SharedInv
<1>17. \A r, m : m \in Levels /\ Target(r, m) => Target(r, m)'
  BY <1>14, <1>15 DEF Target, Live, SharedInv
<1>18. ListOK'
  <2>1. HeadOK'
    BY <1>2, <1>11, <1>12, <1>17 DEF ListOK, HeadOK
  <2>2. ASSUME NEW r \in Nodes, Live(r)
        PROVE  NodeOK(r)'
    <3>1. NodeOK(r) /\ r # dummyHead
      BY <1>2, <2>2, Addresses DEF ListOK
    <3>2. ASSUME NEW m \in Levels
          PROVE  /\ Filled(r, m)' => Target(next(r, m), m)'
                 /\ m > mem'[r].levelHeight => next(r, m)' = NULL
      <4>1. CASE r = f.prev /\ m = f.level
        <5>1. next(r, m)' = q /\ Target(q, m)'
          BY <1>8, <1>11, <1>12, <1>17, <4>1
        <5>2. Target(next(r, m), m)'
          BY <5>1 DEF Target
        <5>3. m <= mem'[r].levelHeight
          BY <1>10, <1>12, <3>1, <4>1 DEF Reached, Published
        <5>4. mem'[r].levelHeight \in Nat
          BY <1>12, NodeFields, Addresses DEF SharedInv
        <5>5. QED
          BY <1>8, <4>1, <5>2, <5>3, <5>4
      <4>2. CASE ~(r = f.prev /\ m = f.level)
        <5>1. next(r, m)' = next(r, m)
          BY <1>12, <4>2
        <5>2. Target(next(r, m), m) => Target(next(r, m), m)'
          BY <1>17, <5>1 DEF Target
        <5>3. QED
          BY <1>12, <1>14, <3>1, <5>1, <5>2 DEF NodeOK
      <4>3. QED
        BY <4>1, <4>2
    <3>3. Filled(r, 0)' /\ next(r, 0)' \in Nodes => mem'[r].key < mem'[next(r, 0)'].key
      <4>1. CASE r = f.prev /\ f.level = 0
        <5>1. ASSUME q \in Nodes
              PROVE  mem'[r].key < mem'[q].key
          <6>1. mem[r].key < mem[f.node].key /\ mem[f.node].key < mem[q].key
            BY <1>9, <1>10, <1>11, <3>1, <4>1, <5>1 DEF Behind
          <6>2. Live(q)
            BY <1>11, <5>1, Addresses DEF Target
          <6>3. mem[r].key \in Nat /\ mem[f.node].key \in Nat /\ mem[q].key \in Nat
            BY <1>2, <1>9, <2>2, <6>2, LiveHasKey
          <6>4. mem[r].key < mem[q].key
            BY <6>1, <6>3
          <6>5. QED
            BY <1>12, <5>1, <6>4
        <5>2. QED
          BY <1>8, <1>12, <4>1, <5>1
      <4>2. CASE ~(r = f.prev /\ f.level = 0)
        BY <1>8, <1>12, <1>14, <3>1, <4>2 DEF NodeOK
      <4>3. QED
        BY <4>1, <4>2
    <3>4. QED
      BY <1>12, <3>1, <3>2, <3>3 DEF NodeOK
  <2>3. QED
    BY <1>15, <2>1, <2>2 DEF ListOK
<1>19. WriterOK(g)'
  <2>1. Live(g.node)' /\ mem'[g.node].key = g.key
    BY <1>6, <1>9, <1>12, <1>15 
  <2>2. QED
    BY <1>1, <1>6, <1>13, <2>1 DEF WriterOK, Building
<1>20. Shape(t, g)
  BY <1>1, <1>2, <1>3, <1>6 DEF Shape, Walks
<1>21. QED
  BY <1>1, <1>2, <1>5, <1>6, <1>7, <1>12, <1>16, <1>18, <1>19, <1>20, StoreKeeps, StatusOK DEF SharedInv

\* What Set does to the list before a node is linked keeps the list, as long as no
\* link, key or height changes and every node is as published as it was.
LEMMA ContentKeeps ==
  ASSUME SharedInv, ListOK, allocated' = allocated,
         \A r \in Nodes \cup {dummyHead} :
           /\ mem'[r].key = mem[r].key /\ mem'[r].levelHeight = mem[r].levelHeight
           /\ \A m \in Levels : /\ next(r, m)' = next(r, m)
                                /\ Filled(r, m)' <=> Filled(r, m)
                                /\ Published(r, m)' <=> Published(r, m),
         \A r : Live(r)' <=> Live(r)
  PROVE  ListOK' /\ NothingWithdrawn
<1>1. \A r : Live(r) => r \in Nodes
  BY DEF Live, SharedInv
<1>2. \A r, m : m \in Levels /\ Target(r, m) => Target(r, m)'
  BY <1>1 DEF Target
<1>3. HeadOK'
  BY <1>2 DEF ListOK, HeadOK
<1>4. ASSUME NEW r \in Nodes, Live(r)
      PROVE  NodeOK(r)'
  <2>1. NodeOK(r) /\ 0 \in Levels
    BY <1>4, Addresses DEF ListOK
  <2>2. \A m \in Levels : Target(next(r, m), m) => Target(next(r, m), m)'
    BY <1>2 DEF Target
  <2>3. Filled(r, 0)' /\ next(r, 0)' \in Nodes => mem'[r].key < mem'[next(r, 0)'].key
    BY <2>1 DEF NodeOK
  <2>4. QED
    BY <2>1, <2>2, <2>3 DEF NodeOK
<1>5. QED
  BY <1>1, <1>3, <1>4 DEF ListOK, NothingWithdrawn

\* Set finds its key and updates the node.
LEMMA SetUpdatesKeeps ==
  ASSUME SharedInv, NEW t \in Threads, NEW f \in FrameType, CallOf(t, f), SetUpdates(t, f)
  PROVE  SharedInv'
<1>1. f.op = "set" /\ f.at = "found"
  BY DEF SetUpdates, At, CallOf
<1>2. t \in Writers /\ Shape(t, f) /\ WriterOK(f) /\ frame[t] = f /\ ListOK
  BY <1>1, WriterFacts DEF WriterOps
<1>3. PICK n : n = f.node
  OBVIOUS
<1>4. Live(n) /\ n \in Nodes /\ f.value \in Values \cup {NULL}
  BY <1>1, <1>2, <1>3 DEF WriterOK, Live, SharedInv, FrameType
<1>5. /\ mem' = [mem EXCEPT ![n].value = f.value, ![n].state = "NORMAL"]
      /\ allocated' = allocated /\ status' = status
      /\ frame' = [frame EXCEPT ![t] = Idle]
  BY <1>3 DEF SetUpdates, WriterReturns, Returns, Go
<1>6. /\ MemType'
      /\ \A r \in Nodes \cup {dummyHead} :
           /\ mem'[r].key = mem[r].key /\ mem'[r].levelHeight = mem[r].levelHeight
           /\ mem'[r].levelNext = mem[r].levelNext
           /\ mem'[r].state = IF r = n THEN "NORMAL" ELSE mem[r].state
  <2>1. MemType
    BY DEF SharedInv
  <2>2. PICK v \in Values \cup {NULL} : v = f.value
    BY <1>4
  <2>3. PICK node : node = [mem[n] EXCEPT !.value = v, !.state = "NORMAL"]
    OBVIOUS
  <2>4. mem' = [mem EXCEPT ![n] = node]
    BY <1>4, <1>5, <2>1, <2>2, <2>3 DEF MemType
  <2>5. node \in [levelNext : [Levels -> Nodes \cup {dummyTail, NULL}], levelHeight : Levels,
                  key : Keys \cup {NULL}, value : Values \cup {NULL}, state : NodeStates]
        /\ node.key = mem[n].key /\ node.levelHeight = mem[n].levelHeight
        /\ node.levelNext = mem[n].levelNext /\ node.state = "NORMAL"
    <3>1. PICK old \in [levelNext : [Levels -> Nodes \cup {dummyTail, NULL}], levelHeight : Levels,
                        key : Keys \cup {NULL}, value : Values \cup {NULL}, state : NodeStates] :
            old = mem[n]
      BY <1>4, <2>1 DEF MemType
    <3>2. node = [old EXCEPT !.value = v, !.state = "NORMAL"] /\ "NORMAL" \in NodeStates
      BY <2>3, <3>1 DEF NodeStates
    <3>3. QED
      BY <3>1, <3>2
  <2>6. MemType'
    BY <2>1, <2>4, <2>5 DEF MemType
  <2>7. \A r \in Nodes \cup {dummyHead} : mem'[r] = IF r = n THEN node ELSE mem[r]
    BY <2>1, <2>4 DEF MemType
  <2>8. QED
    BY <2>5, <2>6, <2>7
<1>7. ~Building(f) /\ ~Building(Idle)
  BY <1>1, <1>2 DEF Building, Shape, Idle
<1>8. ASSUME NEW r \in Nodes \cup {dummyHead}, NEW m \in Levels
      PROVE  (Filled(r, m)' <=> Filled(r, m)) /\ (Published(r, m)' <=> Published(r, m))
  <2>1. (Filled(r, m) <=> m <= mem[r].levelHeight) /\ (Published(r, m) <=> m <= mem[r].levelHeight)
    BY <1>1, <1>2, <1>7, OneBuilder
  <2>2. (Filled(r, m)' <=> m <= mem'[r].levelHeight) /\ (Published(r, m)' <=> m <= mem'[r].levelHeight)
    BY <1>1, <1>2, <1>5, <1>7, OneBuilderNext
  <2>3. QED
    BY <1>6, <2>1, <2>2
<1>9. \A r : Live(r)' <=> Live(r)
  BY <1>4, <1>5, <1>6 DEF Live, SharedInv
<1>10. \A r \in Nodes \cup {dummyHead}, m \in Levels : next(r, m)' = next(r, m)
  BY <1>6 DEF next
<1>11. ListOK' /\ NothingWithdrawn
  BY <1>2, <1>5, <1>6, <1>8, <1>9, <1>10, ContentKeeps
<1>12. Idle \in FrameType /\ Shape(t, Idle) /\ WriterOK(Idle)'
  BY IdleOK, <1>7 DEF WriterOK, Idle
<1>13. QED
  BY <1>1, <1>2, <1>5, <1>6, <1>11, <1>12, StoreKeeps, StatusOK DEF SharedInv

\* Set takes a node from the heap and fills it: it is not linked on any level yet.
LEMMA SetAllocatesKeeps ==
  ASSUME SharedInv, NEW t \in Threads, NEW f \in FrameType, CallOf(t, f), SetAllocates(t, f)
  PROVE  SharedInv'
<1>1. f.op = "set" /\ f.at = "missed"
  BY DEF SetAllocates, At, CallOf
<1>2. t \in Writers /\ Shape(t, f) /\ WriterOK(f) /\ frame[t] = f /\ ListOK
  BY <1>1, WriterFacts DEF WriterOps
<1>3. PICK n \in Nodes \ allocated, h \in Levels :
        /\ mem' = [mem EXCEPT ![n] = [EmptyNode EXCEPT !.key = f.key, !.value = f.value,
                                                       !.state = "NORMAL", !.levelHeight = h]]
        /\ allocated' = allocated \cup {n}
        /\ frame' = [frame EXCEPT ![t] = [f EXCEPT !.node = n, !.level = 0, !.at = "copy"]]
        /\ status' = status
  <2>1. PICK n : n = CHOOSE m \in Nodes \ allocated : TRUE
    OBVIOUS
  <2>2. n \in Nodes \ allocated
    BY <2>1 DEF SetAllocates, SharedInv
  <2>3. QED
    BY <2>1, <2>2 DEF SetAllocates, Go, RandomHeights
<1>4. PICK g : g = [f EXCEPT !.node = n, !.level = 0, !.at = "copy"]
  OBVIOUS
<1>5. /\ g \in FrameType /\ g.op = f.op /\ g.doing = f.doing /\ g.at = "copy" /\ g.level = 0
      /\ g.node = n /\ g.key = f.key /\ g.prev = f.prev
  BY <1>4, Addresses DEF FrameType
<1>6. f.key \in Keys /\ f.value \in Values \cup {NULL} /\ f.prev \in Nodes \cup {dummyHead}
  BY <1>1, <1>2 DEF Shape, FrameType
<1>7. PICK node : node = [EmptyNode EXCEPT !.key = f.key, !.value = f.value,
                                           !.state = "NORMAL", !.levelHeight = h]
  OBVIOUS
<1>8. /\ node \in [levelNext : [Levels -> Nodes \cup {dummyTail, NULL}], levelHeight : Levels,
                   key : Keys \cup {NULL}, value : Values \cup {NULL}, state : NodeStates]
      /\ node.key = f.key /\ node.state = "NORMAL" /\ node.levelHeight = h
      /\ \A l \in Levels : node.levelNext[l] = NULL
  BY <1>6, <1>7 DEF EmptyNode, NodeStates
<1>9. /\ MemType'
      /\ \A r \in Nodes \cup {dummyHead} : mem'[r] = IF r = n THEN node ELSE mem[r]
  BY <1>3, <1>7, <1>8 DEF SharedInv, MemType
<1>10. /\ ~Live(n) /\ Live(n)' /\ n # dummyHead
       /\ \A r : r # n => (Live(r)' <=> Live(r))
       /\ \A r : Live(r) => r \in Nodes /\ r # n
  BY <1>3, <1>8, <1>9, Addresses DEF Live, SharedInv
<1>11. \A r \in Nodes \cup {dummyHead} : r # n =>
         /\ mem'[r].key = mem[r].key /\ mem'[r].levelHeight = mem[r].levelHeight
         /\ \A m \in Levels : next(r, m)' = next(r, m)
  BY <1>9 DEF next
<1>12. ~Building(f) /\ Building(g)
  BY <1>1, <1>2, <1>5 DEF Building, Shape
<1>13. ASSUME NEW r \in Nodes \cup {dummyHead}, NEW m \in Levels
       PROVE  /\ r # n => (Filled(r, m)' <=> Filled(r, m)) /\ (Published(r, m)' <=> Published(r, m))
              /\ ~Filled(n, m)'
  <2>1. (Filled(r, m) <=> m <= mem[r].levelHeight) /\ (Published(r, m) <=> m <= mem[r].levelHeight)
    BY <1>1, <1>2, <1>12, OneBuilder
  <2>2. /\ r # n => (Filled(r, m)' <=> m <= mem'[r].levelHeight)
                    /\ (Published(r, m)' <=> m <= mem'[r].levelHeight)
        /\ Filled(n, m)' => m < 0
    <3>1. frame' = [frame EXCEPT ![t] = g] /\ frame[t].op # "none"
      BY <1>1, <1>2, <1>3, <1>4
    <3>2. /\ Filled(r, m)' <=>
               /\ m <= mem'[r].levelHeight
               /\ Building(g) /\ g.node = r =>
                    g.at = "count" \/ m < g.level \/ (m = g.level /\ g.at = "publish")
          /\ Published(r, m)' <=>
               /\ m <= mem'[r].levelHeight
               /\ Building(g) /\ g.node = r => g.at = "count" \/ m < g.level
      BY <1>2, <3>1, OneBuilderNext
    <3>3. Filled(n, m)' =>
            (Building(g) /\ g.node = n =>
               g.at = "count" \/ m < g.level \/ (m = g.level /\ g.at = "publish"))
      BY <1>2, <3>1, OneBuilderNext
    <3>4. QED
      BY <1>5, <1>12, <3>2, <3>3
  <2>3. m \in Nat
    BY Addresses
  <2>4. QED
    BY <1>11, <2>1, <2>2, <2>3
<1>14. \A r, m : m \in Levels /\ Target(r, m) => Target(r, m)'
  BY <1>10, <1>13 DEF Target
<1>15. NothingWithdrawn
  BY <1>10, <1>11, <1>13 DEF NothingWithdrawn
<1>16. ListOK'
  <2>1. HeadOK'
    BY <1>2, <1>10, <1>11, <1>14 DEF ListOK, HeadOK, Target
  <2>2. ASSUME NEW r \in Nodes, Live(r)'
        PROVE  NodeOK(r)'
    <3>1. CASE r = n
      <4>1. mem'[n].key \in Keys /\ \A l \in Levels : next(n, l)' = NULL
        BY <1>6, <1>8, <1>9 DEF next
      <4>2. ~Filled(n, 0)'
        BY <1>13, Addresses
      <4>3. QED
        BY <1>13, <3>1, <4>1, <4>2 DEF NodeOK
    <3>2. CASE r # n
      <4>1. Live(r) /\ NodeOK(r) /\ 0 \in Levels
        BY <1>2, <1>10, <2>2, <3>2, Addresses DEF ListOK
      <4>2. ASSUME NEW m \in Levels
            PROVE  /\ Filled(r, m)' => Target(next(r, m), m)'
                   /\ m > mem'[r].levelHeight => next(r, m)' = NULL
        <5>1. next(r, m)' = next(r, m)
          BY <1>11, <3>2
        <5>2. Target(next(r, m), m) => Target(next(r, m), m)'
          BY <1>14, <5>1 DEF Target
        <5>3. QED
          BY <1>11, <1>13, <3>2, <4>1, <5>1, <5>2 DEF NodeOK
      <4>3. Filled(r, 0)' /\ next(r, 0)' \in Nodes => mem'[r].key < mem'[next(r, 0)'].key
        <5>1. ASSUME Filled(r, 0)', next(r, 0)' \in Nodes
              PROVE  mem'[r].key < mem'[next(r, 0)'].key
          <6>1. PICK q \in Nodes : q = next(r, 0) /\ q = next(r, 0)'
            BY <1>11, <3>2, <4>1, <5>1
          <6>2. Filled(r, 0) /\ mem[r].key < mem[q].key /\ Target(q, 0)
            BY <1>13, <3>2, <4>1, <5>1, <6>1 DEF NodeOK
          <6>3. q # n
            BY <1>10, <6>1, <6>2, Addresses DEF Target
          <6>4. QED
            BY <1>11, <3>2, <6>1, <6>2, <6>3
        <5>2. QED
          BY <5>1
      <4>4. QED
        BY <1>11, <3>2, <4>1, <4>2, <4>3 DEF NodeOK
    <3>3. QED
      BY <3>1, <3>2
  <2>3. QED
    BY <2>1, <2>2 DEF ListOK
<1>17. Shape(t, g)
  BY <1>1, <1>2, <1>5 DEF Shape, Walks
<1>18. WriterOK(g)'
  <2>1. Reached(f.prev, 0) /\ Behind(f) /\ AheadGreater(f) /\ f.level = 0
    BY <1>1, <1>2 DEF WriterOK
  <2>2. f.prev # n /\ Reached(f.prev, 0)' /\ (f.prev # dummyHead => mem'[f.prev].key < f.key)
    <3>1. f.prev # n
      BY <1>10, <2>1 DEF Reached
    <3>2. QED
      BY <1>6, <1>10, <1>11, <1>13, <2>1, <3>1, Addresses DEF Reached, Behind
  <2>3. AheadGreater(g)'
    <3>1. PICK q : q = link(f.prev, 0)
      OBVIOUS
    <3>2. q = next(f.prev, 0) /\ Target(q, 0)
      BY <1>2, <1>6, <2>1, <3>1, AheadOfReached, Addresses
    <3>3. Ahead(g)' = q
      <4>1. Ahead(g)' = next(f.prev, 0)'
        BY <1>5, <1>6, Addresses DEF Ahead, link, next
      <4>2. QED
        BY <1>6, <1>11, <2>2, <3>2, <4>1, Addresses
    <3>4. q \in Nodes => f.key < mem[q].key
      BY <2>1, <3>1 DEF AheadGreater, Ahead
    <3>5. q \in Nodes => q # n
      BY <1>10, <3>2, Addresses DEF Target
    <3>6. q \in Nodes => g.key < mem'[q].key
      BY <1>5, <1>11, <3>4, <3>5
    <3>7. QED
      BY <3>3, <3>6 DEF AheadGreater
  <2>4. Live(g.node)' /\ mem'[g.node].key = g.key /\ g.level <= mem'[g.node].levelHeight
    BY <1>5, <1>8, <1>9, <1>10, Addresses
  <2>5. Behind(g)' /\ Reached(g.prev, g.level)' /\ g.prev # g.node
    BY <1>5, <2>2 DEF Behind, Reached
  <2>6. QED
    BY <1>1, <1>5, <2>3, <2>4, <2>5 DEF WriterOK
<1>19. allocated' \subseteq Nodes
  BY <1>3 DEF SharedInv
<1>20. QED
  BY <1>1, <1>2, <1>3, <1>4, <1>5, <1>9, <1>15, <1>16, <1>17, <1>18, <1>19, StoreKeeps, StatusOK

\* What a Set that builds is on each level of its own node and of the others.
LEMMA Built ==
  ASSUME SharedInv, NEW t \in Writers, NEW f \in FrameType, frame[t] = f, f.op # "none",
         Building(f), f.at \in {"copy", "publish"}, NEW m \in Levels, NEW r
  PROVE  /\ r # f.node => /\ Filled(r, m) <=> m <= mem[r].levelHeight
                          /\ Published(r, m) <=> m <= mem[r].levelHeight
         /\ r = f.node =>
              /\ Published(r, m) <=> m <= mem[r].levelHeight /\ m < f.level
              /\ Filled(r, m) <=> /\ m <= mem[r].levelHeight
                                  /\ m < f.level \/ (m = f.level /\ f.at = "publish")
BY OneBuilder

\* Set copies the link of prev to its node: the level is filled.
LEMMA SetCopiesKeeps ==
  ASSUME SharedInv, NEW t \in Threads, NEW f \in FrameType, CallOf(t, f), SetCopies(t, f)
  PROVE  SharedInv'
<1>1. f.op = "set" /\ f.at = "copy"
  BY DEF SetCopies, At, CallOf
<1>2. t \in Writers /\ Shape(t, f) /\ WriterOK(f) /\ frame[t] = f /\ ListOK
  BY <1>1, WriterFacts DEF WriterOps
<1>3. PICK n, l, p, q : n = f.node /\ l = f.level /\ p = f.prev /\ q = link(f.prev, f.level)
  OBVIOUS
<1>4. PICK g : g = [f EXCEPT !.at = "publish"] /\ frame' = [frame EXCEPT ![t] = g]
  BY DEF SetCopies, Stores, Go
<1>5. /\ g \in FrameType /\ g.op = f.op /\ g.doing = f.doing /\ g.at = "publish"
      /\ g.level = l /\ g.node = n /\ g.key = f.key /\ g.prev = p
  BY <1>3, <1>4 DEF FrameType
<1>6. Building(f) /\ Building(g)
  BY <1>1, <1>5 DEF Building
<1>7. /\ Live(n) /\ n \in Nodes /\ n # dummyHead /\ mem[n].key = f.key
      /\ l \in Levels /\ l \in Nat /\ l <= mem[n].levelHeight
      /\ p \in Nodes \cup {dummyHead} /\ p # n /\ Reached(p, l) /\ Behind(f)
  BY <1>1, <1>2, <1>3, <1>6, Addresses DEF WriterOK, Live, SharedInv, FrameType
<1>8. Target(q, l) /\ q \in Nodes \cup {dummyTail, NULL}
  BY <1>2, <1>3, <1>7, AheadOfReached DEF Target, Live, SharedInv
<1>9. StoresLink(n, l, q) /\ allocated' = allocated /\ status' = status
  BY <1>3 DEF SetCopies, Stores, StoresLink
<1>10. /\ MemType'
       /\ \A r \in Nodes \cup {dummyHead} :
            /\ mem'[r].key = mem[r].key /\ mem'[r].state = mem[r].state
            /\ mem'[r].levelHeight = mem[r].levelHeight
            /\ \A m \in Levels : next(r, m)' = IF r = n /\ m = l THEN q ELSE next(r, m)
  BY <1>7, <1>8, <1>9, OneLink
<1>11. ASSUME NEW r \in Nodes \cup {dummyHead}, NEW m \in Levels
       PROVE  /\ Published(r, m)' <=> Published(r, m)
              /\ Filled(r, m)' <=> Filled(r, m) \/ (r = n /\ m = l)
  <2>1. /\ r # n => /\ Filled(r, m) <=> m <= mem[r].levelHeight
                    /\ Published(r, m) <=> m <= mem[r].levelHeight
        /\ r = n => /\ Published(r, m) <=> m <= mem[r].levelHeight /\ m < l
                    /\ Filled(r, m) <=> m <= mem[r].levelHeight /\ m < l
    BY <1>1, <1>2, <1>3, <1>6, Built
  <2>2. /\ Filled(r, m)' <=>
             /\ m <= mem'[r].levelHeight
             /\ Building(g) /\ g.node = r =>
                  g.at = "count" \/ m < g.level \/ (m = g.level /\ g.at = "publish")
        /\ Published(r, m)' <=>
             /\ m <= mem'[r].levelHeight
             /\ Building(g) /\ g.node = r => g.at = "count" \/ m < g.level
    <3>1. frame' = [frame EXCEPT ![t] = g] /\ frame[t].op # "none"
      BY <1>1, <1>2, <1>4
    <3>2. QED
      BY <1>2, <3>1, OneBuilderNext
  <2>3. QED
    BY <1>5, <1>6, <1>7, <1>10, <2>1, <2>2
<1>12. \A r : (Live(r)' <=> Live(r)) /\ (Live(r) => r \in Nodes)
  BY <1>9, <1>10 DEF Live, SharedInv
<1>13. NothingWithdrawn
  BY <1>10, <1>11, <1>12 DEF NothingWithdrawn
<1>14. \A r, m : m \in Levels /\ Target(r, m) => Target(r, m)'
  BY <1>11, <1>12 DEF Target
<1>15. ListOK'
  <2>1. HeadOK'
    BY <1>2, <1>7, <1>10, <1>14 DEF ListOK, HeadOK, Target
  <2>2. ASSUME NEW r \in Nodes, Live(r)
        PROVE  NodeOK(r)'
    <3>1. NodeOK(r) /\ r # dummyHead /\ 0 \in Levels
      BY <1>2, <2>2, Addresses DEF ListOK
    <3>2. ASSUME NEW m \in Levels
          PROVE  /\ Filled(r, m)' => Target(next(r, m), m)'
                 /\ m > mem'[r].levelHeight => next(r, m)' = NULL
      <4>1. CASE r = n /\ m = l
        <5>1. next(r, m)' = q /\ Target(q, m)'
          BY <1>7, <1>8, <1>10, <1>14, <4>1
        <5>2. Target(next(r, m), m)'
          BY <5>1 DEF Target
        <5>3. mem'[r].levelHeight \in Nat /\ m <= mem'[r].levelHeight
          BY <1>7, <1>10, <4>1, NodeFields, Addresses DEF SharedInv
        <5>4. QED
          BY <1>7, <4>1, <5>2, <5>3
      <4>2. CASE ~(r = n /\ m = l)
        <5>1. next(r, m)' = next(r, m)
          BY <1>10, <4>2
        <5>2. Target(next(r, m), m) => Target(next(r, m), m)'
          BY <1>14, <5>1 DEF Target
        <5>3. QED
          BY <1>10, <1>11, <3>1, <4>2, <5>1, <5>2 DEF NodeOK
      <4>3. QED
        BY <4>1, <4>2
    <3>3. Filled(r, 0)' /\ next(r, 0)' \in Nodes => mem'[r].key < mem'[next(r, 0)'].key
      <4>1. CASE r = n /\ l = 0
        <5>1. q \in Nodes => mem[n].key < mem[q].key
          BY <1>1, <1>2, <1>3, <1>7, <4>1 DEF WriterOK, AheadGreater, Ahead
        <5>2. QED
          BY <1>7, <1>10, <4>1, <5>1
      <4>2. CASE ~(r = n /\ l = 0)
        BY <1>7, <1>10, <1>11, <3>1, <4>2 DEF NodeOK
      <4>3. QED
        BY <4>1, <4>2
    <3>4. QED
      BY <1>10, <3>1, <3>2, <3>3 DEF NodeOK
  <2>3. QED
    BY <1>12, <2>1, <2>2 DEF ListOK
<1>16. Shape(t, g)
  BY <1>1, <1>2, <1>5 DEF Shape, Walks
<1>17. WriterOK(g)'
  <2>1. Live(n)' /\ mem'[n].key = g.key /\ l <= mem'[n].levelHeight
    BY <1>5, <1>7, <1>10, <1>12
  <2>2. Reached(p, l)'
    BY <1>7, <1>11, <1>12 DEF Reached
  <2>3. Behind(g)'
    BY <1>3, <1>5, <1>7, <1>10 DEF Behind
  <2>4. QED
    BY <1>1, <1>5, <1>7, <2>1, <2>2, <2>3 DEF WriterOK
<1>18. QED
  BY <1>1, <1>2, <1>4, <1>5, <1>9, <1>10, <1>13, <1>15, <1>16, <1>17, StoreKeeps, StatusOK DEF SharedInv

\* Where Set goes on after it has published its node on a level.
Beyond(f) ==
  IF Topmost(f) THEN [f EXCEPT !.at = "count"]
  ELSE IF Climbs(f) THEN
    [f EXCEPT !.level = @ + 1, !.at = "walk", !.doing = "climb",
              !.prev = IF f.doing = "climb" THEN @ ELSE dummyHead]
  ELSE [f EXCEPT !.level = @ + 1, !.at = "copy"]

LEMMA AfterPublish ==
  ASSUME SharedInv, NEW f \in FrameType, Building(f), f.at = "publish", WriterOK(f),
         f.node \in Nodes, NEW g, g = Beyond(f)
  PROVE  /\ g \in FrameType /\ g.op = f.op /\ g.node = f.node /\ g.key = f.key
         /\ \/ /\ f.level = mem[f.node].levelHeight /\ g.at = "count"
               /\ g.doing = f.doing /\ g.level = f.level
            \/ /\ f.level + 1 <= mem[f.node].levelHeight /\ g.level = f.level + 1
               /\ g.at = "walk" /\ g.doing = "climb"
               /\ g.prev = dummyHead \/ g.prev = f.prev
            \/ /\ f.level + 1 <= mem[f.node].levelHeight /\ g.level = f.level + 1
               /\ g.at = "copy" /\ g.doing = f.doing
               /\ g.prev = f.prev /\ f.level # mem[f.prev].levelHeight
<1>1. f.level <= mem[f.node].levelHeight
  BY DEF WriterOK
<1>2. mem[f.node].levelHeight \in Levels /\ f.level \in Levels
  BY NodeFields DEF SharedInv, FrameType
<1>3. CASE Topmost(f)
  <2>1. g = [f EXCEPT !.at = "count"]
    BY <1>3 DEF Beyond
  <2>2. QED
    BY <1>3, <2>1 DEF FrameType, Topmost
<1>4. CASE ~Topmost(f)
  <2>1. f.level + 1 <= mem[f.node].levelHeight /\ f.level + 1 \in Levels
    BY <1>1, <1>2, <1>4, SkipListAssumption DEF Topmost, Levels
  <2>2. PICK m \in Levels : m = f.level + 1
    BY <2>1
  <2>3. CASE Climbs(f)
    <3>1. PICK p \in Nodes \cup {dummyHead} :
            p = (IF f.doing = "climb" THEN f.prev ELSE dummyHead)
      BY DEF FrameType
    <3>2. g = [f EXCEPT !.level = m, !.at = "walk", !.doing = "climb", !.prev = p]
      BY <1>4, <2>2, <2>3, <3>1 DEF Beyond
    <3>3. /\ g \in FrameType /\ g.op = f.op /\ g.node = f.node /\ g.key = f.key
          /\ g.level = m /\ g.at = "walk" /\ g.doing = "climb" /\ g.prev = p
      BY <3>2 DEF FrameType
    <3>4. QED
      BY <2>1, <2>2, <3>1, <3>3
  <2>4. CASE ~Climbs(f)
    <3>1. g = [f EXCEPT !.level = m, !.at = "copy"]
      BY <1>4, <2>2, <2>4 DEF Beyond
    <3>2. /\ g \in FrameType /\ g.op = f.op /\ g.node = f.node /\ g.key = f.key
          /\ g.level = m /\ g.at = "copy" /\ g.doing = f.doing /\ g.prev = f.prev
      BY <3>1 DEF FrameType
    <3>3. QED
      BY <2>1, <2>2, <2>4, <3>2 DEF Climbs
  <2>5. QED
    BY <2>3, <2>4
<1>5. QED
  BY <1>3, <1>4

\* Set publishes its node on a level, where the node is filled.
LEMMA SetPublishesKeeps ==
  ASSUME SharedInv, NEW t \in Threads, NEW f \in FrameType, CallOf(t, f), SetPublishes(t, f)
  PROVE  SharedInv'
<1>1. f.op = "set" /\ f.at = "publish"
  BY DEF SetPublishes, At, CallOf
<1>2. t \in Writers /\ Shape(t, f) /\ WriterOK(f) /\ frame[t] = f /\ ListOK
  BY <1>1, WriterFacts DEF WriterOps
<1>3. PICK n, l, p : n = f.node /\ l = f.level /\ p = f.prev
  OBVIOUS
<1>4. Building(f)
  BY <1>1 DEF Building
<1>5. /\ Live(n) /\ n \in Nodes /\ n # dummyHead /\ mem[n].key = f.key
      /\ l \in Levels /\ l \in Nat /\ l <= mem[n].levelHeight
      /\ p \in Nodes \cup {dummyHead} /\ p # n /\ Reached(p, l) /\ Behind(f)
  BY <1>1, <1>2, <1>3, <1>4, Addresses DEF WriterOK, Live, SharedInv, FrameType
<1>6. PICK g : g = Beyond(f) /\ frame' = [frame EXCEPT ![t] = g]
  BY DEF SetPublishes, Stores, Go, Beyond
<1>7. /\ g \in FrameType /\ g.op = f.op /\ g.node = n /\ g.key = f.key
      /\ \/ /\ l = mem[n].levelHeight /\ g.at = "count"
            /\ g.doing = f.doing /\ g.level = l
         \/ /\ l + 1 <= mem[n].levelHeight /\ g.level = l + 1
            /\ g.at = "walk" /\ g.doing = "climb" /\ g.prev \in {dummyHead, p}
         \/ /\ l + 1 <= mem[n].levelHeight /\ g.level = l + 1
            /\ g.at = "copy" /\ g.doing = f.doing
            /\ g.prev = p /\ l # mem[p].levelHeight
  <2>1. f.at = "publish" /\ f.node \in Nodes /\ WriterOK(f)
    BY <1>1, <1>2, <1>3, <1>5
  <2>2. /\ g \in FrameType /\ g.op = f.op /\ g.node = f.node /\ g.key = f.key
        /\ \/ /\ f.level = mem[f.node].levelHeight /\ g.at = "count"
              /\ g.doing = f.doing /\ g.level = f.level
           \/ /\ f.level + 1 <= mem[f.node].levelHeight /\ g.level = f.level + 1
              /\ g.at = "walk" /\ g.doing = "climb"
              /\ g.prev = dummyHead \/ g.prev = f.prev
           \/ /\ f.level + 1 <= mem[f.node].levelHeight /\ g.level = f.level + 1
              /\ g.at = "copy" /\ g.doing = f.doing
              /\ g.prev = f.prev /\ f.level # mem[f.prev].levelHeight
    BY <1>4, <1>6, <2>1, AfterPublish
  <2>3. QED
    BY <1>3, <2>2
<1>8. Building(g)
  BY <1>1, <1>7 DEF Building
<1>9. StoresLink(p, l, n) /\ allocated' = allocated /\ status' = status
  BY <1>3 DEF SetPublishes, Stores, StoresLink
<1>10. /\ MemType'
       /\ \A r \in Nodes \cup {dummyHead} :
            /\ mem'[r].key = mem[r].key /\ mem'[r].state = mem[r].state
            /\ mem'[r].levelHeight = mem[r].levelHeight
            /\ \A m \in Levels : next(r, m)' = IF r = p /\ m = l THEN n ELSE next(r, m)
  BY <1>5, <1>9, OneLink
<1>11. ASSUME NEW r \in Nodes \cup {dummyHead}, NEW m \in Levels
       PROVE  /\ Published(r, m)' <=> Published(r, m) \/ (r = n /\ m = l)
              /\ Filled(r, m)' <=> Filled(r, m)
  <2>1. /\ r # n => /\ Filled(r, m) <=> m <= mem[r].levelHeight
                    /\ Published(r, m) <=> m <= mem[r].levelHeight
        /\ r = n => /\ Published(r, m) <=> m <= mem[r].levelHeight /\ m < l
                    /\ Filled(r, m) <=> m <= mem[r].levelHeight /\ (m < l \/ m = l)
    BY <1>1, <1>2, <1>3, <1>4, Built
  <2>2. /\ Filled(r, m)' <=>
             /\ m <= mem'[r].levelHeight
             /\ Building(g) /\ g.node = r =>
                  g.at = "count" \/ m < g.level \/ (m = g.level /\ g.at = "publish")
        /\ Published(r, m)' <=>
             /\ m <= mem'[r].levelHeight
             /\ Building(g) /\ g.node = r => g.at = "count" \/ m < g.level
    <3>1. frame' = [frame EXCEPT ![t] = g] /\ frame[t].op # "none"
      BY <1>1, <1>2, <1>6
    <3>2. QED
      BY <1>2, <3>1, OneBuilderNext
  <2>3. m \in Nat /\ mem[r].levelHeight \in Nat /\ mem'[r].levelHeight = mem[r].levelHeight
    BY <1>10, NodeFields, Addresses DEF SharedInv
  <2>4. CASE r # n
    BY <1>7, <2>1, <2>2, <2>3, <2>4
  <2>5. CASE r = n
    BY <1>5, <1>7, <1>8, <2>1, <2>2, <2>3, <2>5
  <2>6. QED
    BY <2>4, <2>5
<1>12. \A r : (Live(r)' <=> Live(r)) /\ (Live(r) => r \in Nodes)
  BY <1>9, <1>10 DEF Live, SharedInv
<1>13. NothingWithdrawn
  BY <1>10, <1>11, <1>12 DEF NothingWithdrawn
<1>14. \A r, m : m \in Levels /\ Target(r, m) => Target(r, m)'
  BY <1>11, <1>12 DEF Target
<1>15. Target(n, l)'
  BY <1>5, <1>11, <1>12 DEF Target
<1>16. ListOK'
  <2>1. HeadOK'
    <3>1. ASSUME NEW m \in Levels
          PROVE  Target(next(dummyHead, m), m)'
      <4>1. CASE p = dummyHead /\ m = l
        BY <1>10, <1>15, <4>1 DEF Target
      <4>2. CASE ~(p = dummyHead /\ m = l)
        <5>1. next(dummyHead, m)' = next(dummyHead, m) /\ Target(next(dummyHead, m), m)
          BY <1>2, <1>10, <4>2 DEF ListOK, HeadOK
        <5>2. QED
          BY <1>14, <5>1 DEF Target
      <4>3. QED
        BY <4>1, <4>2
    <3>2. QED
      BY <1>2, <1>10, <3>1 DEF ListOK, HeadOK
  <2>2. ASSUME NEW r \in Nodes, Live(r)
        PROVE  NodeOK(r)'
    <3>1. NodeOK(r) /\ r # dummyHead /\ 0 \in Levels
      BY <1>2, <2>2, Addresses DEF ListOK
    <3>2. ASSUME NEW m \in Levels
          PROVE  /\ Filled(r, m)' => Target(next(r, m), m)'
                 /\ m > mem'[r].levelHeight => next(r, m)' = NULL
      <4>1. CASE r = p /\ m = l
        <5>1. Target(next(r, m), m)'
          BY <1>10, <1>15, <4>1 DEF Target
        <5>2. mem'[r].levelHeight \in Nat /\ m <= mem'[r].levelHeight
          BY <1>5, <1>10, <3>1, <4>1, NodeFields, Addresses DEF SharedInv, Reached, Published
        <5>3. QED
          BY <1>5, <4>1, <5>1, <5>2
      <4>2. CASE ~(r = p /\ m = l)
        <5>1. next(r, m)' = next(r, m)
          BY <1>10, <4>2
        <5>2. Target(next(r, m), m) => Target(next(r, m), m)'
          BY <1>14, <5>1 DEF Target
        <5>3. QED
          BY <1>10, <1>11, <3>1, <5>1, <5>2 DEF NodeOK
      <4>3. QED
        BY <4>1, <4>2
    <3>3. Filled(r, 0)' /\ next(r, 0)' \in Nodes => mem'[r].key < mem'[next(r, 0)'].key
      <4>1. CASE r = p /\ l = 0
        BY <1>3, <1>5, <1>10, <3>1, <4>1 DEF Behind
      <4>2. CASE ~(r = p /\ l = 0)
        BY <1>5, <1>10, <1>11, <3>1, <4>2 DEF NodeOK
      <4>3. QED
        BY <4>1, <4>2
    <3>4. QED
      BY <1>10, <3>1, <3>2, <3>3 DEF NodeOK
  <2>3. QED
    BY <1>12, <2>1, <2>2 DEF ListOK
<1>17. Shape(t, g)
  BY <1>1, <1>2, <1>7 DEF Shape, Walks
<1>18. WriterOK(g)'
  <2>1. Live(g.node)' /\ mem'[g.node].key = g.key /\ g.level <= mem'[g.node].levelHeight
    BY <1>5, <1>7, <1>10, <1>12
  <2>2. CASE g.at = "count"
    BY <1>1, <1>7, <2>1, <2>2 DEF WriterOK
  <2>3. CASE g.at = "walk"
    <3>1. g.doing = "climb" /\ g.prev \in {dummyHead, p} /\ g.level = l + 1
      BY <1>7, <2>3
    <3>2. g.prev = dummyHead \/ (Live(g.prev)' /\ g.prev # g.node)
      BY <1>5, <1>7, <1>12, <3>1 DEF Reached
    <3>3. Behind(g)'
      BY <1>3, <1>5, <1>7, <1>10, <3>1 DEF Behind
    <3>4. QED
      BY <1>1, <1>5, <1>7, <2>1, <2>3, <3>1, <3>2, <3>3 DEF WriterOK
  <2>4. CASE g.at = "copy"
    <3>1. g.prev = p /\ l # mem[p].levelHeight /\ g.level = l + 1
      BY <1>7, <2>4
    <3>2. Behind(g)'
      BY <1>3, <1>5, <1>7, <1>10, <3>1 DEF Behind
    <3>3. Reached(p, l + 1)'
      <4>1. CASE p = dummyHead
        BY <4>1 DEF Reached
      <4>2. CASE p # dummyHead
        <5>1. Live(p) /\ Published(p, l)
          BY <1>5, <4>2 DEF Reached
        <5>2. l + 1 <= mem[p].levelHeight /\ l + 1 \in Levels
          <6>1. mem[p].levelHeight \in Nat /\ l <= mem[p].levelHeight
            BY <1>5, <5>1, NodeFields, Addresses DEF SharedInv, Published
          <6>2. g.level \in Levels
            BY <1>7 DEF FrameType
          <6>3. QED
            BY <1>5, <3>1, <6>1, <6>2
        <5>3. Published(p, l + 1)
          BY <1>1, <1>2, <1>3, <1>4, <1>5, <5>2, Built
        <5>4. QED
          BY <1>5, <1>11, <1>12, <5>1, <5>2, <5>3 DEF Reached
      <4>3. QED
        BY <4>1, <4>2
    <3>4. QED
      BY <1>1, <1>5, <1>7, <2>1, <2>4, <3>1, <3>2, <3>3 DEF WriterOK
  <2>5. QED
    BY <1>7, <2>2, <2>3, <2>4
<1>19. QED
  BY <1>1, <1>2, <1>6, <1>7, <1>9, <1>10, <1>13, <1>16, <1>17, <1>18, StoreKeeps, StatusOK DEF SharedInv

\* The steps of Set and Delete that change no node and no frame but to end the call.
LEMMA EndsKeep ==
  ASSUME SharedInv, NEW t \in Threads, NEW f \in FrameType, CallOf(t, f),
         SetCounts(t, f) \/ DeleteMisses(t, f) \/ DeleteCounts(t, f)
  PROVE  SharedInv'
<1>1. /\ f.op \in {"set", "delete"} /\ f.at \in {"count", "missed", "uncount"}
      /\ f.at = "count" \/ f.op = "delete"
      /\ mem' = mem /\ allocated' = allocated /\ status' = status
      /\ frame' = [frame EXCEPT ![t] = Idle]
  BY DEF SetCounts, DeleteMisses, DeleteCounts, At, CallOf, WriterReturns, Returns, Go,
         heapVars, NotDeallocated
<1>2. ~Building(f) \/ f.at = "count"
  BY <1>1 DEF Building
<1>3. QED
  BY <1>1, <1>2, WriterReturnKeeps

LEMMA FailuresKeep ==
  ASSUME SharedInv, NEW t \in Threads, NEW f, SetGetsNULL(t, f) \/ Fault(t, f)
  PROVE  SharedInv'
<1>1. UNCHANGED <<mem, allocated, frame>> /\ status' \in Statuses
  BY DEF SetGetsNULL, Fault, Fails, Statuses
<1>2. QED
  BY <1>1, FailKeeps

-----------------------------------------------------------------------------
(* The steps of Clear.                                                       *)

LEMMA ClearStepKeeps ==
  ASSUME SharedInv, NEW t \in Threads, NEW f \in FrameType, CallOf(t, f), Safe(f), ClearStep(t, f)
  PROVE  SharedInv'
<1>1. f.op = "clear" /\ status' = status
  BY DEF ClearStep, ClearPops, ClearUnlinks, ClearFrees, ClearZeroes, ClearResets, At, CallOf,
         Reads, Stores, WriterReturns, Returns, listVars
<1>2. t \in Writers /\ Shape(t, f) /\ frame[t] = f
  BY <1>1, WriterFacts DEF WriterOps
<1>3. MemType /\ allocated \subseteq Nodes
  BY DEF SharedInv
<1>4. ASSUME NEW g \in FrameType, frame' = [frame EXCEPT ![t] = g],
             g.op = "clear", g.at \in {"pop", "unhead", "free", "reset", "heads"},
             MemType', allocated' \subseteq Nodes
      PROVE  SharedInv'
  <2>1. Shape(t, g)
    BY <1>1, <1>2, <1>4 DEF Shape, Walks
  <2>2. QED
    BY <1>1, <1>2, <1>4, <2>1, ClearKeeps, StatusOK
<1>5. CASE ClearPops(t, f)
  <2>1. PICK q \in Nodes \cup {dummyTail, NULL} : q = next(dummyHead, 0)
    BY <1>3, NodeFields, Addresses
  <2>2. PICK at \in {"reset", "unhead"} : at = (IF q = dummyTail THEN "reset" ELSE "unhead")
    OBVIOUS
  <2>3. PICK g : g = [f EXCEPT !.node = q, !.at = at] /\ frame' = [frame EXCEPT ![t] = g]
    BY <1>5, <2>1, <2>2 DEF ClearPops, Reads, Go
  <2>4. g \in FrameType /\ g.op = f.op /\ g.at = at
    BY <2>3 DEF FrameType
  <2>5. mem' = mem /\ allocated' = allocated
    BY <1>5 DEF ClearPops, Reads, listVars
  <2>6. MemType'
    BY <1>3, <2>5 DEF MemType
  <2>7. QED
    BY <1>1, <1>3, <1>4, <2>3, <2>4, <2>5, <2>6
<1>6. CASE ClearUnlinks(t, f)
  <2>1. PICK q : q = link(f.node, 0)
    OBVIOUS
  <2>2. q \in Nodes \cup {dummyTail, NULL}
    <3>1. f.node \in Nodes \cup {dummyTail}
      BY <1>6, Addresses DEF ClearUnlinks, At, CallOf, Safe, Dereferenced, SharedInv, FrameType
    <3>2. CASE f.node = dummyTail
      BY <2>1, <3>2 DEF link
    <3>3. CASE f.node \in Nodes
      BY <1>3, <2>1, <3>3, NodeFields, LinkIsNext, Addresses
    <3>4. QED
      BY <3>1, <3>2, <3>3
  <2>3. PICK g : g = [f EXCEPT !.at = "free"] /\ frame' = [frame EXCEPT ![t] = g]
    BY <1>6 DEF ClearUnlinks, Stores, Go
  <2>4. g \in FrameType /\ g.op = f.op /\ g.at = "free"
    BY <2>3 DEF FrameType
  <2>5. StoresLink(dummyHead, 0, q) /\ allocated' = allocated
    BY <1>6, <2>1 DEF ClearUnlinks, Stores, StoresLink
  <2>6. MemType'
    BY <2>2, <2>5, OneLink, Addresses
  <2>7. QED
    BY <1>1, <1>3, <1>4, <2>3, <2>4, <2>5, <2>6
<1>7. CASE ClearFrees(t, f)
  <2>1. PICK g : g = [f EXCEPT !.at = "pop"] /\ frame' = [frame EXCEPT ![t] = g]
    BY <1>7 DEF ClearFrees, Go
  <2>2. g \in FrameType /\ g.op = f.op /\ g.at = "pop"
    BY <2>1 DEF FrameType
  <2>3. mem' = mem /\ allocated' \subseteq Nodes
    BY <1>3, <1>7 DEF ClearFrees, Deallocated
  <2>4. MemType'
    BY <1>3, <2>3 DEF MemType
  <2>5. QED
    BY <1>1, <1>4, <2>1, <2>2, <2>3, <2>4
<1>8. CASE ClearZeroes(t, f)
  <2>1. PICK g : g = [f EXCEPT !.at = "heads"] /\ frame' = [frame EXCEPT ![t] = g]
    BY <1>8 DEF ClearZeroes, Stores, Go
  <2>2. g \in FrameType /\ g.op = f.op /\ g.at = "heads"
    BY <2>1 DEF FrameType
  <2>3. mem' = [mem EXCEPT ![dummyHead] = [EmptyNode EXCEPT !.state = "DUMMY"]]
        /\ allocated' = allocated
    BY <1>8 DEF ClearZeroes, Stores
  <2>4. MemType'
    BY <1>3, <2>3, Addresses DEF MemType, EmptyNode, NodeStates
  <2>5. QED
    BY <1>1, <1>3, <1>4, <2>1, <2>2, <2>3, <2>4
<1>9. CASE ClearResets(t, f)
  <2>1. \A u \in Threads \ {t} : frame[u] = Idle
    BY <1>1, <1>2 DEF SharedInv, Exclusion, Threads
  <2>2. /\ mem' = [p \in DOMAIN mem |-> IF p = dummyHead THEN ClearedHead
                                        ELSE IF p \in Nodes THEN EmptyNode ELSE mem[p]]
        /\ allocated' = allocated /\ frame' = [frame EXCEPT ![t] = Idle]
    BY <1>9, <2>1 DEF ClearResets, WriterReturns, Go
  <2>3. mem' = [p \in Nodes \cup {dummyHead} |-> IF p = dummyHead THEN EmptyHead ELSE EmptyNode]
    BY <1>3, <2>2 DEF MemType, ClearedHead
  <2>4. MemType'
    BY <2>3, Addresses DEF MemType, EmptyNode, EmptyHead, NodeStates
  <2>5. ListOK'
    <3>1. \A p \in Nodes : ~Live(p)'
      BY <2>3, Addresses DEF Live, EmptyNode
    <3>2. \A l \in Levels : next(dummyHead, l)' = dummyTail
      BY <2>3 DEF next, EmptyHead
    <3>3. mem'[dummyHead].levelHeight = LIST_HEIGHT - 1
      BY <2>3 DEF EmptyHead
    <3>4. QED
      BY <3>1, <3>2, <3>3 DEF ListOK, HeadOK, Target
  <2>6. QED
    BY <1>1, <1>2, <1>3, <2>2, <2>4, <2>5, IdleOK, ClearKeeps, StatusOK
<1>10. QED
  BY <1>5, <1>6, <1>7, <1>8, <1>9 DEF ClearStep

-----------------------------------------------------------------------------
(* Calls, and the invariant.                                                 *)

\* A call begins only if the callers have excluded the ones that are under way.
LEMMA CallsExclude ==
  ASSUME SharedInv, CallersExclude, NEW t \in Threads, NEW op \in WriterOps \cup ReaderOps,
         op \in OpsOf(t), frame[t] = Idle, MayOverlap(t, op), NEW g, g.op = op,
         frame' = [frame EXCEPT ![t] = g]
  PROVE  Exclusion'
<1>1. \A u \in Threads : frame'[u] = IF u = t THEN g ELSE frame[u]
  BY TypeOfFrames DEF SharedInv
<1>2. \A u \in Threads : frame[u].op = "none" => frame[u] = Idle
  BY DEF SharedInv, Shape
<1>3. \A u \in Threads : frame[u].op # "none" => frame[u].op \in OpsOf(u)
  BY DEF SharedInv, Shape
<1>4. \A u \in Threads \ {t} : frame[u].op = "none" \/ {op, frame[u].op} \notin Conflicts
  BY DEF MayOverlap
<1>5. Idle.op = "none" /\ op # "none"
  BY DEF Idle, WriterOps, ReaderOps, Walks
<1>6. CASE t \in Writers
  <2>1. op \in WriterOps /\ t \notin Readers
    BY <1>6, SharedAssumption DEF OpsOf, WriterOps
  <2>2. ASSUME NEW u \in Writers, u # t
        PROVE  frame[u] = Idle
    <3>1. frame[u].op # "none" => frame[u].op \in WriterOps
      BY <1>3, SharedAssumption DEF OpsOf, WriterOps, Threads
    <3>2. frame[u].op # "none" => {op, frame[u].op} \in Conflicts
      BY <1>6, <2>1, <2>2, <3>1 DEF CallersExclude
    <3>3. QED
      BY <1>2, <1>4, <2>2, <3>2 DEF Threads
  <2>3. ASSUME op = "clear", NEW u \in Readers
        PROVE  frame[u] = Idle
    <3>1. frame[u].op # "none" => frame[u].op \in ReaderOps
      BY <1>3 DEF OpsOf, ReaderOps, Threads
    <3>2. frame[u].op # "none" => {op, frame[u].op} \in Conflicts
      BY <2>3, <3>1 DEF CallersExclude
    <3>3. QED
      BY <1>2, <1>4, <2>1, <2>3, <3>2 DEF Threads
  <2>4. \A u \in Writers : frame'[u].op # "none" => u = t
    BY <1>1, <1>5, <2>2 DEF Threads
  <2>5. \A u \in Writers \ {t} : frame'[u] = Idle
    BY <1>1, <2>2 DEF Threads
  <2>6. op = "clear" => \A u \in Readers : frame'[u] = Idle
    BY <1>1, <2>1, <2>3 DEF Threads
  <2>7. frame'[t].op = op
    BY <1>1
  <2>8. QED
    BY <1>5, <2>4, <2>5, <2>6, <2>7 DEF Exclusion
<1>7. CASE t \notin Writers
  <2>1. t \in Readers /\ op \in ReaderOps
    BY <1>7 DEF Threads, OpsOf, ReaderOps
  <2>2. \A u \in Writers : frame'[u] = frame[u]
    BY <1>1, <1>7 DEF Threads
  <2>3. \A u \in Writers : frame[u].op # "clear"
    <3>1. {op, "clear"} \in Conflicts
      <4>1. {op, "clear"} = {"clear", op}
        OBVIOUS
      <4>2. QED
        BY <2>1, <4>1 DEF CallersExclude
    <3>2. QED
      BY <1>4, <1>7, <3>1 DEF Threads
  <2>4. QED
    BY <2>2, <2>3 DEF Exclusion, SharedInv
<1>8. QED
  BY <1>6, <1>7

LEMMA CallKeeps ==
  ASSUME SharedInv, CallersExclude, NEW t \in Threads, NEW op \in WriterOps \cup ReaderOps,
         NEW k \in Keys \cup {NULL}, NEW v \in Values \cup {NULL},
         op \in {"get", "set", "delete"} => k \in Keys, Call(t, op, k, v)
  PROVE  SharedInv'
<1>1. /\ op \in OpsOf(t) /\ frame[t] = Idle /\ MayOverlap(t, op)
      /\ mem' = mem /\ allocated' = allocated /\ status' = status
  BY DEF Call, listVars
<1>2. PICK e : e = Entry(op)
  OBVIOUS
<1>3. e = IF op = "clear" THEN "pop" ELSE IF op \in Walks THEN "begin" ELSE "walk"
  BY <1>2 DEF Entry, Walks
<1>4. PICK l \in Levels : l = LIST_HEIGHT - 1
  BY Addresses
<1>5. PICK g : /\ g = [Idle EXCEPT !.op = op, !.at = e, !.key = k, !.value = v, !.level = l]
               /\ frame' = [frame EXCEPT ![t] = g]
  BY <1>2, <1>4 DEF Call, Go
<1>6. /\ g \in FrameType /\ g.op = op /\ g.at = e /\ g.key = k /\ g.doing = "search"
      /\ g.level = l /\ g.prev = dummyHead /\ g.seen = << >>
  <2>1. e \in {"pop", "begin", "walk"}
    BY <1>3
  <2>2. op \in {"none", "get", "set", "delete", "clear"} \cup Walks
    BY DEF WriterOps, ReaderOps
  <2>3. PICK i \in FrameType : /\ i = Idle /\ i.doing = "search" /\ i.prev = dummyHead
                              /\ i.seen = << >>
    BY IdleOK DEF Idle
  <2>4. g = [i EXCEPT !.op = op, !.at = e, !.key = k, !.value = v, !.level = l]
    BY <1>5, <2>3
  <2>5. g \in FrameType
    BY <2>1, <2>2, <2>4 DEF FrameType
  <2>6. /\ g.op = op /\ g.at = e /\ g.key = k /\ g.level = l
        /\ g.doing = i.doing /\ g.prev = i.prev /\ g.seen = i.seen
    BY <2>4 DEF FrameType
  <2>7. QED
    BY <2>3, <2>5, <2>6
<1>7. \A u \in Threads : frame'[u] = IF u = t THEN g ELSE frame[u]
  BY <1>5, TypeOfFrames DEF SharedInv
<1>8. ~Building(Idle) /\ ~Building(g)
  BY <1>3, <1>6 DEF Building, Idle
<1>9. SameList
  <2>1. \A u \in Writers : Building(frame[u]) => u # t
    BY <1>1, <1>8
  <2>2. \A u \in Writers : Building(frame'[u]) => u # t
    BY <1>7, <1>8 DEF Threads
  <2>3. \A u \in Writers : u # t => frame'[u] = frame[u]
    BY <1>7 DEF Threads
  <2>4. ASSUME NEW p, NEW l1
        PROVE  (Filled(p, l1)' <=> Filled(p, l1)) /\ (Published(p, l1)' <=> Published(p, l1))
    BY <1>1, <2>1, <2>2, <2>3 DEF Filled, Published, Building
  <2>5. QED
    BY <1>1, <2>4 DEF SameList
<1>10. Exclusion'
  BY <1>1, <1>5, <1>6, CallsExclude
<1>11. Clearing => Clearing'
  <2>1. Idle.op # "clear"
    BY DEF Idle
  <2>2. QED
    BY <1>1, <1>7, <2>1 DEF Clearing, Threads
<1>12. Shape(t, g)
  BY <1>1, <1>3, <1>6 DEF Shape, Walks, WriterOps, ReaderOps
<1>13. ReaderOK(g)
  BY <1>3, <1>6 DEF ReaderOK, Reached
<1>14. WriterOK(g)
  BY <1>3, <1>6, <1>8 DEF WriterOK, Reached, Behind
<1>15. QED
  BY <1>1, <1>5, <1>6, <1>9, <1>10, <1>11, <1>12, <1>13, <1>14, ReadKeeps, StatusOK

\* The empty list that nobody uses.
LEMMA InitGivesInv == SharedInit => SharedInv
<1> SUFFICES ASSUME SharedInit
             PROVE  SharedInv
  OBVIOUS
<1>1. /\ mem = [p \in Nodes \cup {dummyHead} |-> IF p = dummyHead THEN EmptyHead ELSE EmptyNode]
      /\ allocated = {} /\ status = "ok" /\ frame = [t \in Threads |-> Idle]
  BY DEF SharedInit, ListInit
<1>2. SharedTypeOK
  BY <1>1, IdleOK, TypeOfFrames DEF Statuses
<1>3. MemType
  BY <1>1, Addresses DEF MemType, EmptyHead, EmptyNode, NodeStates
<1>4. ListOK
  <2>1. \A p \in Nodes : ~Live(p)
    BY <1>1 DEF Live
  <2>2. \A l \in Levels : next(dummyHead, l) = dummyTail
    BY <1>1 DEF next, EmptyHead
  <2>3. mem[dummyHead].levelHeight = LIST_HEIGHT - 1
    BY <1>1 DEF EmptyHead
  <2>4. QED
    BY <2>1, <2>2, <2>3 DEF ListOK, HeadOK, Target
<1>5. \A t \in Threads : frame[t] = Idle
  BY <1>1
<1>6. \A t \in Threads : Shape(t, frame[t])
  BY <1>5, IdleOK
<1>7. Exclusion
  BY <1>5 DEF Exclusion, Threads
<1>8. (\A t \in Readers : ReaderOK(frame[t])) /\ (\A t \in Writers : WriterOK(frame[t]))
  BY <1>5, IdleOK DEF Threads
<1>9. QED
  BY <1>1, <1>2, <1>3, <1>4, <1>6, <1>7, <1>8 DEF SharedInv

LEMMA StepKeeps ==
  ASSUME SharedInv, NEW t \in Threads, NEW f \in FrameType, CallOf(t, f), Step(t, f)
  PROVE  SharedInv'
<1>1. CASE ~Safe(f)
  BY <1>1, FailuresKeep DEF Step
<1>2. CASE Safe(f) /\ Forward(t, f)
  BY <1>2, ForwardKeeps
<1>3. CASE Safe(f) /\ SearchStops(t, f)
  BY <1>3, SearchStopsKeeps
<1>4. CASE Safe(f) /\ (GetEnds(t, f) \/ ReaderReturns(t, f))
  BY <1>4, GetEndsKeeps
<1>5. CASE Safe(f) /\ WalkStep(t, f)
  BY <1>5, WalkStepKeeps
<1>6. CASE Safe(f) /\ SetStep(t, f)
  BY <1>6, SetUpdatesKeeps, SetAllocatesKeeps, FailuresKeep, SetCopiesKeeps, SetPublishesKeeps,
     ClimbStopsKeeps, EndsKeep DEF SetStep
<1>7. CASE Safe(f) /\ DeleteStep(t, f)
  BY <1>7, EndsKeep, DeleteReadsKeep, DeleteCutsKeeps DEF DeleteStep
<1>8. CASE Safe(f) /\ ClearStep(t, f)
  BY <1>8, ClearStepKeeps
<1>9. QED
  BY <1>1, <1>2, <1>3, <1>4, <1>5, <1>6, <1>7, <1>8 DEF Step

LEMMA NextKeepsInv ==
  ASSUME SharedInv, CallersExclude, [SharedNext]_sharedVars
  PROVE  SharedInv'
<1>1. CASE UNCHANGED sharedVars
  BY <1>1, FailKeeps, StatusOK DEF sharedVars, listVars
<1>2. CASE SharedNext
  <2>1. PICK t \in Threads : Calling(t) \/ Step(t, frame[t])
    BY <1>2 DEF SharedNext
  <2>2. CASE Step(t, frame[t])
    <3>1. PICK f \in FrameType : f = frame[t]
      BY TypeOfFrames DEF SharedInv
    <3>2. Step(t, f) /\ CallOf(t, f)
      BY <2>2, <3>1 DEF CallOf
    <3>3. QED
      BY <3>2, StepKeeps
  <2>3. CASE Calling(t)
    <3>1. PICK op \in WriterOps \cup ReaderOps, k \in Keys \cup {NULL}, v \in Values \cup {NULL} :
            (op \in {"get", "set", "delete"} => k \in Keys) /\ Call(t, op, k, v)
      BY <2>3 DEF Calling, WriterOps, ReaderOps, Walks
    <3>2. QED
      BY <3>1, CallKeeps
  <2>4. QED
    BY <2>1, <2>2, <2>3
<1>3. QED
  BY <1>1, <1>2

\* The list as it is used at the same time by readers and one writer stays in shape.
THEOREM SharedInvariant == CallersExclude => (SharedSpec => []SharedInv)
<1> SUFFICES ASSUME CallersExclude
             PROVE  SharedSpec => []SharedInv
  OBVIOUS
<1>1. SharedInit => SharedInv
  BY InitGivesInv
<1>2. SharedInv /\ [SharedNext]_sharedVars => SharedInv'
  BY NextKeepsInv
<1>3. QED
  BY <1>1, <1>2, PTL DEF SharedSpec

\* Every call has its arguments and locals, and the list its status, whoever overlaps.
THEOREM SharedTypeCorrect == CallersExclude => (SharedSpec => []SharedTypeOK)
<1>1. SharedInv => SharedTypeOK
  BY DEF SharedInv
<1>2. QED
  BY <1>1, SharedInvariant, PTL

\* A reader that is in a search, at the node it found or on a walk is in the list:
\* what it dereferences next, a writer's half linked node included, has been filled
\* on that level and is not freed.
LEMMA SafeReader ==
  ASSUME SharedInv, NEW t \in Readers
  PROVE  Safe(frame[t])
<1>1. PICK f \in FrameType : f = frame[t]
  BY TypeOfFrames DEF SharedInv, Threads
<1>2. Shape(t, f) /\ ReaderOK(f) /\ f.op \notin WriterOps /\ t \in Threads
  BY <1>1, FrameFacts DEF CallOf, Threads
<1>3. f.at \notin {"copy", "publish", "cut", "test", "unhead", "free"}
  <2>1. f.op \in {"none", "get"} \cup Walks
    BY <1>2 DEF FrameType, WriterOps
  <2>2. QED
    BY <1>2, <2>1 DEF Shape, Idle
<1>4. \A q, l : Target(q, l) => q \in {dummyHead, dummyTail} \cup allocated
  BY DEF Target, Live
<1>5. CASE f.at = "walk"
  <2>1. f.prev \in Nodes \cup {dummyHead} /\ f.level \in Levels /\ Reached(f.prev, f.level)
    BY <1>2, <1>5 DEF FrameType, ReaderOK
  <2>2. ListOK
    BY <1>1, <1>2, <1>5, AtSearch, NoClear
  <2>3. Target(Ahead(f), f.level)
    BY <2>1, <2>2, AheadOfReached DEF Ahead
  <2>4. f.prev \in {dummyHead, dummyTail} \cup allocated
    BY <2>1 DEF Reached, Live
  <2>5. QED
    BY <1>1, <1>4, <1>5, <2>3, <2>4 DEF Safe, Dereferenced
<1>6. CASE f.at = "found"
  BY <1>1, <1>2, <1>6 DEF ReaderOK, Live, Safe, Dereferenced
<1>7. CASE f.at = "next"
  BY <1>1, <1>2, <1>4, <1>7 DEF ReaderOK, Safe, Dereferenced
<1>8. CASE f.at = "visit"
  <2>1. f.op \in Walks
    <3>1. f.op \in {"none", "get"} \cup Walks
      BY <1>2 DEF FrameType, WriterOps
    <3>2. QED
      BY <1>2, <1>8, <3>1 DEF Shape, Idle
  <2>2. ~WalkOver(f) => Target(f.node, 0)
    BY <1>2, <1>8, <2>1 DEF ReaderOK, WalkOver, Walks
  <2>3. QED
    BY <1>1, <1>4, <1>8, <2>2 DEF Safe, Dereferenced
<1>9. CASE f.at \notin {"walk", "found", "next", "visit"}
  BY <1>1, <1>3, <1>9 DEF Safe, Dereferenced
<1>10. QED
  BY <1>5, <1>6, <1>7, <1>8, <1>9

THEOREM ReadersSafe == CallersExclude => (SharedSpec => []ReadersAreSafe)
<1>1. SharedInv => ReadersAreSafe
  BY SafeReader DEF ReadersAreSafe
<1>2. QED
  BY <1>1, SharedInvariant, PTL

\* An iteration visits only keys, in ascending order and hence none twice, whatever
\* is inserted, updated or unlinked before and behind it.
THEOREM WalksAscend == CallersExclude => (SharedSpec => []WalkAscends)
<1>1. ASSUME SharedInv
      PROVE  WalkAscends
  <2>1. ASSUME NEW t \in Readers, frame[t].op = "iterate"
        PROVE  \A i, j \in DOMAIN frame[t].seen :
                 /\ frame[t].seen[i] # NULL
                 /\ i < j => frame[t].seen[i] < frame[t].seen[j]
    <3>1. ReaderOK(frame[t])
      BY <1>1 DEF SharedInv
    <3>2. QED
      BY <2>1, <3>1, Addresses DEF ReaderOK
  <2>2. QED
    BY <2>1 DEF WalkAscends
<1>2. QED
  BY <1>1, SharedInvariant, PTL

=============================================================================
