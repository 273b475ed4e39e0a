------------------------------ MODULE SkipList ------------------------------
(***************************************************************************)
(* The skip list of db/skiplist.h, at the level of its nodes and links, as *)
(* one thread uses it: every member function is one step.                  *)
(*                                                                         *)
(* mem[p] is the node at address p, the one of dummyHead included.  Nodes  *)
(* are the addresses the allocator can return.  Keys are numbers in the    *)
(* order of strcmp.  status tells whether the calls so far returned, or    *)
(* one dereferenced NULL ("crashed") or can never return ("hung").         *)
(***************************************************************************)
EXTENDS TableSize, FiniteSets

CONSTANTS
  Keys, Values,
  Nodes, dummyHead, dummyTail, NULL,
  LIST_HEIGHT,
  TableOps,      \* the functions called: a subset of {"set","get","delete","clear"}
  AllocMayFail   \* TRUE: malloc, whose result is not checked, may return NULL

ASSUME SkipListAssumption ==
  /\ Keys \subseteq Nat
  /\ NULL \notin Keys \cup Values
  /\ Cardinality({dummyHead, dummyTail, NULL}) = 3
  /\ Nodes \cap {dummyHead, dummyTail, NULL} = {}
  /\ LIST_HEIGHT \in Nat \ {0}
  /\ AllocMayFail \in BOOLEAN

Levels == 0..(LIST_HEIGHT - 1)

VARIABLES
  mem,        \* address -> node
  nodeCount,  \* the size_t counter
  allocated,  \* the addresses malloc returned and free did not get back
  deleted,    \* a Delete found a node since the list was last emptied
  status,     \* "ok", "crashed" or "hung"
  last        \* the last call that returned, and its answer

listVars == <<mem, nodeCount, allocated, deleted, status, last>>

Results == {"DATA_DELETE", "DATA_UPDATE", "DATA_INSERT", "SUCCESS", "ARG_INVAL",
            "NOT_FOUND", "NO_MEMORY", "SYS_ERROR"}

Answer(op, k, v, result) == [op |-> op, key |-> k, value |-> v, result |-> result]

NodeStates == {"DUMMY", "EMPTY", "NORMAL", "DELETE"}

\* _allocNode(), and the head of an empty list.
EmptyNode ==
  [levelNext |-> [l \in Levels |-> NULL], levelHeight |-> 0,
   key |-> NULL, value |-> NULL, state |-> "EMPTY"]

EmptyHead ==
  [levelNext |-> [l \in Levels |-> dummyTail], levelHeight |-> LIST_HEIGHT - 1,
   key |-> NULL, value |-> NULL, state |-> "DUMMY"]

ListInit ==
  /\ mem = [p \in Nodes \cup {dummyHead} |-> IF p = dummyHead THEN EmptyHead ELSE EmptyNode]
  /\ nodeCount = 0
  /\ allocated = {}
  /\ deleted = FALSE
  /\ status = "ok"
  /\ last = Answer("new", NULL, NULL, "SUCCESS")

\* What the memset and the loop of Clear make of dummyHead.
KeepsUpperLinks == [mem[dummyHead] EXCEPT !.levelNext[0] = dummyTail]  \* mutant: no reset
LeavesNULLLinks ==                       \* mutant: the memset, without the loop
  [EmptyHead EXCEPT !.levelNext = [l \in Levels |-> NULL]]
ClearedHead == EmptyHead

-----------------------------------------------------------------------------
(***************************************************************************)
(* Walking.  next(p, l) may be a node, dummyTail or NULL; comparing the    *)
(* key of NULL crashes.  That only the ascent of SetInsert can meet NULL,  *)
(* not the searches, is the invariant SearchesMeetNoNULL.                  *)
(***************************************************************************)
next(p, l) == mem[p].levelNext[l]

AtMost(p, k) == mem[p].key <= k          \* mutant: the comparison is off by one
Before(p, k) == mem[p].key < k

\* The loop "_cmp < 0: prev = cur, cur = cur->levelNext[level]" of level l.
Advance(l, k) ==
  LET walk[p \in Nodes \cup {dummyHead}] ==
        LET cur == next(p, l)
        IN IF cur \in Nodes /\ Before(cur, k) THEN walk[cur] ELSE p
  IN walk

FromTop == LIST_HEIGHT

DescentPast(k) ==                        \* mutant: the search goes past an equal key
  LET walk[l \in Levels, p \in Nodes \cup {dummyHead}] ==
        LET cur == next(p, l)
        IN IF cur \in Nodes /\ AtMost(cur, k) THEN walk[l, cur] ELSE p
      after[l \in 0..FromTop] ==
        IF l = FromTop THEN [prev |-> dummyHead, cur |-> dummyTail]
        ELSE LET prev == walk[l, after[l + 1].prev]
             IN [prev |-> prev, cur |-> next(prev, l)]
  IN after[0]

\* The search from the top level down: where it is after level l.  It ends early
\* on the key, or on NULL.
Descent(k) ==
  LET after[l \in 0..FromTop] ==
        IF l = FromTop THEN [prev |-> dummyHead, cur |-> dummyTail]
        ELSE LET above == after[l + 1]
                 prev == Advance(l, k)[above.prev]
             IN IF above.cur = NULL \/ (above.cur \in Nodes /\ mem[above.cur].key = k)
                THEN above
                ELSE [prev |-> prev, cur |-> next(prev, l)]
  IN after[0]

Found(k) == Descent(k).cur \in Nodes /\ mem[Descent(k).cur].key = k

\* The value Get finds.
Lookup(k) ==
  LET cur == Descent(k).cur
  IN IF cur \in Nodes /\ mem[cur].key = k /\ mem[cur].state = "NORMAL"
     THEN mem[cur].value ELSE NULL

-----------------------------------------------------------------------------
Calls(op) == status = "ok" /\ op \in TableOps
Returns(answer) == last' = answer /\ UNCHANGED status
Fails(how) == status' = how /\ UNCHANGED <<mem, nodeCount, allocated, deleted, last>>

\* Set finds the key: update.
SetFound(k, v) ==
  /\ Calls("set")
  /\ Found(k)
  /\ mem' = [mem EXCEPT ![Descent(k).cur].value = v, ![Descent(k).cur].state = "NORMAL"]
  /\ Returns(Answer("set", k, v, IF mem[Descent(k).cur].state = "NORMAL"
                                 THEN "DATA_UPDATE" ELSE "DATA_INSERT"))
  /\ UNCHANGED <<nodeCount, allocated, deleted>>

\* The levels on which a new node of height h is linked behind prev, where the
\* search ended; above them, its predecessor is searched from dummyHead upwards,
\* each level going on from where the one below ended.
LinkedLow(h, prev) == {l \in Levels : l <= h /\ l <= mem[prev].levelHeight}
LinkedHigh(h, prev) == {l \in Levels : l <= h /\ l > mem[prev].levelHeight}

HeadAbove(k, h, prev) ==                 \* mutant: the ascent does not walk
  [l \in Levels |-> IF l \in LinkedLow(h, prev) THEN prev ELSE dummyHead]

\* The predecessor of the new node on level l.  NULL when the ascent met NULL.
Predecessor(k, h, prev) ==
  LET before[l \in Levels] ==
        IF l \in LinkedLow(h, prev) THEN prev
        ELSE LET from == IF l - 1 \in LinkedHigh(h, prev) THEN before[l - 1] ELSE dummyHead
             IN IF from = NULL \/ next(Advance(l, k)[from], l) = NULL THEN NULL
                ELSE Advance(l, k)[from]
  IN before

\* The ascent meets the key on a level: the loop has no exit.
MeetsKey(k, h, prev) ==
  \E l \in LinkedHigh(h, prev) :
    LET p == Predecessor(k, h, prev)[l]
    IN p # NULL /\ next(p, l) \in Nodes /\ mem[next(p, l)].key = k

MeetsNULL(k, h, prev) == \E l \in LinkedHigh(h, prev) : Predecessor(k, h, prev)[l] = NULL

LinkedBelow(h) == {l \in Levels : l < h}  \* mutant: "<" instead of "<="
LinkedOn(h) == {l \in Levels : l <= h}

\* Node n linked on its levels, each time behind the predecessor of that level.
Linked(n, k, v, h, prev) ==
  LET before == Predecessor(k, h, prev)
      behind == [l \in Levels |-> IF l \in LinkedOn(h) THEN next(before[l], l) ELSE NULL]
      node == [EmptyNode EXCEPT !.levelNext = behind, !.levelHeight = h,
                                !.key = k, !.value = v, !.state = "NORMAL"]
  IN [p \in DOMAIN mem |->
        IF p = n THEN node
        ELSE [mem[p] EXCEPT !.levelNext =
                [l \in Levels |-> IF l \in LinkedOn(h) /\ before[l] = p THEN n ELSE @[l]]]]

RandomTooHigh == 0..LIST_HEIGHT          \* mutant: _getRandom(0, LIST_HEIGHT)
RandomHeights == Levels

SetInsert(k, v) ==
  /\ Calls("set")
  /\ ~Found(k)
  /\ \E h \in RandomHeights :
       LET prev == Descent(k).prev
           n == CHOOSE n \in Nodes \ allocated : TRUE
       IN /\ allocated # Nodes
          /\ IF MeetsKey(k, h, prev) THEN Fails("hung")
             ELSE IF MeetsNULL(k, h, prev) THEN Fails("crashed")
             ELSE /\ mem' = Linked(n, k, v, h, prev)
                  /\ allocated' = allocated \cup {n}
                  /\ nodeCount' = Plus(nodeCount, 1)
                  /\ Returns(Answer("set", k, v, "DATA_INSERT"))
                  /\ UNCHANGED deleted

\* malloc returned NULL: memset writes to it.
SetNoMemory(k) ==
  /\ Calls("set")
  /\ AllocMayFail
  /\ ~Found(k)
  /\ Fails("crashed")

Get(k) ==
  /\ Calls("get")
  /\ Returns(Answer("get", k, Lookup(k), IF Lookup(k) = NULL THEN "NOT_FOUND" ELSE "SUCCESS"))
  /\ UNCHANGED <<mem, nodeCount, allocated, deleted>>

(***************************************************************************)
(* Delete unlinks the node that was found on every level where it is       *)
(* linked, unless it is the last one of that level.  The node is neither   *)
(* marked nor freed.                                                       *)
(***************************************************************************)
BeforeOn(l, k) == Advance(l, k)[dummyHead]

Unlinks(n, l, k) == next(n, l) # dummyTail /\ next(BeforeOn(l, k), l) = n

Truncated(n, k) ==                       \* mutant: the rest of the level is dropped
  [p \in DOMAIN mem |->
     [mem[p] EXCEPT !.levelNext =
        [l \in Levels |-> IF Unlinks(n, l, k) /\ BeforeOn(l, k) = p THEN dummyTail ELSE @[l]]]]

Unlinked(n, k) ==
  [p \in DOMAIN mem |->
     [mem[p] EXCEPT !.levelNext =
        [l \in Levels |-> IF Unlinks(n, l, k) /\ BeforeOn(l, k) = p THEN next(n, l) ELSE @[l]]]]

DeleteMissing(k) ==
  /\ Calls("delete")
  /\ ~Found(k)
  /\ Returns(Answer("delete", k, NULL, "NOT_FOUND"))
  /\ UNCHANGED <<mem, nodeCount, allocated, deleted>>

DeleteFound(k) ==
  /\ Calls("delete")
  /\ Found(k)
  /\ mem' = Unlinked(Descent(k).cur, k)
  /\ nodeCount' = Minus(nodeCount, 1)
  /\ deleted' = TRUE
  /\ Returns(Answer("delete", k, NULL, "DATA_DELETE"))
  /\ UNCHANGED allocated

(***************************************************************************)
(* Clear frees and counts the nodes of level 0, then resets dummyHead.     *)
(* Nodes that are not on level 0 stay allocated, out of reach: what they   *)
(* contain is forgotten.                                                   *)
(***************************************************************************)
ChainFrom ==
  LET rest[p \in Nodes \cup {dummyHead}] ==
        IF next(p, 0) \in Nodes THEN {next(p, 0)} \cup rest[next(p, 0)] ELSE {}
  IN rest

Chain == ChainFrom[dummyHead]

Clear ==
  /\ Calls("clear")
  /\ mem' = [p \in DOMAIN mem |-> IF p = dummyHead THEN ClearedHead ELSE EmptyNode]
  /\ nodeCount' = Minus(nodeCount, Cardinality(Chain))
  /\ allocated' = allocated \ Chain
  /\ deleted' = FALSE
  /\ Returns(Answer("clear", NULL, NULL, "SUCCESS"))

Set(k, v) == SetFound(k, v) \/ SetInsert(k, v) \/ SetNoMemory(k)
Delete(k) == DeleteMissing(k) \/ DeleteFound(k)

ListNext ==
  \/ \E k \in Keys, v \in Values : Set(k, v)
  \/ \E k \in Keys : Get(k) \/ Delete(k)
  \/ Clear

ListSpec == ListInit /\ [][ListNext]_listVars

-----------------------------------------------------------------------------
ListTypeOK ==
  /\ mem \in [Nodes \cup {dummyHead} ->
               [levelNext : [Levels -> Nodes \cup {dummyTail, NULL}], levelHeight : Levels,
                key : Keys \cup {NULL}, value : Values \cup {NULL},
                state : NodeStates]]
  /\ nodeCount \in Sizes
  /\ allocated \subseteq Nodes
  /\ deleted \in BOOLEAN
  /\ status \in {"ok", "crashed", "hung"}
  /\ last.result \in Results

\* The nodes on level l, walking from dummyHead.
OnLevel(l) ==
  LET from[p \in Nodes \cup {dummyHead}] ==
        IF next(p, l) \in Nodes THEN {next(p, l)} \cup from[next(p, l)] ELSE {}
  IN from[dummyHead]

\* As long as nothing is deleted, every level is the ascending list of all nodes
\* that are at least that high, from dummyHead to dummyTail: what the searches of
\* Get, Set and Delete rely on, and what insertion has to keep on several levels.
LevelsAscend ==
  \A l \in Levels : \A p \in OnLevel(l) \cup {dummyHead} :
    /\ next(p, l) # NULL
    /\ p # dummyHead /\ next(p, l) \in Nodes => mem[p].key < mem[next(p, l)].key

LevelsNest == \A l \in Levels : OnLevel(l) = {n \in OnLevel(0) : mem[n].levelHeight >= l}

\* The counter, level 0 and the heap agree: no node is counted that Clear does not
\* free, and none is leaked.
CountedAndOwned == nodeCount = Cardinality(OnLevel(0)) /\ allocated = OnLevel(0)

\* As long as nothing is deleted, every call does to the content, and answers, what
\* the map of KeyValueMap would, the content being what Get would find.
Map == INSTANCE KeyValueMap WITH map <- [k \in Keys |-> Lookup(k)]

ImplementsMap == Map!Spec

\* Deletes included, no link that a search can follow leads to freed memory:
\* Delete leaves nodes linked here and there and Clear frees level 0 only.
Linkage(p) == {mem[p].levelNext[l] : l \in Levels} \ {dummyTail, NULL}

ReachableFrom ==
  LET within[i \in 0..Cardinality(Nodes)] ==
        IF i = 0 THEN Linkage(dummyHead)
        ELSE within[i - 1] \cup UNION {Linkage(n) : n \in within[i - 1]}
  IN within[Cardinality(Nodes)]

NoDanglingLink == ReachableFrom \subseteq allocated

\* Deletes included, neither a search nor the loop of Clear dereferences NULL,
\* whatever stale links it follows.
SearchesMeetNoNULL ==
  /\ \A k \in Keys :
       /\ Descent(k).cur # NULL
       /\ Found(k) => \A l \in Levels : next(BeforeOn(l, k), l) # NULL
  /\ \A p \in OnLevel(0) \cup {dummyHead} : next(p, 0) # NULL

\* Deletes included, what Set stored is what Get then finds.
SetIsReadBack == last.op = "set" => Lookup(last.key) = last.value

\* Every call does to the size what TableSize says, on which DatabasePosix builds,
\* Deletes included.
Size == [nodeCount |-> nodeCount, chain |-> Cardinality(Chain), deleted |-> deleted]

SizeContract ==
  [][status' = "ok" =>
       Size' \in CASE last'.op = "set"    -> AfterSet(Size)
                   [] last'.op = "delete" -> AfterDelete(Size)
                   [] last'.op = "clear"  -> AfterClear(Size)
                   [] OTHER               -> {Size}]_listVars

-----------------------------------------------------------------------------
(***************************************************************************)
(* What comments of skiplist.h say and the code does not do.                *)
(***************************************************************************)

\* skiplist.h:204, "not cur != NULL now...": no walk along a level meets NULL, as
\* every level ends with dummyTail.
WalksEndAtTail == status # "crashed"

\* skiplist.h:273, "can't be _cmp == 0, error in the skiplist": the ascent never
\* meets a key that the search of the same Set did not find, on which it would loop
\* for ever.  True as long as nothing is deleted, and not with Delete.
NeverMeetsKey == status # "hung"

=============================================================================
