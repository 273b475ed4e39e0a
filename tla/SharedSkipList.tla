--------------------------- MODULE SharedSkipList ---------------------------
(***************************************************************************)
(* The member functions of the skip list of db/skiplist.h cut at their     *)
(* loads and stores, for threads that use one list at the same time, as    *)
(* the clients of a database and its compaction do.  Stores become visible *)
(* in program order, as in the unoptimised x86 build of the Makefile.      *)
(*                                                                         *)
(* frame[t] is the call thread t is in: its arguments, its locals, and     *)
(*   doing   the loop: "search" (_searchNode and its copy in Set), "climb" *)
(*           (Set above the height of prev), "unlink" (Delete)             *)
(*   at      the next step: "walk", "found", "missed" of those loops;      *)
(*           "copy", "publish", "count" of Set; "test", "cut", "uncount"   *)
(*           of Delete; "pop", "unhead", "free", "reset", "heads" of       *)
(*           Clear; "begin", "visit", "next" of a walk; "return"           *)
(*   node    cur or node of the code; seen: the keys an iteration visited  *)
(***************************************************************************)
EXTENDS SkipList, Sequences

CONSTANTS
  Readers, Writers,
  MaxCalls,   \* bound on the calls of the writers
  Conflicts   \* {op, op2} is in it if the callers keep op and op2 from overlapping

ASSUME SharedAssumption ==
  /\ Readers \cap Writers = {}
  /\ MaxCalls \in Nat
  /\ \A pair \in Conflicts : pair # {}

Threads == Readers \cup Writers

VARIABLES
  frame,      \* thread -> its call
  calls,      \* the calls of the writers so far
  committed,  \* history: the list when no writer was inside, for the refinement
  watch       \* history: for a Get the values its key has had since the call, for an
              \* iteration the keys that have been on level 0 all the time since

sharedVars == <<listVars, frame, calls, committed, watch>>
heapVars == <<mem, nodeCount, allocated, deleted>>

Walks == {"iterate", "print"}

OpsOf(t) == IF t \in Readers THEN {"get"} \cup Walks ELSE {"set", "delete", "clear"}

Idle ==
  [op |-> "none", doing |-> "search", at |-> "idle", key |-> NULL, value |-> NULL,
   level |-> 0, prev |-> dummyHead, node |-> NULL, seen |-> << >>]

SharedInit ==
  /\ ListInit
  /\ frame = [t \in Threads |-> Idle]
  /\ calls = 0
  /\ committed = [mem |-> mem, nodeCount |-> nodeCount, allocated |-> allocated]
  /\ watch = [t \in Readers |-> {}]

\* The tail's links are NULL, and so is its key.
link(p, l) == IF p = dummyTail THEN NULL ELSE next(p, l)
keyOf(p) == IF p = dummyTail THEN NULL ELSE mem[p].key

\* What ends a walk: iterator != End(), node != 0.
IterEndsAtNULL(f) == f.node = NULL        \* mutant: End() is not dummyTail
IterEnds(f) == f.node = dummyTail
WalkOver(f) == IF f.op = "iterate" THEN IterEnds(f) ELSE f.node = NULL

At(t, op, place) == frame[t].op = op /\ frame[t].at = place
Go(t, f) == frame' = [frame EXCEPT ![t] = f]

(***************************************************************************)
(* A call starts; a step reads only, or stores m; a writer returns, when   *)
(* the list is whole again, or a reader.  f is always frame[t].            *)
(***************************************************************************)
MayOverlap(t, op) ==
  \A u \in Threads \ {t} : frame[u].op = "none" \/ {op, frame[u].op} \notin Conflicts

Entry(op) == CASE op = "clear" -> "pop" [] op \in Walks -> "begin" [] OTHER -> "walk"

Call(t, op, k, v) ==
  /\ Calls(op)
  /\ op \in OpsOf(t)
  /\ frame[t] = Idle
  /\ MayOverlap(t, op)
  /\ t \in Writers => calls < MaxCalls
  /\ calls' = IF t \in Writers THEN calls + 1 ELSE calls
  /\ Go(t, [Idle EXCEPT !.op = op, !.at = Entry(op), !.key = k, !.value = v,
                        !.level = LIST_HEIGHT - 1])
  /\ UNCHANGED <<listVars, committed>>

Reads(t, f) == Go(t, f) /\ UNCHANGED <<listVars, committed>>

Stores(t, m, f) ==
  /\ mem' = m
  /\ Go(t, f)
  /\ UNCHANGED <<nodeCount, allocated, deleted, status, last, committed>>

WriterReturns(t, answer) ==
  /\ Go(t, Idle)
  /\ Returns(answer)
  /\ committed' = [mem |-> mem', nodeCount |-> nodeCount', allocated |-> allocated']

(***************************************************************************)
(* The three loops along the levels: load the next link, compare the key   *)
(* behind it, go on along the level, or stop.  Load and comparison are one *)
(* step, as the key of a node does not change.                             *)
(***************************************************************************)
Ahead(f) == link(f.prev, f.level)
Less(f) == Ahead(f) \in Nodes /\ Before(Ahead(f), f.key)
Equal(f) == Ahead(f) \in Nodes /\ mem[Ahead(f)].key = f.key

\* The loop "doing" ends on this level.
Stops(f, doing) == f.at = "walk" /\ f.doing = doing /\ ~Less(f)

Forward(t, f) == f.at = "walk" /\ Less(f) /\ Reads(t, [f EXCEPT !.prev = Ahead(f)])

AboveZero(f) == f.level = 1              \* mutant: level > 0 instead of level >= 0
Lowest(f) == f.level = 0

SearchStops(t, f) ==
  /\ Stops(f, "search")
  /\ Reads(t, IF Equal(f) THEN [f EXCEPT !.node = Ahead(f), !.at = "found"]
              ELSE IF Lowest(f) THEN [f EXCEPT !.at = "missed"]
              ELSE [f EXCEPT !.level = @ - 1])

\* The pointers that the next step dereferences.  If one is NULL the process
\* crashes, if one was freed anything may happen.
Dereferenced(f) ==
  CASE f.at = "walk" -> {f.prev, Ahead(f)}
    [] f.at \in {"copy", "publish", "cut"} -> {f.prev, f.node}
    [] f.at \in {"found", "test", "unhead", "free", "next"} -> {f.node}
    [] f.at = "visit" /\ ~WalkOver(f) -> {f.node}
    [] OTHER -> {}

Safe(f) == Dereferenced(f) \subseteq {dummyHead, dummyTail} \cup allocated

Fault(t, f) ==
  /\ Fails(IF NULL \in Dereferenced(f) THEN "crashed" ELSE "freed")
  /\ UNCHANGED <<committed, frame>>

-----------------------------------------------------------------------------
GetEnds(t, f) ==
  /\ f.op = "get"
  /\ f.at \in {"found", "missed"}
  /\ Reads(t, [f EXCEPT !.at = "return",
                 !.value = IF f.at = "found" /\ mem[f.node].state = "NORMAL"
                           THEN mem[f.node].value ELSE NULL])

ReaderReturns(t, f) == f.at = "return" /\ Reads(t, Idle)

-----------------------------------------------------------------------------
(***************************************************************************)
(* Set, after its search.  The new node is filled before anything leads to *)
(* it and then linked level by level, from the lowest: as long as prev is  *)
(* high enough behind prev, then behind what a climb from dummyHead finds. *)
(***************************************************************************)
SetUpdates(t, f) ==
  /\ At(t, "set", "found")
  /\ mem' = [mem EXCEPT ![f.node].value = f.value, ![f.node].state = "NORMAL"]
  /\ UNCHANGED <<nodeCount, allocated, deleted>>
  /\ WriterReturns(t, Answer("set", f.key, f.value,
                       IF mem[f.node].state = "NORMAL" THEN "DATA_UPDATE" ELSE "DATA_INSERT"))

SetAllocates(t, f) ==
  LET n == CHOOSE n \in Nodes \ allocated : TRUE
  IN /\ At(t, "set", "missed")
     /\ allocated # Nodes
     /\ \E h \in RandomHeights :
          mem' = [mem EXCEPT ![n] = [EmptyNode EXCEPT !.key = f.key, !.value = f.value,
                                                      !.state = "NORMAL", !.levelHeight = h]]
     /\ allocated' = allocated \cup {n}
     /\ Go(t, [f EXCEPT !.node = n, !.level = 0, !.at = "copy"])
     /\ UNCHANGED <<nodeCount, deleted, status, last, committed>>

SetGetsNULL(t, f) ==
  /\ At(t, "set", "missed")
  /\ AllocMayFail
  /\ Fails("crashed")
  /\ UNCHANGED <<committed, frame>>

SetCopies(t, f) ==
  /\ At(t, "set", "copy")
  /\ Stores(t, [mem EXCEPT ![f.node].levelNext[f.level] = link(f.prev, f.level)],
            [f EXCEPT !.at = "publish"])

NotYetTopmost(f) == f.level > mem[f.node].levelHeight   \* mutant: one level too many
Topmost(f) == f.level = mem[f.node].levelHeight

NeverClimbs(f) == FALSE                  \* mutant: prev is used above its height
Climbs(f) == f.doing = "climb" \/ f.level = mem[f.prev].levelHeight

SetPublishes(t, f) ==
  /\ At(t, "set", "publish")
  /\ Stores(t, [mem EXCEPT ![f.prev].levelNext[f.level] = f.node],
            IF Topmost(f) THEN [f EXCEPT !.at = "count"]
            ELSE IF Climbs(f) THEN
              [f EXCEPT !.level = @ + 1, !.at = "walk", !.doing = "climb",
                        !.prev = IF f.doing = "climb" THEN @ ELSE dummyHead]
            ELSE [f EXCEPT !.level = @ + 1, !.at = "copy"])

\* "error in the skiplist": on its key the loop has no exit.
ClimbStops(t, f) ==
  /\ Stops(f, "climb")
  /\ IF Equal(f) THEN Fails("hung") /\ UNCHANGED <<committed, frame>>
                 ELSE Reads(t, [f EXCEPT !.at = "copy"])

SetCounts(t, f) ==
  /\ At(t, "set", "count")
  /\ nodeCount' = Plus(nodeCount, 1)
  /\ UNCHANGED <<mem, allocated, deleted>>
  /\ WriterReturns(t, Answer("set", f.key, f.value, "DATA_INSERT"))

-----------------------------------------------------------------------------
(***************************************************************************)
(* Delete, after its search: on each level from the top, walk to the node  *)
(* and unlink it unless it is the last one.                                *)
(***************************************************************************)
DeleteMisses(t, f) ==
  /\ At(t, "delete", "missed")
  /\ UNCHANGED heapVars
  /\ WriterReturns(t, Answer("delete", f.key, NULL, "NOT_FOUND"))

DeleteHits(t, f) ==
  /\ At(t, "delete", "found")
  /\ Reads(t, [f EXCEPT !.level = LIST_HEIGHT - 1, !.doing = "unlink", !.at = "test"])

LevelDone(f) ==
  IF f.level = 0 THEN [f EXCEPT !.at = "uncount"] ELSE [f EXCEPT !.level = @ - 1, !.at = "test"]

DeleteTests(t, f) ==
  /\ At(t, "delete", "test")
  /\ Reads(t, IF link(f.node, f.level) = dummyTail THEN LevelDone(f)
              ELSE [f EXCEPT !.prev = dummyHead, !.at = "walk"])

UnlinkStops(t, f) ==
  /\ Stops(f, "unlink")
  /\ Reads(t, IF Ahead(f) = f.node THEN [f EXCEPT !.at = "cut"] ELSE LevelDone(f))

DeleteCuts(t, f) ==
  /\ At(t, "delete", "cut")
  /\ Stores(t, [mem EXCEPT ![f.prev].levelNext[f.level] = link(f.node, f.level)], LevelDone(f))

\* What free leaves allocated.  Delete only says "deallocate(node)here...".
Deallocated(n) == allocated \ {n}        \* also the mutant of NotDeallocated
NotDeallocated(n) == allocated

DeleteCounts(t, f) ==
  /\ At(t, "delete", "uncount")
  /\ nodeCount' = Minus(nodeCount, 1)
  /\ deleted' = TRUE
  /\ allocated' = NotDeallocated(f.node)
  /\ UNCHANGED mem
  /\ WriterReturns(t, Answer("delete", f.key, NULL, "DATA_DELETE"))

(***************************************************************************)
(* Clear: unlink the first node of level 0, free it, and so on; then reset *)
(* dummyHead, to zeroes first.  When Clear is alone, what nothing leads to *)
(* any more is forgotten, as in SkipList.                                  *)
(***************************************************************************)
ClearPops(t, f) ==
  LET first == next(dummyHead, 0)
  IN /\ At(t, "clear", "pop")
     /\ Reads(t, [f EXCEPT !.node = first, !.at = IF first = dummyTail THEN "reset" ELSE "unhead"])

ClearUnlinks(t, f) ==
  /\ At(t, "clear", "unhead")
  /\ Stores(t, [mem EXCEPT ![dummyHead].levelNext[0] = link(f.node, 0)], [f EXCEPT !.at = "free"])

ClearFrees(t, f) ==
  /\ At(t, "clear", "free")
  /\ allocated' = Deallocated(f.node)
  /\ nodeCount' = Minus(nodeCount, 1)
  /\ Go(t, [f EXCEPT !.at = "pop"])
  /\ UNCHANGED <<mem, deleted, status, last, committed>>

ClearZeroes(t, f) ==
  /\ At(t, "clear", "reset")
  /\ Stores(t, [mem EXCEPT ![dummyHead] = [EmptyNode EXCEPT !.state = "DUMMY"]],
            [f EXCEPT !.at = "heads"])

ClearResets(t, f) ==
  LET forgotten == IF \A u \in Threads \ {t} : frame[u] = Idle THEN Nodes ELSE {}
  IN /\ At(t, "clear", "heads")
     /\ mem' = [p \in DOMAIN mem |-> IF p = dummyHead THEN ClearedHead
                                     ELSE IF p \in forgotten THEN EmptyNode ELSE mem[p]]
     /\ deleted' = FALSE
     /\ UNCHANGED <<nodeCount, allocated>>
     /\ WriterReturns(t, Answer("clear", NULL, NULL, "SUCCESS"))

-----------------------------------------------------------------------------
(***************************************************************************)
(* Walks: an iterator or const_iterator from Begin(), with * or -> and ++  *)
(* as long as it is != End(); and PrintStatis, which goes on until NULL.   *)
(***************************************************************************)
WalkBegins(t, f) ==
  /\ f.at = "begin"
  /\ Reads(t, [f EXCEPT !.node = next(dummyHead, 0), !.at = "visit"])

WalkEnds(t, f) == f.at = "visit" /\ WalkOver(f) /\ Reads(t, [f EXCEPT !.at = "return"])

WalkVisits(t, f) ==
  /\ f.at = "visit"
  /\ ~WalkOver(f)
  /\ Reads(t, [f EXCEPT !.seen = IF f.op = "iterate" THEN Append(@, keyOf(f.node)) ELSE @,
                        !.at = "next"])

HighestLink(n) == link(n, LIST_HEIGHT - 1)  \* mutant: the wrong end of levelNext
Incremented(n) == link(n, 0)

WalkSteps(t, f) ==
  /\ f.at = "next"
  /\ Reads(t, [f EXCEPT !.node = Incremented(f.node), !.at = "visit"])

-----------------------------------------------------------------------------
WalkStep(t, f) == WalkBegins(t, f) \/ WalkEnds(t, f) \/ WalkVisits(t, f) \/ WalkSteps(t, f)

SetStep(t, f) ==
  \/ SetUpdates(t, f) \/ SetAllocates(t, f) \/ SetGetsNULL(t, f) \/ SetCopies(t, f)
  \/ SetPublishes(t, f) \/ ClimbStops(t, f) \/ SetCounts(t, f)

DeleteStep(t, f) ==
  \/ DeleteMisses(t, f) \/ DeleteHits(t, f) \/ DeleteTests(t, f)
  \/ UnlinkStops(t, f) \/ DeleteCuts(t, f) \/ DeleteCounts(t, f)

ClearStep(t, f) ==
  \/ ClearPops(t, f) \/ ClearUnlinks(t, f) \/ ClearFrees(t, f)
  \/ ClearZeroes(t, f) \/ ClearResets(t, f)

Step(t, f) ==
  /\ status = "ok"
  /\ UNCHANGED calls
  /\ IF ~Safe(f) THEN Fault(t, f)
     ELSE \/ Forward(t, f) \/ SearchStops(t, f)
          \/ GetEnds(t, f) \/ WalkStep(t, f) \/ ReaderReturns(t, f)
          \/ SetStep(t, f) \/ DeleteStep(t, f) \/ ClearStep(t, f)

Calling(t) ==
  \/ \E k \in Keys, v \in Values : Call(t, "set", k, v)
  \/ \E k \in Keys, op \in {"get", "delete"} : Call(t, op, k, NULL)
  \/ \E op \in {"clear"} \cup Walks : Call(t, op, NULL, NULL)

(***************************************************************************)
(* The history of a reader's call.  While a Delete of the key overlaps a   *)
(* Get, NOT_FOUND is a true answer too: Delete may leave the node linked.  *)
(***************************************************************************)
KeysOnLevel0 == {mem[n].key : n \in Chain}

DeletedNow(k) == \E t \in Writers : frame[t].op = "delete" /\ frame[t].key = k

Watched(t) ==
  CASE frame'[t].op = "get" ->
         IF frame[t] # Idle /\ mem' = mem THEN watch[t]
         ELSE watch[t] \cup {Lookup(frame[t].key)'} \cup {v \in {NULL} : DeletedNow(frame[t].key)'}
    [] frame'[t].op = "iterate" ->
         IF frame[t] = Idle THEN KeysOnLevel0' ELSE watch[t] \cap KeysOnLevel0'
    [] OTHER -> {}

SharedNext ==
  /\ \E t \in Threads : Calling(t) \/ Step(t, frame[t])
  /\ watch' = [t \in Readers |-> Watched(t)]

SharedSpec == SharedInit /\ [][SharedNext]_sharedVars

-----------------------------------------------------------------------------
SharedTypeOK ==
  /\ status \in {"ok", "crashed", "hung", "freed"}
  /\ frame \in [Threads ->
       [op : {"none", "get", "set", "delete", "clear"} \cup Walks,
        doing : {"search", "climb", "unlink"},
        at : {"idle", "walk", "found", "missed", "copy", "publish", "count",
              "test", "cut", "uncount", "pop", "unhead", "free", "reset", "heads",
              "begin", "visit", "next", "return"},
        key : Keys \cup {NULL}, value : Values \cup {NULL}, level : Levels,
        prev : Nodes \cup {dummyHead}, node : Nodes \cup {dummyTail, NULL},
        seen : Seq(Keys \cup {NULL})]]

\* A reader never dereferences NULL or a freed node, whatever a writer that runs
\* at the same time has linked, copied or unlinked so far.
ReadersAreSafe == \A t \in Readers : Safe(frame[t])

\* A Get that overlaps writers answers with what its key had at some moment
\* between call and return: neither an absent key nor a lost value.
GetAnswersTruly == \A t \in Readers : At(t, "get", "return") => frame[t].value \in watch[t]

\* An iteration visits keys in ascending order, none twice, and only keys.
WalkAscends ==
  \A t \in Readers : frame[t].op = "iterate" =>
    \A i, j \in DOMAIN frame[t].seen :
      /\ frame[t].seen[i] # NULL
      /\ i < j => frame[t].seen[i] < frame[t].seen[j]

\* An iteration that ended has visited every key that was in the list all the time.
WalkIsComplete ==
  \A t \in Readers : At(t, "iterate", "return") =>
    watch[t] \subseteq {frame[t].seen[i] : i \in DOMAIN frame[t].seen}

\* What the list is for its writers: until a call returns it has done nothing.
List == INSTANCE SkipList
  WITH mem <- committed.mem, nodeCount <- committed.nodeCount, allocated <- committed.allocated

\* Writers that do not overlap each other do, step by step and with readers inside,
\* what the whole calls of SkipList do.
ImplementsList == List!ListInit /\ [][UNCHANGED List!listVars \/ List!ListNext]_sharedVars

-----------------------------------------------------------------------------
\* db_posix.cpp:42, "lock table here...": a Set never meets a node that the Clear of
\* a compaction has freed.
TableIsLocked == status # "freed"

=============================================================================
