-------------------- MODULE SharedSkipListLocked_proofs --------------------
(***************************************************************************)
(* What the lock that db_posix.cpp:42 leaves as a comment would give: if   *)
(* the callers keep a Clear and two changes apart, no thread dereferences  *)
(* a node that was freed, the clearing one included, although Clear walks  *)
(* over what it frees and Delete leaves nodes linked here and there.       *)
(* And, as long as nothing is deleted, the calls of the writers are atomic *)
(* for each other: the shared list implements SkipList.                    *)
(***************************************************************************)
EXTENDS SharedSkipList_proofs

\* From key k on, the live nodes are linked on level 0 to live ones with greater keys.
\* The nodes with smaller keys, those that Clear has freed, may lead to freed nodes:
\* so may a node that a Delete has unlinked.
Onward(k) ==
  \A p \in Nodes : Live(p) =>
    /\ mem[p].key \in Keys
    /\ k <= mem[p].key =>
         \/ next(p, 0) = dummyTail
         \/ Live(next(p, 0)) /\ mem[p].key < mem[next(p, 0)].key

\* What is left of level 0 during a Clear is alive.
ClearOK(f) ==
  /\ f.at = "pop" /\ next(dummyHead, 0) # dummyTail =>
       Live(next(dummyHead, 0)) /\ Onward(mem[next(dummyHead, 0)].key)
  /\ f.at \in {"unhead", "free"} => Live(f.node) /\ Onward(mem[f.node].key)
  /\ f.at = "free" => next(dummyHead, 0) = next(f.node, 0)

LockedInv == SharedInv /\ status # "freed" /\ \A t \in Writers : ClearOK(frame[t])

-----------------------------------------------------------------------------
\* A writer may meet NULL, in the ascent of Set, but nothing that was freed.
LEMMA NothingFreed ==
  ASSUME LockedInv, NEW t \in Threads
  PROVE  Dereferenced(frame[t]) \subseteq {dummyHead, dummyTail, NULL} \cup allocated
<1> DEFINE Safely == {dummyHead, dummyTail, NULL} \cup allocated
<1>1. SharedInv
  BY DEF LockedInv
<1>2. CASE t \in Readers
  BY <1>1, <1>2, SafeReader DEF Safe
<1>3. CASE t \in Writers
  <2>1. PICK f \in FrameType : f = frame[t]
    BY <1>1, TypeOfFrames DEF SharedInv
  <2>2. Shape(t, f) /\ WriterOK(f) /\ f.op \notin ReaderOps /\ ClearOK(f)
    BY <1>1, <1>3, <2>1, FrameFacts DEF CallOf, LockedInv
  <2>3. f.op \in {"none", "set", "delete", "clear"}
    BY <2>2 DEF FrameType, ReaderOps
  <2>4. \A q, l : Target(q, l) => q \in Safely
    BY DEF Target, Live
  <2>5. CASE f.at = "walk"
    <3>1. f.op \in {"set", "delete"} /\ ListOK
      BY <1>1, <2>1, <2>2, <2>3, <2>5, AtSearch, NoClear
    <3>2. f.prev \in Nodes \cup {dummyHead} /\ f.level \in Levels /\ Ahead(f) = next(f.prev, f.level)
      BY LinkIsNext DEF FrameType, Ahead
    <3>3. f.prev = dummyHead \/ Live(f.prev)
      BY <2>2, <2>5 DEF WriterOK, Reached
    <3>4. Ahead(f) \in Safely
      <4>1. CASE Reached(f.prev, f.level)
        <5>1. Target(Ahead(f), f.level)
          BY <1>1, <3>1, <3>2, <4>1, AheadOfReached DEF Ahead
        <5>2. QED
          BY <2>4, <5>1
      <4>2. CASE ~Reached(f.prev, f.level)
        <5>1. Live(f.prev) /\ f.prev # f.node /\ NodeOK(f.prev) /\ f.doing = "climb"
          BY <1>1, <2>2, <2>5, <3>1, <4>2 DEF WriterOK, Reached, ListOK, Live, SharedInv
        <5>2. ~(f.level <= mem[f.prev].levelHeight)
          BY <1>1, <1>3, <2>1, <3>1, <4>2, <5>1, OneBuilder DEF Reached
        <5>3. mem[f.prev].levelHeight \in Nat /\ f.level \in Nat
          BY <1>1, <3>2, NodeFields, Addresses DEF SharedInv
        <5>4. f.level > mem[f.prev].levelHeight
          BY <5>2, <5>3
        <5>5. Ahead(f) = NULL
          BY <3>2, <5>1, <5>4 DEF NodeOK
        <5>6. QED
          BY <5>5
      <4>3. QED
        BY <4>1, <4>2
    <3>5. f.prev \in Safely
      BY <3>3 DEF Live
    <3>6. QED
      BY <2>1, <2>5, <3>4, <3>5 DEF Dereferenced
  <2>6. CASE f.at \in {"copy", "publish", "cut"}
    <3>1. f.prev \in Safely
      BY <2>2, <2>6 DEF WriterOK, Reached, Live
    <3>2. f.op \in {"set", "delete"}
      BY <2>2, <2>3, <2>6 DEF Shape, Idle
    <3>3. f.node \in Safely
      BY <2>2, <2>6, <3>2 DEF WriterOK, Shape, Building, Live
    <3>4. QED
      BY <2>1, <2>6, <3>1, <3>3 DEF Dereferenced
  <2>7. CASE f.at \in {"found", "test", "unhead", "free"}
    <3>1. f.at = "test" => f.op = "delete" /\ f.doing = "unlink"
      BY <2>2, <2>3 DEF Shape, Idle
    <3>2. Live(f.node)
      BY <2>2, <2>7, <3>1 DEF WriterOK, ClearOK
    <3>3. QED
      BY <2>1, <2>7, <3>2 DEF Dereferenced, Live
  <2>8. CASE f.at \notin {"walk", "copy", "publish", "cut", "found", "test", "unhead", "free"}
    <3>1. f.at \notin {"next", "visit"}
      BY <2>2, <2>3 DEF Shape, Idle
    <3>2. QED
      BY <2>1, <2>8, <3>1 DEF Dereferenced
  <2>9. QED
    BY <2>5, <2>6, <2>7, <2>8
<1>4. QED
  BY <1>2, <1>3 DEF Threads

\* So no step is the one after which anything may happen.
LEMMA StatusStays ==
  ASSUME LockedInv, NEW t \in Threads, NEW f, f = frame[t], Step(t, f)
  PROVE  status' # "freed"
<1>1. status = "ok"
  BY DEF Step
<1>2. CASE ~Safe(f)
  <2>1. NULL \in Dereferenced(f)
    BY <1>2, NothingFreed DEF Safe
  <2>2. QED
    BY <1>2, <2>1 DEF Step, Fault, Fails
<1>3. CASE Safe(f)
  <2>1. CASE Forward(t, f) \/ SearchStops(t, f) \/ GetEnds(t, f) \/ ReaderReturns(t, f)
             \/ WalkStep(t, f)
    BY <1>1, <2>1 DEF Forward, SearchStops, GetEnds, ReaderReturns, WalkStep, WalkBegins,
       WalkEnds, WalkVisits, WalkSteps, Reads, listVars
  <2>2. CASE SetStep(t, f)
    <3>1. CASE SetGetsNULL(t, f)
      BY <3>1 DEF SetGetsNULL, Fails
    <3>2. CASE ClimbStops(t, f)
      BY <1>1, <3>2 DEF ClimbStops, Fails, Reads, listVars
    <3>3. CASE SetUpdates(t, f) \/ SetAllocates(t, f) \/ SetCopies(t, f) \/ SetPublishes(t, f)
               \/ SetCounts(t, f)
      BY <1>1, <3>3 DEF SetUpdates, SetAllocates, SetCopies, SetPublishes, SetCounts, Stores,
         WriterReturns, Returns
    <3>4. QED
      BY <2>2, <3>1, <3>2, <3>3 DEF SetStep
  <2>3. CASE DeleteStep(t, f)
    BY <1>1, <2>3 DEF DeleteStep, DeleteMisses, DeleteHits, DeleteTests, UnlinkStops, DeleteCuts,
       DeleteCounts, Reads, Stores, WriterReturns, Returns, listVars
  <2>4. CASE ClearStep(t, f)
    BY <1>1, <2>4 DEF ClearStep, ClearPops, ClearUnlinks, ClearFrees, ClearZeroes, ClearResets,
       Reads, Stores, WriterReturns, Returns, listVars
  <2>5. QED
    BY <1>3, <2>1, <2>2, <2>3, <2>4 DEF Step
<1>4. QED
  BY <1>2, <1>3

\* A step moves the frame of its thread only, and Idle ends the call.
Moves(t, g) == frame' = [frame EXCEPT ![t] = g]

\* The steps of Set and Delete stay in their call or end it.
LEMMA SetStepMoves ==
  ASSUME SharedInv, NEW t \in Threads, NEW f \in FrameType, CallOf(t, f), SetStep(t, f),
         f.op # "clear"
  PROVE  frame' = frame \/ \E g : g.op # "clear" /\ Moves(t, g)
<1>1. Idle.op # "clear"
  BY DEF Idle
<1>2. CASE SetGetsNULL(t, f)
  BY <1>2 DEF SetGetsNULL
<1>3. CASE SetUpdates(t, f) \/ SetCounts(t, f)
  BY <1>1, <1>3 DEF SetUpdates, SetCounts, WriterReturns, Go, Moves
<1>4. CASE SetAllocates(t, f)
  <2>1. PICK n, g : g = [f EXCEPT !.node = n, !.level = 0, !.at = "copy"] /\ Moves(t, g)
    BY <1>4 DEF SetAllocates, Go, Moves
  <2>2. g.op = f.op
    BY <2>1 DEF FrameType
  <2>3. QED
    BY <2>1, <2>2
<1>5. CASE SetCopies(t, f)
  <2>1. PICK g : g = [f EXCEPT !.at = "publish"] /\ Moves(t, g)
    BY <1>5 DEF SetCopies, Stores, Go, Moves
  <2>2. g.op = f.op
    BY <2>1 DEF FrameType
  <2>3. QED
    BY <2>1, <2>2
<1>6. CASE SetPublishes(t, f)
  <2>1. PICK g : g = Beyond(f) /\ Moves(t, g)
    BY <1>6 DEF SetPublishes, Stores, Go, Beyond, Moves
  <2>2. f.op = "set" /\ f.at = "publish"
    BY <1>6 DEF SetPublishes, At, CallOf
  <2>3. Building(f) /\ WriterOK(f)
    BY <2>2, WriterFacts DEF WriterOps, Building
  <2>4. f.node \in Nodes
    BY <2>3 DEF WriterOK, Live, SharedInv
  <2>5. g.op = f.op
    BY <2>1, <2>2, <2>3, <2>4, AfterPublish
  <2>6. QED
    BY <2>1, <2>5
<1>7. CASE ClimbStops(t, f)
  <2>1. CASE Equal(f)
    BY <1>7, <2>1 DEF ClimbStops
  <2>2. CASE ~Equal(f)
    <3>1. PICK g : g = [f EXCEPT !.at = "copy"] /\ Moves(t, g)
      BY <1>7, <2>2 DEF ClimbStops, Reads, Go, Moves
    <3>2. g.op = f.op
      BY <3>1 DEF FrameType
    <3>3. QED
      BY <3>1, <3>2
  <2>3. QED
    BY <2>1, <2>2
<1>8. QED
  BY <1>2, <1>3, <1>4, <1>5, <1>6, <1>7 DEF SetStep

LEMMA DeleteStepMoves ==
  ASSUME SharedInv, NEW t \in Threads, NEW f \in FrameType, CallOf(t, f), DeleteStep(t, f),
         f.op # "clear"
  PROVE  \E g : g.op # "clear" /\ Moves(t, g)
<1>1. Idle.op # "clear"
  BY DEF Idle
<1>2. CASE DeleteMisses(t, f) \/ DeleteCounts(t, f)
  BY <1>1, <1>2 DEF DeleteMisses, DeleteCounts, WriterReturns, Go, Moves
<1>3. CASE DeleteHits(t, f)
  <2>1. PICK g : /\ g = [f EXCEPT !.level = LIST_HEIGHT - 1, !.doing = "unlink", !.at = "test"]
                 /\ Moves(t, g)
    BY <1>3 DEF DeleteHits, Reads, Go, Moves
  <2>2. g.op = f.op
    BY <2>1 DEF FrameType
  <2>3. QED
    BY <2>1, <2>2
<1>4. CASE DeleteTests(t, f) \/ UnlinkStops(t, f) \/ DeleteCuts(t, f)
  <2>1. PICK g : /\ \/ g = LevelDone(f)
                    \/ g = [f EXCEPT !.prev = dummyHead, !.at = "walk"]
                    \/ g = [f EXCEPT !.at = "cut"]
                 /\ Moves(t, g)
    BY <1>4 DEF DeleteTests, UnlinkStops, DeleteCuts, Reads, Stores, Go, Moves
  <2>2. g.op = f.op
    <3>1. CASE g = LevelDone(f)
      BY <3>1, LevelDoneFacts
    <3>2. CASE g = [f EXCEPT !.prev = dummyHead, !.at = "walk"]
      BY <3>2 DEF FrameType
    <3>3. CASE g = [f EXCEPT !.at = "cut"]
      BY <3>3 DEF FrameType
    <3>4. QED
      BY <2>1, <3>1, <3>2, <3>3
  <2>3. QED
    BY <2>1, <2>2
<1>5. QED
  BY <1>2, <1>3, <1>4 DEF DeleteStep

LEMMA SearchMoves ==
  ASSUME NEW t \in Threads, NEW f \in FrameType, Forward(t, f) \/ SearchStops(t, f),
         f.op # "clear"
  PROVE  \E g : g.op # "clear" /\ Moves(t, g)
<1>1. CASE Forward(t, f)
  <2>1. PICK p, g : g = [f EXCEPT !.prev = p] /\ Moves(t, g)
    BY <1>1 DEF Forward, Reads, Go, Moves
  <2>2. g.op = f.op
    BY <2>1 DEF FrameType
  <2>3. QED
    BY <2>1, <2>2
<1>2. CASE SearchStops(t, f)
  <2>1. PICK n, m, g : /\ \/ g = [f EXCEPT !.node = n, !.at = "found"]
                          \/ g = [f EXCEPT !.at = "missed"]
                          \/ g = [f EXCEPT !.level = m]
                       /\ Moves(t, g)
    <3>1. PICK n, m : n = Ahead(f) /\ m = f.level - 1
      OBVIOUS
    <3>2. PICK g : /\ g = (IF Equal(f) THEN [f EXCEPT !.node = Ahead(f), !.at = "found"]
                           ELSE IF Lowest(f) THEN [f EXCEPT !.at = "missed"]
                           ELSE [f EXCEPT !.level = @ - 1])
                   /\ Moves(t, g)
      BY <1>2 DEF SearchStops, Reads, Go, Moves
    <3>3. \/ g = [f EXCEPT !.node = n, !.at = "found"]
          \/ g = [f EXCEPT !.at = "missed"]
          \/ g = [f EXCEPT !.level = m]
      BY <3>1, <3>2
    <3>4. QED
      BY <3>2, <3>3
  <2>2. g.op = f.op
    <3>1. CASE g = [f EXCEPT !.node = n, !.at = "found"]
      BY <3>1 DEF FrameType
    <3>2. CASE g = [f EXCEPT !.at = "missed"]
      BY <3>2 DEF FrameType
    <3>3. CASE g = [f EXCEPT !.level = m]
      BY <3>3 DEF FrameType
    <3>4. QED
      BY <2>1, <3>1, <3>2, <3>3
  <2>3. QED
    BY <2>1, <2>2
<1>3. QED
  BY <1>1, <1>2

\* During a Clear only its own thread makes a step, and no other step begins one.
LEMMA OnlyCallsClear ==
  ASSUME SharedInv, SharedInv', NEW t \in Threads, NEW f \in FrameType, CallOf(t, f),
         Step(t, f), Safe(f), ~Clearing
  PROVE  ~Clearing'
<1>1. frame \in [Threads -> FrameType] /\ frame[t] = f
  BY TypeOfFrames DEF SharedInv, CallOf
<1>2. CASE t \in Readers
  <2>1. \E g : Moves(t, g)
    <3>1. ~SetStep(t, f) /\ ~DeleteStep(t, f) /\ ~ClearStep(t, f)
      <4>1. f.op \notin WriterOps
        BY <1>2, FrameFacts
      <4>2. SetStep(t, f) /\ ~ClimbStops(t, f) => f.op \in WriterOps
        BY <1>1 DEF SetStep, SetUpdates, SetAllocates, SetGetsNULL, SetCopies, SetPublishes,
           SetCounts, At, WriterOps
      <4>3. DeleteStep(t, f) /\ ~UnlinkStops(t, f) => f.op \in WriterOps
        BY <1>1 DEF DeleteStep, DeleteMisses, DeleteHits, DeleteTests, DeleteCuts, DeleteCounts,
           At, WriterOps
      <4>4. ClearStep(t, f) => f.op \in WriterOps
        BY <1>1 DEF ClearStep, ClearPops, ClearUnlinks, ClearFrees, ClearZeroes, ClearResets,
           At, WriterOps
      <4>5. ~ClimbStops(t, f) /\ ~UnlinkStops(t, f)
        <5>1. f.at = "walk" => f.doing = "search"
          BY <4>1, FrameFacts, AtSearch DEF Shape, WriterOps
        <5>2. QED
          BY <5>1 DEF ClimbStops, UnlinkStops, Stops
      <4>6. QED
        BY <4>1, <4>2, <4>3, <4>4, <4>5
    <3>2. QED
      BY <3>1 DEF Step, Forward, SearchStops, GetEnds, ReaderReturns, WalkStep, WalkBegins,
         WalkEnds, WalkVisits, WalkSteps, Reads, Go, Moves
  <2>2. \A u \in Writers : frame'[u] = frame[u]
    BY <1>1, <1>2, <2>1, SharedAssumption DEF Threads, Moves
  <2>3. QED
    BY <2>2 DEF Clearing
<1>3. CASE t \in Writers
  <2>1. f.op # "clear" /\ f.op \notin ReaderOps
    BY <1>1, <1>3, FrameFacts DEF Clearing
  <2>2. ~GetEnds(t, f) /\ ~ReaderReturns(t, f) /\ ~WalkStep(t, f) /\ ~ClearStep(t, f)
    <3>1. f.at \notin {"begin", "visit", "next", "return"}
      BY <2>1, FrameFacts DEF Shape, Idle, ReaderOps, FrameType
    <3>2. QED
      BY <1>1, <2>1, <3>1 DEF GetEnds, ReaderReturns, WalkStep, WalkBegins, WalkEnds, WalkVisits,
         WalkSteps, ClearStep, ClearPops, ClearUnlinks, ClearFrees, ClearZeroes, ClearResets, At,
         ReaderOps
  <2>3. frame' = frame \/ \E g : g.op # "clear" /\ Moves(t, g)
    BY <2>1, <2>2, SearchMoves, SetStepMoves, DeleteStepMoves DEF Step
  <2>4. \A u \in Writers : frame'[u].op = "clear" => frame[u].op = "clear"
    BY <1>1, <2>3 DEF Moves, Threads
  <2>5. QED
    BY <2>4 DEF Clearing
<1>4. QED
  BY <1>2, <1>3 DEF Threads

\* Outside of Clear nothing is asked of a writer's frame.
LEMMA NothingToClear ==
  ASSUME SharedInv', ~Clearing'
  PROVE  (\A u \in Writers : ClearOK(frame[u]))'
<1>1. ASSUME NEW u \in Writers
      PROVE  frame'[u].at \notin {"pop", "unhead", "free"}
  <2>1. Shape(u, frame[u])' /\ frame'[u].op # "clear" /\ frame'[u] \in FrameType
    BY DEF SharedInv, Clearing, Threads, SharedTypeOK, FrameType
  <2>2. frame'[u].op \in {"none", "get", "set", "delete"} \cup Walks
    BY <2>1 DEF FrameType
  <2>3. QED
    BY <2>1, <2>2 DEF Shape, Idle
<1>2. QED
  BY <1>1 DEF ClearOK

\* A Clear begins when nobody is inside a call: level 0 is whole.
LEMMA ClearBegins ==
  ASSUME SharedInv, CallersExclude, NEW t \in Threads, Call(t, "clear", NULL, NULL)
  PROVE  (\A u \in Writers : ClearOK(frame[u]))'
<1>1. /\ "clear" \in OpsOf(t) /\ frame[t] = Idle /\ MayOverlap(t, "clear")
      /\ mem' = mem /\ allocated' = allocated
  BY DEF Call, listVars
<1>2. PICK g : /\ g = [Idle EXCEPT !.op = "clear", !.at = Entry("clear"), !.key = NULL,
                                   !.value = NULL, !.level = LIST_HEIGHT - 1]
               /\ frame' = [frame EXCEPT ![t] = g]
  BY DEF Call, Go
<1>3. g.op = "clear" /\ g.at = "pop"
  <2>1. Entry("clear") = "pop"
    BY DEF Entry, Walks
  <2>2. g.op = "clear" /\ g.at = Entry("clear")
    BY <1>2, IdleOK DEF FrameType
  <2>3. QED
    BY <2>1, <2>2
<1>4. Exclusion'
  BY <1>1, <1>2, <1>3, CallsExclude DEF WriterOps
<1>5. \A u \in Threads : frame'[u] = IF u = t THEN g ELSE frame[u]
  BY <1>2, TypeOfFrames DEF SharedInv
<1>6. t \in Writers /\ frame'[t] = g
  BY <1>1, <1>5 DEF OpsOf, Threads, Walks
<1>7. \A u \in Writers \ {t} : frame'[u] = Idle
  BY <1>3, <1>4, <1>6 DEF Exclusion
<1>8. \A u \in Writers : frame[u] = Idle
  BY <1>1, <1>5, <1>7 DEF Threads
<1>9. ListOK /\ \A u \in Writers : ~Building(frame[u])
  BY <1>8 DEF SharedInv, Clearing, Idle, Building
<1>10. \A p \in Nodes : Live(p) => Filled(p, 0)
  BY <1>9, NodeFields, Addresses DEF SharedInv, Filled
<1>11. \A q : Target(q, 0) => q = dummyTail \/ Live(q)
  BY DEF Target
<1>12. \A k : Onward(k)
  <2>1. ASSUME NEW p \in Nodes, Live(p)
        PROVE  /\ mem[p].key \in Keys
               /\ \/ next(p, 0) = dummyTail
                  \/ Live(next(p, 0)) /\ mem[p].key < mem[next(p, 0)].key
    <3>1. NodeOK(p) /\ Target(next(p, 0), 0)
      BY <1>9, <1>10, <2>1, Addresses DEF ListOK, NodeOK
    <3>2. QED
      BY <1>10, <1>11, <2>1, <3>1, Addresses DEF NodeOK, Live, SharedInv
  <2>2. QED
    BY <2>1 DEF Onward
<1>13. ClearOK(g)
  <2>1. Target(next(dummyHead, 0), 0)
    BY <1>9, Addresses DEF ListOK, HeadOK
  <2>2. QED
    BY <1>3, <1>11, <1>12, <2>1 DEF ClearOK
<1>14. ClearOK(Idle)
  BY DEF Idle, ClearOK
<1>15. \A f : ClearOK(f) => ClearOK(f)'
  BY <1>1 DEF ClearOK, Onward, Live, next
<1>16. ASSUME NEW u \in Writers
       PROVE  ClearOK(frame[u])'
  <2>1. PICK f : f = frame'[u] /\ ClearOK(f)
    BY <1>6, <1>7, <1>13, <1>14
  <2>2. ClearOK(f)'
    BY <1>15, <2>1
  <2>3. QED
    BY <2>1, <2>2 DEF ClearOK
<1>17. QED
  BY <1>16

\* Clear pops a node that is alive, links dummyHead over it and frees it; the rest of
\* the level does not lead back to it, as it ascends.
LEMMA ClearGoesOn ==
  ASSUME LockedInv, NEW t \in Threads, NEW f \in FrameType, CallOf(t, f), Safe(f),
         ClearStep(t, f)
  PROVE  (\A u \in Writers : ClearOK(frame[u]))'
<1>1. SharedInv /\ f.op = "clear"
  BY DEF LockedInv, ClearStep, ClearPops, ClearUnlinks, ClearFrees, ClearZeroes, ClearResets, At,
     CallOf
<1>2. t \in Writers /\ frame[t] = f /\ ClearOK(f)
  BY <1>1, WriterFacts DEF WriterOps, LockedInv
<1>3. MemType /\ allocated \subseteq Nodes /\ frame \in [Threads -> FrameType]
  BY <1>1, TypeOfFrames DEF SharedInv
<1>4. ASSUME NEW g, frame' = [frame EXCEPT ![t] = g], ClearOK(g)'
      PROVE  (\A u \in Writers : ClearOK(frame[u]))'
  <2>1. \A u \in Threads : frame'[u] = IF u = t THEN g ELSE Idle
    BY <1>1, <1>2, <1>3, <1>4 DEF SharedInv, Exclusion, Threads
  <2>2. \A u \in Writers : frame'[u] = g \/ frame'[u].at = "idle"
    BY <2>1 DEF Threads, Idle
  <2>3. QED
    BY <1>4, <2>2 DEF ClearOK
<1>5. CASE ClearPops(t, f)
  <2>1. PICK q, at : /\ q = next(dummyHead, 0)
                     /\ at = (IF q = dummyTail THEN "reset" ELSE "unhead")
    OBVIOUS
  <2>2. PICK g : g = [f EXCEPT !.node = q, !.at = at] /\ frame' = [frame EXCEPT ![t] = g]
    BY <1>5, <2>1 DEF ClearPops, Reads, Go
  <2>3. g.at = at /\ g.node = q
    BY <2>2 DEF FrameType
  <2>4. f.at = "pop" /\ mem' = mem /\ allocated' = allocated
    BY <1>2, <1>5 DEF ClearPops, At, Reads, listVars
  <2>5. at = "unhead" => Live(q) /\ Onward(mem[q].key)
    BY <1>2, <2>1, <2>4 DEF ClearOK
  <2>6. at = "unhead" => Live(q)' /\ Onward(mem[q].key)'
    BY <2>4, <2>5 DEF Onward, Live, next
  <2>7. ClearOK(g)'
    BY <2>1, <2>3, <2>6 DEF ClearOK
  <2>8. QED
    BY <1>4, <2>2, <2>7
<1>6. CASE ClearUnlinks(t, f)
  <2>1. PICK n, q : n = f.node /\ q = link(f.node, 0)
    OBVIOUS
  <2>2. PICK g : g = [f EXCEPT !.at = "free"] /\ frame' = [frame EXCEPT ![t] = g]
    BY <1>6 DEF ClearUnlinks, Stores, Go
  <2>3. g.at = "free" /\ g.node = n
    BY <2>1, <2>2 DEF FrameType
  <2>4. f.at = "unhead" /\ StoresLink(dummyHead, 0, q) /\ allocated' = allocated
    BY <1>2, <1>6, <2>1 DEF ClearUnlinks, At, Stores, StoresLink
  <2>5. Live(n) /\ Onward(mem[n].key) /\ n \in Nodes /\ q = next(n, 0)
    BY <1>2, <1>3, <2>1, <2>4, LinkIsNext DEF ClearOK, Live
  <2>6. q \in Nodes \cup {dummyTail, NULL}
    BY <1>3, <2>5, NodeFields, Addresses
  <2>7. /\ \A r \in Nodes : /\ mem'[r].key = mem[r].key /\ mem'[r].state = mem[r].state
                            /\ next(r, 0)' = next(r, 0)
        /\ next(dummyHead, 0)' = q
    BY <1>1, <2>4, <2>6, OneLink, Addresses
  <2>8. \A r : Live(r)' <=> Live(r)
    BY <1>3, <2>4, <2>7 DEF Live
  <2>9. Onward(mem[n].key)'
    <3>1. ASSUME NEW p \in Nodes, Live(p)
          PROVE  /\ mem'[p].key \in Keys
                 /\ mem'[n].key <= mem'[p].key =>
                      \/ next(p, 0)' = dummyTail
                      \/ Live(next(p, 0))' /\ mem'[p].key < mem'[next(p, 0)'].key
      <4>1. PICK r : r = next(p, 0) /\ r = next(p, 0)'
        BY <2>7
      <4>2. Live(r) => r \in Nodes
        BY <1>3 DEF Live
      <4>3. Live(r) => Live(next(p, 0))'
        BY <2>8, <4>1 DEF Live
      <4>4. /\ mem[p].key \in Keys
            /\ mem[n].key <= mem[p].key => r = dummyTail \/ (Live(r) /\ mem[p].key < mem[r].key)
        <5>1. /\ mem[p].key \in Keys
              /\ mem[n].key <= mem[p].key =>
                   \/ next(p, 0) = dummyTail
                   \/ Live(next(p, 0)) /\ mem[p].key < mem[next(p, 0)].key
          BY <2>5, <3>1 DEF Onward
        <5>2. r = next(p, 0)
          BY <4>1
        <5>3. QED
          BY <5>1, <5>2
      <4>5. QED
        BY <2>5, <2>7, <4>1, <4>2, <4>3, <4>4
    <3>2. QED
      BY <2>8, <3>1 DEF Onward
  <2>10. ClearOK(g)'
    BY <2>3, <2>5, <2>7, <2>8, <2>9 DEF ClearOK
  <2>11. QED
    BY <1>4, <2>2, <2>10
<1>7. CASE ClearFrees(t, f)
  <2>1. PICK n, q : n = f.node /\ q = next(dummyHead, 0)
    OBVIOUS
  <2>2. PICK g : g = [f EXCEPT !.at = "pop"] /\ frame' = [frame EXCEPT ![t] = g]
    BY <1>7 DEF ClearFrees, Go
  <2>3. g.at = "pop"
    BY <2>2 DEF FrameType
  <2>4. f.at = "free" /\ mem' = mem /\ allocated' = allocated \ {n}
    BY <1>2, <1>7, <2>1 DEF ClearFrees, At, Deallocated
  <2>5. Live(n) /\ n \in Nodes /\ Onward(mem[n].key) /\ q = next(n, 0)
    BY <1>2, <1>3, <2>1, <2>4 DEF ClearOK, Live
  <2>6. /\ \A r : Live(r)' <=> Live(r) /\ r # n
        /\ \A r, l : next(r, l)' = next(r, l)
    BY <2>4 DEF Live, next
  <2>7. \A p \in Nodes : Live(p) => mem[p].key \in Nat
    BY <2>5, Addresses DEF Onward
  <2>8. ASSUME q # dummyTail
        PROVE  Live(q)' /\ Onward(mem[q].key)'
    <3>1. Live(q) /\ mem[n].key < mem[q].key /\ q \in Nodes
      BY <1>3, <2>5, <2>7, <2>8 DEF Onward, Live
    <3>2. ASSUME NEW p \in Nodes, Live(p), mem[q].key <= mem[p].key,
                 next(p, 0) # dummyTail
          PROVE  Live(next(p, 0)) /\ mem[p].key < mem[next(p, 0)].key /\ next(p, 0) # n
      <4>1. mem[n].key <= mem[p].key
        BY <2>5, <2>7, <3>1, <3>2
      <4>2. Live(next(p, 0)) /\ mem[p].key < mem[next(p, 0)].key
        BY <2>5, <3>2, <4>1 DEF Onward
      <4>3. next(p, 0) # n
        BY <2>5, <2>7, <3>1, <3>2, <4>2
      <4>4. QED
        BY <4>2, <4>3
    <3>3. Live(q)'
      BY <2>5, <2>6, <2>7, <3>1
    <3>4. ASSUME NEW p \in Nodes, Live(p)'
          PROVE  /\ mem'[p].key \in Keys
                 /\ mem'[q].key <= mem'[p].key =>
                      \/ next(p, 0)' = dummyTail
                      \/ Live(next(p, 0))' /\ mem'[p].key < mem'[next(p, 0)'].key
      <4>1. Live(p) /\ mem[p].key \in Keys
        BY <2>5, <2>6, <3>4 DEF Onward
      <4>2. PICK r : r = next(p, 0) /\ r = next(p, 0)'
        BY <2>6
      <4>3. mem[q].key <= mem[p].key /\ r # dummyTail => Live(r) /\ mem[p].key < mem[r].key /\ r # n
        BY <3>2, <4>1, <4>2
      <4>4. Live(r) /\ r # n => Live(next(p, 0))'
        BY <2>4, <4>2 DEF Live
      <4>5. QED
        BY <2>4, <4>1, <4>2, <4>3, <4>4
    <3>5. QED
      BY <3>3, <3>4 DEF Onward
  <2>9. next(dummyHead, 0)' = q
    BY <2>1, <2>6
  <2>10. ClearOK(g)'
    BY <2>3, <2>8, <2>9 DEF ClearOK, Onward, Live
  <2>11. QED
    BY <1>4, <2>2, <2>10
<1>8. CASE ClearZeroes(t, f)
  <2>1. PICK g : g = [f EXCEPT !.at = "heads"] /\ frame' = [frame EXCEPT ![t] = g]
    BY <1>8 DEF ClearZeroes, Stores, Go
  <2>2. g.at = "heads"
    BY <2>1 DEF FrameType
  <2>3. QED
    BY <1>4, <2>1, <2>2 DEF ClearOK
<1>9. CASE ClearResets(t, f)
  <2>1. frame' = [frame EXCEPT ![t] = Idle] /\ Idle.at = "idle"
    BY <1>9 DEF ClearResets, WriterReturns, Go, Idle
  <2>2. QED
    BY <1>4, <2>1 DEF ClearOK
<1>10. QED
  BY <1>5, <1>6, <1>7, <1>8, <1>9 DEF ClearStep

-----------------------------------------------------------------------------
LEMMA NextKeepsLocked ==
  ASSUME LockedInv, CallersExclude, [SharedNext]_sharedVars
  PROVE  LockedInv'
<1>1. SharedInv /\ SharedInv'
  BY NextKeepsInv DEF LockedInv
<1>2. ASSUME UNCHANGED <<mem, allocated, frame>>, status' # "freed"
      PROVE  LockedInv'
  <2>1. \A f : ClearOK(f) => ClearOK(f)'
    BY <1>2 DEF ClearOK, Onward, Live, next
  <2>2. ASSUME NEW u \in Writers
        PROVE  ClearOK(frame[u])'
    <3>1. PICK f : f = frame[u] /\ f = frame'[u]
      BY <1>2
    <3>2. ClearOK(f)'
      BY <2>1, <3>1 DEF LockedInv
    <3>3. QED
      BY <3>1, <3>2 DEF ClearOK
  <2>3. QED
    BY <1>1, <1>2, <2>2 DEF LockedInv
<1>3. CASE UNCHANGED sharedVars
  BY <1>2, <1>3 DEF sharedVars, listVars, LockedInv
<1>4. CASE SharedNext
  <2>1. PICK t \in Threads : Calling(t) \/ Step(t, frame[t])
    BY <1>4 DEF SharedNext
  <2>2. PICK f \in FrameType : f = frame[t]
    BY <1>1, TypeOfFrames DEF SharedInv
  <2>3. CASE Step(t, frame[t])
    <3>1. Step(t, f) /\ CallOf(t, f) /\ status' # "freed"
      BY <2>2, <2>3, StatusStays DEF CallOf
    <3>2. CASE ~Safe(f)
      BY <1>2, <3>1, <3>2 DEF Step, Fault, Fails
    <3>3. CASE Safe(f) /\ ~Clearing
      <4>1. ~Clearing'
        BY <1>1, <3>1, <3>3, OnlyCallsClear
      <4>2. QED
        BY <1>1, <3>1, <4>1, NothingToClear DEF LockedInv
    <3>4. CASE Safe(f) /\ Clearing
      <4>1. PICK u \in Writers : frame[u].op = "clear"
        BY <3>4 DEF Clearing
      <4>2. f.op \in {"none", "clear"}
        <5>1. CASE t = u
          BY <2>2, <4>1, <5>1
        <5>2. CASE t # u
          BY <1>1, <2>2, <4>1, <5>2 DEF SharedInv, Exclusion, Threads, Idle
        <5>3. QED
          BY <5>1, <5>2
      <4>3. Shape(t, f)
        BY <1>1, <3>1, FrameFacts
      <4>4. f.at \in {"idle", "pop", "unhead", "free", "reset", "heads"}
        BY <4>2, <4>3 DEF Shape, Idle
      <4>5. ClearStep(t, f)
        <5>1. ~SetStep(t, f)
          BY <2>2, <4>2, <4>4 DEF SetStep, SetUpdates, SetAllocates, SetGetsNULL, SetCopies,
             SetPublishes, SetCounts, ClimbStops, Stops, At
        <5>2. ~DeleteStep(t, f)
          BY <2>2, <4>2, <4>4 DEF DeleteStep, DeleteMisses, DeleteHits, DeleteTests, UnlinkStops,
             DeleteCuts, DeleteCounts, Stops, At
        <5>3. QED
          BY <3>1, <3>4, <4>4, <5>1, <5>2 DEF Step, Forward, SearchStops, Stops, GetEnds,
             ReaderReturns, WalkStep, WalkBegins, WalkEnds, WalkVisits, WalkSteps
      <4>6. QED
        BY <1>1, <3>1, <3>4, <4>5, ClearGoesOn DEF LockedInv
    <3>5. QED
      BY <3>2, <3>3, <3>4
  <2>4. CASE Calling(t)
    <3>1. PICK op, k, v :
            /\ op \in WriterOps \cup ReaderOps
            /\ Call(t, op, k, v) /\ (op = "clear" => k = NULL /\ v = NULL)
      BY <2>4 DEF Calling, WriterOps, ReaderOps, Walks
    <3>2. frame[t] = Idle /\ status' = status
      BY <3>1 DEF Call, listVars
    <3>3. CASE op = "clear"
      BY <1>1, <3>1, <3>2, <3>3, ClearBegins DEF LockedInv
    <3>4. CASE op # "clear"
      <4>1. PICK g : /\ g = [Idle EXCEPT !.op = op, !.at = Entry(op), !.key = k, !.value = v,
                                         !.level = LIST_HEIGHT - 1]
                     /\ frame' = [frame EXCEPT ![t] = g]
        BY <3>1 DEF Call, Go
      <4>2. g.op = op /\ g.at \notin {"pop", "unhead", "free"}
        <5>1. Entry(op) \in {"begin", "walk"}
          BY <3>4 DEF Entry
        <5>2. g.op = op /\ g.at = Entry(op)
          BY <4>1, IdleOK DEF FrameType
        <5>3. QED
          BY <5>1, <5>2
      <4>3. \A u \in Writers : frame'[u] = g \/ frame'[u] = frame[u]
        BY <1>1, <4>1, TypeOfFrames DEF SharedInv, Threads
      <4>4. mem' = mem /\ allocated' = allocated
        BY <3>1 DEF Call, listVars
      <4>5. \A h : ClearOK(h) => ClearOK(h)'
        BY <4>4 DEF ClearOK, Onward, Live, next
      <4>6. ClearOK(g)
        BY <4>2 DEF ClearOK
      <4>7. ASSUME NEW u \in Writers
            PROVE  ClearOK(frame[u])'
        <5>1. PICK h : h = frame'[u] /\ ClearOK(h)
          BY <4>3, <4>6 DEF LockedInv
        <5>2. ClearOK(h)'
          BY <4>5, <5>1
        <5>3. QED
          BY <5>1, <5>2 DEF ClearOK
      <4>8. QED
        BY <1>1, <3>2, <4>7 DEF LockedInv
    <3>5. QED
      BY <3>3, <3>4
  <2>5. QED
    BY <2>1, <2>3, <2>4
<1>5. QED
  BY <1>3, <1>4

LEMMA LockedInitially == SharedInit => LockedInv
<1> SUFFICES ASSUME SharedInit
             PROVE  LockedInv
  OBVIOUS
<1>1. SharedInv /\ status = "ok" /\ \A u \in Threads : frame[u] = Idle
  BY InitGivesInv DEF SharedInit, ListInit
<1>2. \A u \in Writers : ClearOK(frame[u])
  BY <1>1 DEF Threads, Idle, ClearOK
<1>3. QED
  BY <1>1, <1>2 DEF LockedInv

\* db_posix.cpp:42, "lock table here...": if the callers exclude what the comment asks
\* them to, no call, a Clear included, ever dereferences a node that was freed.
THEOREM LockedTableIsSafe == CallersExclude => (SharedSpec => []TableIsLocked)
<1> SUFFICES ASSUME CallersExclude
             PROVE  SharedSpec => []TableIsLocked
  OBVIOUS
<1>1. SharedInit => LockedInv
  BY LockedInitially
<1>2. LockedInv /\ [SharedNext]_sharedVars => LockedInv'
  BY NextKeepsLocked
<1>3. LockedInv => TableIsLocked
  BY DEF LockedInv, TableIsLocked
<1>4. QED
  BY <1>1, <1>2, <1>3, PTL DEF SharedSpec

-----------------------------------------------------------------------------
(* Atomicity: the list whose calls are whole, of which committed is the state. *)

C == INSTANCE SkipList_proofs
  WITH mem <- committed.mem, nodeCount <- committed.nodeCount, allocated <- committed.allocated

\* The calls of List, of which ImplementsList speaks, are those of C.
LEMMA SameCalls ==
  /\ \A k, v : List!SetFound(k, v) <=> C!SetFound(k, v)
  /\ \A k, v : List!SetInsert(k, v) <=> C!SetInsert(k, v)
  /\ \A k : List!SetNoMemory(k) <=> C!SetNoMemory(k)
  /\ List!Clear <=> C!Clear
<1>1. /\ \A op : List!Calls(op) <=> C!Calls(op)
      /\ \A a : List!Returns(a) <=> C!Returns(a)
      /\ \A how : List!Fails(how) <=> C!Fails(how)
      /\ \A op, k, v, r : List!Answer(op, k, v, r) = C!Answer(op, k, v, r)
  BY DEF List!Calls, C!Calls, List!Returns, C!Returns, List!Fails, C!Fails, List!Answer, C!Answer
<1>2. List!Levels = C!Levels /\ List!EmptyNode = C!EmptyNode /\ List!ClearedHead = C!ClearedHead
  BY DEF List!Levels, C!Levels, List!EmptyNode, C!EmptyNode, List!ClearedHead, C!ClearedHead,
         List!EmptyHead, C!EmptyHead
<1>3. \A a, b : List!Plus(a, b) = C!Plus(a, b) /\ List!Minus(a, b) = C!Minus(a, b)
  BY DEF List!Plus, C!Plus, List!Minus, C!Minus
<1>4. /\ \A k : List!Descent(k) = C!Descent(k)
      /\ \A k : List!Found(k) <=> C!Found(k)
  BY DEF List!Descent, C!Descent, List!FromTop, C!FromTop, List!next, C!next, List!Advance,
         C!Advance, List!Before, C!Before, List!Found, C!Found
<1>5. \A k, h, p : List!Predecessor(k, h, p) = C!Predecessor(k, h, p)
  BY DEF List!Predecessor, C!Predecessor, List!next, C!next, List!Advance, C!Advance,
         List!Before, C!Before, List!Levels, C!Levels, List!LinkedLow, C!LinkedLow,
         List!LinkedHigh, C!LinkedHigh
<1>6. List!Cardinality(List!Chain) = C!Cardinality(C!Chain) /\ List!Chain = C!Chain
  BY DEF List!Chain, C!Chain, List!ChainFrom, C!ChainFrom, List!next, C!next,
         List!Cardinality, C!Cardinality
<1>7. \A k, v : List!SetFound(k, v) <=> C!SetFound(k, v)
  BY <1>1, <1>4 DEF List!SetFound, C!SetFound
<1>8. \A k, h, p : /\ List!MeetsKey(k, h, p) <=> C!MeetsKey(k, h, p)
                   /\ List!MeetsNULL(k, h, p) <=> C!MeetsNULL(k, h, p)
  BY <1>2, <1>5 DEF List!MeetsKey, C!MeetsKey, List!MeetsNULL, C!MeetsNULL, List!LinkedHigh,
         C!LinkedHigh, List!next, C!next
<1>9. \A n, k, v, h, p : List!Linked(n, k, v, h, p) = C!Linked(n, k, v, h, p)
  BY DEF List!Linked, C!Linked, List!LinkedOn, C!LinkedOn, List!EmptyNode, C!EmptyNode,
         List!Predecessor, C!Predecessor, List!next, C!next, List!Advance, C!Advance,
         List!Before, C!Before, List!Levels, C!Levels, List!LinkedLow, C!LinkedLow,
         List!LinkedHigh, C!LinkedHigh
<1>10. \A k, v : List!SetInsert(k, v) <=> C!SetInsert(k, v)
  BY <1>1, <1>2, <1>3, <1>4, <1>8, <1>9 DEF List!SetInsert, C!SetInsert, List!RandomHeights,
         C!RandomHeights
<1>11. \A k : List!SetNoMemory(k) <=> C!SetNoMemory(k)
  BY <1>1, <1>4 DEF List!SetNoMemory, C!SetNoMemory
<1>12. List!Clear <=> C!Clear
  BY <1>1, <1>2, <1>3, <1>6 DEF List!Clear, C!Clear
<1>13. QED
  BY <1>7, <1>10, <1>11, <1>12

\* The steps of the abstract list that the calls of writers come to.
LEMMA SameSteps ==
  /\ \A k \in Keys, v \in Values : C!Set(k, v) => List!ListNext
  /\ C!Clear => List!ListNext
  /\ UNCHANGED C!listVars => UNCHANGED List!listVars
BY SameCalls DEF C!Set, List!Set, List!ListNext, C!listVars, List!listVars

-----------------------------------------------------------------------------
(* The invariant: how far a writer has come with what its call does.         *)

Places == Nodes \cup {dummyHead}

\* There are fewer nodes than size_t has values, as each has an address.
HeapFits == IsFiniteSet(Nodes) /\ Cardinality(Nodes) < SizeModulus

NoDeletes == "delete" \notin TableOps

\* A link as it was before the call, and the place of a key on level l then.
Kept(p, l) == committed.mem[p].levelNext[l]
Spot(l, k) == CHOOSE p \in Places : C!IsLast(p, l, k)

Untouched == committed = [mem |-> mem, nodeCount |-> nodeCount, allocated |-> allocated]

\* The node of a Set: it has its links up to level f.level.
Linking(f, l) == f.at = "count" \/ l < f.level

NewNode(f) ==
  /\ f.node = (CHOOSE n \in Nodes \ committed.allocated : TRUE)
  /\ f.node \in Nodes \ committed.allocated
  /\ allocated = committed.allocated \cup {f.node}
  /\ nodeCount = committed.nodeCount
  /\ \A n \in committed.allocated : committed.mem[n].key # f.key
  /\ mem[f.node].key = f.key /\ mem[f.node].value = f.value /\ mem[f.node].state = "NORMAL"
  /\ \A l \in Levels : next(f.node, l) =
       IF l <= mem[f.node].levelHeight /\ (Linking(f, l) \/ (l = f.level /\ f.at = "publish"))
       THEN Kept(Spot(l, f.key), l) ELSE NULL

\* The other nodes are as they were, but for the links to the new one.
OtherNodes(f) ==
  \A p \in Places \ {f.node} :
    /\ mem[p].key = committed.mem[p].key /\ mem[p].value = committed.mem[p].value
    /\ mem[p].state = committed.mem[p].state
    /\ mem[p].levelHeight = committed.mem[p].levelHeight
    /\ \A l \in Levels : next(p, l) =
         IF l <= mem[f.node].levelHeight /\ Linking(f, l) /\ p = Spot(l, f.key)
         THEN f.node ELSE Kept(p, l)

\* Where the Set is: behind prev up to its height, then climbing, from level to level.
LowHeight(f) == committed.mem[Spot(0, f.key)].levelHeight

GoesOnFrom(l, k) == Spot(l - 1, k) \in C!Place(l)

Ascent(f) ==
  /\ f.at \in {"copy", "publish"} => f.prev = Spot(f.level, f.key)
  /\ f.doing = "search" => f.level <= LowHeight(f)
  /\ f.doing = "search" /\ f.at \in {"copy", "publish"} => f.prev = Spot(0, f.key)
  /\ f.doing = "climb" => f.level > LowHeight(f)
  /\ f.at = "count" => f.level = mem[f.node].levelHeight
  /\ \A l \in Levels : l <= f.level /\ LowHeight(f) < l - 1 /\ ~(f.at = "walk" /\ l = f.level) =>
       GoesOnFrom(l, f.key)
  /\ f.at = "walk" =>
       \/ /\ f.prev \in C!Place(f.level)
          /\ LowHeight(f) < f.level - 1 => GoesOnFrom(f.level, f.key)
       \/ LowHeight(f) < f.level - 1 /\ f.prev = Spot(f.level - 1, f.key)

\* A Clear: the nodes that are left are those from the first one on.
First(q) ==
  IF q = dummyTail THEN allocated = {}
  ELSE q \in allocated /\ \A n \in allocated : committed.mem[q].key <= committed.mem[n].key

Freeing(f) ==
  /\ \A p \in Nodes : mem[p] = committed.mem[p]
  /\ nodeCount = Cardinality(allocated)
  /\ allocated \subseteq committed.allocated
  /\ \A n \in allocated, m \in committed.allocated :
       committed.mem[n].key <= committed.mem[m].key => m \in allocated
  /\ f.at = "pop" => First(next(dummyHead, 0))
  /\ f.at \in {"unhead", "free"} => f.node # dummyTail /\ First(f.node)
  /\ f.at = "free" => next(dummyHead, 0) = next(f.node, 0)
  /\ f.at \in {"reset", "heads"} => allocated = {}

WriterAt(f) ==
  /\ f.op # "none" => f.op \in TableOps
  /\ f.op = "set" => f.value \in Values
  /\ Building(f) => NewNode(f) /\ OtherNodes(f) /\ Ascent(f)
  /\ f.op = "clear" => Freeing(f)

Quiet(f) == ~Building(f) /\ f.op # "clear"

AtomicInv ==
  /\ C!ListInv
  /\ C!Counted
  /\ \A t \in Writers : WriterAt(frame[t])
  /\ (\A t \in Writers : Quiet(frame[t])) => Untouched

-----------------------------------------------------------------------------
(* The list before the call.                                                 *)

\* The assumptions on the constants that the lemmas of C rest on.
LEMMA SameAssumption ==
  /\ Keys \subseteq Nat
  /\ NULL \notin Keys \cup Values
  /\ C!Cardinality({dummyHead, dummyTail, NULL}) = 3
  /\ Nodes \cap {dummyHead, dummyTail, NULL} = {}
  /\ LIST_HEIGHT \in Nat \ {0}
  /\ AllocMayFail \in BOOLEAN
  /\ SizeModulus \in Nat
  /\ MaxNodes \in Nat \ {0}
  /\ MaxNodes < SizeModulus
BY SkipListAssumption, SizeAssumption DEF C!Cardinality, Cardinality

\* What is defined in the same words in both.
LEMMA SameWords ==
  /\ C!Levels = Levels /\ C!EmptyNode = EmptyNode /\ C!ClearedHead = ClearedHead
  /\ \A S : C!Cardinality(S) = Cardinality(S)
  /\ \A a, b : C!Plus(a, b) = Plus(a, b) /\ C!Minus(a, b) = Minus(a, b)
  /\ \A p, l : C!next(p, l) = Kept(p, l)
<1>1. C!Levels = Levels /\ C!EmptyNode = EmptyNode /\ C!ClearedHead = ClearedHead
  BY DEF C!Levels, Levels, C!EmptyNode, EmptyNode, C!ClearedHead, ClearedHead, C!EmptyHead,
         EmptyHead
<1>2. \A S : C!Cardinality(S) = Cardinality(S)
  BY DEF C!Cardinality, Cardinality
<1>3. \A a, b : C!Plus(a, b) = Plus(a, b) /\ C!Minus(a, b) = Minus(a, b)
  BY DEF C!Plus, Plus, C!Minus, Minus
<1>4. \A p, l : C!next(p, l) = Kept(p, l)
  BY DEF C!next, Kept
<1>5. QED
  BY <1>1, <1>2, <1>3, <1>4

\* What the invariant of the list gives of its nodes.
LEMMA Committed ==
  ASSUME C!ListInv
  PROVE  /\ committed.allocated \subseteq Nodes /\ IsFiniteSet(committed.allocated)
         /\ committed.mem \in [Places -> C!NodeType]
         /\ \A p \in Places : /\ committed.mem[p].levelHeight \in Levels
                              /\ \A l \in Levels : Kept(p, l) \in Nodes \cup {dummyTail, NULL}
         /\ \A n \in committed.allocated :
              /\ committed.mem[n].key \in Keys /\ committed.mem[n].state = "NORMAL"
              /\ \A l \in Levels : l > committed.mem[n].levelHeight => Kept(n, l) = NULL
         /\ \A n, m \in committed.allocated : committed.mem[n].key = committed.mem[m].key => n = m
         /\ committed.mem[dummyHead].levelHeight = LIST_HEIGHT - 1
         /\ \A n \in Nodes \ committed.allocated : committed.mem[n] = EmptyNode
<1>1. C!Shape
  BY SameAssumption, C!ShapeOfList
<1>2. committed.mem \in [Places -> C!NodeType]
  BY <1>1 DEF C!Shape, Places
<1>3. \A p \in Places : /\ committed.mem[p].levelHeight \in Levels
                        /\ \A l \in Levels : Kept(p, l) \in Nodes \cup {dummyTail, NULL}
  BY <1>2, SameWords DEF C!NodeType, Kept
<1>4. committed.allocated \subseteq Nodes /\ C!IsFiniteSet(committed.allocated)
  BY <1>1 DEF C!Shape
<1>5. IsFiniteSet(committed.allocated)
  BY <1>4 DEF C!IsFiniteSet, IsFiniteSet
<1>6. \A n \in committed.allocated :
        /\ committed.mem[n].key \in Keys /\ committed.mem[n].state = "NORMAL"
        /\ \A l \in Levels : l > committed.mem[n].levelHeight => Kept(n, l) = NULL
  BY <1>1, SameWords DEF C!Shape
<1>7. QED
  BY <1>1, <1>2, <1>3, <1>4, <1>5, <1>6, SameWords DEF C!Shape

\* Where a search may be on a level.
LEMMA PlacesAre ==
  ASSUME C!ListInv, NEW l \in Levels
  PROVE  /\ C!Place(l) = {p \in committed.allocated : committed.mem[p].levelHeight >= l}
                         \cup {dummyHead}
         /\ \A p : p \in C!Place(l) <=> /\ p \in committed.allocated \cup {dummyHead}
                                        /\ l <= committed.mem[p].levelHeight
<1>1. C!Place(l) = {p \in committed.allocated : committed.mem[p].levelHeight >= l} \cup {dummyHead}
  BY DEF C!Place, C!On
<1>2. l <= committed.mem[dummyHead].levelHeight /\ l \in Nat
  BY Committed, Addresses, SkipListAssumption DEF Levels
<1>3. \A p \in committed.allocated : committed.mem[p].levelHeight \in Nat
  BY Committed, Addresses DEF Places
<1>4. QED
  BY <1>1, <1>2, <1>3

\* The place of a key.
LEMMA SpotIs ==
  ASSUME C!ListInv, NEW l \in Levels, NEW k \in Keys
  PROVE  /\ C!IsLast(Spot(l, k), l, k)
         /\ Spot(l, k) \in C!Place(l) /\ Spot(l, k) \in Places
         /\ \A p : C!IsLast(p, l, k) => p = Spot(l, k)
         /\ Spot(l, k) = C!Last(l, k)
<1>1. C!IsLast(C!Last(l, k), l, k) /\ \A p : C!IsLast(p, l, k) => p = C!Last(l, k)
  BY SameAssumption, SameWords, C!LastIs
<1>2. C!Last(l, k) \in Places
  BY <1>1, PlacesAre, Committed DEF C!IsLast, Places
<1>3. C!IsLast(Spot(l, k), l, k)
  BY <1>1, <1>2 DEF Spot
<1>4. Spot(l, k) = C!Last(l, k)
  BY <1>1, <1>3
<1>5. QED
  BY <1>1, <1>2, <1>3, <1>4 DEF C!IsLast

-----------------------------------------------------------------------------
(* What keeps the invariant.                                                 *)

\* A step of the abstract list keeps it in shape.
LEMMA AbstractStep ==
  ASSUME HeapFits, NoDeletes, C!ListInv, C!Counted, C!ListNext \/ UNCHANGED C!listVars
  PROVE  C!ListInv' /\ C!Counted'
<1>1. C!NoDeletes
  BY DEF C!NoDeletes, NoDeletes
<1>2. C!HeapFits
  BY DEF C!HeapFits, HeapFits, C!Cardinality, Cardinality, C!IsFiniteSet, IsFiniteSet
<1>3. [C!ListNext]_(C!listVars)
  OBVIOUS
<1>4. C!ListInv'
  BY <1>1, <1>3, SameAssumption, C!ListStep
<1>5. C!Counted'
  BY <1>1, <1>2, <1>3, SameAssumption, C!CountStep
<1>6. QED
  BY <1>4, <1>5

\* An idle writer has nothing to answer for.
LEMMA IdleWriter == Quiet(Idle) /\ WriterAt(Idle) /\ WriterAt(Idle)'
BY DEF Quiet, WriterAt, Building, Idle

\* A writer that is inside a call is alone.
LEMMA AloneInside ==
  ASSUME SharedInv, NEW t \in Writers, frame[t].op # "none",
         NEW g, frame' = [frame EXCEPT ![t] = g]
  PROVE  frame'[t] = g /\ \A u \in Writers \ {t} : frame[u] = Idle /\ frame'[u] = Idle
<1>1. frame \in [Threads -> FrameType] /\ t \in Threads
  BY TypeOfFrames DEF SharedInv, Threads
<1>2. \A u \in Writers \ {t} : frame[u] = Idle
  BY DEF SharedInv, Exclusion
<1>3. QED
  BY <1>1, <1>2 DEF Threads

\* The call goes on: of what it does nothing shows yet.
LEMMA StaysInside ==
  ASSUME HeapFits, NoDeletes, SharedInv, AtomicInv, NEW t \in Writers, frame[t].op # "none",
         NEW g, frame' = [frame EXCEPT ![t] = g], UNCHANGED <<committed, deleted, status, last>>,
         WriterAt(g)', Quiet(g) => Untouched'
  PROVE  AtomicInv' /\ UNCHANGED C!listVars
<1>1. UNCHANGED C!listVars
  BY DEF C!listVars
<1>2. C!ListInv' /\ C!Counted'
  BY <1>1, AbstractStep DEF AtomicInv
<1>3. frame'[t] = g /\ \A u \in Writers \ {t} : frame'[u] = Idle
  BY AloneInside
<1>4. (\A u \in Writers : WriterAt(frame[u]))'
  BY <1>3, IdleWriter
<1>5. (\A u \in Writers : Quiet(frame[u]))' => Untouched'
  BY <1>3
<1>6. QED
  BY <1>1, <1>2, <1>4, <1>5 DEF AtomicInv

\* The call returns: what it did now shows, all of it.
LEMMA Commits ==
  ASSUME HeapFits, NoDeletes, SharedInv, AtomicInv, NEW t \in Writers, frame[t].op # "none",
         frame' = [frame EXCEPT ![t] = Idle], C!ListNext,
         committed' = [mem |-> mem', nodeCount |-> nodeCount', allocated |-> allocated']
  PROVE  AtomicInv'
<1>1. C!ListInv' /\ C!Counted'
  BY AbstractStep DEF AtomicInv
<1>2. frame'[t] = Idle /\ \A u \in Writers \ {t} : frame'[u] = Idle
  BY AloneInside
<1>3. (\A u \in Writers : WriterAt(frame[u]))'
  BY <1>2, IdleWriter
<1>4. Untouched'
  BY DEF Untouched
<1>5. QED
  BY <1>1, <1>3, <1>4 DEF AtomicInv

\* What a writer has come to is about the list alone.
LEMMA SameHeap ==
  ASSUME UNCHANGED <<mem, nodeCount, allocated, committed>>
  PROVE  (\A f : WriterAt(f)' <=> WriterAt(f)) /\ (Untouched' <=> Untouched)
<1>1. \A l, k : Spot(l, k)' = Spot(l, k)
  BY DEF Spot, C!IsLast, C!Place, C!On, C!After, C!Below
<1>2. \A l, k : GoesOnFrom(l, k)' <=> GoesOnFrom(l, k)
  BY <1>1 DEF GoesOnFrom, C!Place, C!On
<1>3. \A l : C!Place(l)' = C!Place(l)
  BY DEF C!Place, C!On
<1>4. \A p, l : next(p, l)' = next(p, l) /\ Kept(p, l)' = Kept(p, l)
  BY DEF next, Kept
<1>5. \A f : NewNode(f)' <=> NewNode(f)
  BY <1>1, <1>4 DEF NewNode
<1>6. \A f : OtherNodes(f)' <=> OtherNodes(f)
  BY <1>1, <1>4 DEF OtherNodes
<1>7. \A f : Ascent(f)' <=> Ascent(f)
  BY <1>1, <1>2, <1>3 DEF Ascent, LowHeight
<1>8. \A f : Freeing(f)' <=> Freeing(f)
  BY <1>4 DEF Freeing, First
<1>9. \A f : WriterAt(f)' <=> WriterAt(f)
  BY <1>5, <1>6, <1>7, <1>8 DEF WriterAt
<1>10. Untouched' <=> Untouched
  BY DEF Untouched
<1>11. QED
  BY <1>9, <1>10

\* A step of a reader.
LEMMA ReaderStays ==
  ASSUME HeapFits, NoDeletes, SharedInv, AtomicInv, NEW t \in Readers,
         NEW g, frame' = [frame EXCEPT ![t] = g], UNCHANGED <<listVars, committed>>
  PROVE  AtomicInv' /\ UNCHANGED C!listVars
<1>1. UNCHANGED C!listVars /\ UNCHANGED <<mem, nodeCount, allocated, committed>>
  BY DEF C!listVars, listVars
<1>2. C!ListInv' /\ C!Counted'
  BY <1>1, AbstractStep DEF AtomicInv
<1>3. \A u \in Writers : frame'[u] = frame[u]
  <2>1. frame \in [Threads -> FrameType] /\ t \notin Writers
    BY TypeOfFrames, SharedAssumption DEF SharedInv
  <2>2. QED
    BY <2>1 DEF Threads
<1>4. (\A u \in Writers : WriterAt(frame[u]))'
  BY <1>1, <1>3, SameHeap DEF AtomicInv
<1>5. (\A u \in Writers : Quiet(frame[u]))' => Untouched'
  <2>1. (\A u \in Writers : Quiet(frame[u]))' => \A u \in Writers : Quiet(frame[u])
    BY <1>3 DEF Quiet, Building
  <2>2. QED
    BY <1>1, <2>1, SameHeap DEF AtomicInv
<1>6. QED
  BY <1>1, <1>2, <1>4, <1>5 DEF AtomicInv

\* A step that fails.
LEMMA FailsAbstractly ==
  ASSUME HeapFits, NoDeletes, SharedInv, AtomicInv, C!ListNext, frame' = frame,
         UNCHANGED <<mem, nodeCount, allocated, committed>>
  PROVE  AtomicInv'
<1>1. C!ListInv' /\ C!Counted'
  BY AbstractStep DEF AtomicInv
<1>2. (\A u \in Writers : WriterAt(frame[u]))'
  BY SameHeap DEF AtomicInv
<1>3. (\A u \in Writers : Quiet(frame[u]))' => Untouched'
  <2>1. (\A u \in Writers : Quiet(frame[u]))' => \A u \in Writers : Quiet(frame[u])
    BY DEF Quiet, Building
  <2>2. QED
    BY <2>1, SameHeap DEF AtomicInv
<1>4. QED
  BY <1>1, <1>2, <1>3 DEF AtomicInv

-----------------------------------------------------------------------------
(* The places of a key in the list before the call, and the ascent to them.  *)

\* A walk along a level has come to the place of a key when it cannot go on.
LEMMA SpotStops ==
  ASSUME C!ListInv, NEW l \in Levels, NEW k \in Keys, NEW p \in C!Place(l),
         p = dummyHead \/ committed.mem[p].key < k
  PROVE  p = Spot(l, k) <=> ~(Kept(p, l) \in Nodes /\ committed.mem[Kept(p, l)].key < k)
<1>1. C!Below(p, k)
  BY DEF C!Below
<1>2. C!IsLast(p, l, k) <=> ~(C!next(p, l) \in Nodes /\ committed.mem[C!next(p, l)].key < k)
  BY <1>1, SameAssumption, SameWords, C!LastStops
<1>3. C!IsLast(p, l, k) <=> p = Spot(l, k)
  BY SpotIs
<1>4. QED
  BY <1>2, <1>3, SameWords

\* What is behind that place.
LEMMA SpotNext ==
  ASSUME C!ListInv, NEW l \in Levels, NEW k \in Keys
  PROVE  /\ Spot(l, k) = dummyHead \/ committed.mem[Spot(l, k)].key < k
         /\ \/ Kept(Spot(l, k), l) = dummyTail
            \/ /\ Kept(Spot(l, k), l) \in committed.allocated
               /\ committed.mem[Kept(Spot(l, k), l)].key >= k
         /\ \A n \in C!On(l) : committed.mem[n].key = k => Kept(Spot(l, k), l) = n
<1>1. C!IsLast(Spot(l, k), l, k)
  BY SpotIs
<1>2. Spot(l, k) = dummyHead \/ committed.mem[Spot(l, k)].key < k
  BY <1>1 DEF C!IsLast, C!Below
<1>3. C!next(Spot(l, k), l) = dummyTail \/ (C!next(Spot(l, k), l) \in C!On(l)
        /\ committed.mem[C!next(Spot(l, k), l)].key >= k)
  BY <1>1, SameAssumption, SameWords, C!LastNext
<1>4. \A n \in C!On(l) : committed.mem[n].key = k => C!next(Spot(l, k), l) = n
  BY <1>1, SameAssumption, SameWords, C!LastNext
<1>5. C!On(l) \subseteq committed.allocated
  BY DEF C!On
<1>6. QED
  BY <1>2, <1>3, <1>4, <1>5, SameWords

\* Up to the height of the place on level 0 the places are that one.
LEMMA LowSpot ==
  ASSUME C!ListInv, NEW l \in Levels, NEW k \in Keys,
         l <= committed.mem[Spot(0, k)].levelHeight
  PROVE  Spot(l, k) = Spot(0, k)
<1>1. 0 \in Levels /\ 0 <= l /\ l \in Nat
  BY Addresses
<1>2. C!IsLast(Spot(0, k), 0, k) /\ Spot(0, k) \in C!Place(0)
  BY <1>1, SpotIs
<1>3. Spot(0, k) \in C!Place(l)
  BY <1>1, <1>2, PlacesAre
<1>4. C!On(l) \subseteq C!On(0)
  BY <1>1, SameAssumption, SameWords, C!LowerLevel
<1>5. C!IsLast(Spot(0, k), l, k)
  BY <1>2, <1>3, <1>4 DEF C!IsLast
<1>6. QED
  BY <1>5, SpotIs

\* Above that the ascent goes on from the place it found on the level below.  It is
\* stuck if that one is not high enough: its link is NULL.
Stuck(l, k) ==
  \E m \in Levels : /\ m <= l /\ committed.mem[Spot(0, k)].levelHeight < m - 1
                    /\ ~GoesOnFrom(m, k)

\* What the ascent of a whole call finds on each level.
LEMMA PredecessorIsSpot ==
  ASSUME C!ListInv, NEW k \in Keys, NEW h \in Levels, NEW l \in Levels, l <= h
  PROVE  C!Predecessor(k, h, Spot(0, k))[l] = IF Stuck(l, k) THEN NULL ELSE Spot(l, k)
<1>1. PICK s \in Places : s = Spot(0, k) /\ C!IsLast(s, 0, k)
  BY SpotIs, Addresses
<1>2. C!Predecessor(k, h, s)[l] = C!AscentAt(l, k, h, s)
  BY <1>1, SameAssumption, SameWords, C!PredecessorEquation
<1>3. PICK low : low = committed.mem[s].levelHeight
  OBVIOUS
<1>4. low \in Levels /\ low \in Nat /\ l \in Nat /\ h \in Nat /\ \A i \in Levels : i \in Nat
  BY <1>1, <1>3, Committed, Addresses
<1>5. C!LinkedLow(h, s) = {i \in Levels : i <= h /\ i <= low}
      /\ C!LinkedHigh(h, s) = {i \in Levels : i <= h /\ i > low}
  BY <1>3, SameWords DEF C!LinkedLow, C!LinkedHigh
<1>6. CASE l <= low
  <2>1. ~Stuck(l, k)
    BY <1>1, <1>3, <1>4, <1>6 DEF Stuck
  <2>2. C!AscentAt(l, k, h, s) = s
    BY <1>5, <1>6 DEF C!AscentAt
  <2>3. QED
    BY <1>1, <1>2, <1>3, <1>6, <2>1, <2>2, LowSpot
<1>7. CASE ~(l <= low)
  <2>1. l - 1 \in Levels /\ l \notin C!LinkedLow(h, s)
    BY <1>4, <1>5, <1>7, Addresses
  <2>2. \A m \in Levels : m # 0 => C!Last(m - 1, k) = Spot(m - 1, k)
    BY SpotIs, Addresses
  <2>3. \A m : m \in 1..l <=> m \in Levels /\ m # 0 /\ m <= l
    BY <1>4, SkipListAssumption DEF Levels
  <2>4. \A m \in 1..l : m - 1 \in C!LinkedHigh(h, s) <=> low < m - 1
    BY <1>4, <1>5, <2>3, Addresses
  <2>5. \A m \in Levels : m <= l /\ low < m - 1 => m \in 1..l /\ low < l - 1
    BY <1>4, <2>3
  <2>6. (l - 1 \in C!LinkedHigh(h, s) /\ C!Broken(l, k, h, s)) <=> Stuck(l, k)
    <3>1. C!Broken(l, k, h, s) <=>
            \E m \in 1..l : low < m - 1 /\ C!Last(m - 1, k) \notin C!Place(m)
      BY <2>4 DEF C!Broken
    <3>2. C!Broken(l, k, h, s) <=>
            \E m \in 1..l : low < m - 1 /\ Spot(m - 1, k) \notin C!Place(m)
      BY <2>2, <2>3, <3>1
    <3>3. Stuck(l, k) <=> \E m \in 1..l : low < m - 1 /\ Spot(m - 1, k) \notin C!Place(m)
      BY <1>1, <1>3, <2>3, <2>5 DEF Stuck, GoesOnFrom
    <3>4. Stuck(l, k) => l - 1 \in C!LinkedHigh(h, s)
      <4>1. Stuck(l, k) => low < l - 1
        BY <1>1, <1>3, <2>5 DEF Stuck
      <4>2. QED
        BY <1>4, <1>5, <2>1, <4>1
    <3>5. QED
      BY <3>2, <3>3, <3>4
  <2>7. C!AscentAt(l, k, h, s) = IF Stuck(l, k) THEN NULL ELSE C!Last(l, k)
    BY <2>1, <2>6 DEF C!AscentAt
  <2>8. QED
    BY <1>1, <1>2, <2>7, SpotIs
<1>8. QED
  BY <1>6, <1>7

\* The ascent meets NULL if it has to go on from a node that is not high enough.
LEMMA MeetsNULLIs ==
  ASSUME C!ListInv, NEW k \in Keys, NEW h \in Levels
  PROVE  C!MeetsNULL(k, h, Spot(0, k)) <=> Stuck(h, k)
<1>1. PICK s \in Places : s = Spot(0, k)
  BY SpotIs, Addresses
<1>2. PICK low : low = committed.mem[s].levelHeight
  OBVIOUS
<1>3. low \in Nat /\ h \in Nat /\ \A i \in Levels : i \in Nat
  BY <1>1, <1>2, Committed, Addresses
<1>4. C!LinkedHigh(h, s) = {i \in Levels : i <= h /\ i > low}
  BY <1>2, SameWords DEF C!LinkedHigh
<1>5. \A l \in Levels : Spot(l, k) # NULL
  BY SpotIs, Addresses DEF Places
<1>6. \A l \in Levels : l <= h => (C!Predecessor(k, h, s)[l] = NULL <=> Stuck(l, k))
  BY <1>1, <1>5, PredecessorIsSpot
<1>7. \A l \in Levels : l <= h /\ Stuck(l, k) => Stuck(h, k)
  BY <1>3 DEF Stuck
<1>8. Stuck(h, k) => h > low
  BY <1>1, <1>2, <1>3 DEF Stuck
<1>9. C!MeetsNULL(k, h, s) <=> \E l \in C!LinkedHigh(h, s) : Stuck(l, k)
  BY <1>4, <1>6 DEF C!MeetsNULL
<1>10. Stuck(h, k) => h \in C!LinkedHigh(h, s)
  BY <1>3, <1>4, <1>8
<1>11. (\E l \in C!LinkedHigh(h, s) : Stuck(l, k)) => Stuck(h, k)
  BY <1>4, <1>7
<1>12. C!MeetsNULL(k, h, s) <=> Stuck(h, k)
  BY <1>9, <1>10, <1>11
<1>13. QED
  BY <1>1, <1>12

-----------------------------------------------------------------------------
(* Set: the search, the update and the allocation.                           *)

\* A writer's Set.
LEMMA SetFacts ==
  ASSUME SharedInv, AtomicInv, NEW t \in Threads, NEW f \in FrameType, CallOf(t, f), f.op = "set"
  PROVE  /\ t \in Writers /\ frame[t] = f /\ frame[t].op # "none" /\ Shape(t, f) /\ WriterOK(f)
         /\ ListOK /\ WriterAt(f) /\ f.key \in Keys /\ f.value \in Values /\ "set" \in TableOps
         /\ C!ListInv /\ MemType
         /\ ~Building(f) => Untouched
<1>1. /\ t \in Writers /\ frame[t] = f /\ f.op # "none" /\ Shape(t, f) /\ WriterOK(f) /\ ListOK
  BY WriterFacts DEF WriterOps
<1>2. WriterAt(f)
  BY <1>1 DEF AtomicInv
<1>3. f.key \in Keys /\ f.value \in Values /\ "set" \in TableOps
  BY <1>1, <1>2 DEF Shape, WriterAt
<1>4. ~Building(f) => Untouched
  <2>1. \A u \in Writers \ {t} : frame[u] = Idle
    BY <1>1 DEF SharedInv, Exclusion
  <2>2. ~Building(f) => \A u \in Writers : Quiet(frame[u])
    BY <1>1, <2>1, IdleWriter DEF Quiet
  <2>3. QED
    BY <2>2 DEF AtomicInv
<1>5. QED
  BY <1>1, <1>2, <1>3, <1>4 DEF AtomicInv, SharedInv

\* The search of a Set changes nothing.
LEMMA SearchStays ==
  ASSUME HeapFits, NoDeletes, SharedInv, AtomicInv, NEW t \in Threads, NEW f \in FrameType,
         CallOf(t, f), f.op = "set", f.doing = "search", Forward(t, f) \/ SearchStops(t, f)
  PROVE  AtomicInv' /\ UNCHANGED C!listVars
<1>1. f.at = "walk" /\ UNCHANGED <<listVars, committed>>
  BY DEF Forward, SearchStops, Stops, Reads
<1>2. PICK g : /\ frame' = [frame EXCEPT ![t] = g]
               /\ g.op = "set" /\ g.doing = "search" /\ g.value = f.value
               /\ g.at \in {"walk", "found", "missed"}
  <2>1. CASE Forward(t, f)
    <3>1. PICK g : g = [f EXCEPT !.prev = Ahead(f)]
      OBVIOUS
    <3>2. g.op = "set" /\ g.doing = "search" /\ g.value = f.value /\ g.at = "walk"
      BY <1>1, <3>1 DEF FrameType
    <3>3. QED
      BY <2>1, <3>1, <3>2 DEF Forward, Reads, Go
  <2>2. CASE SearchStops(t, f)
    <3>1. PICK g : g = IF Equal(f) THEN [f EXCEPT !.node = Ahead(f), !.at = "found"]
                       ELSE IF Lowest(f) THEN [f EXCEPT !.at = "missed"]
                       ELSE [f EXCEPT !.level = @ - 1]
      OBVIOUS
    <3>2. /\ g.op = "set" /\ g.doing = "search" /\ g.value = f.value
          /\ g.at \in {"walk", "found", "missed"}
      BY <1>1, <3>1 DEF FrameType
    <3>3. QED
      BY <2>2, <3>1, <3>2 DEF SearchStops, Reads, Go
  <2>3. QED
    BY <2>1, <2>2
<1>3. t \in Writers /\ frame[t].op # "none" /\ f.value \in Values /\ "set" \in TableOps /\ Untouched
  BY <1>1, SetFacts DEF Building
<1>4. ~Building(g) /\ Quiet(g)
  BY <1>2 DEF Building, Quiet
<1>5. WriterAt(g)'
  BY <1>2, <1>3, <1>4 DEF WriterAt, Building
<1>6. Untouched'
  BY <1>1, <1>3 DEF Untouched, listVars
<1>7. QED
  BY <1>1, <1>2, <1>3, <1>5, <1>6, StaysInside DEF listVars

\* The update is the whole call.
LEMMA UpdateIsSet ==
  ASSUME HeapFits, NoDeletes, SharedInv, AtomicInv, NEW t \in Threads, NEW f \in FrameType,
         CallOf(t, f), status = "ok", SetUpdates(t, f)
  PROVE  AtomicInv' /\ C!Set(f.key, f.value)
<1>1. f.op = "set" /\ f.at = "found"
  BY DEF SetUpdates, At, CallOf
<1>2. /\ t \in Writers /\ frame[t].op # "none" /\ Shape(t, f) /\ WriterOK(f)
      /\ f.key \in Keys /\ f.value \in Values /\ "set" \in TableOps /\ C!ListInv
  BY <1>1, SetFacts
<1>3. ~Building(f)
  BY <1>1, <1>2 DEF Building, Shape
<1>4. Untouched
  BY <1>1, <1>3, SetFacts
<1>5. committed.mem = mem /\ committed.nodeCount = nodeCount /\ committed.allocated = allocated
  BY <1>4 DEF Untouched
<1>6. Live(f.node) /\ mem[f.node].key = f.key
  BY <1>1, <1>2 DEF WriterOK
<1>7. C!Descent(f.key).cur = f.node /\ C!Found(f.key)
  <2>1. PICK k \in Keys : k = f.key
    BY <1>2
  <2>2. PICK n \in committed.allocated : n = f.node /\ committed.mem[n].key = k
    BY <1>5, <1>6, <2>1 DEF Live
  <2>3. C!Descent(k).cur = n /\ C!Found(k)
    BY <1>2, <2>2, SameAssumption, C!SearchFinds
  <2>4. QED
    BY <2>1, <2>2, <2>3
<1>8. /\ mem' = [mem EXCEPT ![f.node].value = f.value, ![f.node].state = "NORMAL"]
      /\ UNCHANGED <<nodeCount, allocated, deleted>>
      /\ frame' = [frame EXCEPT ![t] = Idle]
      /\ last' = Answer("set", f.key, f.value,
                   IF mem[f.node].state = "NORMAL" THEN "DATA_UPDATE" ELSE "DATA_INSERT")
      /\ status' = status
      /\ committed' = [mem |-> mem', nodeCount |-> nodeCount', allocated |-> allocated']
  BY DEF SetUpdates, WriterReturns, Go, Returns
<1>9. /\ committed.mem' = mem' /\ committed.nodeCount' = nodeCount'
      /\ committed.allocated' = allocated'
  BY <1>8
<1>10. C!SetFound(f.key, f.value)
  <2>1. C!Calls("set")
    BY <1>2 DEF C!Calls
  <2>2. committed.mem' = [committed.mem EXCEPT ![C!Descent(f.key).cur].value = f.value,
                                               ![C!Descent(f.key).cur].state = "NORMAL"]
    BY <1>5, <1>7, <1>8, <1>9
  <2>3. C!Returns(C!Answer("set", f.key, f.value,
          IF committed.mem[C!Descent(f.key).cur].state = "NORMAL"
          THEN "DATA_UPDATE" ELSE "DATA_INSERT"))
    BY <1>5, <1>7, <1>8 DEF C!Returns, C!Answer, Answer
  <2>4. UNCHANGED <<committed.nodeCount, committed.allocated, deleted>>
    BY <1>5, <1>8, <1>9
  <2>5. QED
    BY <1>7, <2>1, <2>2, <2>3, <2>4 DEF C!SetFound
<1>11. C!Set(f.key, f.value)
  BY <1>10 DEF C!Set
<1>12. C!ListNext
  BY <1>2, <1>11 DEF C!ListNext
<1>13. QED
  BY <1>2, <1>8, <1>11, <1>12, Commits

\* A search that missed the key has ended at its place on level 0.
LEMMA MissedAtSpot ==
  ASSUME SharedInv, AtomicInv, NEW t \in Threads, NEW f \in FrameType, CallOf(t, f),
         f.op = "set", f.at = "missed"
  PROVE  /\ f.prev = Spot(0, f.key) /\ Untouched
         /\ \A n \in committed.allocated : committed.mem[n].key # f.key
         /\ ~C!Found(f.key)
<1>1. /\ t \in Writers /\ Shape(t, f) /\ WriterOK(f) /\ f.key \in Keys /\ C!ListInv
  BY SetFacts
<1>2. ~Building(f)
  BY <1>1 DEF Building, Shape
<1>3. Untouched /\ committed.mem = mem /\ committed.allocated = allocated
  <2>1. Untouched
    BY <1>2, SetFacts
  <2>2. QED
    BY <2>1 DEF Untouched
<1>4. f.level = 0 /\ Reached(f.prev, 0) /\ Behind(f) /\ AheadGreater(f)
  BY <1>1 DEF WriterOK
<1>5. f.prev \in C!Place(0) /\ f.prev \in Places /\ 0 \in Levels
  <2>1. CASE f.prev = dummyHead
    BY <2>1, PlacesAre, <1>1, Addresses DEF Places
  <2>2. CASE Live(f.prev) /\ Published(f.prev, 0)
    BY <1>1, <1>3, <2>2, PlacesAre, Committed, Addresses DEF Live, Published, Places
  <2>3. QED
    BY <1>4, <2>1, <2>2 DEF Reached
<1>6. f.prev = dummyHead \/ committed.mem[f.prev].key < f.key
  BY <1>3, <1>4 DEF Behind
<1>7. Kept(f.prev, 0) = Ahead(f)
  BY <1>3, <1>4, <1>5, LinkIsNext DEF Kept, Ahead, next, Places
<1>8. Kept(f.prev, 0) \in Nodes => f.key < committed.mem[Kept(f.prev, 0)].key
  BY <1>3, <1>4, <1>7 DEF AheadGreater
<1>9. ~(Kept(f.prev, 0) \in Nodes /\ committed.mem[Kept(f.prev, 0)].key < f.key)
  <2>1. ASSUME Kept(f.prev, 0) \in Nodes, committed.mem[Kept(f.prev, 0)].key < f.key
        PROVE  FALSE
    <3>1. PICK q \in Nodes : q = Kept(f.prev, 0)
      BY <2>1
    <3>2. mem[q].key \in Keys \cup {NULL} /\ Live(q)
      <4>1. ListOK /\ SharedInv
        BY SetFacts
      <4>2. Target(q, 0)
        BY <1>4, <1>5, <1>7, <3>1, <4>1, AheadOfReached DEF Ahead, Places
      <4>3. QED
        BY <3>1, <4>2, Addresses, NodeFields DEF Target, SharedInv
    <3>3. mem[q].key \in Nat /\ f.key \in Nat
      <4>1. ListOK
        BY SetFacts
      <4>2. QED
        BY <1>1, <3>2, <4>1, LiveHasKey, Addresses
    <3>4. QED
      BY <1>3, <1>8, <2>1, <3>1, <3>3
  <2>2. QED
    BY <2>1
<1>10. f.prev = Spot(0, f.key)
  BY <1>1, <1>5, <1>6, <1>9, SpotStops
<1>11. ASSUME NEW n \in committed.allocated, committed.mem[n].key = f.key
       PROVE  FALSE
  <2>1. n \in C!On(0) /\ n \in Nodes
    BY <1>1, <1>5, SameAssumption, SameWords, C!NodesOfList
  <2>2. Kept(f.prev, 0) = n
    BY <1>1, <1>5, <1>10, <1>11, <2>1, SpotNext
  <2>3. f.key \in Nat
    BY <1>1, Addresses
  <2>4. QED
    BY <1>8, <1>11, <2>1, <2>2, <2>3
<1>12. ~C!Found(f.key)
  BY <1>1, <1>11, SameAssumption, C!SearchFinds
<1>13. QED
  BY <1>3, <1>10, <1>11, <1>12

\* As long as a call goes on, what was before it stays the same.
LEMMA SameBefore ==
  ASSUME committed' = committed
  PROVE  /\ \A l, k : Spot(l, k)' = Spot(l, k)
         /\ \A l, k : GoesOnFrom(l, k)' <=> GoesOnFrom(l, k)
         /\ \A l : C!Place(l)' = C!Place(l)
         /\ \A p, l : Kept(p, l)' = Kept(p, l)
         /\ \A f : LowHeight(f)' = LowHeight(f)
<1>1. \A l, k : Spot(l, k)' = Spot(l, k)
  BY DEF Spot, C!IsLast, C!Place, C!On, C!After, C!Below
<1>2. \A l : C!Place(l)' = C!Place(l)
  BY DEF C!Place, C!On
<1>3. \A l, k : GoesOnFrom(l, k)' <=> GoesOnFrom(l, k)
  BY <1>1, <1>2 DEF GoesOnFrom
<1>4. \A p, l : Kept(p, l)' = Kept(p, l)
  BY DEF Kept
<1>5. \A f : LowHeight(f)' = LowHeight(f)
  BY <1>1 DEF LowHeight
<1>6. QED
  BY <1>1, <1>2, <1>3, <1>4, <1>5

\* The heights that the levels are compared with.
LEMMA LowHeightIs ==
  ASSUME C!ListInv, NEW f, f.key \in Keys
  PROVE  LowHeight(f) \in Levels /\ LowHeight(f) \in Nat
<1>1. Spot(0, f.key) \in Places
  BY SpotIs, Addresses
<1>2. QED
  BY <1>1, Committed, Addresses DEF LowHeight

\* The new node is filled, and nothing leads to it.
LEMMA AllocationStays ==
  ASSUME HeapFits, NoDeletes, SharedInv, AtomicInv, NEW t \in Threads, NEW f \in FrameType,
         CallOf(t, f), SetAllocates(t, f)
  PROVE  AtomicInv' /\ UNCHANGED C!listVars
<1>1. f.op = "set" /\ f.at = "missed"
  BY DEF SetAllocates, At, CallOf
<1>2. /\ t \in Writers /\ frame[t].op # "none" /\ Shape(t, f) /\ f.key \in Keys
      /\ f.value \in Values /\ "set" \in TableOps /\ C!ListInv /\ MemType
  BY <1>1, SetFacts
<1>3. /\ f.prev = Spot(0, f.key) /\ Untouched
      /\ \A n \in committed.allocated : committed.mem[n].key # f.key
  BY <1>1, MissedAtSpot
<1>4. committed.mem = mem /\ committed.nodeCount = nodeCount /\ committed.allocated = allocated
  BY <1>3 DEF Untouched
<1>5. PICK n : n = CHOOSE m \in Nodes \ allocated : TRUE
  OBVIOUS
<1>6. n \in Nodes \ allocated /\ n # dummyHead
  BY <1>5, Addresses DEF SetAllocates, SharedInv
<1>7. PICK h \in Levels :
        mem' = [mem EXCEPT ![n] = [EmptyNode EXCEPT !.key = f.key, !.value = f.value,
                                                    !.state = "NORMAL", !.levelHeight = h]]
  BY <1>5 DEF SetAllocates, RandomHeights
<1>8. PICK g : g = [f EXCEPT !.node = n, !.level = 0, !.at = "copy"]
  OBVIOUS
<1>9. /\ frame' = [frame EXCEPT ![t] = g] /\ allocated' = allocated \cup {n}
      /\ UNCHANGED <<nodeCount, deleted, status, last, committed>>
  BY <1>5, <1>8 DEF SetAllocates, Go
<1>10. /\ g.op = "set" /\ g.at = "copy" /\ g.doing = "search" /\ g.level = 0 /\ g.node = n
       /\ g.key = f.key /\ g.value = f.value /\ g.prev = f.prev
  BY <1>1, <1>2, <1>8 DEF FrameType, Shape
<1>11. /\ mem'[n].key = f.key /\ mem'[n].value = f.value /\ mem'[n].state = "NORMAL"
       /\ mem'[n].levelHeight = h /\ \A l \in Levels : next(n, l)' = NULL
       /\ \A p \in Places : p # n => mem'[p] = mem[p]
  BY <1>2, <1>6, <1>7 DEF MemType, EmptyNode, next, Places
<1>12. \A l \in Levels : ~(l < 0) /\ ~Linking(g, l)
  BY <1>10, Addresses DEF Linking
<1>13. NewNode(g)'
  <2>1. committed'.allocated = allocated /\ committed'.mem = mem /\ committed'.nodeCount = nodeCount
    BY <1>4, <1>9
  <2>2. g.node = (CHOOSE m \in Nodes \ committed'.allocated : TRUE)
    BY <1>5, <1>10, <2>1
  <2>3. \A l \in Levels : Linking(g, l)' <=> Linking(g, l)
    BY DEF Linking
  <2>4. \A l \in Levels : next(g.node, l)' =
          IF l <= mem'[g.node].levelHeight /\ (Linking(g, l)' \/ (l = g.level /\ g.at = "publish"))
          THEN Kept(Spot(l, g.key), l)' ELSE NULL
    BY <1>10, <1>11, <1>12, <2>3
  <2>5. \A m \in committed'.allocated : committed'.mem[m].key # g.key
    BY <1>3, <1>4, <1>10, <2>1
  <2>6. QED
    BY <1>6, <1>9, <1>10, <1>11, <2>1, <2>2, <2>4, <2>5 DEF NewNode
<1>14. OtherNodes(g)'
  <2>1. ASSUME NEW p \in Places \ {n}
        PROVE  /\ mem'[p] = committed'.mem[p]
               /\ \A l \in Levels : next(p, l)' = Kept(p, l)'
    BY <1>4, <1>9, <1>11 DEF next, Kept
  <2>2. \A l \in Levels : ~Linking(g, l)'
    BY <1>12 DEF Linking
  <2>3. QED
    BY <1>10, <2>1, <2>2 DEF OtherNodes
<1>15. Ascent(g)'
  <2>1. Spot(0, g.key)' = g.prev /\ LowHeight(g)' \in Nat
    BY <1>2, <1>3, <1>9, <1>10, SameBefore, LowHeightIs
  <2>2. \A l \in Levels : l <= 0 => ~(LowHeight(g)' < l - 1)
    BY <2>1, Addresses
  <2>3. QED
    BY <1>10, <2>1, <2>2 DEF Ascent
<1>16. WriterAt(g)'
  BY <1>2, <1>10, <1>13, <1>14, <1>15 DEF WriterAt
<1>17. ~Quiet(g)
  BY <1>10 DEF Quiet, Building
<1>18. QED
  BY <1>2, <1>9, <1>16, <1>17, StaysInside

-----------------------------------------------------------------------------
(* Set: linking the node, level by level.                                    *)

\* A Set that has a node.
LEMMA BuildingFacts ==
  ASSUME SharedInv, AtomicInv, NEW t \in Threads, NEW f \in FrameType, CallOf(t, f), Building(f)
  PROVE  /\ f.op = "set" /\ NewNode(f) /\ OtherNodes(f) /\ Ascent(f)
         /\ f.prev \in Places /\ f.level \in Levels /\ f.node \in Nodes
         /\ f.level <= mem[f.node].levelHeight /\ mem[f.node].levelHeight \in Levels
         /\ f.at # "count" => /\ f.prev # f.node
                              /\ next(f.prev, f.level) = Kept(f.prev, f.level)
                              /\ link(f.prev, f.level) = next(f.prev, f.level)
<1>1. f.op = "set"
  BY DEF Building
<1>2. /\ WriterOK(f) /\ WriterAt(f) /\ MemType /\ Shape(t, f)
  BY <1>1, SetFacts
<1>3. NewNode(f) /\ OtherNodes(f) /\ Ascent(f)
  BY <1>2 DEF WriterAt
<1>4. f.prev \in Places /\ f.level \in Levels /\ f.node \in Nodes
  BY <1>3 DEF FrameType, Places, NewNode
<1>5. f.level <= mem[f.node].levelHeight /\ mem[f.node].levelHeight \in Levels
  BY <1>2, <1>4, NodeFields DEF WriterOK
<1>6. ASSUME f.at # "count"
      PROVE  /\ f.prev # f.node
             /\ next(f.prev, f.level) = Kept(f.prev, f.level)
             /\ link(f.prev, f.level) = next(f.prev, f.level)
  <2>1. f.at \in {"copy", "publish"} \/ (f.at = "walk" /\ f.doing = "climb")
    BY <1>1, <1>2, <1>6 DEF Building, Shape
  <2>2. f.prev # f.node
    BY <1>2, <1>4, <2>1, Addresses DEF WriterOK
  <2>3. ~Linking(f, f.level)
    BY <1>4, <1>6, Addresses DEF Linking
  <2>4. next(f.prev, f.level) = Kept(f.prev, f.level)
    BY <1>3, <1>4, <2>2, <2>3 DEF OtherNodes
  <2>5. QED
    BY <1>4, <2>2, <2>4, LinkIsNext DEF Places
<1>7. QED
  BY <1>1, <1>3, <1>4, <1>5, <1>6

\* The link that Set copies into its node is the one its level had before the call.
LEMMA CopyStays ==
  ASSUME HeapFits, NoDeletes, SharedInv, AtomicInv, NEW t \in Threads, NEW f \in FrameType,
         CallOf(t, f), SetCopies(t, f)
  PROVE  AtomicInv' /\ UNCHANGED C!listVars
<1>1. f.op = "set" /\ f.at = "copy" /\ Building(f)
  BY DEF SetCopies, At, CallOf, Building
<1>2. t \in Writers /\ frame[t].op # "none" /\ f.value \in Values /\ "set" \in TableOps
      /\ f.key \in Keys /\ MemType /\ C!ListInv
  BY <1>1, SetFacts
<1>3. /\ NewNode(f) /\ OtherNodes(f) /\ Ascent(f)
      /\ f.prev \in Places /\ f.level \in Levels /\ f.node \in Nodes
      /\ f.level <= mem[f.node].levelHeight
      /\ link(f.prev, f.level) = Kept(f.prev, f.level)
  BY <1>1, BuildingFacts
<1>4. f.prev = Spot(f.level, f.key)
  BY <1>1, <1>3 DEF Ascent
<1>5. PICK g : g = [f EXCEPT !.at = "publish"]
  OBVIOUS
<1>6. /\ g.op = "set" /\ g.at = "publish" /\ g.doing = f.doing /\ g.level = f.level
      /\ g.node = f.node /\ g.key = f.key /\ g.value = f.value /\ g.prev = f.prev
  BY <1>1, <1>5 DEF FrameType
<1>7. /\ frame' = [frame EXCEPT ![t] = g]
      /\ mem' = [mem EXCEPT ![f.node].levelNext[f.level] = link(f.prev, f.level)]
      /\ UNCHANGED <<nodeCount, allocated, deleted, status, last, committed>>
  BY <1>5 DEF SetCopies, Stores, Go
<1>8. /\ \A p \in Places : p # f.node => mem'[p] = mem[p]
      /\ mem'[f.node].key = mem[f.node].key /\ mem'[f.node].value = mem[f.node].value
      /\ mem'[f.node].state = mem[f.node].state
      /\ mem'[f.node].levelHeight = mem[f.node].levelHeight
      /\ \A l \in Levels : next(f.node, l)' =
           IF l = f.level THEN link(f.prev, f.level) ELSE next(f.node, l)
  BY <1>2, <1>3, <1>7 DEF MemType, Places, next
<1>9. \A l : (Linking(g, l)' <=> Linking(f, l)) /\ (Linking(f, l) <=> l < f.level)
  BY <1>1, <1>6 DEF Linking
<1>10. (\A l, k : Spot(l, k)' = Spot(l, k)) /\ \A p, l : Kept(p, l)' = Kept(p, l)
  BY <1>7, SameBefore
<1>11. NewNode(g)'
  <2>1. ASSUME NEW l \in Levels
        PROVE  next(g.node, l)' =
                 IF /\ l <= mem'[g.node].levelHeight
                    /\ Linking(g, l)' \/ (l = g.level /\ g.at = "publish")
                 THEN Kept(Spot(l, g.key), l)' ELSE NULL
    <3>1. Kept(Spot(l, g.key), l)' = Kept(Spot(l, f.key), l)
      BY <1>6, <1>10
    <3>2. CASE l = f.level
      BY <1>3, <1>4, <1>6, <1>8, <3>1, <3>2
    <3>3. CASE l # f.level
      <4>1. next(f.node, l) = IF l <= mem[f.node].levelHeight /\ l < f.level
                              THEN Kept(Spot(l, f.key), l) ELSE NULL
        BY <1>1, <1>3, <1>9 DEF NewNode
      <4>2. QED
        BY <1>6, <1>8, <1>9, <3>1, <3>3, <4>1
    <3>4. QED
      BY <3>2, <3>3
  <2>2. QED
    BY <1>3, <1>6, <1>7, <1>8, <2>1 DEF NewNode
<1>12. OtherNodes(g)'
  <2>1. ASSUME NEW p \in Places \ {g.node}, NEW l \in Levels
        PROVE  next(p, l)' =
                 IF l <= mem'[g.node].levelHeight /\ Linking(g, l)' /\ p = Spot(l, g.key)'
                 THEN g.node ELSE Kept(p, l)'
    <3>1. next(p, l)' = next(p, l)
      BY <1>6, <1>8 DEF next
    <3>2. next(p, l) = IF l <= mem[f.node].levelHeight /\ Linking(f, l) /\ p = Spot(l, f.key)
                       THEN f.node ELSE Kept(p, l)
      BY <1>3, <1>6 DEF OtherNodes
    <3>3. QED
      BY <1>6, <1>8, <1>9, <1>10, <3>1, <3>2
  <2>2. QED
    BY <1>3, <1>6, <1>7, <1>8, <2>1 DEF OtherNodes
<1>13. Ascent(g)'
  <2>1. LowHeight(g)' = LowHeight(f) /\ \A l : GoesOnFrom(l, g.key)' <=> GoesOnFrom(l, f.key)
    BY <1>6, <1>7, SameBefore DEF LowHeight
  <2>2. QED
    BY <1>1, <1>3, <1>6, <1>10, <2>1 DEF Ascent
<1>14. WriterAt(g)' /\ ~Quiet(g)
  BY <1>2, <1>6, <1>11, <1>12, <1>13 DEF WriterAt, Quiet, Building
<1>15. QED
  BY <1>2, <1>7, <1>14, StaysInside

\* Where a Set goes on after it published its node on a level.
Continues(f, g) ==
  /\ g.op = "set" /\ g.key = f.key /\ g.value = f.value /\ g.node = f.node
  /\ Building(g) /\ g.at # "publish"
  /\ \A l \in Levels : l <= mem[f.node].levelHeight => (Linking(g, l) <=> l <= f.level)
  /\ g.at = "count" => g.level = mem[f.node].levelHeight
  /\ Ascent(g) \/ g.at = "count"
  /\ g.doing = "search" => g.level <= LowHeight(f)
  /\ g.doing = "climb" => g.level > LowHeight(f)
  /\ \A l \in Levels : l <= g.level /\ LowHeight(f) < l - 1 /\ ~(g.at = "walk" /\ l = g.level) =>
       GoesOnFrom(l, f.key)

\* From one level to the next: behind the same place as long as that is high enough,
\* then from dummyHead, then from where the ascent has come to.
LEMMA AscentGoesOn ==
  ASSUME SharedInv, AtomicInv, NEW t \in Threads, NEW f \in FrameType, CallOf(t, f),
         f.op = "set", f.at = "publish", NEW g,
         g = IF Topmost(f) THEN [f EXCEPT !.at = "count"]
             ELSE IF Climbs(f) THEN
               [f EXCEPT !.level = @ + 1, !.at = "walk", !.doing = "climb",
                         !.prev = IF f.doing = "climb" THEN @ ELSE dummyHead]
             ELSE [f EXCEPT !.level = @ + 1, !.at = "copy"],
         LowHeight(g) = LowHeight(f)
  PROVE  Continues(f, g)
<1>1. /\ Building(f) /\ Shape(t, f) /\ f.key \in Keys /\ C!ListInv
      /\ f.doing = "search" \/ f.doing = "climb"
  <2>1. Building(f)
    BY DEF Building
  <2>2. Shape(t, f) /\ f.key \in Keys /\ C!ListInv
    BY SetFacts
  <2>3. QED
    BY <2>1, <2>2 DEF Shape
<1>2. /\ Ascent(f) /\ OtherNodes(f) /\ f.prev \in Places /\ f.prev # f.node /\ f.level \in Levels
      /\ f.level <= mem[f.node].levelHeight /\ mem[f.node].levelHeight \in Levels
  BY <1>1, BuildingFacts
<1>3. /\ f.level \in Nat /\ mem[f.node].levelHeight \in Nat /\ LowHeight(f) \in Nat
      /\ \A l \in Levels : l \in Nat
  BY <1>1, <1>2, Addresses, LowHeightIs
<1>4. /\ f.prev = Spot(f.level, f.key)
      /\ f.doing = "search" => f.level <= LowHeight(f) /\ f.prev = Spot(0, f.key)
      /\ f.doing = "climb" => f.level > LowHeight(f)
      /\ \A l \in Levels : l <= f.level /\ LowHeight(f) < l - 1 => GoesOnFrom(l, f.key)
  BY <1>2 DEF Ascent
<1>5. CASE Topmost(f)
  <2>1. g = [f EXCEPT !.at = "count"]
    BY <1>5
  <2>2. /\ g.op = "set" /\ g.key = f.key /\ g.value = f.value /\ g.node = f.node
        /\ g.at = "count" /\ g.level = f.level /\ g.doing = f.doing
    BY <2>1 DEF FrameType
  <2>3. f.level = mem[f.node].levelHeight
    BY <1>5 DEF Topmost
  <2>4. QED
    BY <1>3, <1>4, <2>2, <2>3 DEF Building, Linking, Continues
<1>6. CASE ~Topmost(f)
  <2>1. f.level + 1 <= mem[f.node].levelHeight /\ f.level + 1 \in Levels
    <3>1. f.level # mem[f.node].levelHeight
      BY <1>6 DEF Topmost
    <3>2. f.level + 1 <= mem[f.node].levelHeight
      BY <1>2, <1>3, <3>1
    <3>3. QED
      BY <1>2, <1>3, <3>2, SkipListAssumption DEF Levels
  <2>2. \A l \in Levels : l < f.level + 1 <=> l <= f.level
    BY <1>3
  <2>3. mem[f.prev].levelHeight = committed.mem[f.prev].levelHeight
    BY <1>2 DEF OtherNodes
  <2>4. CASE Climbs(f)
    <3>1. PICK q : q = IF f.doing = "climb" THEN f.prev ELSE dummyHead
      OBVIOUS
    <3>2. g = [f EXCEPT !.level = @ + 1, !.at = "walk", !.doing = "climb", !.prev = q]
      BY <1>6, <2>4, <3>1
    <3>3. /\ g.op = "set" /\ g.key = f.key /\ g.value = f.value /\ g.node = f.node
          /\ g.at = "walk" /\ g.level = f.level + 1 /\ g.doing = "climb" /\ g.prev = q
      BY <3>2 DEF FrameType
    <3>4. \A l \in Levels : l <= g.level /\ LowHeight(f) < l - 1 /\ ~(g.at = "walk" /\ l = g.level) =>
            GoesOnFrom(l, f.key)
      BY <1>3, <1>4, <3>3
    <3>5. /\ g.level > LowHeight(f)
          /\ \/ /\ g.prev \in C!Place(g.level)
                /\ ~(LowHeight(f) < g.level - 1)
             \/ LowHeight(f) < g.level - 1 /\ g.prev = Spot(g.level - 1, f.key)
      <4>1. CASE f.doing = "climb"
        BY <1>3, <1>4, <3>1, <3>3, <4>1
      <4>2. CASE f.doing = "search"
        <5>1. f.level = mem[f.prev].levelHeight /\ f.prev = Spot(0, f.key)
          BY <1>4, <2>4, <4>2 DEF Climbs
        <5>2. f.level = LowHeight(f)
          BY <2>3, <5>1 DEF LowHeight
        <5>3. dummyHead \in C!Place(g.level)
          BY <1>1, <2>1, <3>3, PlacesAre
        <5>4. QED
          BY <1>3, <3>1, <3>3, <4>2, <5>2, <5>3
      <4>3. QED
        BY <1>1, <4>1, <4>2
    <3>6. Ascent(g)
      BY <3>3, <3>4, <3>5 DEF Ascent
    <3>7. Building(g) /\ \A l \in Levels : (Linking(g, l) <=> l <= f.level)
      BY <2>2, <3>3 DEF Building, Linking
    <3>8. QED
      BY <3>3, <3>4, <3>5, <3>6, <3>7 DEF Continues
  <2>5. CASE ~Climbs(f)
    <3>1. f.doing = "search" /\ f.level # mem[f.prev].levelHeight
      BY <1>1, <2>5 DEF Climbs
    <3>2. f.level + 1 <= LowHeight(f) /\ f.prev = Spot(0, f.key)
      <4>1. mem[f.prev].levelHeight = LowHeight(f) /\ f.prev = Spot(0, f.key)
        BY <1>4, <2>3, <3>1 DEF LowHeight
      <4>2. QED
        BY <1>3, <1>4, <3>1, <4>1
    <3>3. /\ g.op = "set" /\ g.key = f.key /\ g.value = f.value /\ g.node = f.node
          /\ g.at = "copy" /\ g.level = f.level + 1 /\ g.doing = "search" /\ g.prev = f.prev
      <4>1. g = [f EXCEPT !.level = @ + 1, !.at = "copy"]
        BY <1>6, <2>5
      <4>2. QED
        BY <3>1, <4>1 DEF FrameType
    <3>4. g.prev = Spot(g.level, g.key)
      BY <1>1, <2>1, <3>2, <3>3, LowSpot DEF LowHeight
    <3>5. \A l \in Levels : ~(l <= g.level /\ LowHeight(f) < l - 1)
      BY <1>3, <3>2, <3>3
    <3>6. Ascent(g)
      BY <3>2, <3>3, <3>4, <3>5 DEF Ascent
    <3>7. Building(g) /\ \A l \in Levels : (Linking(g, l) <=> l <= f.level)
      BY <2>2, <3>3 DEF Building, Linking
    <3>8. QED
      BY <3>2, <3>3, <3>5, <3>6, <3>7 DEF Continues
  <2>6. QED
    BY <2>4, <2>5
<1>7. QED
  BY <1>5, <1>6

\* One more level has the new node.
LEMMA PublishStays ==
  ASSUME HeapFits, NoDeletes, SharedInv, AtomicInv, NEW t \in Threads, NEW f \in FrameType,
         CallOf(t, f), SetPublishes(t, f)
  PROVE  AtomicInv' /\ UNCHANGED C!listVars
<1>1. f.op = "set" /\ f.at = "publish" /\ Building(f)
  BY DEF SetPublishes, At, CallOf, Building
<1>2. t \in Writers /\ frame[t].op # "none" /\ f.value \in Values /\ "set" \in TableOps
      /\ f.key \in Keys /\ MemType /\ C!ListInv
  BY <1>1, SetFacts
<1>3. /\ NewNode(f) /\ OtherNodes(f) /\ Ascent(f)
      /\ f.prev \in Places /\ f.level \in Levels /\ f.node \in Nodes /\ f.prev # f.node
      /\ f.level <= mem[f.node].levelHeight /\ mem[f.node].levelHeight \in Levels
  BY <1>1, BuildingFacts
<1>4. f.prev = Spot(f.level, f.key)
  BY <1>1, <1>3 DEF Ascent
<1>5. PICK g : g = IF Topmost(f) THEN [f EXCEPT !.at = "count"]
                   ELSE IF Climbs(f) THEN
                     [f EXCEPT !.level = @ + 1, !.at = "walk", !.doing = "climb",
                               !.prev = IF f.doing = "climb" THEN @ ELSE dummyHead]
                   ELSE [f EXCEPT !.level = @ + 1, !.at = "copy"]
  OBVIOUS
<1>6. /\ frame' = [frame EXCEPT ![t] = g]
      /\ mem' = [mem EXCEPT ![f.prev].levelNext[f.level] = f.node]
      /\ UNCHANGED <<nodeCount, allocated, deleted, status, last, committed>>
  BY <1>5 DEF SetPublishes, Stores, Go
<1>7. g.key = f.key
  BY <1>5 DEF FrameType
<1>8. LowHeight(g) = LowHeight(f)
  BY <1>7 DEF LowHeight
<1>9. /\ g.op = "set" /\ g.key = f.key /\ g.value = f.value /\ g.node = f.node
      /\ Building(g) /\ g.at # "publish"
      /\ \A l \in Levels : l <= mem[f.node].levelHeight => (Linking(g, l) <=> l <= f.level)
      /\ g.at = "count" => g.level = mem[f.node].levelHeight
      /\ Ascent(g) \/ g.at = "count"
      /\ g.doing = "search" => g.level <= LowHeight(f)
      /\ g.doing = "climb" => g.level > LowHeight(f)
      /\ \A l \in Levels : l <= g.level /\ LowHeight(f) < l - 1 /\ ~(g.at = "walk" /\ l = g.level) =>
           GoesOnFrom(l, f.key)
  <2>1. Continues(f, g)
    BY <1>1, <1>5, <1>8, AscentGoesOn
  <2>2. QED
    BY <2>1 DEF Continues
<1>10. /\ \A p \in Places : p # f.prev => mem'[p] = mem[p]
       /\ \A p \in Places : /\ mem'[p].key = mem[p].key /\ mem'[p].value = mem[p].value
                            /\ mem'[p].state = mem[p].state
                            /\ mem'[p].levelHeight = mem[p].levelHeight
       /\ \A p \in Places : \A l \in Levels : next(p, l)' =
            IF p = f.prev /\ l = f.level THEN f.node ELSE next(p, l)
  BY <1>2, <1>3, <1>6 DEF MemType, Places, next
<1>11. /\ \A l \in Levels : l \in Nat
       /\ \A l : Linking(f, l) <=> l < f.level
       /\ \A l : Linking(g, l)' <=> Linking(g, l)
  BY <1>1, Addresses DEF Linking
<1>12. (\A l, k : Spot(l, k)' = Spot(l, k)) /\ \A p, l : Kept(p, l)' = Kept(p, l)
  BY <1>6, SameBefore
<1>13. f.node \in Places /\ mem'[f.node] = mem[f.node]
  BY <1>3, <1>10 DEF Places
<1>14. NewNode(g)'
  <2>1. ASSUME NEW l \in Levels
        PROVE  next(g.node, l)' =
                 IF /\ l <= mem'[g.node].levelHeight
                    /\ Linking(g, l)' \/ (l = g.level /\ g.at = "publish")
                 THEN Kept(Spot(l, g.key), l)' ELSE NULL
    <3>1. Kept(Spot(l, g.key), l)' = Kept(Spot(l, f.key), l) /\ next(f.node, l)' = next(f.node, l)
      BY <1>9, <1>12, <1>13 DEF next
    <3>2. next(f.node, l) = IF l <= mem[f.node].levelHeight /\ (l < f.level \/ l = f.level)
                            THEN Kept(Spot(l, f.key), l) ELSE NULL
      BY <1>1, <1>3, <1>11 DEF NewNode
    <3>3. (l < f.level \/ l = f.level) <=> l <= f.level
      BY <1>3, <1>11
    <3>4. l <= mem[f.node].levelHeight => (Linking(g, l)' <=> l <= f.level)
      BY <1>9, <1>11
    <3>5. QED
      BY <1>9, <1>13, <3>1, <3>2, <3>3, <3>4
  <2>2. QED
    BY <1>3, <1>6, <1>9, <1>13, <2>1 DEF NewNode
<1>15. OtherNodes(g)'
  <2>1. ASSUME NEW p \in Places \ {g.node}, NEW l \in Levels
        PROVE  next(p, l)' =
                 IF l <= mem'[g.node].levelHeight /\ Linking(g, l)' /\ p = Spot(l, g.key)'
                 THEN g.node ELSE Kept(p, l)'
    <3>1. next(p, l)' = IF p = f.prev /\ l = f.level THEN f.node ELSE next(p, l)
      BY <1>10
    <3>2. next(p, l) = IF l <= mem[f.node].levelHeight /\ l < f.level /\ p = Spot(l, f.key)
                       THEN f.node ELSE Kept(p, l)
      BY <1>3, <1>9, <1>11 DEF OtherNodes
    <3>3. l <= f.level <=> l < f.level \/ l = f.level
      BY <1>3, <1>11
    <3>4. l <= mem[f.node].levelHeight => (Linking(g, l)' <=> l <= f.level)
      BY <1>9, <1>11
    <3>5. Spot(l, g.key)' = Spot(l, f.key) /\ Kept(p, l)' = Kept(p, l)
      BY <1>9, <1>12
    <3>6. mem'[g.node].levelHeight = mem[f.node].levelHeight
      BY <1>9, <1>13
    <3>7. CASE l = f.level
      BY <1>3, <1>4, <1>9, <3>1, <3>2, <3>3, <3>4, <3>5, <3>6, <3>7
    <3>8. CASE l # f.level
      BY <1>9, <3>1, <3>2, <3>3, <3>4, <3>5, <3>6, <3>8
    <3>9. QED
      BY <3>7, <3>8
  <2>2. ASSUME NEW p \in Places \ {g.node}
        PROVE  /\ mem'[p].key = committed'.mem[p].key /\ mem'[p].value = committed'.mem[p].value
               /\ mem'[p].state = committed'.mem[p].state
               /\ mem'[p].levelHeight = committed'.mem[p].levelHeight
    BY <1>3, <1>6, <1>9, <1>10 DEF OtherNodes
  <2>3. QED
    BY <2>1, <2>2 DEF OtherNodes
<1>16. Ascent(g)'
  <2>1. /\ LowHeight(g)' = LowHeight(f)
        /\ \A l : GoesOnFrom(l, g.key)' <=> GoesOnFrom(l, f.key)
        /\ \A l : C!Place(l)' = C!Place(l)
    BY <1>6, <1>8, <1>9, SameBefore
  <2>2. CASE Ascent(g) /\ g.at # "count"
    BY <1>8, <1>9, <1>12, <2>1, <2>2 DEF Ascent
  <2>3. CASE g.at = "count"
    BY <1>9, <1>12, <1>13, <2>1, <2>3 DEF Ascent
  <2>4. QED
    BY <1>9, <2>2, <2>3
<1>17. WriterAt(g)' /\ ~Quiet(g)
  BY <1>2, <1>9, <1>14, <1>15, <1>16 DEF WriterAt, Quiet, Building
<1>18. QED
  BY <1>2, <1>6, <1>17, StaysInside

-----------------------------------------------------------------------------
(* Set: the ascent.                                                          *)

\* The link that the ascent is about to follow is NULL where the list was Stuck, and
\* otherwise a link of the level.
LEMMA ClimbFacts ==
  ASSUME SharedInv, AtomicInv, NEW t \in Threads, NEW f \in FrameType, CallOf(t, f),
         Building(f), f.at = "walk"
  PROVE  /\ f.doing = "climb" /\ Ahead(f) = Kept(f.prev, f.level)
         /\ f.prev = dummyHead \/ committed.mem[f.prev].key < f.key
         /\ Ahead(f) = NULL => Stuck(f.level, f.key)
         /\ Ahead(f) # NULL =>
              /\ f.prev \in C!Place(f.level)
              /\ LowHeight(f) < f.level - 1 => GoesOnFrom(f.level, f.key)
              /\ Ahead(f) = dummyTail \/ (Ahead(f) \in C!On(f.level) /\ Ahead(f) \in C!Place(f.level)
                                          /\ Ahead(f) \in committed.allocated)
         /\ \A q \in committed.allocated : mem[q].key = committed.mem[q].key
<1>1. f.op = "set" /\ f.doing = "climb" /\ Behind(f) /\ C!ListInv /\ f.key \in Keys
  <2>1. f.op = "set" /\ f.doing = "climb"
    BY DEF Building
  <2>2. WriterOK(f) /\ C!ListInv /\ f.key \in Keys
    BY <2>1, SetFacts
  <2>3. QED
    BY <2>1, <2>2 DEF WriterOK
<1>2. /\ NewNode(f) /\ OtherNodes(f) /\ Ascent(f) /\ f.prev \in Places /\ f.level \in Levels
      /\ f.prev # f.node /\ Ahead(f) = Kept(f.prev, f.level)
  BY BuildingFacts DEF Ahead
<1>3. \A q \in committed.allocated : mem[q].key = committed.mem[q].key
  BY <1>1, <1>2, Committed DEF OtherNodes, NewNode, Places
<1>4. f.prev = dummyHead \/ committed.mem[f.prev].key < f.key
  BY <1>1, <1>2 DEF Behind, OtherNodes
<1>5. \/ /\ f.prev \in C!Place(f.level)
         /\ LowHeight(f) < f.level - 1 => GoesOnFrom(f.level, f.key)
      \/ LowHeight(f) < f.level - 1 /\ f.prev = Spot(f.level - 1, f.key)
  BY <1>2 DEF Ascent
<1>6. ASSUME f.prev \in C!Place(f.level)
      PROVE  Kept(f.prev, f.level) = dummyTail \/ Kept(f.prev, f.level) \in C!On(f.level)
  <2>1. C!Successor(f.prev, f.level)
    BY <1>1, <1>2, <1>6, SameWords DEF C!ListInv
  <2>2. QED
    BY <2>1, SameWords DEF C!Successor
<1>7. C!On(f.level) \subseteq committed.allocated /\ C!On(f.level) \subseteq C!Place(f.level)
  BY DEF C!On, C!Place
<1>8. NULL \notin committed.allocated /\ NULL # dummyTail
  BY <1>1, Committed, Addresses
<1>9. CASE f.prev \in C!Place(f.level)
  <2>1. Ahead(f) # NULL
    BY <1>2, <1>6, <1>7, <1>8, <1>9
  <2>2. LowHeight(f) < f.level - 1 => GoesOnFrom(f.level, f.key)
    BY <1>5, <1>9 DEF GoesOnFrom
  <2>3. QED
    BY <1>1, <1>2, <1>3, <1>4, <1>6, <1>7, <1>9, <2>1, <2>2
<1>10. CASE f.prev \notin C!Place(f.level)
  <2>1. LowHeight(f) < f.level - 1 /\ f.prev = Spot(f.level - 1, f.key)
    BY <1>5, <1>10
  <2>2. LowHeight(f) \in Nat /\ f.level \in Nat
    BY <1>1, <1>2, LowHeightIs, Addresses
  <2>3. f.level - 1 \in Levels
    BY <1>2, <2>1, <2>2, Addresses
  <2>4. f.prev \in committed.allocated \cup {dummyHead}
    BY <1>1, <2>1, <2>3, SpotIs, PlacesAre
  <2>5. f.prev # dummyHead
    BY <1>1, <1>2, <1>10, PlacesAre
  <2>6. ~(f.level <= committed.mem[f.prev].levelHeight)
    BY <1>1, <1>2, <1>10, <2>4, PlacesAre
  <2>7. committed.mem[f.prev].levelHeight \in Nat
    BY <1>1, <1>2, Committed, Addresses
  <2>8. Kept(f.prev, f.level) = NULL
    BY <1>1, <1>2, <2>2, <2>4, <2>5, <2>6, <2>7, Committed
  <2>9. Stuck(f.level, f.key)
    BY <1>2, <1>10, <2>1, <2>2 DEF Stuck, GoesOnFrom, LowHeight
  <2>10. QED
    BY <1>1, <1>2, <1>3, <1>4, <2>8, <2>9
<1>11. QED
  BY <1>9, <1>10

\* The steps of the ascent read only.
LEMMA ClimbStays ==
  ASSUME HeapFits, NoDeletes, SharedInv, AtomicInv, NEW t \in Threads, NEW f \in FrameType,
         CallOf(t, f), Building(f), f.at = "walk", NEW g, UNCHANGED <<listVars, committed>>,
         frame' = [frame EXCEPT ![t] = g],
         g.op = "set" /\ g.doing = "climb" /\ g.level = f.level /\ g.node = f.node /\ g.key = f.key,
         g.value = f.value, g.at \in {"walk", "copy"}, Ascent(g)
  PROVE  AtomicInv' /\ UNCHANGED C!listVars
<1>1. f.op = "set"
  BY DEF Building
<1>2. t \in Writers /\ frame[t].op # "none" /\ f.value \in Values /\ "set" \in TableOps
  BY <1>1, SetFacts
<1>3. NewNode(f) /\ OtherNodes(f)
  BY BuildingFacts
<1>4. \A l : Linking(g, l) <=> Linking(f, l)
  BY DEF Linking
<1>5. NewNode(g)
  BY <1>3, <1>4 DEF NewNode
<1>6. OtherNodes(g)
  BY <1>3, <1>4 DEF OtherNodes
<1>7. WriterAt(g)
  BY <1>2, <1>5, <1>6 DEF WriterAt
<1>8. WriterAt(g)'
  BY <1>7, SameHeap DEF listVars
<1>9. ~Quiet(g)
  BY DEF Quiet, Building
<1>10. QED
  BY <1>2, <1>8, <1>9, StaysInside DEF listVars

\* The ascent goes on along a level,
LEMMA ClimbForward ==
  ASSUME HeapFits, NoDeletes, SharedInv, AtomicInv, NEW t \in Threads, NEW f \in FrameType,
         CallOf(t, f), Building(f), Forward(t, f)
  PROVE  AtomicInv' /\ UNCHANGED C!listVars
<1>1. f.at = "walk" /\ Ahead(f) \in Nodes
  BY DEF Forward, Less
<1>2. PICK g : g = [f EXCEPT !.prev = Ahead(f)]
  OBVIOUS
<1>3. frame' = [frame EXCEPT ![t] = g] /\ UNCHANGED <<listVars, committed>>
  BY <1>2 DEF Forward, Reads, Go
<1>4. /\ g.op = "set" /\ g.at = "walk" /\ g.doing = f.doing /\ g.level = f.level /\ g.node = f.node
      /\ g.key = f.key /\ g.value = f.value /\ g.prev = Ahead(f)
  BY <1>1, <1>2 DEF FrameType, Building
<1>5. /\ f.doing = "climb" /\ Ahead(f) \in C!Place(f.level)
      /\ LowHeight(f) < f.level - 1 => GoesOnFrom(f.level, f.key)
  BY <1>1, ClimbFacts, Addresses
<1>6. Ascent(f)
  BY BuildingFacts
<1>7. Ascent(g)
  BY <1>1, <1>4, <1>5, <1>6 DEF Ascent, LowHeight
<1>8. QED
  BY <1>1, <1>3, <1>4, <1>5, <1>7, ClimbStays

\* and stops at the place of the key: it never meets the key itself.
LEMMA ClimbStopsStays ==
  ASSUME HeapFits, NoDeletes, SharedInv, AtomicInv, NEW t \in Threads, NEW f \in FrameType,
         CallOf(t, f), Safe(f), ClimbStops(t, f)
  PROVE  AtomicInv' /\ UNCHANGED C!listVars
<1>1. f.at = "walk" /\ f.doing = "climb" /\ ~Less(f)
  BY DEF ClimbStops, Stops
<1>2. f.op = "set" /\ Building(f)
  <2>1. f.op \in {"get", "set", "delete"} /\ Shape(t, f)
    BY <1>1, FrameFacts, AtSearch
  <2>2. QED
    BY <1>1, <2>1 DEF Shape, Building
<1>3. f.key \in Keys /\ C!ListInv
  BY <1>2, SetFacts
<1>4. NewNode(f) /\ Ascent(f) /\ f.level \in Levels
  BY <1>2, BuildingFacts
<1>5. Ahead(f) # NULL
  <2>1. Ahead(f) \in {dummyHead, dummyTail} \cup allocated
    BY <1>1 DEF Safe, Dereferenced
  <2>2. QED
    BY <2>1, Addresses DEF SharedInv
<1>6. /\ Ahead(f) = Kept(f.prev, f.level) /\ f.prev \in C!Place(f.level)
      /\ f.prev = dummyHead \/ committed.mem[f.prev].key < f.key
      /\ LowHeight(f) < f.level - 1 => GoesOnFrom(f.level, f.key)
      /\ Ahead(f) = dummyTail \/ Ahead(f) \in committed.allocated
      /\ \A q \in committed.allocated : mem[q].key = committed.mem[q].key
  BY <1>1, <1>2, <1>5, ClimbFacts
<1>7. ~Equal(f)
  BY <1>4, <1>6, Addresses DEF Equal, NewNode
<1>8. f.prev = Spot(f.level, f.key)
  <2>1. ~(Kept(f.prev, f.level) \in Nodes /\ committed.mem[Kept(f.prev, f.level)].key < f.key)
    BY <1>1, <1>6, Addresses DEF Less, Before
  <2>2. QED
    BY <1>3, <1>4, <1>6, <2>1, SpotStops
<1>9. PICK g : g = [f EXCEPT !.at = "copy"]
  OBVIOUS
<1>10. frame' = [frame EXCEPT ![t] = g] /\ UNCHANGED <<listVars, committed>>
  BY <1>7, <1>9 DEF ClimbStops, Reads, Go
<1>11. /\ g.op = "set" /\ g.at = "copy" /\ g.doing = "climb" /\ g.level = f.level
       /\ g.node = f.node /\ g.key = f.key /\ g.value = f.value /\ g.prev = f.prev
  BY <1>1, <1>2, <1>9 DEF FrameType
<1>12. Ascent(g)
  BY <1>1, <1>4, <1>6, <1>8, <1>11 DEF Ascent, LowHeight
<1>13. QED
  BY <1>1, <1>2, <1>10, <1>11, <1>12, ClimbStays

-----------------------------------------------------------------------------
(* Set: the end.                                                             *)

\* A node is its fields.
LEMMA NodeIs ==
  ASSUME NEW a \in C!NodeType, NEW b \in C!NodeType, a.key = b.key, a.value = b.value,
         a.state = b.state, a.levelHeight = b.levelHeight,
         \A l \in Levels : a.levelNext[l] = b.levelNext[l]
  PROVE  a = b
<1>1. a.levelNext \in [Levels -> Nodes \cup {dummyTail, NULL}]
      /\ b.levelNext \in [Levels -> Nodes \cup {dummyTail, NULL}]
  BY SameWords DEF C!NodeType
<1>2. a.levelNext = b.levelNext
  BY <1>1
<1>3. QED
  BY <1>2 DEF C!NodeType

\* So are the nodes of the shared list.
LEMMA NodesAre ==
  ASSUME MemType
  PROVE  mem \in [Places -> C!NodeType]
<1>1. C!NodeStates = NodeStates
  BY DEF C!NodeStates, NodeStates
<1>2. QED
  BY <1>1, SameWords DEF MemType, Places, C!NodeType

\* A Set that has linked its node on every level has made what the whole call makes.
LEMMA BuiltIsLinked ==
  ASSUME SharedInv, AtomicInv, NEW t \in Threads, NEW f \in FrameType, CallOf(t, f),
         f.op = "set", f.at = "count", NEW k, k = f.key, NEW h, h = mem[f.node].levelHeight,
         ~Stuck(h, k)
  PROVE  mem = C!Linked(f.node, k, f.value, h, Spot(0, k))
<1>1. Building(f) /\ k \in Keys /\ f.value \in Values /\ MemType /\ C!ListInv
  BY SetFacts DEF Building
<1>2. NewNode(f) /\ OtherNodes(f) /\ f.node \in Nodes /\ h \in Levels
  BY <1>1, BuildingFacts
<1>3. PICK n \in Nodes : n = f.node
  BY <1>2
<1>4. PICK before : before = C!Predecessor(k, h, Spot(0, k))
  OBVIOUS
<1>5. \A l \in Levels : l <= h => before[l] = Spot(l, k)
  <2>1. ASSUME NEW l \in Levels, l <= h
        PROVE  before[l] = Spot(l, k)
    <3>1. ~Stuck(l, k)
      <4>1. l \in Nat /\ h \in Nat /\ \A m \in Levels : m \in Nat
        BY <1>2, Addresses
      <4>2. \A m \in Levels : m <= l => m <= h
        BY <2>1, <4>1
      <4>3. QED
        BY <4>2 DEF Stuck
    <3>2. QED
      BY <1>1, <1>2, <1>4, <2>1, <3>1, PredecessorIsSpot
  <2>2. QED
    BY <2>1
<1>6. \A l \in Levels : l \in C!LinkedOn(h) <=> l <= h
  BY SameWords DEF C!LinkedOn
<1>7. mem \in [Places -> C!NodeType] /\ committed.mem \in [Places -> C!NodeType]
  BY <1>1, NodesAre, Committed
<1>8. PICK behind :
        behind = [l \in Levels |-> IF l \in C!LinkedOn(h) THEN Kept(before[l], l) ELSE NULL]
  OBVIOUS
<1>9. PICK node : node = [EmptyNode EXCEPT !.levelNext = behind, !.levelHeight = h,
                                           !.key = k, !.value = f.value, !.state = "NORMAL"]
  OBVIOUS
<1>10. C!Linked(n, k, f.value, h, Spot(0, k)) =
         [p \in Places |->
            IF p = n THEN node
            ELSE [committed.mem[p] EXCEPT !.levelNext =
                    [l \in Levels |-> IF l \in C!LinkedOn(h) /\ before[l] = p THEN n ELSE @[l]]]]
  BY <1>4, <1>7, <1>8, <1>9, SameWords DEF C!Linked
<1>11. mem[n] = node
  <2>1. /\ node.levelNext = behind /\ node.levelHeight = h /\ node.key = k
        /\ node.value = f.value /\ node.state = "NORMAL"
        /\ node = [levelNext |-> behind, levelHeight |-> h, key |-> k, value |-> f.value,
                   state |-> "NORMAL"]
    BY <1>9 DEF EmptyNode
  <2>2. \A l \in Levels : mem[n].levelNext[l] = behind[l]
    <3>1. ASSUME NEW l \in Levels
          PROVE  mem[n].levelNext[l] = behind[l]
      <4>1. mem[n].levelNext[l] = IF l <= h THEN Kept(Spot(l, k), l) ELSE NULL
        BY <1>2, <1>3 DEF NewNode, Linking, next
      <4>2. QED
        BY <1>5, <1>6, <1>8, <4>1
    <3>2. QED
      BY <3>1
  <2>3. n \in Places
    BY DEF Places
  <2>4. mem[n] \in C!NodeType
    BY <1>7, <2>3
  <2>5. mem[n].levelNext \in [Levels -> Nodes \cup {dummyTail, NULL}]
    BY <2>4, SameWords DEF C!NodeType
  <2>6. mem[n].levelNext = behind
    BY <1>8, <2>2, <2>5
  <2>7. mem[n].key = k /\ mem[n].value = f.value /\ mem[n].state = "NORMAL"
        /\ mem[n].levelHeight = h
    BY <1>2, <1>3 DEF NewNode
  <2>8. QED
    BY <2>1, <2>4, <2>6, <2>7 DEF C!NodeType
<1>12. ASSUME NEW p \in Places, p # n
       PROVE  mem[p] = [committed.mem[p] EXCEPT !.levelNext =
                          [l \in Levels |-> IF l \in C!LinkedOn(h) /\ before[l] = p THEN n ELSE @[l]]]
  <2>1. PICK links : links = [l \in Levels |-> IF l \in C!LinkedOn(h) /\ before[l] = p THEN n
                                               ELSE committed.mem[p].levelNext[l]]
    OBVIOUS
  <2>2. mem[p] \in C!NodeType /\ committed.mem[p] \in C!NodeType
    BY <1>7
  <2>3. \A l \in Levels : mem[p].levelNext[l] = links[l]
    <3>1. ASSUME NEW l \in Levels
          PROVE  mem[p].levelNext[l] = links[l]
      <4>1. mem[p].levelNext[l] =
              IF l <= h /\ p = Spot(l, k) THEN n ELSE committed.mem[p].levelNext[l]
        BY <1>2, <1>3, <1>12 DEF OtherNodes, Linking, next, Kept
      <4>2. QED
        BY <1>5, <1>6, <2>1, <4>1
    <3>2. QED
      BY <3>1
  <2>4. mem[p].levelNext \in [Levels -> Nodes \cup {dummyTail, NULL}]
    BY <2>2, SameWords DEF C!NodeType
  <2>5. mem[p].levelNext = links
    BY <2>1, <2>3, <2>4
  <2>6. /\ mem[p].key = committed.mem[p].key /\ mem[p].value = committed.mem[p].value
        /\ mem[p].state = committed.mem[p].state
        /\ mem[p].levelHeight = committed.mem[p].levelHeight
    BY <1>2, <1>3, <1>12 DEF OtherNodes
  <2>7. mem[p] = [committed.mem[p] EXCEPT !.levelNext = links]
    BY <2>2, <2>5, <2>6 DEF C!NodeType
  <2>8. QED
    BY <2>1, <2>7
<1>13. PICK w : w = [p \in Places |->
            IF p = n THEN node
            ELSE [committed.mem[p] EXCEPT !.levelNext =
                    [l \in Levels |-> IF l \in C!LinkedOn(h) /\ before[l] = p THEN n ELSE @[l]]]]
  OBVIOUS
<1>14. \A p \in Places : mem[p] = w[p]
  BY <1>11, <1>12, <1>13
<1>15. mem = w
  BY <1>7, <1>13, <1>14
<1>16. QED
  BY <1>3, <1>10, <1>13, <1>15

\* What the search of the list before the call comes to, while the new node is linked.
LEMMA NewKey ==
  ASSUME SharedInv, AtomicInv, NEW t \in Threads, NEW f \in FrameType, CallOf(t, f), Building(f)
  PROVE  /\ f.key \in Keys /\ C!ListInv /\ ~C!Found(f.key)
         /\ C!Descent(f.key).prev = Spot(0, f.key)
         /\ f.node = (CHOOSE n \in Nodes \ committed.allocated : TRUE)
         /\ committed.allocated # Nodes
         /\ \A h \in Levels : ~C!MeetsKey(f.key, h, Spot(0, f.key))
         /\ \A h \in Levels : C!MeetsNULL(f.key, h, Spot(0, f.key)) <=> Stuck(h, f.key)
<1>1. f.op = "set"
  BY DEF Building
<1>2. PICK k \in Keys : k = f.key
  BY <1>1, SetFacts
<1>3. C!ListInv /\ NewNode(f)
  BY <1>1, SetFacts, BuildingFacts
<1>4. \A n \in committed.allocated : committed.mem[n].key # k
  BY <1>2, <1>3 DEF NewNode
<1>5. ~C!Found(k) /\ C!IsLast(C!Descent(k).prev, 0, k)
  BY <1>3, <1>4, SameAssumption, C!SearchFinds
<1>6. C!Descent(k).prev = Spot(0, k)
  BY <1>3, <1>5, SpotIs, Addresses
<1>7. \A h \in Levels : ~C!MeetsKey(k, h, C!Descent(k).prev)
  BY <1>3, <1>5, SameAssumption, SameWords, C!InsertionPlaces
<1>8. \A h \in Levels : C!MeetsNULL(k, h, Spot(0, k)) <=> Stuck(h, k)
  BY <1>3, MeetsNULLIs
<1>9. committed.allocated # Nodes /\ f.node = (CHOOSE n \in Nodes \ committed.allocated : TRUE)
  BY <1>3 DEF NewNode
<1>10. QED
  BY <1>2, <1>3, <1>5, <1>6, <1>7, <1>8, <1>9

\* The call that inserted the node returns.
LEMMA CountIsSet ==
  ASSUME HeapFits, NoDeletes, SharedInv, AtomicInv, NEW t \in Threads, NEW f \in FrameType,
         CallOf(t, f), status = "ok", SetCounts(t, f)
  PROVE  AtomicInv' /\ C!Set(f.key, f.value)
<1>1. f.op = "set" /\ f.at = "count" /\ Building(f)
  BY DEF SetCounts, At, CallOf, Building
<1>2. PICK k, v, n, h : k = f.key /\ v = f.value /\ n = f.node /\ h = mem[n].levelHeight
  OBVIOUS
<1>3. /\ t \in Writers /\ frame[t].op # "none" /\ k \in Keys /\ v \in Values
      /\ "set" \in TableOps /\ C!ListInv
  BY <1>1, <1>2, SetFacts
<1>4. NewNode(f) /\ Ascent(f) /\ h \in Levels
  BY <1>1, <1>2, BuildingFacts
<1>5. ~Stuck(h, k)
  BY <1>1, <1>2, <1>4 DEF Ascent, Stuck, LowHeight
<1>6. /\ ~C!Found(k) /\ C!Descent(k).prev = Spot(0, k)
      /\ n = (CHOOSE m \in Nodes \ committed.allocated : TRUE)
      /\ committed.allocated # Nodes
      /\ ~C!MeetsKey(k, h, C!Descent(k).prev) /\ ~C!MeetsNULL(k, h, C!Descent(k).prev)
  BY <1>1, <1>2, <1>4, <1>5, NewKey
<1>7. mem = C!Linked(n, k, v, h, C!Descent(k).prev)
  BY <1>1, <1>2, <1>5, <1>6, BuiltIsLinked
<1>8. /\ nodeCount' = Plus(nodeCount, 1) /\ UNCHANGED <<mem, allocated, deleted, status>>
      /\ frame' = [frame EXCEPT ![t] = Idle]
      /\ last' = Answer("set", k, v, "DATA_INSERT")
      /\ committed' = [mem |-> mem', nodeCount |-> nodeCount', allocated |-> allocated']
  BY <1>2 DEF SetCounts, WriterReturns, Go, Returns
<1>9. /\ committed.mem' = mem /\ committed.allocated' = allocated
      /\ committed.nodeCount' = Plus(committed.nodeCount, 1)
      /\ allocated = committed.allocated \cup {n}
  BY <1>2, <1>4, <1>8 DEF NewNode
<1>10. C!Returns(C!Answer("set", k, v, "DATA_INSERT")) /\ C!Calls("set")
  BY <1>3, <1>8 DEF C!Returns, C!Answer, Answer, C!Calls
<1>11. C!SetInsert(k, v)
  <2>1. committed.mem' = C!Linked(CHOOSE m \in Nodes \ committed.allocated : TRUE, k, v, h,
                                  C!Descent(k).prev)
    BY <1>6, <1>7, <1>9
  <2>2. committed.allocated' =
          committed.allocated \cup {CHOOSE m \in Nodes \ committed.allocated : TRUE}
    BY <1>6, <1>9
  <2>3. committed.nodeCount' = C!Plus(committed.nodeCount, 1) /\ UNCHANGED deleted
    BY <1>8, <1>9, SameWords
  <2>4. h \in C!RandomHeights
    BY <1>4, SameWords DEF C!RandomHeights
  <2>5. QED
    BY <1>6, <1>10, <2>1, <2>2, <2>3, <2>4 DEF C!SetInsert
<1>12. C!Set(k, v) /\ C!ListNext
  BY <1>3, <1>11 DEF C!Set, C!ListNext
<1>13. QED
  BY <1>2, <1>3, <1>8, <1>12, Commits

\* A Set that dereferences NULL fails as the whole call does.
LEMMA NoMemoryIsSet ==
  ASSUME HeapFits, NoDeletes, SharedInv, AtomicInv, NEW t \in Threads, NEW f \in FrameType,
         CallOf(t, f), status = "ok", SetGetsNULL(t, f)
  PROVE  AtomicInv' /\ C!Set(f.key, f.value)
<1>1. f.op = "set" /\ f.at = "missed"
  BY DEF SetGetsNULL, At, CallOf
<1>2. f.key \in Keys /\ f.value \in Values /\ "set" \in TableOps
  BY <1>1, SetFacts
<1>3. ~C!Found(f.key)
  BY <1>1, MissedAtSpot
<1>4. /\ AllocMayFail /\ status' = "crashed" /\ frame' = frame
      /\ UNCHANGED <<mem, nodeCount, allocated, deleted, last, committed>>
  BY DEF SetGetsNULL, Fails
<1>5. C!SetNoMemory(f.key)
  BY <1>2, <1>3, <1>4 DEF C!SetNoMemory, C!Calls, C!Fails
<1>6. C!Set(f.key, f.value) /\ C!ListNext
  BY <1>2, <1>5 DEF C!Set, C!ListNext
<1>7. QED
  BY <1>4, <1>6, FailsAbstractly

\* So does one whose ascent came to a node that is not high enough.
LEMMA NULLIsSet ==
  ASSUME HeapFits, NoDeletes, SharedInv, AtomicInv, NEW t \in Threads, NEW f \in FrameType,
         CallOf(t, f), status = "ok", Building(f), f.at = "walk", Ahead(f) = NULL,
         Fault(t, f)
  PROVE  AtomicInv' /\ C!Set(f.key, f.value)
<1>1. f.op = "set"
  BY DEF Building
<1>2. f.key \in Keys /\ f.value \in Values /\ "set" \in TableOps
  BY <1>1, SetFacts
<1>3. f.level \in Levels /\ f.level <= mem[f.node].levelHeight /\ mem[f.node].levelHeight \in Levels
  BY BuildingFacts
<1>4. Stuck(f.level, f.key)
  BY ClimbFacts
<1>5. PICK h \in Levels : h = mem[f.node].levelHeight
  BY <1>3
<1>6. Stuck(h, f.key)
  <2>1. f.level \in Nat /\ h \in Nat /\ \A m \in Levels : m \in Nat
    BY <1>3, Addresses
  <2>2. \A m \in Levels : m <= f.level => m <= h
    BY <1>3, <1>5, <2>1
  <2>3. QED
    BY <1>4, <2>2 DEF Stuck
<1>7. /\ ~C!Found(f.key) /\ committed.allocated # Nodes
      /\ ~C!MeetsKey(f.key, h, C!Descent(f.key).prev)
      /\ C!MeetsNULL(f.key, h, C!Descent(f.key).prev)
  BY <1>6, NewKey
<1>8. /\ status' = "crashed" /\ frame' = frame
      /\ UNCHANGED <<mem, nodeCount, allocated, deleted, last, committed>>
  BY DEF Fault, Fails, Dereferenced
<1>9. C!Fails("crashed") /\ C!Calls("set") /\ h \in C!RandomHeights
  BY <1>2, <1>8, SameWords DEF C!Fails, C!Calls, C!RandomHeights
<1>10. C!SetInsert(f.key, f.value)
  BY <1>7, <1>9 DEF C!SetInsert
<1>11. C!Set(f.key, f.value) /\ C!ListNext
  BY <1>2, <1>10 DEF C!Set, C!ListNext
<1>12. QED
  BY <1>8, <1>11, FailsAbstractly

\* Only the ascent of a Set may dereference NULL.
LEMMA OnlyAscentFaults ==
  ASSUME NoDeletes, LockedInv, AtomicInv, NEW t \in Threads, NEW f \in FrameType, CallOf(t, f),
         ~Safe(f)
  PROVE  t \in Writers /\ Building(f) /\ f.at = "walk" /\ Ahead(f) = NULL
<1>1. SharedInv /\ frame[t] = f /\ NULL \in Dereferenced(f)
  BY NothingFreed DEF LockedInv, CallOf, Safe
<1>2. t \in Writers
  BY <1>1, SafeReader DEF Threads
<1>3. Shape(t, f) /\ WriterOK(f) /\ f.op \notin ReaderOps /\ WriterAt(f) /\ ClearOK(f)
  BY <1>1, <1>2, FrameFacts DEF AtomicInv, LockedInv
<1>4. f.op \in {"none", "set", "clear"}
  BY <1>3 DEF FrameType, ReaderOps, WriterAt, NoDeletes
<1>5. allocated \subseteq Nodes /\ f.prev # NULL /\ \A p : Live(p) => p # NULL
  BY <1>1, Addresses DEF SharedInv, Live, FrameType
<1>6. f.at \notin {"cut", "test", "visit", "next"}
  BY <1>3, <1>4 DEF Shape, Idle
<1>7. f.at \notin {"copy", "publish"}
  <2>1. ASSUME f.at \in {"copy", "publish"}
        PROVE  FALSE
    <3>1. Building(f)
      BY <1>3, <1>4, <2>1 DEF Shape, Building, Idle
    <3>2. f.node # NULL
      BY <1>3, <1>5, <3>1 DEF WriterOK
    <3>3. QED
      BY <1>1, <1>5, <2>1, <3>2 DEF Dereferenced
  <2>2. QED
    BY <2>1
<1>8. f.at \notin {"found", "unhead", "free"}
  <2>1. f.at \in {"found", "unhead", "free"} => f.node # NULL
    BY <1>3, <1>5 DEF WriterOK, ClearOK
  <2>2. QED
    BY <1>1, <2>1 DEF Dereferenced
<1>9. f.at = "walk"
  BY <1>1, <1>6, <1>7, <1>8 DEF Dereferenced
<1>10. f.op = "set" /\ Ahead(f) = NULL
  BY <1>1, <1>3, <1>4, <1>5, <1>9 DEF Dereferenced, Shape, Idle
<1>11. f.doing = "climb"
  <2>1. ASSUME f.doing # "climb"
        PROVE  FALSE
    <3>1. Reached(f.prev, f.level) /\ ListOK
      BY <1>1, <1>3, <1>9, <1>10, <2>1, NoClear DEF WriterOK
    <3>2. f.prev \in Nodes \cup {dummyHead} /\ f.level \in Levels
      BY DEF FrameType
    <3>3. Ahead(f) # NULL
      BY <1>1, <3>1, <3>2, AheadOfReached DEF Ahead
    <3>4. QED
      BY <1>10, <3>3
  <2>2. QED
    BY <2>1
<1>12. QED
  BY <1>2, <1>9, <1>10, <1>11 DEF Building

-----------------------------------------------------------------------------
(* Clear.                                                                    *)

\* A Clear is alone.
LEMMA ClearFacts ==
  ASSUME SharedInv, AtomicInv, NEW t \in Threads, NEW f \in FrameType, CallOf(t, f),
         f.op = "clear"
  PROVE  /\ t \in Writers /\ frame[t] = f /\ frame[t].op # "none" /\ "clear" \in TableOps
         /\ Freeing(f) /\ MemType /\ C!ListInv /\ C!Counted
         /\ allocated \subseteq Nodes /\ IsFiniteSet(allocated)
         /\ \A u \in Threads \ {t} : frame[u] = Idle
<1>1. t \in Writers /\ frame[t] = f /\ f.op # "none"
  BY WriterFacts DEF WriterOps
<1>2. WriterAt(f)
  BY <1>1 DEF AtomicInv
<1>3. "clear" \in TableOps /\ Freeing(f) /\ C!ListInv /\ C!Counted
  BY <1>1, <1>2 DEF WriterAt, AtomicInv
<1>4. allocated \subseteq Nodes /\ IsFiniteSet(allocated)
  <2>1. allocated \subseteq committed.allocated
    BY <1>3 DEF Freeing
  <2>2. QED
    BY <1>3, <2>1, Committed, FS_Subset
<1>5. \A u \in Threads \ {t} : frame[u] = Idle
  BY <1>1 DEF SharedInv, Exclusion, Threads
<1>6. QED
  BY <1>1, <1>3, <1>4, <1>5 DEF SharedInv

\* A step of a Clear that goes on.
LEMMA ClearStays ==
  ASSUME HeapFits, NoDeletes, SharedInv, AtomicInv, NEW t \in Threads, NEW f \in FrameType,
         CallOf(t, f), f.op = "clear", NEW g, g.op = "clear", frame' = [frame EXCEPT ![t] = g],
         UNCHANGED <<committed, deleted, status, last>>, Freeing(g)'
  PROVE  AtomicInv' /\ UNCHANGED C!listVars
<1>1. t \in Writers /\ frame[t].op # "none" /\ "clear" \in TableOps
  BY ClearFacts
<1>2. WriterAt(g)'
  BY <1>1 DEF WriterAt, Building
<1>3. ~Quiet(g)
  BY DEF Quiet
<1>4. QED
  BY <1>1, <1>2, <1>3, StaysInside

\* The nodes that are left of the list when its first one is freed.
LEMMA FirstFreed ==
  ASSUME HeapFits, SharedInv, AtomicInv, NEW t \in Threads, NEW f \in FrameType, CallOf(t, f),
         f.op = "clear", f.at = "free", NEW S, S = allocated \ {f.node}
  PROVE  /\ Minus(nodeCount, 1) = Cardinality(S)
         /\ S \subseteq committed.allocated
         /\ \A n \in S, m \in committed.allocated :
              committed.mem[n].key <= committed.mem[m].key => m \in S
         /\ IF next(dummyHead, 0) = dummyTail THEN S = {}
            ELSE /\ next(dummyHead, 0) \in S
                 /\ \A n \in S : committed.mem[next(dummyHead, 0)].key <= committed.mem[n].key
<1>1. /\ Freeing(f) /\ C!ListInv /\ allocated \subseteq Nodes /\ IsFiniteSet(allocated)
  BY ClearFacts
<1>2. PICK n, q : n = f.node /\ q = next(dummyHead, 0)
  OBVIOUS
<1>3. /\ n \in allocated /\ n \in committed.allocated /\ n \in Nodes
      /\ \A m \in allocated : committed.mem[n].key <= committed.mem[m].key
      /\ q = Kept(n, 0)
  BY <1>1, <1>2 DEF Freeing, First, next, Kept
<1>4. /\ \A m \in committed.allocated : committed.mem[m].key \in Nat
      /\ \A m, r \in committed.allocated : committed.mem[m].key = committed.mem[r].key => m = r
  BY <1>1, Committed, Addresses
<1>5. /\ allocated \subseteq committed.allocated /\ nodeCount = Cardinality(allocated)
      /\ \A m \in allocated, r \in committed.allocated :
           committed.mem[m].key <= committed.mem[r].key => r \in allocated
  BY <1>1 DEF Freeing
<1>6. S \subseteq allocated /\ \A m : m \in S <=> m \in allocated /\ m # n
  BY <1>2
<1>7. Minus(nodeCount, 1) = Cardinality(S)
  <2>1. PICK a \in Nat : a = Cardinality(allocated)
    BY <1>1, FS_CardinalityType
  <2>2. IsFiniteSet(S) /\ Cardinality(S) = a - 1 /\ Cardinality(S) \in Nat
    <3>1. S = allocated \ {n}
      BY <1>2
    <3>2. Cardinality(S) = a - 1 /\ IsFiniteSet(S)
      BY <1>1, <1>3, <2>1, <3>1, FS_RemoveElement
    <3>3. QED
      BY <3>2, FS_CardinalityType
  <2>3. a <= Cardinality(Nodes) /\ Cardinality(Nodes) \in Nat /\ Cardinality(Nodes) < SizeModulus
    BY <1>1, <2>1, FS_Subset, FS_CardinalityType DEF HeapFits
  <2>4. PICK b \in Nat : b = a - 1 /\ b < SizeModulus /\ SizeModulus \in Nat
    <3>1. PICK b \in Nat : b = Cardinality(S) /\ b = a - 1
      BY <2>2
    <3>2. SizeModulus \in Nat
      BY SizeAssumption
    <3>3. b < SizeModulus
      BY <2>3, <3>1, <3>2
    <3>4. QED
      BY <3>1, <3>2, <3>3
  <2>5. a + (SizeModulus - 1) = b + SizeModulus
    BY <2>1, <2>4
  <2>6. (b + SizeModulus) % SizeModulus = b
    BY <2>4
  <2>7. QED
    BY <1>5, <2>1, <2>2, <2>4, <2>5, <2>6 DEF Minus
<1>8. ASSUME NEW m \in S, NEW r \in committed.allocated,
             committed.mem[m].key <= committed.mem[r].key
      PROVE  r \in S
  <2>1. r \in allocated /\ m \in allocated /\ m # n /\ m \in committed.allocated
    BY <1>5, <1>6, <1>8
  <2>2. r # n
    BY <1>3, <1>4, <1>8, <2>1
  <2>3. QED
    BY <1>6, <2>1, <2>2
<1>9. \A m \in S : committed.mem[n].key < committed.mem[m].key /\ m \in committed.allocated
  BY <1>3, <1>4, <1>5, <1>6
<1>10. n \in C!Place(0) /\ C!On(0) = committed.allocated
  BY <1>1, <1>3, SameAssumption, C!NodesOfList DEF C!Place
<1>11. C!Successor(n, 0)
  BY <1>1, <1>10, SameWords, Addresses DEF C!ListInv
<1>12. n # dummyHead
  BY <1>3, Addresses
<1>13. \/ q = dummyTail /\ \A m \in committed.allocated : ~C!After(m, n)
       \/ /\ q \in committed.allocated /\ C!After(q, n)
          /\ \A m \in committed.allocated : C!After(m, n) =>
               committed.mem[q].key <= committed.mem[m].key
  <2>1. q = C!next(n, 0)
    BY <1>3, SameWords
  <2>2. QED
    BY <1>10, <1>11, <2>1 DEF C!Successor
<1>14. \A m : C!After(m, n) <=> committed.mem[n].key < committed.mem[m].key
  BY <1>12 DEF C!After
<1>15. CASE q = dummyTail
  <2>1. q \notin committed.allocated
    BY <1>1, <1>15, Committed, Addresses
  <2>2. S = {}
    BY <1>9, <1>13, <1>14, <2>1
  <2>3. QED
    BY <1>2, <1>5, <1>6, <1>7, <1>8, <1>15, <2>2
<1>16. CASE q # dummyTail
  <2>1. /\ q \in committed.allocated /\ committed.mem[n].key < committed.mem[q].key
        /\ \A m \in committed.allocated : committed.mem[n].key < committed.mem[m].key =>
             committed.mem[q].key <= committed.mem[m].key
    BY <1>13, <1>14, <1>16
  <2>2. q \in S
    BY <1>3, <1>4, <1>5, <1>6, <2>1
  <2>3. \A m \in S : committed.mem[q].key <= committed.mem[m].key
    BY <1>9, <2>1
  <2>4. QED
    BY <1>2, <1>5, <1>6, <1>7, <1>8, <1>16, <2>2, <2>3
<1>17. QED
  BY <1>15, <1>16

\* It frees the list from its first node on.
LEMMA ClearStepStays ==
  ASSUME HeapFits, NoDeletes, SharedInv, AtomicInv, NEW t \in Threads, NEW f \in FrameType,
         CallOf(t, f),
         ClearPops(t, f) \/ ClearUnlinks(t, f) \/ ClearFrees(t, f) \/ ClearZeroes(t, f)
  PROVE  AtomicInv' /\ UNCHANGED C!listVars
<1>1. f.op = "clear"
  BY DEF ClearPops, ClearUnlinks, ClearFrees, ClearZeroes, At, CallOf
<1>2. Freeing(f) /\ MemType /\ frame[t] = f
  BY <1>1, ClearFacts
<1>3. /\ \A p \in Nodes : mem[p] = committed.mem[p]
      /\ nodeCount = Cardinality(allocated)
      /\ allocated \subseteq committed.allocated
      /\ \A n \in allocated, m \in committed.allocated :
           committed.mem[n].key <= committed.mem[m].key => m \in allocated
      /\ f.at = "pop" => First(next(dummyHead, 0))
      /\ f.at \in {"unhead", "free"} => f.node # dummyTail /\ First(f.node)
      /\ f.at = "free" => next(dummyHead, 0) = next(f.node, 0)
      /\ f.at \in {"reset", "heads"} => allocated = {}
  BY <1>2 DEF Freeing
<1>4. CASE ClearPops(t, f)
  <2>1. PICK q, e : /\ q = next(dummyHead, 0)
                    /\ e = (IF q = dummyTail THEN "reset" ELSE "unhead")
    OBVIOUS
  <2>2. PICK g : g = [f EXCEPT !.node = q, !.at = e] /\ frame' = [frame EXCEPT ![t] = g]
    BY <1>4, <2>1 DEF ClearPops, Reads, Go
  <2>3. g.op = "clear" /\ g.at = e /\ g.node = q
    BY <1>1, <2>2 DEF FrameType
  <2>4. f.at = "pop" /\ UNCHANGED <<listVars, committed>>
    BY <1>2, <1>4 DEF ClearPops, At, Reads
  <2>5. First(q)
    BY <1>3, <2>1, <2>4
  <2>6. /\ e = "unhead" => q # dummyTail
        /\ e = "reset" => allocated = {}
        /\ e \in {"unhead", "reset"}
    BY <2>1, <2>5 DEF First
  <2>7. First(q)'
    BY <2>4, <2>5 DEF First, listVars
  <2>8. Freeing(g)'
    BY <1>3, <2>3, <2>4, <2>6, <2>7 DEF Freeing, listVars
  <2>9. QED
    BY <1>1, <2>2, <2>3, <2>4, <2>8, ClearStays DEF listVars
<1>5. CASE ClearUnlinks(t, f)
  <2>1. PICK q : q = link(f.node, 0)
    OBVIOUS
  <2>2. PICK g : g = [f EXCEPT !.at = "free"] /\ frame' = [frame EXCEPT ![t] = g]
    BY <1>5 DEF ClearUnlinks, Stores, Go
  <2>3. g.op = "clear" /\ g.at = "free" /\ g.node = f.node
    BY <1>1, <2>2 DEF FrameType
  <2>4. /\ f.at = "unhead" /\ mem' = [mem EXCEPT ![dummyHead].levelNext[0] = q]
        /\ UNCHANGED <<nodeCount, allocated, deleted, status, last, committed>>
    BY <1>2, <1>5, <2>1 DEF ClearUnlinks, At, Stores
  <2>5. f.node # dummyTail /\ First(f.node)
    BY <1>3, <2>4
  <2>6. f.node \in Nodes
    <3>1. f.node \in allocated
      BY <2>5 DEF First
    <3>2. QED
      BY <1>1, <3>1, ClearFacts
  <2>7. \A p \in Nodes : mem'[p] = mem[p]
    BY <1>2, <2>4, Addresses DEF MemType
  <2>8. next(dummyHead, 0)' = q /\ next(f.node, 0)' = q
    <3>1. q = next(f.node, 0)
      BY <2>1, <2>6, LinkIsNext
    <3>2. next(dummyHead, 0)' = q
      BY <1>2, <2>4, Addresses DEF MemType, next
    <3>3. QED
      BY <2>6, <2>7, <3>1, <3>2 DEF next
  <2>9. First(f.node)'
    BY <2>4, <2>5 DEF First
  <2>10. Freeing(g)'
    BY <1>3, <2>3, <2>4, <2>5, <2>7, <2>8, <2>9 DEF Freeing
  <2>11. QED
    BY <1>1, <2>2, <2>3, <2>4, <2>10, ClearStays
<1>6. CASE ClearFrees(t, f)
  <2>1. PICK S, q : S = allocated \ {f.node} /\ q = next(dummyHead, 0)
    OBVIOUS
  <2>2. PICK g : g = [f EXCEPT !.at = "pop"] /\ frame' = [frame EXCEPT ![t] = g]
    BY <1>6 DEF ClearFrees, Go
  <2>3. g.op = "clear" /\ g.at = "pop"
    BY <1>1, <2>2 DEF FrameType
  <2>4. /\ f.at = "free" /\ allocated' = S /\ nodeCount' = Minus(nodeCount, 1)
        /\ UNCHANGED <<mem, deleted, status, last, committed>>
    BY <1>2, <1>6, <2>1 DEF ClearFrees, At, Deallocated
  <2>5. /\ Minus(nodeCount, 1) = Cardinality(S)
        /\ S \subseteq committed.allocated
        /\ \A n \in S, m \in committed.allocated :
             committed.mem[n].key <= committed.mem[m].key => m \in S
        /\ IF q = dummyTail THEN S = {}
           ELSE q \in S /\ \A n \in S : committed.mem[q].key <= committed.mem[n].key
    BY <1>1, <2>1, <2>4, FirstFreed
  <2>6. First(next(dummyHead, 0))'
    <3>1. q = next(dummyHead, 0)'
      BY <2>1, <2>4 DEF next
    <3>2. QED
      BY <2>4, <2>5, <3>1 DEF First
  <2>7. Freeing(g)'
    BY <1>3, <2>3, <2>4, <2>5, <2>6 DEF Freeing
  <2>8. QED
    BY <1>1, <2>2, <2>3, <2>4, <2>7, ClearStays
<1>7. CASE ClearZeroes(t, f)
  <2>1. PICK g : g = [f EXCEPT !.at = "heads"] /\ frame' = [frame EXCEPT ![t] = g]
    BY <1>7 DEF ClearZeroes, Stores, Go
  <2>2. g.op = "clear" /\ g.at = "heads"
    BY <1>1, <2>1 DEF FrameType
  <2>3. /\ f.at = "reset" /\ mem' = [mem EXCEPT ![dummyHead] = [EmptyNode EXCEPT !.state = "DUMMY"]]
        /\ UNCHANGED <<nodeCount, allocated, deleted, status, last, committed>>
    BY <1>2, <1>7 DEF ClearZeroes, At, Stores
  <2>4. \A p \in Nodes : mem'[p] = mem[p]
    BY <1>2, <2>3, Addresses DEF MemType
  <2>5. Freeing(g)'
    BY <1>3, <2>2, <2>3, <2>4 DEF Freeing
  <2>6. QED
    BY <1>1, <2>1, <2>2, <2>3, <2>5, ClearStays
<1>8. QED
  BY <1>4, <1>5, <1>6, <1>7

\* The Clear that has freed all nodes resets the head and returns.
LEMMA ResetIsClear ==
  ASSUME HeapFits, NoDeletes, SharedInv, AtomicInv, NEW t \in Threads, NEW f \in FrameType,
         CallOf(t, f), status = "ok", ClearResets(t, f)
  PROVE  AtomicInv' /\ C!Clear
<1>1. f.op = "clear" /\ f.at = "heads"
  BY DEF ClearResets, At, CallOf
<1>2. /\ t \in Writers /\ frame[t].op # "none" /\ "clear" \in TableOps
      /\ Freeing(f) /\ MemType /\ C!ListInv /\ C!Counted
      /\ \A u \in Threads \ {t} : frame[u] = Idle
  BY <1>1, ClearFacts
<1>3. allocated = {} /\ nodeCount = 0
  <2>1. allocated = {} /\ nodeCount = Cardinality(allocated)
    BY <1>1, <1>2 DEF Freeing
  <2>2. QED
    BY <2>1, FS_EmptySet
<1>4. /\ frame' = [frame EXCEPT ![t] = Idle]
      /\ mem' = [p \in DOMAIN mem |-> IF p = dummyHead THEN ClearedHead
                                      ELSE IF p \in Nodes THEN EmptyNode ELSE mem[p]]
      /\ deleted' = FALSE /\ UNCHANGED <<nodeCount, allocated, status>>
      /\ last' = Answer("clear", NULL, NULL, "SUCCESS")
      /\ committed' = [mem |-> mem', nodeCount |-> nodeCount', allocated |-> allocated']
  BY <1>2 DEF ClearResets, WriterReturns, Go, Returns
<1>5. mem' = [p \in DOMAIN committed.mem |-> IF p = dummyHead THEN C!ClearedHead ELSE C!EmptyNode]
  <2>1. DOMAIN mem = Nodes \cup {dummyHead} /\ DOMAIN committed.mem = Nodes \cup {dummyHead}
    BY <1>2, Committed DEF MemType, Places
  <2>2. QED
    BY <1>4, <2>1, SameWords
<1>6. C!Chain = committed.allocated
  BY <1>2, SameAssumption, C!ChainIs
<1>7. C!Minus(committed.nodeCount, C!Cardinality(C!Chain)) = 0
  <2>1. committed.nodeCount = C!Cardinality(committed.allocated)
    BY <1>2 DEF C!Counted
  <2>2. committed.nodeCount \in C!Sizes
    BY <1>2 DEF C!ListInv, C!ListTypeOK
  <2>3. \A a \in C!Sizes : C!Minus(a, a) = 0
    BY SameAssumption, C!Counting
  <2>4. QED
    BY <1>6, <2>1, <2>2, <2>3
<1>8. /\ committed.mem' = mem' /\ committed.nodeCount' = 0 /\ committed.allocated' = {}
  BY <1>3, <1>4
<1>9. C!Returns(C!Answer("clear", NULL, NULL, "SUCCESS")) /\ C!Calls("clear")
  BY <1>2, <1>4 DEF C!Returns, C!Answer, Answer, C!Calls
<1>10. C!Clear
  BY <1>4, <1>5, <1>6, <1>7, <1>8, <1>9 DEF C!Clear
<1>11. C!ListNext
  BY <1>10 DEF C!ListNext
<1>12. QED
  BY <1>2, <1>4, <1>10, <1>11, Commits

-----------------------------------------------------------------------------
(* Calls and steps.                                                          *)

\* A Clear begins with all the nodes of the list.
LEMMA AllToFree ==
  ASSUME C!ListInv, C!Counted, Untouched
  PROVE  /\ \A p \in Nodes : mem[p] = committed.mem[p]
         /\ nodeCount = Cardinality(allocated) /\ allocated = committed.allocated
         /\ First(next(dummyHead, 0))
<1>1. committed.mem = mem /\ committed.nodeCount = nodeCount /\ committed.allocated = allocated
  BY DEF Untouched
<1>2. nodeCount = Cardinality(allocated)
  BY <1>1, SameWords DEF C!Counted
<1>3. C!On(0) = committed.allocated /\ dummyHead \in C!Place(0)
  BY SameAssumption, C!NodesOfList DEF C!Place
<1>4. C!Successor(dummyHead, 0)
  BY <1>3, SameWords, Addresses DEF C!ListInv
<1>5. C!next(dummyHead, 0) = next(dummyHead, 0)
  BY <1>1 DEF C!next, next
<1>6. \A n : C!After(n, dummyHead)
  BY DEF C!After
<1>7. dummyTail \notin committed.allocated
  BY Committed, Addresses
<1>8. First(next(dummyHead, 0))
  BY <1>1, <1>3, <1>4, <1>5, <1>6, <1>7 DEF C!Successor, First
<1>9. QED
  BY <1>1, <1>2, <1>8

\* A call begins: it has done nothing.
LEMMA CallStays ==
  ASSUME HeapFits, NoDeletes, CallersExclude, SharedInv, AtomicInv, NEW t \in Threads,
         NEW op \in WriterOps \cup ReaderOps, NEW k, NEW v, op = "set" => v \in Values,
         Call(t, op, k, v)
  PROVE  AtomicInv' /\ UNCHANGED C!listVars
<1>1. /\ op \in OpsOf(t) /\ frame[t] = Idle /\ MayOverlap(t, op) /\ op \in TableOps
      /\ UNCHANGED <<listVars, committed>>
  BY DEF Call, Calls
<1>2. PICK e : e = Entry(op)
  OBVIOUS
<1>3. e = IF op = "clear" THEN "pop" ELSE IF op \in Walks THEN "begin" ELSE "walk"
  BY <1>2 DEF Entry, Walks
<1>4. PICK l : l = LIST_HEIGHT - 1
  OBVIOUS
<1>5. PICK g : /\ g = [Idle EXCEPT !.op = op, !.at = e, !.key = k, !.value = v, !.level = l]
               /\ frame' = [frame EXCEPT ![t] = g]
  BY <1>2, <1>4 DEF Call, Go
<1>6. g.op = op /\ g.at = e /\ g.value = v /\ g.doing = "search"
  BY <1>5 DEF Idle
<1>7. CASE t \in Readers
  BY <1>1, <1>5, <1>7, ReaderStays
<1>8. CASE t \in Writers
  <2>1. frame \in [Threads -> FrameType]
    BY TypeOfFrames DEF SharedInv
  <2>2. Exclusion'
    BY <1>1, <1>5, <1>6, CallsExclude
  <2>3. op \in WriterOps
    BY <1>1, <1>8, SharedAssumption DEF OpsOf, WriterOps
  <2>4. frame'[t] = g /\ \A u \in Writers \ {t} : frame'[u] = frame[u]
    BY <1>5, <1>8, <2>1 DEF Threads
  <2>5. \A u \in Writers \ {t} : frame'[u] = Idle
    BY <1>6, <1>8, <2>2, <2>3, <2>4 DEF Exclusion, WriterOps
  <2>6. \A u \in Writers : frame[u] = Idle
    BY <1>1, <2>4, <2>5
  <2>7. Untouched /\ C!ListInv /\ C!Counted
    BY <2>6, IdleWriter DEF AtomicInv
  <2>8. ~Building(g)
    BY <1>3, <1>6 DEF Building, Walks
  <2>9. op = "clear" => Freeing(g)
    <3>1. /\ \A p \in Nodes : mem[p] = committed.mem[p]
          /\ nodeCount = Cardinality(allocated) /\ allocated = committed.allocated
          /\ First(next(dummyHead, 0))
      BY <2>7, AllToFree
    <3>2. op = "clear" => g.at = "pop"
      BY <1>3, <1>6
    <3>3. QED
      BY <3>1, <3>2 DEF Freeing
  <2>10. WriterAt(g)
    BY <1>1, <1>6, <2>8, <2>9 DEF WriterAt
  <2>11. (\A f : WriterAt(f)' <=> WriterAt(f)) /\ (Untouched' <=> Untouched)
    BY <1>1, SameHeap DEF listVars
  <2>12. UNCHANGED C!listVars
    BY <1>1 DEF C!listVars, listVars
  <2>13. C!ListInv' /\ C!Counted'
    BY <2>7, <2>12, AbstractStep
  <2>14. (\A u \in Writers : WriterAt(frame[u]))'
    BY <2>4, <2>5, <2>10, <2>11, IdleWriter
  <2>15. QED
    BY <2>7, <2>11, <2>12, <2>13, <2>14 DEF AtomicInv
<1>9. QED
  BY <1>7, <1>8 DEF Threads

\* A step of the shared list is no step of the abstract one, or the whole call.
AbstractSteps ==
  \/ UNCHANGED C!listVars
  \/ \E k \in Keys, v \in Values : C!Set(k, v)
  \/ C!Clear

\* The steps of a Set,
LEMMA SetStepStays ==
  ASSUME HeapFits, NoDeletes, SharedInv, AtomicInv, NEW t \in Threads, NEW f \in FrameType,
         CallOf(t, f), status = "ok", Safe(f), SetStep(t, f)
  PROVE  AtomicInv' /\ AbstractSteps
<1>1. CASE SetUpdates(t, f) \/ SetCounts(t, f) \/ SetGetsNULL(t, f)
  <2>1. f.op = "set"
    BY <1>1 DEF SetUpdates, SetCounts, SetGetsNULL, At, CallOf
  <2>2. f.key \in Keys /\ f.value \in Values
    BY <2>1, SetFacts
  <2>3. AtomicInv' /\ C!Set(f.key, f.value)
    BY <1>1, UpdateIsSet, CountIsSet, NoMemoryIsSet
  <2>4. QED
    BY <2>2, <2>3 DEF AbstractSteps
<1>2. CASE SetAllocates(t, f)
  BY <1>2, AllocationStays DEF AbstractSteps
<1>3. CASE SetCopies(t, f)
  BY <1>3, CopyStays DEF AbstractSteps
<1>4. CASE SetPublishes(t, f)
  BY <1>4, PublishStays DEF AbstractSteps
<1>5. CASE ClimbStops(t, f)
  BY <1>5, ClimbStopsStays DEF AbstractSteps
<1>6. QED
  BY <1>1, <1>2, <1>3, <1>4, <1>5 DEF SetStep

\* those of a Clear,
LEMMA ClearStepIs ==
  ASSUME HeapFits, NoDeletes, SharedInv, AtomicInv, NEW t \in Threads, NEW f \in FrameType,
         CallOf(t, f), status = "ok", ClearStep(t, f)
  PROVE  AtomicInv' /\ AbstractSteps
<1>1. CASE ClearResets(t, f)
  BY <1>1, ResetIsClear DEF AbstractSteps
<1>2. CASE ClearPops(t, f) \/ ClearUnlinks(t, f) \/ ClearFrees(t, f) \/ ClearZeroes(t, f)
  BY <1>2, ClearStepStays DEF AbstractSteps
<1>3. QED
  BY <1>1, <1>2 DEF ClearStep

\* Readers make no other steps than those that only read.
LEMMA ReaderStepReads ==
  ASSUME SharedInv, NEW t \in Readers, NEW f \in FrameType, CallOf(t, f), Step(t, f), Safe(f)
  PROVE  \E g : Reads(t, g)
<1>1. t \in Threads /\ Shape(t, f) /\ f.op \notin WriterOps
  BY FrameFacts DEF Threads
<1>2. f.at = "walk" => f.doing = "search"
  BY <1>1, AtSearch DEF Shape, WriterOps
<1>3. ~SetStep(t, f)
  BY <1>1, <1>2 DEF SetStep, SetUpdates, SetAllocates, SetGetsNULL, SetCopies, SetPublishes,
     SetCounts, ClimbStops, Stops, At, WriterOps, CallOf
<1>4. ~DeleteStep(t, f)
  BY <1>1, <1>2 DEF DeleteStep, DeleteMisses, DeleteHits, DeleteTests, DeleteCuts, DeleteCounts,
     UnlinkStops, Stops, At, WriterOps, CallOf
<1>5. ~ClearStep(t, f)
  BY <1>1 DEF ClearStep, ClearPops, ClearUnlinks, ClearFrees, ClearZeroes, ClearResets, At,
     WriterOps, CallOf
<1>6. QED
  BY <1>3, <1>4, <1>5 DEF Step, Forward, SearchStops, GetEnds, ReaderReturns, WalkStep,
     WalkBegins, WalkEnds, WalkVisits, WalkSteps

\* and those of every thread.
LEMMA StepStays ==
  ASSUME HeapFits, NoDeletes, LockedInv, AtomicInv, NEW t \in Threads, NEW f \in FrameType,
         CallOf(t, f), Step(t, f)
  PROVE  AtomicInv' /\ AbstractSteps
<1>1. SharedInv /\ status = "ok"
  BY DEF LockedInv, Step
<1>2. CASE ~Safe(f)
  <2>1. Fault(t, f)
    BY <1>2 DEF Step
  <2>2. Building(f) /\ f.at = "walk" /\ Ahead(f) = NULL
    BY <1>2, OnlyAscentFaults
  <2>3. f.key \in Keys /\ f.value \in Values
    BY <1>1, <2>2, SetFacts DEF Building
  <2>4. AtomicInv' /\ C!Set(f.key, f.value)
    BY <1>1, <2>1, <2>2, NULLIsSet
  <2>5. QED
    BY <2>3, <2>4 DEF AbstractSteps
<1>3. CASE Safe(f) /\ t \in Readers
  <2>1. PICK g : Reads(t, g)
    BY <1>1, <1>3, ReaderStepReads
  <2>2. frame' = [frame EXCEPT ![t] = g] /\ UNCHANGED <<listVars, committed>>
    BY <2>1 DEF Reads, Go
  <2>3. QED
    BY <1>1, <1>3, <2>2, ReaderStays DEF AbstractSteps
<1>4. CASE Safe(f) /\ t \in Writers
  <2>1. frame[t] = f /\ Shape(t, f) /\ f.op \notin ReaderOps /\ WriterAt(f)
    BY <1>1, <1>4, FrameFacts DEF CallOf, AtomicInv
  <2>2. f.op \in {"none", "set", "clear"}
    BY <2>1 DEF FrameType, ReaderOps, WriterAt, NoDeletes
  <2>3. f.at \notin {"return", "begin", "visit", "next"} /\ f.op \notin {"get", "delete"}
    BY <2>1, <2>2 DEF Shape, Idle
  <2>4. ~GetEnds(t, f) /\ ~ReaderReturns(t, f) /\ ~WalkStep(t, f)
    BY <2>3 DEF GetEnds, ReaderReturns, WalkStep, WalkBegins, WalkEnds, WalkVisits, WalkSteps
  <2>5. f.at = "walk" => f.op = "set" /\ f.doing \in {"search", "climb"}
    BY <2>1, <2>2 DEF Shape, Idle
  <2>6. ~DeleteStep(t, f)
    BY <2>1, <2>3, <2>5 DEF DeleteStep, DeleteMisses, DeleteHits, DeleteTests, DeleteCuts,
       DeleteCounts, UnlinkStops, Stops, At
  <2>7. CASE Forward(t, f) \/ SearchStops(t, f)
    <3>1. f.at = "walk"
      BY <2>7 DEF Forward, SearchStops, Stops
    <3>2. CASE f.doing = "search"
      BY <1>1, <2>5, <2>7, <3>1, <3>2, SearchStays DEF AbstractSteps
    <3>3. CASE f.doing = "climb"
      <4>1. Forward(t, f) /\ Building(f)
        BY <2>5, <2>7, <3>1, <3>3 DEF SearchStops, Stops, Building
      <4>2. QED
        BY <1>1, <4>1, ClimbForward DEF AbstractSteps
    <3>4. QED
      BY <2>5, <3>1, <3>2, <3>3
  <2>8. CASE SetStep(t, f)
    BY <1>1, <1>4, <2>8, SetStepStays
  <2>9. CASE ClearStep(t, f)
    BY <1>1, <2>9, ClearStepIs
  <2>10. QED
    BY <1>4, <2>4, <2>6, <2>7, <2>8, <2>9 DEF Step
<1>5. QED
  BY <1>2, <1>3, <1>4 DEF Threads

\* What is needed of every step of the shared list.
LEMMA NextIsAtomic ==
  ASSUME HeapFits, NoDeletes, CallersExclude, LockedInv, AtomicInv, [SharedNext]_sharedVars
  PROVE  AtomicInv' /\ AbstractSteps
<1>1. SharedInv
  BY DEF LockedInv
<1>2. CASE UNCHANGED sharedVars
  <2>1. UNCHANGED C!listVars /\ UNCHANGED <<mem, nodeCount, allocated, committed>> /\ frame' = frame
    BY <1>2 DEF sharedVars, listVars, C!listVars
  <2>2. C!ListInv' /\ C!Counted'
    BY <2>1, AbstractStep DEF AtomicInv
  <2>3. (\A u \in Writers : WriterAt(frame[u]))'
    BY <2>1, SameHeap DEF AtomicInv
  <2>4. (\A u \in Writers : Quiet(frame[u]))' => Untouched'
    <3>1. (\A u \in Writers : Quiet(frame[u]))' => \A u \in Writers : Quiet(frame[u])
      BY <2>1 DEF Quiet, Building
    <3>2. QED
      BY <2>1, <3>1, SameHeap DEF AtomicInv
  <2>5. QED
    BY <2>1, <2>2, <2>3, <2>4 DEF AtomicInv, AbstractSteps
<1>3. CASE SharedNext
  <2>1. PICK t \in Threads : Calling(t) \/ Step(t, frame[t])
    BY <1>3 DEF SharedNext
  <2>2. CASE Step(t, frame[t])
    <3>1. PICK f \in FrameType : f = frame[t]
      BY <1>1, TypeOfFrames DEF SharedInv
    <3>2. QED
      BY <2>2, <3>1, StepStays DEF CallOf
  <2>3. CASE Calling(t)
    <3>1. PICK op \in WriterOps \cup ReaderOps, k \in Keys \cup {NULL}, v \in Values \cup {NULL} :
            (op = "set" => v \in Values) /\ Call(t, op, k, v)
      BY <2>3 DEF Calling, WriterOps, ReaderOps, Walks
    <3>2. QED
      BY <1>1, <3>1, CallStays DEF AbstractSteps
  <2>4. QED
    BY <2>1, <2>2, <2>3
<1>4. QED
  BY <1>2, <1>3

\* The empty list.
LEMMA AtomicInitially == SharedInit => AtomicInv /\ List!ListInit
<1> SUFFICES ASSUME SharedInit
             PROVE  AtomicInv /\ List!ListInit
  OBVIOUS
<1>1. /\ committed.mem = mem /\ committed.nodeCount = nodeCount /\ committed.allocated = allocated
      /\ ListInit /\ Untouched /\ \A t \in Writers : frame[t] = Idle
  BY DEF SharedInit, Untouched, Threads
<1>2. List!ListInit
  BY <1>1 DEF List!ListInit, ListInit, List!EmptyHead, EmptyHead, List!EmptyNode, EmptyNode,
     List!Levels, Levels, List!Answer, Answer
<1>3. C!ListInit
  BY <1>1 DEF C!ListInit, ListInit, C!EmptyHead, EmptyHead, C!EmptyNode, EmptyNode,
     C!Levels, Levels, C!Answer, Answer
<1>4. C!ListInv
  BY <1>3, SameAssumption, C!ListInitially
<1>5. C!Counted
  BY <1>3, SameWords, FS_EmptySet DEF C!Counted, C!ListInit
<1>6. \A t \in Writers : WriterAt(frame[t])
  BY <1>1, IdleWriter
<1>7. QED
  BY <1>1, <1>2, <1>4, <1>5, <1>6 DEF AtomicInv

\* Writers that exclude each other, and readers inside at the same time, do step by
\* step what whole calls of the list do, one after the other: until a call returns it
\* has done nothing, and when it does it has done all of it.
THEOREM ListIsAtomic ==
  HeapFits /\ NoDeletes /\ CallersExclude => (SharedSpec => ImplementsList)
<1> SUFFICES ASSUME HeapFits, NoDeletes, CallersExclude
             PROVE  SharedSpec => ImplementsList
  OBVIOUS
<1> DEFINE Stays == UNCHANGED List!listVars \/ List!ListNext
<1>1. SharedInit => LockedInv /\ AtomicInv /\ List!ListInit
  BY AtomicInitially, LockedInitially
<1>2. LockedInv /\ AtomicInv /\ [SharedNext]_sharedVars =>
        LockedInv' /\ AtomicInv' /\ [Stays]_sharedVars
  <2> SUFFICES ASSUME LockedInv, AtomicInv, [SharedNext]_sharedVars
               PROVE  LockedInv' /\ AtomicInv' /\ Stays
    OBVIOUS
  <2>1. LockedInv'
    BY NextKeepsLocked
  <2>2. AtomicInv' /\ AbstractSteps
    BY NextIsAtomic
  <2>3. Stays
    BY <2>2, SameSteps DEF AbstractSteps
  <2>4. QED
    BY <2>1, <2>2, <2>3
<1>3. QED
  BY <1>1, <1>2, PTL DEF SharedSpec, ImplementsList

=============================================================================
