------------------------- MODULE DatabasePosix_proofs -------------------------
(***************************************************************************)
(* The safety of databases and background thread together, for any number  *)
(* of client threads, databases and calls.                                 *)
(*                                                                         *)
(* DbInv is inductive.  Besides the properties themselves it says where a  *)
(* thread must be to own a mutex, to be inside Schedule, or to destroy an  *)
(* object.                                                                 *)
(***************************************************************************)
EXTENDS DatabasePosix, EnvDepend_proofs

ClientLabels == {"idle", "set", "get", "delete", "mc_lock", "mc_test", "mc_size", "mc_call",
                 "close_lock", "close_test", "close_wait", "close_free"}
\* CompactWork after and before it has locked compact_mutex.
LockedLabels == {"cw_assert", "clear", "cw_reset", "mc_lock", "mc_test", "mc_size",
                 "mc_call", "cw_signal", "cw_unlock"}
WorkLabels == {"idle", "cw_lock"} \cup LockedLabels
CloseLabels == {"close_lock", "close_test", "close_wait", "close_free"}

\* Where a thread is, and on which object.
Control ==
  /\ \A t \in Clients : pc[t] \in ClientLabels
  /\ pc[BG] \in WorkLabels
  /\ \A t \in Threads :
       /\ pc[t] = "idle" <=> this(t) = NoTask
       /\ pc[t] = "mc_call" <=> loc[t] \in {"lock", "push"}
       /\ pc[t] = "mc_call" => item[t] = this(t)

\* Who owns the mutexes of a database.
ScheduleMutex ==
  \A d \in DBs, t \in Threads :
    schedule_mutex[d] = t <=> this(t) = d /\ pc[t] \in {"mc_test", "mc_size"}

CompactMutex ==
  \A d \in DBs :
    /\ compact_mutex[d] = BG <=> running = d /\ pc[BG] \in LockedLabels
    /\ \A t \in Clients : compact_mutex[d] = t <=> db[t] = d /\ pc[t] = "close_test"

\* Between its test of the flag and its setting nobody else sets the flag.
StillUnscheduled == \A t \in Threads : pc[t] = "mc_size" => ~CompactScheduled[this(t)]

\* The destructor is alone with its object, and alone waits for it.
Closing ==
  /\ \A t \in Clients : pc[t] \in CloseLabels =>
       life[db[t]] = "closing" /\ \A u \in Clients \ {t} : db[u] # db[t]
  /\ \A d \in DBs, t \in Clients : t \in compact_condVar[d] => db[t] = d /\ pc[t] = "close_wait"

DbInv ==
  /\ EnvInv
  /\ TypeOK
  /\ Control
  /\ ScheduleMutex
  /\ CompactMutex
  /\ StillUnscheduled
  /\ Closing
  /\ ScheduledOnce
  /\ NoUseAfterClose
  /\ DestructorWillBeWoken

-----------------------------------------------------------------------------
(* Facts about the data: sizes, the queue, and what ScheduledOnce depends on. *)

\* Counting never leaves the range of size_t.
LEMMA SizeArithmetic ==
  ASSUME NEW n \in Sizes, NEW k \in 0..MaxNodes
  PROVE  Plus(n, k) \in Sizes /\ Minus(n, k) \in Sizes
<1>1. /\ SizeModulus \in Nat /\ SizeModulus > 0
      /\ n \in Nat /\ k \in Nat /\ SizeModulus - k \in Nat
  BY SizeAssumption DEF Sizes
<1>2. \A m \in Nat : m % SizeModulus \in 0..(SizeModulus - 1)
  BY <1>1
<1>3. n + k \in Nat /\ n + (SizeModulus - k) \in Nat
  BY <1>1
<1>4. QED
  BY <1>2, <1>3 DEF Plus, Minus, Sizes

\* The memory table's operations keep its size within bounds.
LEMMA AfterTyped ==
  ASSUME NEW tab \in Tables
  PROVE  AfterSet(tab) \cup AfterDelete(tab) \cup AfterClear(tab) \subseteq Tables
<1>1. tab.nodeCount \in Sizes /\ tab.chain \in 0..MaxNodes /\ tab.deleted \in BOOLEAN
  BY DEF Tables
<1>2. Plus(tab.nodeCount, 1) \in Sizes /\ Minus(tab.nodeCount, 1) \in Sizes
      /\ Minus(tab.nodeCount, tab.chain) \in Sizes
  <2>1. 1 \in 0..MaxNodes
    BY SizeAssumption
  <2>2. QED
    BY <1>1, <2>1, SizeArithmetic
<1>3. 0 \in 0..MaxNodes
  BY SizeAssumption
<1>4. AfterSet(tab) \subseteq Tables
  BY <1>1, <1>2 DEF AfterSet, Tables
<1>5. AfterDelete(tab) \subseteq Tables
  <2> SUFFICES ASSUME NEW u \in AfterDelete(tab), u # tab PROVE u \in Tables
    OBVIOUS
  <2>1. PICK c \in 0..MaxNodes :
          u = [nodeCount |-> Minus(tab.nodeCount, 1), chain |-> c, deleted |-> TRUE]
    BY DEF AfterDelete
  <2>2. QED
    BY <1>2, <2>1 DEF Tables
<1>6. AfterClear(tab) \subseteq Tables
  BY <1>1, <1>2, <1>3 DEF AfterClear, Tables
<1>7. QED
  BY <1>4, <1>5, <1>6

\* ... with or without a data race.
LEMMA OutcomesTyped ==
  ASSUME TypeOK, NEW d \in DBs, NEW op \in InTable
  PROVE  Outcomes(d, op) \subseteq Tables
BY AfterTyped DEF Outcomes, TypeOK, InTable, Writers

\* Nothing but the queue, the flag and these places matters to ScheduledOnce.
LEMMA SameCarriers ==
  ASSUME ScheduledOnce, UNCHANGED <<CompactScheduled, taskQue>>,
         \A d \in DBs : Working(d)' <=> Working(d),
         \A t \in Threads, d \in DBs : Posting(t, d)' <=> Posting(t, d)
  PROVE  ScheduledOnce'
<1>1. ASSUME NEW d \in DBs PROVE Queued(d)' <=> Queued(d)
  BY DEF Queued
<1>2. ASSUME NEW d \in DBs PROVE FlagIsCarried(d)'
  BY <1>1 DEF FlagIsCarried, ScheduledOnce
<1>3. ASSUME NEW d \in DBs PROVE OneCarrier(d)'
  <2>1. NotQueuedTwice(d)'
    BY DEF NotQueuedTwice, OneCarrier, ScheduledOnce
  <2>2. QED
    BY <1>1, <2>1 DEF OneCarrier, ScheduledOnce
<1>4. QED
  BY <1>2, <1>3 DEF ScheduledOnce

\* What Schedule's push does to the queue.
LEMMA QueueAfterPush ==
  ASSUME taskQue \in Seq(Tasks), NEW k \in Tasks, taskQue' = Append(taskQue, k)
  PROVE  \A d \in DBs :
           /\ Queued(d)' <=> Queued(d) \/ d = k
           /\ NotQueuedTwice(d) /\ ~(d = k /\ Queued(d)) => NotQueuedTwice(d)'
<1>1. /\ Len(taskQue) \in Nat
      /\ Len(taskQue') = Len(taskQue) + 1
      /\ \A i \in 1..Len(taskQue) : taskQue'[i] = taskQue[i]
      /\ taskQue'[Len(taskQue) + 1] = k
  OBVIOUS
<1>2. \A i : i \in 1..Len(taskQue') <=> i \in 1..Len(taskQue) \/ i = Len(taskQue) + 1
  BY <1>1
<1>3. QED
  BY <1>1, <1>2 DEF Queued, NotQueuedTwice

\* What BGThread's pop does to the queue.
LEMMA QueueAfterTake ==
  ASSUME taskQue \in Seq(Tasks), taskQue # << >>
  PROVE  /\ Head(taskQue) \in DBs /\ Queued(Head(taskQue))
         /\ taskQue' = Tail(taskQue) =>
              \A d \in DBs : NotQueuedTwice(d) =>
                /\ NotQueuedTwice(d)'
                /\ Queued(d)' <=> Queued(d) /\ d # Head(taskQue)
<1>1. /\ Len(taskQue) \in Nat \ {0}
      /\ Head(taskQue) = taskQue[1] /\ Head(taskQue) \in Tasks
  OBVIOUS
<1>2. Head(taskQue) \in DBs /\ Queued(Head(taskQue))
  BY <1>1 DEF DBs, Queued
<1>3. ASSUME taskQue' = Tail(taskQue), NEW d \in DBs, NotQueuedTwice(d)
      PROVE  NotQueuedTwice(d)' /\ (Queued(d)' <=> Queued(d) /\ d # Head(taskQue))
  <2>1. /\ Len(taskQue') = Len(taskQue) - 1
        /\ \A i \in 1..Len(taskQue') : taskQue'[i] = taskQue[i + 1] /\ i + 1 \in 1..Len(taskQue)
    BY <1>1, <1>3
  <2>2. \A i \in 1..Len(taskQue) :
          i = 1 \/ (i - 1 \in 1..Len(taskQue') /\ taskQue'[i - 1] = taskQue[i])
    BY <1>1, <1>3, <2>1
  <2>3. NotQueuedTwice(d)'
    BY <1>3, <2>1 DEF NotQueuedTwice
  <2>4. Queued(d)' => Queued(d) /\ d # Head(taskQue)
    BY <1>1, <1>3, <2>1 DEF NotQueuedTwice, Queued
  <2>5. Queued(d) /\ d # Head(taskQue) => Queued(d)'
    BY <1>1, <2>2 DEF Queued
  <2>6. QED
    BY <2>3, <2>4, <2>5
<1>4. QED
  BY <1>2, <1>3

\* A thread that returns from its call, and was not closing, disturbs no destructor.
LEMMA LeaveClosing ==
  ASSUME DbInv, NEW t \in Threads, pc[t] \notin CloseLabels,
         \E l \in Labels \ CloseLabels : pc' = [pc EXCEPT ![t] = l],
         life' = life, compact_condVar' = compact_condVar,
         \A u \in Clients : db'[u] = IF u = t THEN NoTask ELSE db[u]
  PROVE  Closing'
<1>1. \A u \in Clients : pc'[u] \in CloseLabels => u # t /\ pc[u] = pc'[u] /\ db'[u] = db[u]
  BY DEF DbInv, TypeOK, Threads
<1>2. \A u \in Clients : pc[u] \in CloseLabels => db[u] # NoTask
  BY EnvAssumption DEF DbInv, Control, CloseLabels, this, Threads
<1>3. \A u \in Clients : pc[u] = "close_wait" => pc'[u] = pc[u] /\ db'[u] = db[u]
  BY DEF DbInv, TypeOK, Threads, CloseLabels
<1>4. QED
  BY <1>1, <1>2, <1>3 DEF DbInv, Closing

\* ... nor does it leave a reference to an object that is gone.
LEMMA LeaveReferences ==
  ASSUME DbInv, NEW t \in Threads, pc[t] \notin CloseLabels,
         \E l \in Labels \ CloseLabels : pc' = [pc EXCEPT ![t] = l],
         UNCHANGED <<life, envVars>>,
         \A u \in Clients : db'[u] = IF u = t THEN NoTask ELSE db[u]
  PROVE  NoUseAfterClose'
<1>1. \A d \in DBs : Unreferenced(d)' <=> Unreferenced(d)
  BY DEF Unreferenced, Queued, Posting, envVars
<1>2. \A u \in Clients : pc'[u] = "close_free" => u # t /\ pc[u] = "close_free" /\ db'[u] = db[u]
  BY DEF DbInv, TypeOK, Threads, CloseLabels
<1>3. \A u \in Clients : pc[u] = "close_free" => db[u] \in DBs
  BY EnvAssumption DEF DbInv, TypeOK, Control, this, Threads
<1>4. \A u \in Clients : db'[u] = db[u] \/ db'[u] = NoTask
  OBVIOUS
<1>5. NoTask \notin DBs
  BY EnvAssumption DEF DBs
<1>6. QED
  BY <1>1, <1>2, <1>3, <1>4, <1>5 DEF DbInv, NoUseAfterClose

\* The table of a new object.
LEMMA EmptyTableTyped == EmptyTable \in Tables
<1>1. 0 \in Sizes /\ 0 \in 0..MaxNodes
  BY SizeAssumption DEF Sizes
<1>2. QED
  BY <1>1 DEF EmptyTable, Tables

-----------------------------------------------------------------------------
(* One lemma per action. *)

\* Initially there is no object and nobody is anywhere.
LEMMA DbInitInv == Init => DbInv
<1> SUFFICES ASSUME Init PROVE DbInv
  OBVIOUS
<1> USE EnvAssumption, DbAssumption DEF Init, FreshMutex, NoWaiters, DBs, Threads, this
<1>1. EnvInv /\ EnvInit
  BY EnvInitInv
<1>2. TypeOK
  BY <1>1, EmptyTableTyped DEF EnvInv, TypeOK, Labels
<1>3. Control
  BY <1>1 DEF EnvInit, FreshMutex, NoWaiters, Control, ClientLabels, WorkLabels
<1>4. ScheduleMutex /\ CompactMutex /\ StillUnscheduled /\ Closing
  BY <1>1 DEF EnvInit, FreshMutex, NoWaiters, ScheduleMutex, CompactMutex, LockedLabels,
       StillUnscheduled, Closing,
              CloseLabels
<1>5. ScheduledOnce
  BY <1>1 DEF EnvInit, FreshMutex, NoWaiters, ScheduledOnce, FlagIsCarried, OneCarrier,
       NotQueuedTwice, Working,
              Queued, Posting
<1>6. NoUseAfterClose /\ DestructorWillBeWoken
  BY <1>1 DEF EnvInit, FreshMutex, NoWaiters, NoUseAfterClose, Unreferenced, Queued, Posting,
       DestructorWillBeWoken
<1>7. QED
  BY <1>1, <1>2, <1>3, <1>4, <1>5, <1>6 DEF DbInv

\* A new object: the address it gets is referred to by nobody (NoUseAfterClose).
LEMMA OpenInv ==
  ASSUME DbInv, NEW t \in Clients, NEW d \in DBs, Open(t, d)
  PROVE  DbInv'
<1> USE DbAssumption, EnvAssumption
       DEF DbInv, Threads, DBs, this, objVars, tableVars, envVars
<1>0. TypeOK /\ EnvTypeOK /\ Control
  BY DEF TypeOK
<1> USE DEF TypeOK, EnvTypeOK
<1>1. EnvInv'
  BY EnvUnchangedInv DEF Open, FreshMutex, NoWaiters, envVars
<1>2. TypeOK'
  BY <1>1, EmptyTableTyped DEF EnvInv, Open, FreshMutex, NoWaiters
<1>3. Control'
  BY DEF Open, FreshMutex, NoWaiters, Control, ClientLabels, WorkLabels, LockedLabels
<1>4. ScheduleMutex'
  BY DEF Open, FreshMutex, NoWaiters, ScheduleMutex, NoUseAfterClose, Unreferenced, Control,
       ClientLabels,
         WorkLabels, LockedLabels
<1>5. CompactMutex'
  BY DEF Open, FreshMutex, NoWaiters, CompactMutex, NoUseAfterClose, Unreferenced, Control,
       ClientLabels,
         WorkLabels, LockedLabels
<1>6. StillUnscheduled'
  BY DEF Open, FreshMutex, NoWaiters, StillUnscheduled
<1>7. Closing'
  BY DEF Open, FreshMutex, NoWaiters, Closing
<1>8. ScheduledOnce'
  <2>1. ~CompactScheduled[d]
    BY DEF Open, FreshMutex, NoWaiters, NoUseAfterClose, Unreferenced, ScheduledOnce,
         FlagIsCarried, Working
  <2>2. CompactScheduled' = CompactScheduled
    BY <2>1 DEF Open, FreshMutex, NoWaiters
  <2>3. QED
    BY <2>2, SameCarriers DEF Open, FreshMutex, NoWaiters, Working, Posting
<1>9. NoUseAfterClose'
  BY DEF Open, FreshMutex, NoWaiters, NoUseAfterClose, Unreferenced, Posting, Queued
<1>10. DestructorWillBeWoken'
  BY DEF Open, FreshMutex, NoWaiters, DestructorWillBeWoken
<1>11. QED
  BY <1>1, <1>2, <1>3, <1>4, <1>5, <1>6, <1>7, <1>8, <1>9, <1>10 DEF DbInv

\* A call on an open database enters the memory table.
LEMMA BeginOpInv ==
  ASSUME DbInv, NEW t \in Clients, NEW d \in DBs, NEW op \in Ops, BeginOp(t, d, op)
  PROVE  DbInv'
<1> USE DbAssumption, EnvAssumption
       DEF DbInv, Threads, DBs, this, objVars, tableVars, envVars
<1>0. TypeOK /\ EnvTypeOK /\ Control
  BY DEF TypeOK
<1> USE DEF TypeOK, EnvTypeOK
<1>1. EnvInv'
  BY EnvUnchangedInv DEF BeginOp, envVars
<1>2. TypeOK'
  BY <1>0, <1>1 DEF EnvInv, Labels, BeginOp, Enter, BeginTableOp, Goto
<1>3. Control'
  BY DEF BeginOp, Enter, BeginTableOp, Goto, Control, ClientLabels, WorkLabels, LockedLabels
<1>4. ScheduleMutex'
  BY DEF BeginOp, Enter, BeginTableOp, Goto, ScheduleMutex
<1>5. CompactMutex'
  BY DEF BeginOp, Enter, BeginTableOp, Goto, CompactMutex
<1>6. StillUnscheduled'
  BY DEF BeginOp, Enter, BeginTableOp, Goto, StillUnscheduled
<1>7. Closing'
  BY DEF BeginOp, Enter, BeginTableOp, Goto, Closing, CloseLabels
<1>8. ScheduledOnce'
  BY SameCarriers DEF Working, Posting, BeginOp, Enter, BeginTableOp, Goto
<1>9. NoUseAfterClose'
  BY DEF BeginOp, Enter, BeginTableOp, Goto, NoUseAfterClose, Unreferenced, Posting, Queued,
         Control, Closing, CloseLabels
<1>10. DestructorWillBeWoken'
  BY DEF BeginOp, Enter, BeginTableOp, Goto, DestructorWillBeWoken
<1>11. QED
  BY <1>1, <1>2, <1>3, <1>4, <1>5, <1>6, <1>7, <1>8, <1>9, <1>10 DEF DbInv

\* Set leaves the memory table for MaybeCompact.
LEMMA EndSetInv ==
  ASSUME DbInv, NEW t \in Clients, EndSet(t)
  PROVE  DbInv'
<1> USE DbAssumption, EnvAssumption
       DEF DbInv, Threads, DBs, this, objVars, tableVars, envVars
<1>0. TypeOK /\ EnvTypeOK /\ Control
  BY DEF TypeOK
<1> USE DEF TypeOK, EnvTypeOK
<1>1. EnvInv'
  BY EnvUnchangedInv DEF EndSet, envVars
<1>2. TypeOK'
  BY <1>0, <1>1, OutcomesTyped DEF EnvInv, Labels, EndSet, EndTableOp, Goto, InTable,
                                   Writers, Control
<1>3. Control'
  BY DEF EndSet, Goto, Control, ClientLabels, WorkLabels, LockedLabels
<1>4. ScheduleMutex'
  BY DEF EndSet, Goto, ScheduleMutex
<1>5. CompactMutex'
  BY DEF EndSet, Goto, CompactMutex
<1>6. StillUnscheduled'
  BY DEF EndSet, Goto, StillUnscheduled
<1>7. Closing'
  BY DEF EndSet, Goto, Closing, CloseLabels
<1>8. ScheduledOnce'
  BY SameCarriers DEF Working, Posting, EndSet, Goto
<1>9. NoUseAfterClose'
  BY DEF EndSet, Goto, NoUseAfterClose, Unreferenced, Posting, Queued
<1>10. DestructorWillBeWoken'
  BY DEF EndSet, Goto, DestructorWillBeWoken
<1>11. QED
  BY <1>1, <1>2, <1>3, <1>4, <1>5, <1>6, <1>7, <1>8, <1>9, <1>10 DEF DbInv

\* Get returns.
LEMMA EndGetInv ==
  ASSUME DbInv, NEW t \in Clients, EndGet(t)
  PROVE  DbInv'
<1> USE DbAssumption, EnvAssumption
       DEF DbInv, Threads, DBs, this, objVars, tableVars, envVars
<1>0. TypeOK /\ EnvTypeOK /\ Control
  BY DEF TypeOK
<1> USE DEF TypeOK, EnvTypeOK
<1>1. EnvInv'
  BY EnvUnchangedInv DEF EndGet, envVars
<1>2. TypeOK'
  BY <1>0, <1>1, OutcomesTyped DEF EnvInv, Labels, EndGet, EndTableOp, Leave, Goto, InTable,
                                   Writers, Control
<1>3. Control'
  BY DEF EndGet, Leave, Goto, Control, ClientLabels, WorkLabels, LockedLabels
<1>4. ScheduleMutex'
  BY DEF EndGet, Leave, Goto, ScheduleMutex
<1>5. CompactMutex'
  BY DEF EndGet, Leave, Goto, CompactMutex
<1>6. StillUnscheduled'
  BY DEF EndGet, Leave, Goto, StillUnscheduled
<1>7. Closing'
  <2>1. \E l \in Labels \ CloseLabels : pc' = [pc EXCEPT ![t] = l]
    BY DEF EndGet, EndTableOp, Leave, Goto, Labels, CloseLabels
  <2>2. pc[t] \notin CloseLabels /\ life' = life /\ compact_condVar' = compact_condVar
    BY DEF EndGet, CloseLabels
  <2>3. \A u \in Clients : db'[u] = IF u = t THEN NoTask ELSE db[u]
    BY DEF EndGet, EndTableOp, Leave, Goto
  <2>4. QED
    BY <2>1, <2>2, <2>3, LeaveClosing
<1>8. ScheduledOnce'
  BY SameCarriers DEF Working, Posting, EndGet, Leave, Goto
<1>9. NoUseAfterClose'
  <2>1. pc[t] \notin CloseLabels /\ \E l \in Labels \ CloseLabels : pc' = [pc EXCEPT ![t] = l]
    BY DEF EndGet, EndTableOp, Leave, Goto, Labels, CloseLabels
  <2>2. \A u \in Clients : db'[u] = IF u = t THEN NoTask ELSE db[u]
    BY DEF EndGet, EndTableOp, Leave, Goto
  <2>3. UNCHANGED <<life, envVars>>
    BY DEF EndGet
  <2>4. QED
    BY <2>1, <2>2, <2>3, LeaveReferences
<1>10. DestructorWillBeWoken'
  BY DEF EndGet, Leave, Goto, DestructorWillBeWoken
<1>11. QED
  BY <1>1, <1>2, <1>3, <1>4, <1>5, <1>6, <1>7, <1>8, <1>9, <1>10 DEF DbInv

\* Delete returns.
LEMMA EndDeleteInv ==
  ASSUME DbInv, NEW t \in Clients, EndDelete(t)
  PROVE  DbInv'
<1> USE DbAssumption, EnvAssumption
       DEF DbInv, Threads, DBs, this, objVars, tableVars, envVars
<1>0. TypeOK /\ EnvTypeOK /\ Control
  BY DEF TypeOK
<1> USE DEF TypeOK, EnvTypeOK
<1>1. EnvInv'
  BY EnvUnchangedInv DEF EndDelete, envVars
<1>2. TypeOK'
  BY <1>0, <1>1, OutcomesTyped DEF EnvInv, Labels, EndDelete, EndTableOp, Leave, Goto,
                                   InTable, Writers, Control
<1>3. Control'
  BY DEF EndDelete, Leave, Goto, Control, ClientLabels, WorkLabels, LockedLabels
<1>4. ScheduleMutex'
  BY DEF EndDelete, Leave, Goto, ScheduleMutex
<1>5. CompactMutex'
  BY DEF EndDelete, Leave, Goto, CompactMutex
<1>6. StillUnscheduled'
  BY DEF EndDelete, Leave, Goto, StillUnscheduled
<1>7. Closing'
  <2>1. \E l \in Labels \ CloseLabels : pc' = [pc EXCEPT ![t] = l]
    BY DEF EndDelete, EndTableOp, Leave, Goto, Labels, CloseLabels
  <2>2. pc[t] \notin CloseLabels /\ life' = life /\ compact_condVar' = compact_condVar
    BY DEF EndDelete, CloseLabels
  <2>3. \A u \in Clients : db'[u] = IF u = t THEN NoTask ELSE db[u]
    BY DEF EndDelete, EndTableOp, Leave, Goto
  <2>4. QED
    BY <2>1, <2>2, <2>3, LeaveClosing
<1>8. ScheduledOnce'
  BY SameCarriers DEF Working, Posting, EndDelete, Leave, Goto
<1>9. NoUseAfterClose'
  <2>1. pc[t] \notin CloseLabels /\ \E l \in Labels \ CloseLabels : pc' = [pc EXCEPT ![t] = l]
    BY DEF EndDelete, EndTableOp, Leave, Goto, Labels, CloseLabels
  <2>2. \A u \in Clients : db'[u] = IF u = t THEN NoTask ELSE db[u]
    BY DEF EndDelete, EndTableOp, Leave, Goto
  <2>3. UNCHANGED <<life, envVars>>
    BY DEF EndDelete
  <2>4. QED
    BY <2>1, <2>2, <2>3, LeaveReferences
<1>10. DestructorWillBeWoken'
  BY DEF EndDelete, Leave, Goto, DestructorWillBeWoken
<1>11. QED
  BY <1>1, <1>2, <1>3, <1>4, <1>5, <1>6, <1>7, <1>8, <1>9, <1>10 DEF DbInv

\* MaybeCompact: schedule_mutex is taken.
LEMMA McLockInv ==
  ASSUME DbInv, NEW t \in Threads, McLock(t)
  PROVE  DbInv'
<1> USE DbAssumption, EnvAssumption
       DEF DbInv, Threads, DBs, this, objVars, tableVars, envVars
<1>0. TypeOK /\ EnvTypeOK /\ Control
  BY DEF TypeOK
<1> USE DEF TypeOK, EnvTypeOK
<1>1. EnvInv'
  BY EnvUnchangedInv DEF McLock, envVars
<1>2. TypeOK'
  BY <1>0, <1>1 DEF EnvInv, Labels, McLock, CanLock, Goto
<1>3. Control'
  BY DEF McLock, CanLock, Goto, Control, ClientLabels, WorkLabels, LockedLabels
<1>4. ScheduleMutex'
  BY DEF McLock, CanLock, Goto, ScheduleMutex
<1>5. CompactMutex'
  BY DEF McLock, CanLock, Goto, CompactMutex, LockedLabels
<1>6. StillUnscheduled'
  BY DEF McLock, CanLock, Goto, StillUnscheduled
<1>7. Closing'
  BY DEF McLock, CanLock, Goto, Closing, CloseLabels
<1>8. ScheduledOnce'
  BY SameCarriers DEF Working, Posting, McLock, CanLock, Goto
<1>9. NoUseAfterClose'
  BY DEF McLock, CanLock, Goto, NoUseAfterClose, Unreferenced, Posting, Queued
<1>10. DestructorWillBeWoken'
  BY DEF McLock, CanLock, Goto, DestructorWillBeWoken
<1>11. QED
  BY <1>1, <1>2, <1>3, <1>4, <1>5, <1>6, <1>7, <1>8, <1>9, <1>10 DEF DbInv

\* MaybeCompact: a compaction is scheduled already.
LEMMA McRefuseInv ==
  ASSUME DbInv, NEW t \in Threads, McRefuse(t)
  PROVE  DbInv'
<1> USE DbAssumption, EnvAssumption
       DEF DbInv, Threads, DBs, this, objVars, tableVars, envVars
<1>0. TypeOK /\ EnvTypeOK /\ Control
  BY DEF TypeOK
<1> USE DEF TypeOK, EnvTypeOK
<1>1. EnvInv'
  BY EnvUnchangedInv DEF McRefuse, envVars
<1>2. TypeOK'
  BY <1>0, <1>1 DEF EnvInv, Labels, McRefuse, AlreadyScheduled, Refused, LeaveMaybeCompact,
                    Goto
<1>3. Control'
  BY DEF McRefuse, AlreadyScheduled, Refused, LeaveMaybeCompact, Goto, Control,
         ClientLabels, WorkLabels, LockedLabels
<1>4. ScheduleMutex'
  BY DEF McRefuse, AlreadyScheduled, Refused, LeaveMaybeCompact, Goto, ScheduleMutex
<1>5. CompactMutex'
  BY DEF McRefuse, AlreadyScheduled, Refused, LeaveMaybeCompact, Goto, CompactMutex,
         LockedLabels
<1>6. StillUnscheduled'
  BY DEF McRefuse, AlreadyScheduled, Refused, LeaveMaybeCompact, Goto, StillUnscheduled
<1>7. Closing'
  <2>1. \E l \in Labels \ CloseLabels : pc' = [pc EXCEPT ![t] = l]
    BY DEF McRefuse, LeaveMaybeCompact, Goto, Labels, CloseLabels
  <2>2. pc[t] \notin CloseLabels /\ life' = life /\ compact_condVar' = compact_condVar
    BY DEF McRefuse, CloseLabels
  <2>3. \A u \in Clients : db'[u] = IF u = t THEN NoTask ELSE db[u]
    BY DEF McRefuse, LeaveMaybeCompact, Goto
  <2>4. QED
    BY <2>1, <2>2, <2>3, LeaveClosing
<1>8. ScheduledOnce'
  BY SameCarriers DEF Working, Posting, McRefuse, AlreadyScheduled, Refused,
                      LeaveMaybeCompact, Goto
<1>9. NoUseAfterClose'
  <2>1. pc[t] \notin CloseLabels /\ \E l \in Labels \ CloseLabels : pc' = [pc EXCEPT ![t] = l]
    BY DEF McRefuse, LeaveMaybeCompact, Goto, Labels, CloseLabels
  <2>2. \A u \in Clients : db'[u] = IF u = t THEN NoTask ELSE db[u]
    BY DEF McRefuse, LeaveMaybeCompact, Goto
  <2>3. UNCHANGED <<life, envVars>>
    BY DEF McRefuse
  <2>4. QED
    BY <2>1, <2>2, <2>3, LeaveReferences
<1>10. DestructorWillBeWoken'
  BY DEF McRefuse, AlreadyScheduled, Refused, LeaveMaybeCompact, Goto, DestructorWillBeWoken
<1>11. QED
  BY <1>1, <1>2, <1>3, <1>4, <1>5, <1>6, <1>7, <1>8, <1>9, <1>10 DEF DbInv

\* MaybeCompact: the flag was found FALSE.
LEMMA McTestInv ==
  ASSUME DbInv, NEW t \in Threads, McTest(t)
  PROVE  DbInv'
<1> USE DbAssumption, EnvAssumption
       DEF DbInv, Threads, DBs, this, objVars, tableVars, envVars
<1>0. TypeOK /\ EnvTypeOK /\ Control
  BY DEF TypeOK
<1> USE DEF TypeOK, EnvTypeOK
<1>1. EnvInv'
  BY EnvUnchangedInv DEF McTest, envVars
<1>2. TypeOK'
  BY <1>0, <1>1 DEF EnvInv, Labels, McTest, AlreadyScheduled, Goto
<1>3. Control'
  BY DEF McTest, AlreadyScheduled, Goto, Control, ClientLabels, WorkLabels, LockedLabels
<1>4. ScheduleMutex'
  BY DEF McTest, AlreadyScheduled, Goto, ScheduleMutex
<1>5. CompactMutex'
  BY DEF McTest, AlreadyScheduled, Goto, CompactMutex, LockedLabels
<1>6. StillUnscheduled'
  BY DEF McTest, AlreadyScheduled, Goto, StillUnscheduled
<1>7. Closing'
  BY DEF McTest, AlreadyScheduled, Goto, Closing, CloseLabels
<1>8. ScheduledOnce'
  BY SameCarriers DEF Working, Posting, McTest, AlreadyScheduled, Goto
<1>9. NoUseAfterClose'
  BY DEF McTest, AlreadyScheduled, Goto, NoUseAfterClose, Unreferenced, Posting, Queued
<1>10. DestructorWillBeWoken'
  BY DEF McTest, AlreadyScheduled, Goto, DestructorWillBeWoken
<1>11. QED
  BY <1>1, <1>2, <1>3, <1>4, <1>5, <1>6, <1>7, <1>8, <1>9, <1>10 DEF DbInv

\* MaybeCompact: the flag is set; schedule_mutex kept everybody else from doing so.
LEMMA McScheduleInv ==
  ASSUME DbInv, NEW t \in Threads, McSchedule(t)
  PROVE  DbInv'
<1> USE DbAssumption, EnvAssumption
       DEF DbInv, Threads, DBs, this, objVars, tableVars, envVars
<1>0. TypeOK /\ EnvTypeOK /\ Control
  BY DEF TypeOK
<1> USE DEF TypeOK, EnvTypeOK
<1>1. EnvInv'
  BY <1>0, CallScheduleInv DEF McSchedule, Control
<1>2. TypeOK'
  BY <1>0, <1>1 DEF EnvInv, Labels, McSchedule, CallSchedule, Outside, Goto
<1>3. Control'
  BY DEF McSchedule, CallSchedule, Outside, Goto, Control, ClientLabels, WorkLabels,
         LockedLabels
<1>4. ScheduleMutex'
  BY DEF McSchedule, CallSchedule, Outside, Goto, ScheduleMutex
<1>5. CompactMutex'
  BY DEF McSchedule, CallSchedule, Outside, Goto, CompactMutex, LockedLabels
<1>6. StillUnscheduled'
  BY DEF McSchedule, CallSchedule, Outside, Goto, StillUnscheduled, ScheduleMutex
<1>7. Closing'
  BY DEF McSchedule, CallSchedule, Outside, Goto, Closing, CloseLabels
<1>8. ScheduledOnce'
  <2> DEFINE d == this(t)
  <2>1. d \in DBs /\ ~CompactScheduled[d] /\ loc[t] \notin {"lock", "push"}
    BY DEF McSchedule, CallSchedule, Outside, StillUnscheduled, Control
  <2>2. ~Working(d) /\ ~Queued(d) /\ \A u \in Threads : ~Posting(u, d)
    BY <2>1 DEF ScheduledOnce, FlagIsCarried
  <2>3. CompactScheduled' = [CompactScheduled EXCEPT ![d] = TRUE] /\ taskQue' = taskQue
    BY DEF McSchedule, CallSchedule
  <2>4. \A e \in DBs : (Working(e)' <=> Working(e)) /\ (Queued(e)' <=> Queued(e))
    BY <2>3 DEF McSchedule, CallSchedule, Goto, Working, Queued
  <2>5. \A u \in Threads, e \in DBs :
          Posting(u, e)' <=> Posting(u, e) \/ (u = t /\ e = d)
    BY <2>1 DEF McSchedule, CallSchedule, Posting
  <2>6. ASSUME NEW e \in DBs PROVE FlagIsCarried(e)'
    <3>1. CASE e = d
      BY <2>3, <2>5, <3>1 DEF FlagIsCarried
    <3>2. CASE e # d
      <4>1. FlagIsCarried(e) /\ CompactScheduled'[e] = CompactScheduled[e]
        BY <2>3, <3>2 DEF ScheduledOnce
      <4>2. QED
        BY <2>4, <2>5, <3>2, <4>1 DEF FlagIsCarried
    <3>3. QED
      BY <3>1, <3>2
  <2>7. ASSUME NEW e \in DBs PROVE OneCarrier(e)'
    BY <2>2, <2>3, <2>4, <2>5 DEF ScheduledOnce, OneCarrier, NotQueuedTwice
  <2>8. QED
    BY <2>6, <2>7 DEF ScheduledOnce
<1>9. NoUseAfterClose'
  BY DEF McSchedule, CallSchedule, Outside, Goto, NoUseAfterClose, Unreferenced, Posting,
         Queued
<1>10. DestructorWillBeWoken'
  BY DEF McSchedule, CallSchedule, Outside, Goto, DestructorWillBeWoken
<1>11. QED
  BY <1>1, <1>2, <1>3, <1>4, <1>5, <1>6, <1>7, <1>8, <1>9, <1>10 DEF DbInv

\* MaybeCompact: nothing to compact.
LEMMA McQuitInv ==
  ASSUME DbInv, NEW t \in Threads, McQuit(t)
  PROVE  DbInv'
<1> USE DbAssumption, EnvAssumption
       DEF DbInv, Threads, DBs, this, objVars, tableVars, envVars
<1>0. TypeOK /\ EnvTypeOK /\ Control
  BY DEF TypeOK
<1> USE DEF TypeOK, EnvTypeOK
<1>1. EnvInv'
  BY EnvUnchangedInv DEF McQuit, envVars
<1>2. TypeOK'
  BY <1>0, <1>1 DEF EnvInv, Labels, McQuit, LeaveMaybeCompact, Goto
<1>3. Control'
  BY DEF McQuit, LeaveMaybeCompact, Goto, Control, ClientLabels, WorkLabels, LockedLabels
<1>4. ScheduleMutex'
  BY DEF McQuit, LeaveMaybeCompact, Goto, ScheduleMutex
<1>5. CompactMutex'
  BY DEF McQuit, LeaveMaybeCompact, Goto, CompactMutex, LockedLabels
<1>6. StillUnscheduled'
  BY DEF McQuit, LeaveMaybeCompact, Goto, StillUnscheduled
<1>7. Closing'
  <2>1. \E l \in Labels \ CloseLabels : pc' = [pc EXCEPT ![t] = l]
    BY DEF McQuit, LeaveMaybeCompact, Goto, Labels, CloseLabels
  <2>2. pc[t] \notin CloseLabels /\ life' = life /\ compact_condVar' = compact_condVar
    BY DEF McQuit, CloseLabels
  <2>3. \A u \in Clients : db'[u] = IF u = t THEN NoTask ELSE db[u]
    BY DEF McQuit, LeaveMaybeCompact, Goto
  <2>4. QED
    BY <2>1, <2>2, <2>3, LeaveClosing
<1>8. ScheduledOnce'
  BY SameCarriers DEF Working, Posting, McQuit, LeaveMaybeCompact, Goto
<1>9. NoUseAfterClose'
  <2>1. pc[t] \notin CloseLabels /\ \E l \in Labels \ CloseLabels : pc' = [pc EXCEPT ![t] = l]
    BY DEF McQuit, LeaveMaybeCompact, Goto, Labels, CloseLabels
  <2>2. \A u \in Clients : db'[u] = IF u = t THEN NoTask ELSE db[u]
    BY DEF McQuit, LeaveMaybeCompact, Goto
  <2>3. UNCHANGED <<life, envVars>>
    BY DEF McQuit
  <2>4. QED
    BY <2>1, <2>2, <2>3, LeaveReferences
<1>10. DestructorWillBeWoken'
  BY DEF McQuit, LeaveMaybeCompact, Goto, DestructorWillBeWoken
<1>11. QED
  BY <1>1, <1>2, <1>3, <1>4, <1>5, <1>6, <1>7, <1>8, <1>9, <1>10 DEF DbInv

\* Schedule, called by MaybeCompact, pushes the task: caller to queue.
LEMMA McScheduledInv ==
  ASSUME DbInv, NEW t \in Threads, McScheduled(t)
  PROVE  DbInv'
<1> USE DbAssumption, EnvAssumption
       DEF DbInv, Threads, DBs, this, objVars, tableVars, envVars
<1>0. TypeOK /\ EnvTypeOK /\ Control
  BY DEF TypeOK
<1> USE DEF TypeOK, EnvTypeOK
<1>a. /\ loc[t] = "push" /\ pc[t] = "mc_call" /\ item[t] = this(t)
      /\ loc'[t] = Outside(t)
      /\ \A u \in Threads \ {t} :
           loc'[u] = loc[u] \/ (u = BG /\ loc[u] = "none" /\ loc'[u] \in {"loop", "none"})
      /\ taskQue' = Append(taskQue, item[t])
      /\ item' = [item EXCEPT ![t] = NoTask]
      /\ running' = running
      /\ pc' = [pc EXCEPT ![t] = IF t = BG THEN "cw_signal" ELSE "idle"]
      /\ db' = [u \in Clients |-> IF u = t THEN NoTask ELSE db[u]]
  BY PushMoves DEF McScheduled, SchedulePush, Pushed, LeaveMaybeCompact, Goto, Control
<1>1. EnvInv'
  BY SchedulePushInv DEF McScheduled
<1>2. TypeOK'
  BY <1>0, <1>1 DEF EnvInv, Labels, McScheduled, LeaveMaybeCompact, Goto
<1>3. Control'
  <2>1. (\A u \in Clients : pc'[u] \in ClientLabels) /\ pc'[BG] \in WorkLabels
    BY <1>a DEF Control, ClientLabels, WorkLabels, LockedLabels
  <2>2. ASSUME NEW u \in Threads
        PROVE  /\ pc'[u] = "idle" <=> this(u)' = NoTask
               /\ pc'[u] = "mc_call" <=> loc'[u] \in {"lock", "push"}
               /\ pc'[u] = "mc_call" => item'[u] = this(u)'
    <3>1. CASE u = t
      BY <1>a, <3>1 DEF Outside, Control
    <3>2. CASE u # t
      BY <1>a, <3>2 DEF Control
    <3>3. QED
      BY <3>1, <3>2
  <2>3. QED
    BY <2>1, <2>2 DEF Control
<1>4. ScheduleMutex'
  <2>1. schedule_mutex' = schedule_mutex
    BY DEF McScheduled
  <2>2. QED
    BY <1>a, <2>1 DEF ScheduleMutex
<1>5. CompactMutex'
  BY <1>a DEF McScheduled, CompactMutex, Control, ClientLabels, WorkLabels, LockedLabels
<1>6. StillUnscheduled'
  BY <1>a DEF McScheduled, StillUnscheduled
<1>7. Closing'
  <2>1. \E l \in Labels \ CloseLabels : pc' = [pc EXCEPT ![t] = l]
    BY DEF McScheduled, LeaveMaybeCompact, Goto, Labels, CloseLabels
  <2>2. pc[t] \notin CloseLabels /\ life' = life /\ compact_condVar' = compact_condVar
    BY DEF McScheduled, CloseLabels
  <2>3. \A u \in Clients : db'[u] = IF u = t THEN NoTask ELSE db[u]
    BY DEF McScheduled, LeaveMaybeCompact, Goto
  <2>4. QED
    BY <2>1, <2>2, <2>3, LeaveClosing
<1>8. ScheduledOnce'
  <2> DEFINE d == item[t]
  <2>1. d \in DBs /\ Posting(t, d)
    BY DEF McScheduled, SchedulePush, Posting, EnvInv, Brought
  <2>2. ~Working(d) /\ ~Queued(d) /\ \A u \in Threads : Posting(u, d) => u = t
    BY <2>1 DEF ScheduledOnce, OneCarrier
  <2>3. /\ taskQue' = Append(taskQue, d)
        /\ CompactScheduled' = CompactScheduled
        /\ item' = [item EXCEPT ![t] = NoTask]
    BY DEF McScheduled, SchedulePush, Pushed
  <2>4. \A e \in DBs : Working(e)' <=> Working(e)
    BY DEF McScheduled, SchedulePush, LeaveMaybeCompact, Goto, Working
  <2>5. \A e \in DBs :
          /\ Queued(e)' <=> Queued(e) \/ e = d
          /\ NotQueuedTwice(e) /\ ~(e = d /\ Queued(e)) => NotQueuedTwice(e)'
    BY <2>1, <2>3, QueueAfterPush
  <2>6. \A u \in Threads, e \in DBs : Posting(u, e)' <=> Posting(u, e) /\ u # t
    BY <1>a, <2>3 DEF Posting, Outside
  <2>7. ASSUME NEW e \in DBs PROVE FlagIsCarried(e)'
    <3>1. FlagIsCarried(e) /\ CompactScheduled'[e] = CompactScheduled[e]
      BY <2>3 DEF ScheduledOnce
    <3>2. Posting(t, e) => e = d
      BY DEF Posting
    <3>3. QED
      BY <2>1, <2>4, <2>5, <2>6, <3>1, <3>2 DEF FlagIsCarried
  <2>8. ASSUME NEW e \in DBs PROVE OneCarrier(e)'
    BY <2>2, <2>4, <2>5, <2>6 DEF ScheduledOnce, OneCarrier
  <2>9. QED
    BY <2>7, <2>8 DEF ScheduledOnce
<1>9. NoUseAfterClose'
  <2>1. \A e \in DBs : Queued(e)' <=> Queued(e) \/ e = item[t]
    BY <1>0, <1>a, QueueAfterPush DEF EnvInv, Brought
  <2>2. Posting(t, item[t]) /\ \A u \in Threads, e \in DBs : Posting(u, e)' => Posting(u, e)
    BY <1>a DEF Posting, Outside
  <2>3. QED
    BY <1>0, <1>a, <2>1, <2>2 DEF McScheduled, NoUseAfterClose, Unreferenced, Control,
                                  Closing, CloseLabels
<1>10. DestructorWillBeWoken'
  BY <1>a DEF McScheduled, DestructorWillBeWoken, Control
<1>11. QED
  BY <1>1, <1>2, <1>3, <1>4, <1>5, <1>6, <1>7, <1>8, <1>9, <1>10 DEF DbInv

\* BGThread takes a task: queue to CompactWork.
LEMMA CwStartInv ==
  ASSUME DbInv, CwStart
  PROVE  DbInv'
<1> USE DbAssumption, EnvAssumption
       DEF DbInv, Threads, DBs, this, objVars, tableVars, envVars
<1>0. TypeOK /\ EnvTypeOK /\ Control
  BY DEF TypeOK
<1> USE DEF TypeOK, EnvTypeOK
<1>a. running = NoTask /\ taskQue # << >> /\ Head(taskQue) \in DBs /\ pc[BG] = "idle"
  BY QueueAfterTake DEF CwStart, BGTake, EnvInv, InHand, Control
<1>1. EnvInv'
  BY BGStepInv DEF CwStart, BGStep
<1>2. TypeOK'
  BY <1>0, <1>1 DEF EnvInv, Labels, CwStart, BGTake, Goto
<1>3. Control'
  BY DEF CwStart, BGTake, Goto, Control, ClientLabels, WorkLabels, LockedLabels
<1>4. ScheduleMutex'
  BY <1>a DEF CwStart, BGTake, Goto, ScheduleMutex
<1>5. CompactMutex'
  BY <1>a DEF CwStart, BGTake, Goto, CompactMutex, LockedLabels
<1>6. StillUnscheduled'
  BY DEF CwStart, BGTake, Goto, StillUnscheduled
<1>7. Closing'
  BY DEF CwStart, BGTake, Goto, Closing
<1>8. ScheduledOnce'
  <2> DEFINE d == Head(taskQue)
  <2>1. d \in DBs /\ Queued(d) /\ running' = d /\ taskQue' = Tail(taskQue)
    BY <1>a, QueueAfterTake DEF CwStart, BGTake
  <2>2. ~Working(d) /\ \A u \in Threads : ~Posting(u, d)
    BY <2>1 DEF ScheduledOnce, OneCarrier
  <2>3. CompactScheduled' = CompactScheduled
    BY DEF CwStart
  <2>4. \A e \in DBs : ~Working(e) /\ (Working(e)' <=> e = d)
    BY <1>a, <2>1 DEF CwStart, Goto, Working
  <2>5. \A e \in DBs : NotQueuedTwice(e) =>
          NotQueuedTwice(e)' /\ (Queued(e)' <=> Queued(e) /\ e # d)
    BY <1>a, <2>1, QueueAfterTake
  <2>6. \A u \in Threads, e \in DBs : Posting(u, e)' <=> Posting(u, e)
    BY DEF CwStart, BGTake, Posting
  <2>7. ASSUME NEW e \in DBs PROVE FlagIsCarried(e)'
    BY <2>1, <2>3, <2>4, <2>5, <2>6 DEF ScheduledOnce, FlagIsCarried, OneCarrier
  <2>8. ASSUME NEW e \in DBs PROVE OneCarrier(e)'
    BY <2>1, <2>2, <2>4, <2>5, <2>6 DEF ScheduledOnce, OneCarrier
  <2>9. QED
    BY <2>7, <2>8 DEF ScheduledOnce
<1>9. NoUseAfterClose'
  BY DEF CwStart, BGTake, Goto, NoUseAfterClose, Unreferenced, Posting, Queued
<1>10. DestructorWillBeWoken'
  BY <1>a DEF CwStart, BGTake, Goto, DestructorWillBeWoken
<1>11. QED
  BY <1>1, <1>2, <1>3, <1>4, <1>5, <1>6, <1>7, <1>8, <1>9, <1>10 DEF DbInv

\* CompactWork: compact_mutex is taken.
LEMMA CwLockInv ==
  ASSUME DbInv, CwLock
  PROVE  DbInv'
<1> USE DbAssumption, EnvAssumption
       DEF DbInv, Threads, DBs, this, objVars, tableVars, envVars
<1>0. TypeOK /\ EnvTypeOK /\ Control
  BY DEF TypeOK
<1> USE DEF TypeOK, EnvTypeOK
<1>1. EnvInv'
  BY EnvUnchangedInv DEF CwLock, envVars
<1>2. TypeOK'
  BY <1>0, <1>1 DEF EnvInv, Labels, CwLock, CanLock, Goto
<1>3. Control'
  BY DEF CwLock, CanLock, Goto, Control, ClientLabels, WorkLabels, LockedLabels
<1>4. ScheduleMutex'
  BY DEF CwLock, CanLock, Goto, ScheduleMutex
<1>5. CompactMutex'
  BY DEF CwLock, CanLock, Goto, CompactMutex, LockedLabels
<1>6. StillUnscheduled'
  BY DEF CwLock, CanLock, Goto, StillUnscheduled
<1>7. Closing'
  BY DEF CwLock, CanLock, Goto, Closing
<1>8. ScheduledOnce'
  BY SameCarriers DEF Working, Posting, CwLock, CanLock, Goto
<1>9. NoUseAfterClose'
  BY DEF CwLock, CanLock, Goto, NoUseAfterClose, Unreferenced, Posting, Queued
<1>10. DestructorWillBeWoken'
  BY DEF CwLock, CanLock, Goto, DestructorWillBeWoken
<1>11. QED
  BY <1>1, <1>2, <1>3, <1>4, <1>5, <1>6, <1>7, <1>8, <1>9, <1>10 DEF DbInv

\* CompactWork: the assertion held, Compact begins.
LEMMA CwClearInv ==
  ASSUME DbInv, CwClear
  PROVE  DbInv'
<1> USE DbAssumption, EnvAssumption
       DEF DbInv, Threads, DBs, this, objVars, tableVars, envVars
<1>0. TypeOK /\ EnvTypeOK /\ Control
  BY DEF TypeOK
<1> USE DEF TypeOK, EnvTypeOK
<1>1. EnvInv'
  BY EnvUnchangedInv DEF CwClear, envVars
<1>2. TypeOK'
  BY <1>0, <1>1 DEF EnvInv, Labels, CwClear, BeginTableOp, Goto
<1>3. Control'
  BY DEF CwClear, BeginTableOp, Goto, Control, ClientLabels, WorkLabels, LockedLabels
<1>4. ScheduleMutex'
  BY DEF CwClear, BeginTableOp, Goto, ScheduleMutex
<1>5. CompactMutex'
  BY DEF CwClear, BeginTableOp, Goto, CompactMutex, LockedLabels
<1>6. StillUnscheduled'
  BY DEF CwClear, BeginTableOp, Goto, StillUnscheduled
<1>7. Closing'
  BY DEF CwClear, BeginTableOp, Goto, Closing
<1>8. ScheduledOnce'
  BY SameCarriers DEF Working, Posting, CwClear, BeginTableOp, Goto
<1>9. NoUseAfterClose'
  BY DEF CwClear, BeginTableOp, Goto, NoUseAfterClose, Unreferenced, Posting, Queued
<1>10. DestructorWillBeWoken'
  BY DEF CwClear, BeginTableOp, Goto, DestructorWillBeWoken
<1>11. QED
  BY <1>1, <1>2, <1>3, <1>4, <1>5, <1>6, <1>7, <1>8, <1>9, <1>10 DEF DbInv

\* CompactWork: Compact is done.
LEMMA CwClearedInv ==
  ASSUME DbInv, CwCleared
  PROVE  DbInv'
<1> USE DbAssumption, EnvAssumption
       DEF DbInv, Threads, DBs, this, objVars, tableVars, envVars
<1>0. TypeOK /\ EnvTypeOK /\ Control
  BY DEF TypeOK
<1> USE DEF TypeOK, EnvTypeOK
<1>1. EnvInv'
  BY EnvUnchangedInv DEF CwCleared, envVars
<1>2. TypeOK'
  BY <1>0, <1>1, OutcomesTyped DEF EnvInv, Labels, CwCleared, EndTableOp, Goto, InTable,
                                   Writers, Control
<1>3. Control'
  BY DEF CwCleared, Goto, Control, ClientLabels, WorkLabels, LockedLabels
<1>4. ScheduleMutex'
  BY DEF CwCleared, Goto, ScheduleMutex
<1>5. CompactMutex'
  BY DEF CwCleared, Goto, CompactMutex, LockedLabels
<1>6. StillUnscheduled'
  BY DEF CwCleared, Goto, StillUnscheduled
<1>7. Closing'
  BY DEF CwCleared, Goto, Closing
<1>8. ScheduledOnce'
  BY SameCarriers DEF Working, Posting, CwCleared, Goto
<1>9. NoUseAfterClose'
  BY DEF CwCleared, Goto, NoUseAfterClose, Unreferenced, Posting, Queued
<1>10. DestructorWillBeWoken'
  BY DEF CwCleared, Goto, DestructorWillBeWoken
<1>11. QED
  BY <1>1, <1>2, <1>3, <1>4, <1>5, <1>6, <1>7, <1>8, <1>9, <1>10 DEF DbInv

\* CompactWork: the reset of the flag ends the schedule it was set for.
LEMMA CwResetInv ==
  ASSUME DbInv, CwReset
  PROVE  DbInv'
<1> USE DbAssumption, EnvAssumption
       DEF DbInv, Threads, DBs, this, objVars, tableVars, envVars
<1>0. TypeOK /\ EnvTypeOK /\ Control
  BY DEF TypeOK
<1> USE DEF TypeOK, EnvTypeOK
<1>1. EnvInv'
  BY EnvUnchangedInv DEF CwReset, envVars
<1>2. TypeOK'
  BY <1>0, <1>1 DEF EnvInv, Labels, CwReset, AfterReset, Goto
<1>3. Control'
  BY DEF CwReset, AfterReset, Goto, Control, ClientLabels, WorkLabels, LockedLabels
<1>4. ScheduleMutex'
  BY DEF CwReset, AfterReset, Goto, ScheduleMutex
<1>5. CompactMutex'
  BY DEF CwReset, AfterReset, Goto, CompactMutex, LockedLabels
<1>6. StillUnscheduled'
  BY DEF CwReset, AfterReset, Goto, StillUnscheduled
<1>7. Closing'
  BY DEF CwReset, AfterReset, Goto, Closing
<1>8. ScheduledOnce'
  <2> DEFINE d == running
  <2>1. d \in DBs /\ Working(d)
    BY DEF CwReset, Working, Control
  <2>2. ~Queued(d) /\ \A u \in Threads : ~Posting(u, d)
    BY <2>1 DEF ScheduledOnce, OneCarrier
  <2>3. CompactScheduled' = [CompactScheduled EXCEPT ![d] = FALSE]
    BY DEF CwReset
  <2>4. \A e \in DBs :
          ~Working(e)' /\ (Queued(e)' <=> Queued(e)) /\ (Working(e) => e = d)
    BY DEF CwReset, AfterReset, Goto, Working, Queued
  <2>5. \A u \in Threads, e \in DBs : Posting(u, e)' <=> Posting(u, e)
    BY DEF CwReset, Posting
  <2>6. ASSUME NEW e \in DBs PROVE FlagIsCarried(e)'
    <3>1. CASE e = d
      BY <2>2, <2>3, <2>4, <2>5, <3>1 DEF FlagIsCarried
    <3>2. CASE e # d
      <4>1. FlagIsCarried(e) /\ CompactScheduled'[e] = CompactScheduled[e] /\ ~Working(e)
        BY <2>3, <2>4, <3>2 DEF ScheduledOnce
      <4>2. QED
        BY <2>4, <2>5, <4>1 DEF FlagIsCarried
    <3>3. QED
      BY <3>1, <3>2
  <2>7. ASSUME NEW e \in DBs PROVE OneCarrier(e)'
    BY <2>4, <2>5 DEF CwReset, ScheduledOnce, OneCarrier, NotQueuedTwice
  <2>8. QED
    BY <2>6, <2>7 DEF ScheduledOnce
<1>9. NoUseAfterClose'
  BY DEF CwReset, AfterReset, Goto, NoUseAfterClose, Unreferenced, Posting, Queued
<1>10. DestructorWillBeWoken'
  BY DEF CwReset, AfterReset, Goto, DestructorWillBeWoken
<1>11. QED
  BY <1>1, <1>2, <1>3, <1>4, <1>5, <1>6, <1>7, <1>8, <1>9, <1>10 DEF DbInv

\* CompactWork: SignalAll.
LEMMA CwSignalInv ==
  ASSUME DbInv, CwSignal
  PROVE  DbInv'
<1> USE DbAssumption, EnvAssumption
       DEF DbInv, Threads, DBs, this, objVars, tableVars, envVars
<1>0. TypeOK /\ EnvTypeOK /\ Control
  BY DEF TypeOK
<1> USE DEF TypeOK, EnvTypeOK
<1>1. EnvInv'
  BY EnvUnchangedInv DEF CwSignal, envVars
<1>2. TypeOK'
  BY <1>0, <1>1 DEF EnvInv, Labels, CwSignal, Woken, AfterSignalAll, Goto
<1>3. Control'
  BY DEF CwSignal, Woken, AfterSignalAll, Goto, Control, ClientLabels, WorkLabels,
         LockedLabels
<1>4. ScheduleMutex'
  BY DEF CwSignal, Woken, AfterSignalAll, Goto, ScheduleMutex
<1>5. CompactMutex'
  BY DEF CwSignal, Woken, AfterSignalAll, Goto, CompactMutex, LockedLabels
<1>6. StillUnscheduled'
  BY DEF CwSignal, Woken, AfterSignalAll, Goto, StillUnscheduled
<1>7. Closing'
  BY DEF CwSignal, Woken, AfterSignalAll, Goto, Closing
<1>8. ScheduledOnce'
  BY SameCarriers DEF Working, Posting, CwSignal, Woken, AfterSignalAll, Goto
<1>9. NoUseAfterClose'
  BY DEF CwSignal, Woken, AfterSignalAll, Goto, NoUseAfterClose, Unreferenced, Posting,
         Queued
<1>10. DestructorWillBeWoken'
  BY DEF CwSignal, Woken, AfterSignalAll, Goto, DestructorWillBeWoken
<1>11. QED
  BY <1>1, <1>2, <1>3, <1>4, <1>5, <1>6, <1>7, <1>8, <1>9, <1>10 DEF DbInv

\* CompactWork returns to BGThread.
LEMMA CwUnlockInv ==
  ASSUME DbInv, CwUnlock
  PROVE  DbInv'
<1> USE DbAssumption, EnvAssumption
       DEF DbInv, Threads, DBs, this, objVars, tableVars, envVars
<1>0. TypeOK /\ EnvTypeOK /\ Control
  BY DEF TypeOK
<1> USE DEF TypeOK, EnvTypeOK
<1>1. EnvInv'
  BY BGStepInv DEF CwUnlock
<1>2. TypeOK'
  BY <1>0, <1>1 DEF EnvInv, Labels, CwUnlock, TaskReturn, Goto
<1>3. Control'
  BY DEF CwUnlock, TaskReturn, Goto, Control, ClientLabels, WorkLabels, LockedLabels
<1>4. ScheduleMutex'
  BY DEF CwUnlock, TaskReturn, Goto, ScheduleMutex
<1>5. CompactMutex'
  BY DEF CwUnlock, TaskReturn, Goto, CompactMutex, LockedLabels
<1>6. StillUnscheduled'
  BY DEF CwUnlock, TaskReturn, Goto, StillUnscheduled
<1>7. Closing'
  BY DEF CwUnlock, TaskReturn, Goto, Closing
<1>8. ScheduledOnce'
  BY SameCarriers DEF Working, Posting, CwUnlock, TaskReturn, Goto
<1>9. NoUseAfterClose'
  BY DEF CwUnlock, TaskReturn, Goto, NoUseAfterClose, Unreferenced, Posting, Queued,
         Control, Closing, CloseLabels
<1>10. DestructorWillBeWoken'
  BY DEF CwUnlock, TaskReturn, Goto, DestructorWillBeWoken
<1>11. QED
  BY <1>1, <1>2, <1>3, <1>4, <1>5, <1>6, <1>7, <1>8, <1>9, <1>10 DEF DbInv

\* Close begins.
LEMMA CloseBeginInv ==
  ASSUME DbInv, NEW t \in Clients, NEW d \in DBs, CloseBegin(t, d)
  PROVE  DbInv'
<1> USE DbAssumption, EnvAssumption
       DEF DbInv, Threads, DBs, this, objVars, tableVars, envVars
<1>0. TypeOK /\ EnvTypeOK /\ Control
  BY DEF TypeOK
<1> USE DEF TypeOK, EnvTypeOK
<1>1. EnvInv'
  BY EnvUnchangedInv DEF CloseBegin, envVars
<1>2. TypeOK'
  BY <1>0, <1>1 DEF EnvInv, Labels, CloseBegin, Enter, Goto
<1>3. Control'
  BY DEF CloseBegin, Enter, Goto, Control, ClientLabels, WorkLabels, LockedLabels
<1>4. ScheduleMutex'
  BY DEF CloseBegin, Enter, Goto, ScheduleMutex
<1>5. CompactMutex'
  BY DEF CloseBegin, Enter, Goto, CompactMutex
<1>6. StillUnscheduled'
  BY DEF CloseBegin, Enter, Goto, StillUnscheduled
<1>7. Closing'
  BY DEF CloseBegin, Enter, Goto, Closing
<1>8. ScheduledOnce'
  BY SameCarriers DEF Working, Posting, CloseBegin, Enter, Goto
<1>9. NoUseAfterClose'
  BY DEF CloseBegin, Enter, Goto, NoUseAfterClose, Unreferenced, Posting, Queued
<1>10. DestructorWillBeWoken'
  BY DEF CloseBegin, Enter, Goto, DestructorWillBeWoken
<1>11. QED
  BY <1>1, <1>2, <1>3, <1>4, <1>5, <1>6, <1>7, <1>8, <1>9, <1>10 DEF DbInv

\* The destructor takes compact_mutex, the first time or after Wait.
LEMMA CloseLockInv ==
  ASSUME DbInv, NEW t \in Clients, CloseLock(t)
  PROVE  DbInv'
<1> USE DbAssumption, EnvAssumption
       DEF DbInv, Threads, DBs, this, objVars, tableVars, envVars
<1>0. TypeOK /\ EnvTypeOK /\ Control
  BY DEF TypeOK
<1> USE DEF TypeOK, EnvTypeOK
<1>1. EnvInv'
  BY EnvUnchangedInv DEF CloseLock, envVars
<1>2. TypeOK'
  BY <1>0, <1>1 DEF EnvInv, Labels, CloseLock, CanLock, Goto
<1>3. Control'
  BY DEF CloseLock, CanLock, Goto, Control, ClientLabels, WorkLabels, LockedLabels
<1>4. ScheduleMutex'
  BY DEF CloseLock, CanLock, Goto, ScheduleMutex
<1>5. CompactMutex'
  BY DEF CloseLock, CanLock, Goto, CompactMutex
<1>6. StillUnscheduled'
  BY DEF CloseLock, CanLock, Goto, StillUnscheduled
<1>7. Closing'
  BY DEF CloseLock, CanLock, Goto, Closing, CloseLabels
<1>8. ScheduledOnce'
  BY SameCarriers DEF Working, Posting, CloseLock, CanLock, Goto
<1>9. NoUseAfterClose'
  BY DEF CloseLock, CanLock, Goto, NoUseAfterClose, Unreferenced, Posting, Queued
<1>10. DestructorWillBeWoken'
  BY DEF CloseLock, CanLock, Goto, DestructorWillBeWoken
<1>11. QED
  BY <1>1, <1>2, <1>3, <1>4, <1>5, <1>6, <1>7, <1>8, <1>9, <1>10 DEF DbInv

\* The destructor waits.
LEMMA CloseWaitInv ==
  ASSUME DbInv, NEW t \in Clients, CloseWait(t)
  PROVE  DbInv'
<1> USE DbAssumption, EnvAssumption
       DEF DbInv, Threads, DBs, this, objVars, tableVars, envVars
<1>0. TypeOK /\ EnvTypeOK /\ Control
  BY DEF TypeOK
<1> USE DEF TypeOK, EnvTypeOK
<1>1. EnvInv'
  BY EnvUnchangedInv DEF CloseWait, envVars
<1>2. TypeOK'
  BY <1>0, <1>1 DEF EnvInv, Labels, CloseWait, MustWait, AfterWait, Goto, Control
<1>3. Control'
  BY DEF CloseWait, MustWait, AfterWait, Goto, Control, ClientLabels, WorkLabels,
         LockedLabels
<1>4. ScheduleMutex'
  BY DEF CloseWait, MustWait, AfterWait, Goto, ScheduleMutex
<1>5. CompactMutex'
  BY DEF CloseWait, MustWait, AfterWait, Goto, CompactMutex
<1>6. StillUnscheduled'
  BY DEF CloseWait, MustWait, AfterWait, Goto, StillUnscheduled
<1>7. Closing'
  BY DEF CloseWait, MustWait, AfterWait, Goto, Closing, CloseLabels
<1>8. ScheduledOnce'
  BY SameCarriers DEF Working, Posting, CloseWait, MustWait, AfterWait, Goto
<1>9. NoUseAfterClose'
  BY DEF CloseWait, MustWait, AfterWait, Goto, NoUseAfterClose, Unreferenced, Posting,
         Queued
<1>10. DestructorWillBeWoken'
  BY DEF CloseWait, MustWait, AfterWait, Goto, DestructorWillBeWoken
<1>11. QED
  BY <1>1, <1>2, <1>3, <1>4, <1>5, <1>6, <1>7, <1>8, <1>9, <1>10 DEF DbInv

\* A spurious wakeup of the destructor.
LEMMA CloseSpuriousInv ==
  ASSUME DbInv, NEW t \in Clients, CloseSpurious(t)
  PROVE  DbInv'
<1> USE DbAssumption, EnvAssumption
       DEF DbInv, Threads, DBs, this, objVars, tableVars, envVars
<1>0. TypeOK /\ EnvTypeOK /\ Control
  BY DEF TypeOK
<1> USE DEF TypeOK, EnvTypeOK
<1>1. EnvInv'
  BY EnvUnchangedInv DEF CloseSpurious, envVars
<1>2. TypeOK'
  BY <1>0, <1>1 DEF EnvInv, Labels, CloseSpurious, ctlVars
<1>3. Control'
  BY DEF CloseSpurious, ctlVars, Control, ClientLabels, WorkLabels, LockedLabels
<1>4. ScheduleMutex'
  BY DEF CloseSpurious, ctlVars, ScheduleMutex
<1>5. CompactMutex'
  BY DEF CloseSpurious, ctlVars, CompactMutex
<1>6. StillUnscheduled'
  BY DEF CloseSpurious, ctlVars, StillUnscheduled
<1>7. Closing'
  BY DEF CloseSpurious, ctlVars, Closing
<1>8. ScheduledOnce'
  BY SameCarriers DEF Working, Posting, CloseSpurious, ctlVars
<1>9. NoUseAfterClose'
  BY DEF CloseSpurious, ctlVars, NoUseAfterClose, Unreferenced, Posting, Queued
<1>10. DestructorWillBeWoken'
  BY DEF CloseSpurious, ctlVars, DestructorWillBeWoken
<1>11. QED
  BY <1>1, <1>2, <1>3, <1>4, <1>5, <1>6, <1>7, <1>8, <1>9, <1>10 DEF DbInv

\* The destructor has found the flag FALSE while it owns compact_mutex, so that
\* no CompactWork is under way on the object and none is to come.
LEMMA CloseUnlockInv ==
  ASSUME DbInv, NEW t \in Clients, CloseUnlock(t)
  PROVE  DbInv'
<1> USE DbAssumption, EnvAssumption
       DEF DbInv, Threads, DBs, this, objVars, tableVars, envVars
<1>0. TypeOK /\ EnvTypeOK /\ Control
  BY DEF TypeOK
<1> USE DEF TypeOK, EnvTypeOK
<1>1. EnvInv'
  BY EnvUnchangedInv DEF CloseUnlock, envVars
<1>2. TypeOK'
  BY <1>0, <1>1 DEF EnvInv, Labels, CloseUnlock, MustWait, Goto
<1>3. Control'
  BY DEF CloseUnlock, MustWait, Goto, Control, ClientLabels, WorkLabels, LockedLabels
<1>4. ScheduleMutex'
  BY DEF CloseUnlock, MustWait, Goto, ScheduleMutex
<1>5. CompactMutex'
  BY DEF CloseUnlock, MustWait, Goto, CompactMutex
<1>6. StillUnscheduled'
  BY DEF CloseUnlock, MustWait, Goto, StillUnscheduled
<1>7. Closing'
  BY DEF CloseUnlock, MustWait, Goto, Closing, CloseLabels
<1>8. ScheduledOnce'
  BY SameCarriers DEF Working, Posting, CloseUnlock, MustWait, Goto
<1>9. NoUseAfterClose'
  BY DEF CloseUnlock, MustWait, Goto, NoUseAfterClose, Unreferenced, Posting, Queued,
         Closing, CloseLabels, ScheduledOnce, FlagIsCarried, Working, CompactMutex, Control,
         ClientLabels, WorkLabels, LockedLabels
<1>10. DestructorWillBeWoken'
  BY DEF CloseUnlock, MustWait, Goto, DestructorWillBeWoken
<1>11. QED
  BY <1>1, <1>2, <1>3, <1>4, <1>5, <1>6, <1>7, <1>8, <1>9, <1>10 DEF DbInv

\* The object is gone.
LEMMA CloseFreeInv ==
  ASSUME DbInv, NEW t \in Clients, CloseFree(t)
  PROVE  DbInv'
<1> USE DbAssumption, EnvAssumption
       DEF DbInv, Threads, DBs, this, objVars, tableVars, envVars
<1>0. TypeOK /\ EnvTypeOK /\ Control
  BY DEF TypeOK
<1> USE DEF TypeOK, EnvTypeOK
<1>1. EnvInv'
  BY EnvUnchangedInv DEF CloseFree, envVars
<1>2. TypeOK'
  BY <1>0, <1>1 DEF EnvInv, Labels, CloseFree, Leave, Goto
<1>3. Control'
  BY DEF CloseFree, Leave, Goto, Control, ClientLabels, WorkLabels, LockedLabels
<1>4. ScheduleMutex'
  BY DEF CloseFree, Leave, Goto, ScheduleMutex
<1>5. CompactMutex'
  BY DEF CloseFree, Leave, Goto, CompactMutex
<1>6. StillUnscheduled'
  BY DEF CloseFree, Leave, Goto, StillUnscheduled
<1>7. Closing'
  BY DEF CloseFree, Leave, Goto, Closing, CloseLabels, Control, ClientLabels, WorkLabels,
         LockedLabels
<1>8. ScheduledOnce'
  BY SameCarriers DEF Working, Posting, CloseFree, Leave, Goto
<1>9. NoUseAfterClose'
  BY DEF CloseFree, Leave, Goto, NoUseAfterClose, Unreferenced, Posting, Queued, Control,
         Closing, CloseLabels
<1>10. DestructorWillBeWoken'
  BY DEF CloseFree, Leave, Goto, DestructorWillBeWoken
<1>11. QED
  BY <1>1, <1>2, <1>3, <1>4, <1>5, <1>6, <1>7, <1>8, <1>9, <1>10 DEF DbInv

\* The steps of Schedule and BGThread that the databases do not see.
LEMMA EnvOnlyStepInv ==
  ASSUME DbInv, NEW t \in Threads, EnvOnlyStep(t)
  PROVE  DbInv'
<1> USE DbAssumption, EnvAssumption
       DEF DbInv, Threads, DBs, this, objVars, tableVars, envVars
<1>0. TypeOK /\ EnvTypeOK /\ Control
  BY DEF TypeOK
<1> USE DEF TypeOK, EnvTypeOK
<1>1. EnvInv'
  BY ScheduleLockInv, BGStepInv DEF EnvOnlyStep, BGStep
<1>2. TypeOK'
  BY <1>0, <1>1 DEF EnvInv, Labels, EnvOnlyStep, ScheduleLock, BGLock, BGWait, BGRelock,
                    CanLock, AfterWait, dbVars, ctlVars
<1>3. Control'
  BY DEF EnvOnlyStep, ScheduleLock, BGLock, BGWait, BGRelock, CanLock, AfterWait, dbVars,
         ctlVars, Control, ClientLabels, WorkLabels, LockedLabels
<1>4. ScheduleMutex'
  BY DEF EnvOnlyStep, ScheduleLock, BGLock, BGWait, BGRelock, CanLock, AfterWait, dbVars,
         ctlVars, ScheduleMutex
<1>5. CompactMutex'
  BY DEF EnvOnlyStep, ScheduleLock, BGLock, BGWait, BGRelock, CanLock, AfterWait, dbVars,
         ctlVars, CompactMutex
<1>6. StillUnscheduled'
  BY DEF EnvOnlyStep, ScheduleLock, BGLock, BGWait, BGRelock, CanLock, AfterWait, dbVars,
         ctlVars, StillUnscheduled
<1>7. Closing'
  BY DEF EnvOnlyStep, ScheduleLock, BGLock, BGWait, BGRelock, CanLock, AfterWait, dbVars,
         ctlVars, Closing
<1>8. ScheduledOnce'
  BY SameCarriers DEF Working, Posting, EnvOnlyStep, ScheduleLock, BGLock, BGWait, BGRelock,
                      CanLock, AfterWait, dbVars, ctlVars
<1>9. NoUseAfterClose'
  BY DEF EnvOnlyStep, ScheduleLock, BGLock, BGWait, BGRelock, CanLock, AfterWait, dbVars,
         ctlVars, NoUseAfterClose, Unreferenced, Posting, Queued
<1>10. DestructorWillBeWoken'
  BY DEF EnvOnlyStep, ScheduleLock, BGLock, BGWait, BGRelock, CanLock, AfterWait, dbVars,
         ctlVars, DestructorWillBeWoken
<1>11. QED
  BY <1>1, <1>2, <1>3, <1>4, <1>5, <1>6, <1>7, <1>8, <1>9, <1>10 DEF DbInv

\* A spurious wakeup of the background thread.
LEMMA BGSpuriousInv ==
  ASSUME DbInv, BGSpurious, UNCHANGED dbVars
  PROVE  DbInv'
<1> USE DbAssumption, EnvAssumption
       DEF DbInv, Threads, DBs, this, objVars, tableVars, envVars
<1>0. TypeOK /\ EnvTypeOK /\ Control
  BY DEF TypeOK
<1> USE DEF TypeOK, EnvTypeOK
<1>1. EnvInv'
  BY BGStepInv
<1>2. TypeOK'
  BY <1>0, <1>1 DEF EnvInv, Labels, BGSpurious, dbVars, ctlVars
<1>3. Control'
  BY DEF BGSpurious, dbVars, ctlVars, Control, ClientLabels, WorkLabels, LockedLabels
<1>4. ScheduleMutex'
  BY DEF BGSpurious, dbVars, ctlVars, ScheduleMutex
<1>5. CompactMutex'
  BY DEF BGSpurious, dbVars, ctlVars, CompactMutex
<1>6. StillUnscheduled'
  BY DEF BGSpurious, dbVars, ctlVars, StillUnscheduled
<1>7. Closing'
  BY DEF BGSpurious, dbVars, ctlVars, Closing
<1>8. ScheduledOnce'
  BY SameCarriers DEF Working, Posting, BGSpurious, dbVars, ctlVars
<1>9. NoUseAfterClose'
  BY DEF BGSpurious, dbVars, ctlVars, NoUseAfterClose, Unreferenced, Posting, Queued
<1>10. DestructorWillBeWoken'
  BY DEF BGSpurious, dbVars, ctlVars, DestructorWillBeWoken
<1>11. QED
  BY <1>1, <1>2, <1>3, <1>4, <1>5, <1>6, <1>7, <1>8, <1>9, <1>10 DEF DbInv

\* Every step preserves the invariant.
LEMMA DbNextInv == DbInv /\ [Next]_vars => DbInv'
<1> SUFFICES ASSUME DbInv, [Next]_vars PROVE DbInv'
  OBVIOUS
<1>1. ASSUME NEW t \in Clients, NEW d \in DBs, Call(t, d) PROVE DbInv'
  BY <1>1, OpenInv, CloseBeginInv, BeginOpInv DEF Call
<1>2. ASSUME NEW t \in Threads, ThreadStep(t) PROVE DbInv'
  <2>1. CASE EnvOnlyStep(t)
    BY <2>1, EnvOnlyStepInv
  <2>2. CASE MaybeCompactStep(t)
    BY <2>2, McLockInv, McRefuseInv, McTestInv, McScheduleInv, McQuitInv, McScheduledInv
       DEF MaybeCompactStep
  <2>3. CASE t \in Clients /\ ClientStep(t)
    BY <2>3, EndSetInv, EndGetInv, EndDeleteInv, CloseLockInv, CloseWaitInv, CloseUnlockInv,
       CloseFreeInv DEF ClientStep, CloseStep
  <2>4. CASE t = BG /\ CompactWorkStep
    BY <2>4, CwStartInv, CwLockInv, CwClearInv, CwClearedInv, CwResetInv, CwSignalInv,
       CwUnlockInv DEF CompactWorkStep
  <2>5. QED
    BY <1>2, <2>1, <2>2, <2>3, <2>4 DEF ThreadStep
<1>3. ASSUME NEW t \in Clients, CloseSpurious(t) PROVE DbInv'
  BY <1>3, CloseSpuriousInv
<1>4. CASE BGSpurious /\ UNCHANGED dbVars
  BY <1>4, BGSpuriousInv
<1>5. CASE UNCHANGED vars
  <2> USE <1>5 DEF vars, dbVars, objVars, tableVars, ctlVars, DbInv
  <2>1. EnvInv' /\ TypeOK'
    BY EnvUnchangedInv DEF EnvInv, TypeOK
  <2>2. Control' /\ ScheduleMutex' /\ CompactMutex' /\ StillUnscheduled' /\ Closing'
    BY DEF envVars, this, Control, ScheduleMutex, CompactMutex, StillUnscheduled, Closing
  <2>3. ScheduledOnce'
    BY SameCarriers DEF envVars, Working, Posting
  <2>4. NoUseAfterClose' /\ DestructorWillBeWoken'
    BY DEF envVars, NoUseAfterClose, Unreferenced, Queued, Posting, DestructorWillBeWoken
  <2>5. QED
    BY <2>1, <2>2, <2>3, <2>4
<1>6. QED
  BY <1>1, <1>2, <1>3, <1>4, <1>5 DEF Next

-----------------------------------------------------------------------------
\* DbInv holds in every execution.
THEOREM DbInvariant == Spec => []DbInv
BY DbInitInv, DbNextInv, PTL DEF Spec

\* All variables keep their types; in particular the counter of a memory table stays
\* within size_t, data races included.
THEOREM TypeCorrect == Spec => []TypeOK
<1>1. DbInv => TypeOK
  BY DEF DbInv
<1>2. QED
  BY <1>1, DbInvariant, PTL

\* schedule_mutex does what the comment at db_posix.cpp:76-77 says, although CompactWork
\* resets the flag without it: the flag tells whether a compaction is outstanding,
\* and there is never more than one.
THEOREM SchedulesOnce == Spec => []ScheduledOnce
<1>1. DbInv => ScheduledOnce
  BY DEF DbInv
<1>2. QED
  BY <1>1, DbInvariant, PTL

\* The assertion at db_posix.cpp:109 never fails.
THEOREM NeverFailsAssertion == Spec => []AssertionHolds
<1>1. DbInv => AssertionHolds
  <2> SUFFICES ASSUME DbInv, pc[BG] = "cw_assert" PROVE CompactScheduled[running]
    BY DEF AssertionHolds
  <2>1. running \in DBs
    BY EnvAssumption DEF DbInv, TypeOK, EnvTypeOK, Control, this, Threads, DBs
  <2>2. Working(running)
    BY DEF Working
  <2>3. QED
    BY <2>1, <2>2 DEF DbInv, ScheduledOnce, FlagIsCarried
<1>2. QED
  BY <1>1, DbInvariant, PTL

\* Close is safe: once the destructor has given up compact_mutex for good, no thread
\* and no queued task refers to the object.
THEOREM NeverUsedAfterClose == Spec => []NoUseAfterClose
<1>1. DbInv => NoUseAfterClose
  BY DEF DbInv
<1>2. QED
  BY <1>1, DbInvariant, PTL

\* A destructor in Wait always has a SignalAll ahead.
THEOREM DestructorNotForgotten == Spec => []DestructorWillBeWoken
<1>1. DbInv => DestructorWillBeWoken
  BY DEF DbInv
<1>2. QED
  BY <1>1, DbInvariant, PTL

-----------------------------------------------------------------------------
(* The databases keep the promise of Compaction.                             *)

phases == [d \in DBs |-> Phase(d)]

\* A database's phase depends on its object, its flag, and whether it is at work.
Compacting(d) == running = d /\ pc[BG] \in {"cw_assert", "clear", "cw_reset"}

LEMMA SamePhase ==
  ASSUME UNCHANGED CompactScheduled,
         \A d \in DBs : /\ (life'[d] = "none") <=> (life[d] = "none")
                        /\ Compacting(d)' <=> Compacting(d)
  PROVE  phases' = phases
BY DEF phases, Phase, Compacting

\* One database d changes its phase as Move says.
LEMMA OnePhase ==
  ASSUME NEW d \in DBs, NEW from, NEW to, Phase(d) = from, Phase(d)' = to,
         \A e \in DBs \ {d} : Phase(e)' = Phase(e)
  PROVE  phases[d] = from /\ phases' = [phases EXCEPT ![d] = to]
BY DEF phases

\* What DbInv says of the object a thread is at work on.
LEMMA ObjectInUse ==
  ASSUME DbInv, NEW t \in Threads, this(t) # NoTask
  PROVE  this(t) \in DBs /\ life[this(t)] # "none"
<1>1. CASE t = BG
  <2>1. this(t) = running /\ running \in DBs
    BY <1>1 DEF this, DbInv, TypeOK, EnvTypeOK, DBs
  <2>2. QED
    BY <2>1 DEF DbInv, NoUseAfterClose, Unreferenced
<1>2. CASE t # BG
  <2>1. t \in Clients /\ this(t) = db[t] /\ db[t] \in DBs
    BY <1>2 DEF this, DbInv, TypeOK, Threads
  <2>2. QED
    BY <2>1 DEF DbInv, NoUseAfterClose
<1>3. QED
  BY <1>1, <1>2

\* The flag is set while the database is at work.
LEMMA CompactingIsScheduled ==
  ASSUME DbInv, NEW d \in DBs, Working(d)
  PROVE  CompactScheduled[d] /\ life[d] # "none"
BY DEF DbInv, ScheduledOnce, FlagIsCarried, NoUseAfterClose, Unreferenced, Working

\* A new object is idle.
LEMMA OpenPhase ==
  ASSUME DbInv, NEW t \in Clients, NEW d \in DBs, Open(t, d)
  PROVE  Promise!Open(d)
<1>1. Phase(d) = "closed"
  BY DEF Open, Phase
<1>2. Phase(d)' = "idle"
  BY DEF Open, Phase, DbInv, TypeOK
<1>3. \A e \in DBs \ {d} : Phase(e)' = Phase(e)
  BY DEF Open, Phase, DbInv, TypeOK, envVars
<1>4. QED
  BY <1>1, <1>2, <1>3, OnePhase DEF phases, Promise!Open, Promise!Move

\* MaybeCompact sets the flag of a database that has none outstanding.
LEMMA McSchedulePhase ==
  ASSUME DbInv, NEW t \in Threads, McSchedule(t)
  PROVE  \E d \in DBs : Promise!Accept(d)
<1>1. pc[t] = "mc_size" /\ this(t) # NoTask
  BY DEF McSchedule, DbInv, Control
<1> PICK d \in DBs : d = this(t)
  BY <1>1, ObjectInUse
<1>2. life[d] # "none" /\ ~CompactScheduled[d]
  BY <1>1, ObjectInUse DEF DbInv, StillUnscheduled
<1>3. ~Working(d)
  BY <1>2, CompactingIsScheduled
<1>4. /\ CompactScheduled' = [CompactScheduled EXCEPT ![d] = TRUE]
      /\ pc' = [pc EXCEPT ![t] = "mc_call"] /\ life' = life /\ running' = running
  BY DEF McSchedule, Goto, CallSchedule
<1>5. BG \in Threads /\ pc \in [Threads -> Labels] /\ CompactScheduled \in [DBs -> BOOLEAN]
  BY DEF DbInv, TypeOK, Threads
<1>6. \A e \in DBs : Compacting(e)' <=> Compacting(e)
  BY <1>1, <1>4, <1>5 DEF Compacting
<1>7. Phase(d) = "idle"
  BY <1>2 DEF Phase
<1>8. Phase(d)' = "pending"
  BY <1>2, <1>3, <1>4, <1>5, <1>6 DEF Phase, Compacting, Working
<1>9. \A e \in DBs \ {d} : Phase(e)' = Phase(e)
  BY <1>4, <1>5, <1>6 DEF Phase, Compacting
<1>10. Promise!Accept(d)
  BY <1>2, <1>7, <1>8, <1>9, OnePhase DEF phases, Promise!Accept, Promise!Move
<1>11. QED
  BY <1>2, <1>10

\* CompactWork begins with its lock of compact_mutex.
LEMMA CwLockPhase ==
  ASSUME DbInv, CwLock
  PROVE  \E d \in DBs : Promise!Begin(d)
<1>1. /\ BG \in Threads /\ pc \in [Threads -> Labels] /\ pc[BG] = "cw_lock"
      /\ this(BG) = running /\ running # NoTask
  BY DEF CwLock, DbInv, TypeOK, Threads, this, Control
<1> PICK d \in DBs : d = running
  BY <1>1, ObjectInUse
<1>2. life[d] # "none" /\ CompactScheduled[d]
  BY <1>1, CompactingIsScheduled DEF Working
<1>3. /\ pc' = [pc EXCEPT ![BG] = "cw_assert"]
      /\ UNCHANGED <<life, running, CompactScheduled>>
  BY DEF CwLock, Goto, envVars
<1>4. \A e \in DBs : Phase(e) # "compacting"
  BY <1>1 DEF Phase
<1>5. Phase(d) = "pending" /\ Phase(d)' = "compacting"
  BY <1>1, <1>2, <1>3 DEF Phase
<1>6. \A e \in DBs \ {d} : Phase(e)' = Phase(e)
  BY <1>3 DEF Phase
<1>7. Promise!Begin(d)
  BY <1>2, <1>4, <1>5, <1>6, OnePhase DEF phases, Promise!Begin, Promise!Move
<1>8. QED
  BY <1>2, <1>7

\* ... and ends its compaction with the reset of the flag.
LEMMA CwResetPhase ==
  ASSUME DbInv, CwReset
  PROVE  \E d \in DBs : Promise!End(d)
<1>1. /\ BG \in Threads /\ pc \in [Threads -> Labels] /\ pc[BG] = "cw_reset"
      /\ this(BG) = running /\ running # NoTask
  BY DEF CwReset, DbInv, TypeOK, Threads, this, Control
<1> PICK d \in DBs : d = running
  BY <1>1, ObjectInUse
<1>2. life[d] # "none" /\ CompactScheduled[d]
  BY <1>1, CompactingIsScheduled DEF Working
<1>3. /\ CompactScheduled' = [CompactScheduled EXCEPT ![d] = FALSE]
      /\ UNCHANGED <<life, running>>
  BY DEF CwReset, envVars
<1>4. CompactScheduled \in [DBs -> BOOLEAN]
  BY DEF DbInv, TypeOK
<1>5. Phase(d) = "compacting" /\ Phase(d)' = "idle"
  BY <1>1, <1>2, <1>3, <1>4 DEF Phase
<1>6. \A e \in DBs \ {d} : Phase(e)' = Phase(e)
  BY <1>3, <1>4 DEF Phase
<1>7. Promise!End(d)
  BY <1>2, <1>5, <1>6, OnePhase DEF phases, Promise!End, Promise!Move
<1>8. QED
  BY <1>2, <1>7

\* The destructor ends with nothing outstanding.
LEMMA CloseFreePhase ==
  ASSUME DbInv, NEW t \in Clients, CloseFree(t)
  PROVE  \E d \in DBs : Promise!Close(d)
<1>1. pc[t] = "close_free" /\ this(t) = db[t] /\ db[t] # NoTask
  BY EnvAssumption DEF CloseFree, DbInv, Control, this, Threads
<1> PICK d \in DBs : d = db[t]
  BY <1>1, ObjectInUse DEF Threads
<1>2. life[d] # "none"
  BY <1>1, ObjectInUse DEF Threads
<1>3. ~CompactScheduled[d]
  BY <1>1, <1>2 DEF DbInv, NoUseAfterClose, Unreferenced, ScheduledOnce, FlagIsCarried, Working
<1>4. /\ life' = [life EXCEPT ![d] = "none"]
      /\ pc' = [pc EXCEPT ![t] = "idle"]
      /\ UNCHANGED <<running, CompactScheduled>>
  BY DEF CloseFree, Leave, Goto, envVars
<1>5. t # BG /\ pc \in [Threads -> Labels] /\ life \in [DBs -> {"none", "open", "closing"}]
  BY EnvAssumption DEF DbInv, TypeOK
<1>6. Phase(d) = "idle" /\ Phase(d)' = "closed"
  BY <1>2, <1>3, <1>4, <1>5 DEF Phase
<1>7. \A e \in DBs \ {d} : Phase(e)' = Phase(e)
  BY <1>4, <1>5 DEF Phase
<1>8. Promise!Close(d)
  BY <1>2, <1>6, <1>7, OnePhase DEF phases, Promise!Close, Promise!Move
<1>9. QED
  BY <1>2, <1>8

\* Every other step leaves every phase as it is.
LEMMA OtherPhases ==
  ASSUME DbInv, [Next]_vars,
         \A t \in Clients, d \in DBs : ~Open(t, d),
         \A t \in Threads : ~McSchedule(t),
         ~CwLock, ~CwReset,
         \A t \in Clients : ~CloseFree(t)
  PROVE  phases' = phases
<1>0. /\ BG \in Threads /\ BG \notin Clients /\ pc \in [Threads -> Labels]
      /\ life \in [DBs -> {"none", "open", "closing"}]
      /\ \A t \in Clients : t \in Threads
  BY EnvAssumption DEF DbInv, TypeOK, Threads
<1>1. CASE \E t \in Clients, d \in DBs : CloseBegin(t, d)
  <2> PICK t \in Clients, d \in DBs : CloseBegin(t, d)
    BY <1>1
  <2>1. /\ life' = [life EXCEPT ![d] = "closing"] /\ life[d] = "open"
        /\ pc' = [pc EXCEPT ![t] = "close_lock"]
        /\ UNCHANGED <<running, CompactScheduled>>
    BY DEF CloseBegin, Enter, Goto, envVars
  <2>2. QED
    BY <1>0, <2>1, SamePhase DEF Compacting
<1>2. ASSUME NEW t \in Clients, NEW d \in DBs, NEW op \in Ops, BeginOp(t, d, op)
      PROVE  phases' = phases
  BY <1>0, <1>2, SamePhase DEF Compacting, BeginOp, Enter, Goto, envVars, objVars
<1>3. ASSUME NEW t \in Threads, EnvOnlyStep(t)
      PROVE  phases' = phases
  BY <1>3, SamePhase DEF Compacting, EnvOnlyStep, ScheduleLock, BGLock, BGWait, BGRelock,
       dbVars, objVars, ctlVars
<1>4. ASSUME NEW t \in Threads, McLock(t) \/ McRefuse(t) \/ McTest(t) \/ McQuit(t)
      PROVE  phases' = phases
  BY <1>0, <1>4, SamePhase DEF Compacting, McLock, McRefuse, McTest, McQuit,
       LeaveMaybeCompact, Goto, envVars, objVars
<1>5. ASSUME NEW t \in Threads, McScheduled(t)
      PROVE  phases' = phases
  BY <1>0, <1>5, SamePhase DEF Compacting, McScheduled, SchedulePush, LeaveMaybeCompact,
       Goto, objVars
<1>6. ASSUME NEW t \in Clients, ClientStep(t)
      PROVE  phases' = phases
  BY <1>0, <1>6, SamePhase DEF Compacting, ClientStep, CloseStep, EndSet, EndGet, EndDelete,
       CloseLock, CloseWait, CloseUnlock, Leave, Goto, envVars, objVars
<1>7. CASE CompactWorkStep
  <2>1. CASE CwStart
    <3>1. running = NoTask
      BY <2>1 DEF CwStart, BGTake, DbInv, EnvInv, InHand
    <3>2. \A d \in DBs : d # NoTask
      BY EnvAssumption DEF DBs
    <3>3. pc' = [pc EXCEPT ![BG] = "cw_lock"] /\ UNCHANGED <<life, CompactScheduled>>
      BY <2>1 DEF CwStart, Goto, objVars
    <3>4. QED
      BY <1>0, <3>1, <3>2, <3>3, SamePhase DEF Compacting
  <2>2. CASE CwClear \/ CwCleared \/ CwSignal
    BY <1>0, <2>2, SamePhase DEF Compacting, CwClear, CwCleared, CwSignal, Goto, envVars,
         objVars
  <2>3. CASE CwUnlock
    <3>1. pc[BG] = "cw_unlock" /\ pc' = [pc EXCEPT ![BG] = "idle"]
          /\ UNCHANGED <<life, CompactScheduled>>
      BY <2>3 DEF CwUnlock, Goto
    <3>2. QED
      BY <1>0, <3>1, SamePhase DEF Compacting
  <2>4. QED
    BY <1>7, <2>1, <2>2, <2>3 DEF CompactWorkStep
<1>8. ASSUME NEW t \in Clients, CloseSpurious(t)
      PROVE  phases' = phases
  BY <1>8, SamePhase DEF Compacting, CloseSpurious, envVars, ctlVars
<1>9. CASE BGSpurious /\ UNCHANGED dbVars
  BY <1>9, SamePhase DEF Compacting, BGSpurious, dbVars, objVars, ctlVars
<1>10. CASE UNCHANGED vars
  BY <1>10, SamePhase DEF Compacting, vars, envVars, dbVars, objVars, ctlVars
<1>11. QED
  BY <1>1, <1>2, <1>3, <1>4, <1>5, <1>6, <1>7, <1>8, <1>9, <1>10
     DEF Next, Call, ThreadStep, MaybeCompactStep

\* Compaction is implemented step by step: Open, McSchedule, CwLock, CwReset and CloseFree
\* are its Open, Accept, Begin, End and Close.
LEMMA CompactionStep == DbInv /\ [Next]_vars => [Promise!Next]_phases
<1> SUFFICES ASSUME DbInv, [Next]_vars PROVE [Promise!Next]_phases
  OBVIOUS
<1>1. ASSUME NEW t \in Clients, NEW d \in DBs, Open(t, d) PROVE Promise!Next
  BY <1>1, OpenPhase DEF Promise!Next
<1>2. ASSUME NEW t \in Threads, McSchedule(t) PROVE Promise!Next
  BY <1>2, McSchedulePhase DEF Promise!Next
<1>3. CASE CwLock
  BY <1>3, CwLockPhase DEF Promise!Next
<1>4. CASE CwReset
  BY <1>4, CwResetPhase DEF Promise!Next
<1>5. ASSUME NEW t \in Clients, CloseFree(t) PROVE Promise!Next
  BY <1>5, CloseFreePhase DEF Promise!Next
<1>6. QED
  BY <1>1, <1>2, <1>3, <1>4, <1>5, OtherPhases

\* A database accepts a schedule only while none is outstanding and compacts once for each,
\* one database at a time; it is destroyed only when nothing is outstanding.
THEOREM KeepsPromise == Spec => ImplementsCompaction
<1>1. Init => Promise!Init
  BY DEF Init, Promise!Init, Phase
<1>2. DbInv /\ [Next]_vars => [Promise!Next]_phases
  BY CompactionStep
<1>3. QED
  BY <1>1, <1>2, DbInvariant, PTL DEF Spec, ImplementsCompaction, Promise!Spec, phases

=============================================================================
