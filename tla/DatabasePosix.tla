--------------------------- MODULE DatabasePosix ---------------------------
(***************************************************************************)
(* Databases (dbimpl/db_posix.cpp) used by client threads, and their       *)
(* compaction by the background thread of the environment.  An item of     *)
(* _taskQue is CompactWorkWrap with a database as its argument, so Tasks   *)
(* is the set of DataBase_Posix objects.                                   *)
(*                                                                         *)
(* Each handler is cut where another thread can see or change what it      *)
(* uses: at every lock, wait and call of Schedule, at the unlocked reads   *)
(* and writes of CompactScheduled, and at the entry and the return of each *)
(* memory table operation, which run under no lock at all.                 *)
(*                                                                         *)
(* pc[t] for a client: "idle"; "set", "get", "delete" inside the memory    *)
(* table; "close_lock", "close_test", "close_wait", "close_free" in the    *)
(* destructor.  For the background thread: "idle";                         *)
(* "cw_lock", "cw_assert", "clear" (inside the table), "cw_reset",         *)
(* "cw_signal", "cw_unlock" in CompactWork.  For both, in MaybeCompact:    *)
(* "mc_lock", "mc_test", "mc_size" and "mc_call" (inside Schedule).        *)
(***************************************************************************)
EXTENDS EnvDepend, TableSize

CONSTANTS
  Ops,       \* the table operations clients use: a subset of the API
  MaxCalls   \* bound on the calls of a client

ASSUME DbAssumption ==
  /\ Ops \subseteq {"set", "get", "delete"}
  /\ MaxCalls \in Nat

DBs == Tasks

VARIABLES
  life,              \* db -> "none" (no such object), "open" or "closing"
  CompactScheduled,  \* db -> the flag
  compact_mutex,     \* db -> owner
  schedule_mutex,    \* db -> owner
  compact_condVar,   \* db -> threads waiting
  table,             \* db -> the size of its memory table
  raced,             \* db -> two operations, one of them a writer, overlapped
  pc,                \* thread -> where it is (see above)
  db,                \* client -> the object of its call, NoTask when idle
  calls              \* client -> calls made

objVars == <<life, CompactScheduled, compact_mutex, schedule_mutex, compact_condVar>>
tableVars == <<table, raced>>
ctlVars == <<pc, db, calls>>
dbVars == <<objVars, tableVars, ctlVars>>
vars == <<envVars, dbVars>>

Init ==
  /\ EnvInit
  /\ life = [d \in DBs |-> "none"]
  /\ CompactScheduled = [d \in DBs |-> FALSE]
  /\ compact_mutex = [d \in DBs |-> FreshMutex]
  /\ schedule_mutex = [d \in DBs |-> FreshMutex]
  /\ compact_condVar = [d \in DBs |-> NoWaiters]
  /\ table = [d \in DBs |-> EmptyTable]
  /\ raced = [d \in DBs |-> FALSE]
  /\ pc = [t \in Threads |-> "idle"]
  /\ db = [t \in Clients |-> NoTask]
  /\ calls = [t \in Clients |-> 0]

\* The object a thread's handler runs on: the client's call, or the task's argument.
this(t) == IF t = BG THEN running ELSE db[t]

Goto(t, label) == pc' = [pc EXCEPT ![t] = label]

\* A call of a client starts.
Enter(t, d, label) ==
  /\ pc[t] = "idle"
  /\ calls[t] < MaxCalls
  /\ Goto(t, label)
  /\ db' = [db EXCEPT ![t] = d]
  /\ calls' = [calls EXCEPT ![t] = @ + 1]

\* A call of a client returns.
Leave(t) ==
  /\ Goto(t, "idle")
  /\ db' = [db EXCEPT ![t] = NoTask]
  /\ UNCHANGED calls

(***************************************************************************)
(* The memory table.  Nothing serializes its operations.  If two overlap   *)
(* and one of them writes, the execution has a data race and the table of  *)
(* that object can be anything from then on.                               *)
(***************************************************************************)
Writers == {"set", "delete", "clear"}
InTable == Writers \cup {"get"}

Overlaps(t, d, op) ==
  \E u \in Threads \ {t} :
    /\ this(u) = d
    /\ pc[u] \in IF op \in Writers THEN InTable ELSE Writers

BeginTableOp(t, d, op) ==
  /\ raced' = [raced EXCEPT ![d] = @ \/ Overlaps(t, d, op)]
  /\ UNCHANGED table

Outcomes(d, op) ==
  IF raced[d] THEN Tables
  ELSE CASE op = "set"    -> AfterSet(table[d])
         [] op = "delete" -> AfterDelete(table[d])
         [] op = "clear"  -> AfterClear(table[d])
         [] op = "get"    -> {table[d]}

EndTableOp(d, op) ==
  /\ \E tab \in Outcomes(d, op) : table' = [table EXCEPT ![d] = tab]
  /\ UNCHANGED raced

\* What an unlocked read of nodeCount can return: the counter before or after
\* the update of an operation that is inside the table.
SizesSeen(d) ==
  IF raced[d] THEN Sizes
  ELSE {table[d].nodeCount} \cup
       UNION {{tab.nodeCount : tab \in Outcomes(d, pc[u])} :
                u \in {v \in Threads : this(v) = d /\ pc[v] \in Writers}}

(***************************************************************************)
(* Open, and the calls on an open database.  A client owns the object as   *)
(* C++ requires: no call on it is in progress or starts once Close began.  *)
(***************************************************************************)
Open(t, d) ==
  /\ pc[t] = "idle"
  /\ calls[t] < MaxCalls
  /\ life[d] = "none"
  /\ life' = [life EXCEPT ![d] = "open"]
  /\ CompactScheduled' = [CompactScheduled EXCEPT ![d] = FALSE]
  /\ compact_mutex' = [compact_mutex EXCEPT ![d] = FreshMutex]
  /\ schedule_mutex' = [schedule_mutex EXCEPT ![d] = FreshMutex]
  /\ compact_condVar' = [compact_condVar EXCEPT ![d] = NoWaiters]
  /\ table' = [table EXCEPT ![d] = EmptyTable]
  /\ raced' = [raced EXCEPT ![d] = FALSE]
  /\ calls' = [calls EXCEPT ![t] = @ + 1]
  /\ UNCHANGED <<envVars, pc, db>>

BeginOp(t, d, op) ==
  /\ life[d] = "open"
  /\ Enter(t, d, op)
  /\ BeginTableOp(t, d, op)
  /\ UNCHANGED <<envVars, objVars>>

\* Set goes on to MaybeCompact; Get and Delete return.
EndSet(t) ==
  /\ pc[t] = "set"
  /\ EndTableOp(db[t], "set")
  /\ Goto(t, "mc_lock")
  /\ UNCHANGED <<envVars, objVars, db, calls>>

EndGet(t) ==
  /\ pc[t] = "get"
  /\ EndTableOp(db[t], "get")
  /\ Leave(t)
  /\ UNCHANGED <<envVars, objVars>>

EndDelete(t) ==
  /\ pc[t] = "delete"
  /\ EndTableOp(db[t], "delete")
  /\ Leave(t)
  /\ UNCHANGED <<envVars, objVars>>

(***************************************************************************)
(* MaybeCompact(), called by Set and by CompactWork.  The flag and the     *)
(* size are read one after the other under schedule_mutex, which neither   *)
(* CompactWork's reset of the flag nor the table's writers take.           *)
(***************************************************************************)
CompactThreshold == 1   \* "for debug": COMPACT_TABLE_SIZE is commented out

\* Where the caller goes on: Set returns, CompactWork signals.
LeaveMaybeCompact(t) ==
  /\ Goto(t, IF t = BG THEN "cw_signal" ELSE "idle")
  /\ db' = [u \in Clients |-> IF u = t THEN NoTask ELSE db[u]]
  /\ UNCHANGED calls

McLock(t) ==
  /\ pc[t] = "mc_lock"
  /\ CanLock(schedule_mutex[this(t)])
  /\ schedule_mutex' = [schedule_mutex EXCEPT ![this(t)] = t]
  /\ Goto(t, "mc_test")
  /\ UNCHANGED <<envVars, life, CompactScheduled, compact_mutex, compact_condVar,
                 tableVars, db, calls>>

NeverScheduled(d) == FALSE               \* mutant: the test of the flag is dropped
AlreadyScheduled(d) == CompactScheduled[d]

StillLocked(d) == schedule_mutex         \* mutant: a branch that does not unlock
Refused(d) == [schedule_mutex EXCEPT ![d] = NoThread]

McRefuse(t) ==
  /\ pc[t] = "mc_test"
  /\ AlreadyScheduled(this(t))
  /\ schedule_mutex' = Refused(this(t))
  /\ LeaveMaybeCompact(t)
  /\ UNCHANGED <<envVars, life, CompactScheduled, compact_mutex, compact_condVar, tableVars>>

McTest(t) ==
  /\ pc[t] = "mc_test"
  /\ ~AlreadyScheduled(this(t))
  /\ Goto(t, "mc_size")
  /\ UNCHANGED <<envVars, objVars, tableVars, db, calls>>

McSchedule(t) ==
  /\ pc[t] = "mc_size"
  /\ \E n \in SizesSeen(this(t)) : n >= CompactThreshold
  /\ CompactScheduled' = [CompactScheduled EXCEPT ![this(t)] = TRUE]
  /\ schedule_mutex' = [schedule_mutex EXCEPT ![this(t)] = NoThread]
  /\ CallSchedule(t, this(t))
  /\ Goto(t, "mc_call")
  /\ UNCHANGED <<life, compact_mutex, compact_condVar, tableVars, db, calls>>

McQuit(t) ==
  /\ pc[t] = "mc_size"
  /\ \E n \in SizesSeen(this(t)) : n < CompactThreshold
  /\ schedule_mutex' = [schedule_mutex EXCEPT ![this(t)] = NoThread]
  /\ LeaveMaybeCompact(t)
  /\ UNCHANGED <<envVars, life, CompactScheduled, compact_mutex, compact_condVar, tableVars>>

McScheduled(t) ==
  /\ pc[t] = "mc_call"
  /\ SchedulePush(t)
  /\ LeaveMaybeCompact(t)
  /\ UNCHANGED <<objVars, tableVars>>

(***************************************************************************)
(* CompactWork(), in the background thread.                                *)
(***************************************************************************)
CwStart ==
  /\ BGTake
  /\ Goto(BG, "cw_lock")
  /\ UNCHANGED <<objVars, tableVars, db, calls>>

CwLock ==
  /\ pc[BG] = "cw_lock"
  /\ CanLock(compact_mutex[running])
  /\ compact_mutex' = [compact_mutex EXCEPT ![running] = BG]
  /\ Goto(BG, "cw_assert")
  /\ UNCHANGED <<envVars, life, CompactScheduled, schedule_mutex, compact_condVar,
                 tableVars, db, calls>>

\* assert(CompactScheduled), then Compact() enters _memTable->Clear().
CwClear ==
  /\ pc[BG] = "cw_assert"
  /\ CompactScheduled[running]
  /\ BeginTableOp(BG, running, "clear")
  /\ Goto(BG, "clear")
  /\ UNCHANGED <<envVars, objVars, db, calls>>

CwCleared ==
  /\ pc[BG] = "clear"
  /\ EndTableOp(running, "clear")
  /\ Goto(BG, "cw_reset")
  /\ UNCHANGED <<envVars, objVars, db, calls>>

SkipRecheck == "cw_signal"               \* mutant: no MaybeCompact after the reset
AfterReset == "mc_lock"

CwReset ==
  /\ pc[BG] = "cw_reset"
  /\ CompactScheduled' = [CompactScheduled EXCEPT ![running] = FALSE]
  /\ Goto(BG, AfterReset)
  /\ UNCHANGED <<envVars, life, compact_mutex, schedule_mutex, compact_condVar,
                 tableVars, db, calls>>

NobodyWoken(waiting) == waiting          \* mutant: SignalAll is missing
Woken(waiting) == AfterSignalAll(waiting)

CwSignal ==
  /\ pc[BG] = "cw_signal"
  /\ compact_condVar' = [compact_condVar EXCEPT ![running] = Woken(@)]
  /\ Goto(BG, "cw_unlock")
  /\ UNCHANGED <<envVars, life, CompactScheduled, compact_mutex, schedule_mutex,
                 tableVars, db, calls>>

CwUnlock ==
  /\ pc[BG] = "cw_unlock"
  /\ compact_mutex' = [compact_mutex EXCEPT ![running] = NoThread]
  /\ TaskReturn
  /\ Goto(BG, "idle")
  /\ UNCHANGED <<life, CompactScheduled, schedule_mutex, compact_condVar,
                 tableVars, db, calls>>

(***************************************************************************)
(* Close(): delete this, that is ~DataBase_Posix() and the end of the      *)
(* object.  (_memTable is not deleted: its nodes leak.)                    *)
(***************************************************************************)
CloseBegin(t, d) ==
  /\ life[d] = "open"
  /\ \A u \in Clients : db[u] # d
  /\ Enter(t, d, "close_lock")
  /\ life' = [life EXCEPT ![d] = "closing"]
  /\ UNCHANGED <<envVars, CompactScheduled, compact_mutex, schedule_mutex,
                 compact_condVar, tableVars>>

\* compact_mutex.Lock(), also when Wait returns.
CloseLock(t) ==
  /\ \/ pc[t] = "close_lock"
     \/ pc[t] = "close_wait" /\ t \notin compact_condVar[db[t]]
  /\ CanLock(compact_mutex[db[t]])
  /\ compact_mutex' = [compact_mutex EXCEPT ![db[t]] = t]
  /\ Goto(t, "close_test")
  /\ UNCHANGED <<envVars, life, CompactScheduled, schedule_mutex, compact_condVar,
                 tableVars, db, calls>>

NoNeedToWait(d) == FALSE                 \* mutant: no wait for the compaction
MustWait(d) == CompactScheduled[d]

CloseWait(t) ==
  /\ pc[t] = "close_test"
  /\ MustWait(db[t])
  /\ compact_mutex' = [compact_mutex EXCEPT ![db[t]] = NoThread]
  /\ compact_condVar' = [compact_condVar EXCEPT ![db[t]] = AfterWait(@, t)]
  /\ Goto(t, "close_wait")
  /\ UNCHANGED <<envVars, life, CompactScheduled, schedule_mutex, tableVars, db, calls>>

CloseSpurious(t) ==
  /\ pc[t] = "close_wait"
  /\ t \in compact_condVar[db[t]]
  /\ compact_condVar' = [compact_condVar EXCEPT ![db[t]] = @ \ {t}]
  /\ UNCHANGED <<envVars, life, CompactScheduled, compact_mutex, schedule_mutex,
                 tableVars, ctlVars>>

CloseUnlock(t) ==
  /\ pc[t] = "close_test"
  /\ ~MustWait(db[t])
  /\ compact_mutex' = [compact_mutex EXCEPT ![db[t]] = NoThread]
  /\ Goto(t, "close_free")
  /\ UNCHANGED <<envVars, life, CompactScheduled, schedule_mutex, compact_condVar,
                 tableVars, db, calls>>

CloseFree(t) ==
  /\ pc[t] = "close_free"
  /\ life' = [life EXCEPT ![db[t]] = "none"]
  /\ Leave(t)
  /\ UNCHANGED <<envVars, CompactScheduled, compact_mutex, schedule_mutex,
                 compact_condVar, tableVars>>

(***************************************************************************)
(* The steps of a thread once its handler runs, and the specification.     *)
(***************************************************************************)
MaybeCompactStep(t) ==
  McLock(t) \/ McRefuse(t) \/ McTest(t) \/ McSchedule(t) \/ McQuit(t) \/ McScheduled(t)

CloseStep(t) == CloseLock(t) \/ CloseWait(t) \/ CloseUnlock(t) \/ CloseFree(t)

CompactWorkStep == CwStart \/ CwLock \/ CwClear \/ CwCleared \/ CwReset \/ CwSignal \/ CwUnlock

ClientStep(t) == EndSet(t) \/ EndGet(t) \/ EndDelete(t) \/ CloseStep(t)

EnvOnlyStep(t) ==
  /\ ScheduleLock(t) \/ (t = BG /\ (BGLock \/ BGWait \/ BGRelock))
  /\ UNCHANGED dbVars

ThreadStep(t) ==
  \/ EnvOnlyStep(t)
  \/ MaybeCompactStep(t)
  \/ t \in Clients /\ ClientStep(t)
  \/ t = BG /\ CompactWorkStep

Call(t, d) == Open(t, d) \/ CloseBegin(t, d) \/ \E op \in Ops : BeginOp(t, d, op)

Next ==
  \/ \E t \in Clients, d \in DBs : Call(t, d)
  \/ \E t \in Threads : ThreadStep(t)
  \/ \E t \in Clients : CloseSpurious(t)
  \/ BGSpurious /\ UNCHANGED dbVars

Spec == Init /\ [][Next]_vars

\* Every thread that can take its next step eventually does.  A mutex promises no
\* order to the threads that contend for it: that a waiter gets its turn rests on
\* clients making finitely many calls (MaxCalls) and wakeups being spurious
\* finitely often.
Spurious == BGSpurious \/ \E t \in Clients : CloseSpurious(t)

FairSpec ==
  /\ Spec
  /\ \A t \in Threads : WF_vars(ThreadStep(t))
  /\ <>[][~Spurious]_vars

-----------------------------------------------------------------------------
Labels == {"idle", "set", "get", "delete", "close_lock", "close_test", "close_wait",
           "close_free", "cw_lock", "cw_assert", "clear", "cw_reset",
           "cw_signal", "cw_unlock", "mc_lock", "mc_test", "mc_size", "mc_call"}

TypeOK ==
  /\ EnvTypeOK
  /\ life \in [DBs -> {"none", "open", "closing"}]
  /\ CompactScheduled \in [DBs -> BOOLEAN]
  /\ compact_mutex \in [DBs -> Threads \cup {NoThread}]
  /\ schedule_mutex \in [DBs -> Threads \cup {NoThread}]
  /\ compact_condVar \in [DBs -> SUBSET Clients]
  /\ table \in [DBs -> Tables]
  /\ raced \in [DBs -> BOOLEAN]
  /\ pc \in [Threads -> Labels]
  /\ db \in [Clients -> DBs \cup {NoTask}]
  /\ calls \in [Clients -> 0..MaxCalls]

(***************************************************************************)
(* A schedule that MaybeCompact accepted is carried, one after the other,  *)
(* by the thread that is inside Schedule with it, by an item of _taskQue,  *)
(* and by CompactWork up to its reset of the flag.                         *)
(***************************************************************************)
Posting(t, d) == loc[t] \in {"lock", "push"} /\ item[t] = d
Queued(d) == \E i \in 1..Len(taskQue) : taskQue[i] = d
NotQueuedTwice(d) ==
  \A i, j \in 1..Len(taskQue) : taskQue[i] = d /\ taskQue[j] = d => i = j
Working(d) == running = d /\ pc[BG] \in {"cw_lock", "cw_assert", "clear", "cw_reset"}

\* CompactScheduled tells exactly whether a schedule is outstanding, and there
\* is never more than one: "we can just schedule once and refuse the others"
\* (db_posix.cpp:77), although CompactWork resets the flag without schedule_mutex.
FlagIsCarried(d) ==
  CompactScheduled[d] <=> Working(d) \/ Queued(d) \/ \E t \in Threads : Posting(t, d)

OneCarrier(d) ==
  /\ Working(d) => ~Queued(d)
  /\ Working(d) \/ Queued(d) => \A t \in Threads : ~Posting(t, d)
  /\ \A t, u \in Threads : Posting(t, d) /\ Posting(u, d) => t = u
  /\ NotQueuedTwice(d)

ScheduledOnce == \A d \in DBs : FlagIsCarried(d) /\ OneCarrier(d)

\* assert(CompactScheduled) of CompactWork (db_posix.cpp:109) never fails.
AssertionHolds == pc[BG] = "cw_assert" => CompactScheduled[running]

\* Once the destructor gave up compact_mutex to destroy the object, and until the
\* address is used again, nothing refers to it: no queued task, no caller inside
\* Schedule, not the background thread, no client but the one that destroys it.
Unreferenced(d) == ~Queued(d) /\ running # d /\ \A t \in Threads : ~Posting(t, d)

NoUseAfterClose ==
  /\ \A d \in DBs : life[d] = "none" => Unreferenced(d) /\ \A t \in Clients : db[t] # d
  /\ \A t \in Clients : pc[t] = "close_free" =>
        Unreferenced(db[t]) /\ \A u \in Clients \ {t} : db[u] # db[t]

\* A destructor blocked in Wait is not forgotten: a compaction is outstanding,
\* or CompactWork is between its reset of the flag and SignalAll.
DestructorWillBeWoken ==
  \A d \in DBs : compact_condVar[d] # {} =>
    \/ CompactScheduled[d]
    \/ running = d /\ pc[BG] \in {"mc_lock", "mc_test", "mc_size", "cw_signal"}

-----------------------------------------------------------------------------
(***************************************************************************)
(* Liveness.  What depends on the counters of the tables is stated for     *)
(* executions without a data race on them: after one, a counter may keep   *)
(* the background thread compacting for ever.                              *)
(***************************************************************************)
NoDataRace == \A d \in DBs : ~raced[d]

\* Set returns, whoever else schedules, compacts or waits.
SetReturns == []NoDataRace => \A t \in Clients : (pc[t] = "set" ~> pc[t] = "idle")

\* What was set while a compaction was running or scheduled is not overlooked:
\* as long as the table counts a node, a (further) Clear is to come.
NonEmptyIsCompacted ==
  []NoDataRace =>
    \A d \in DBs : (life[d] = "open" /\ table[d].nodeCount >= CompactThreshold
                      ~> running = d /\ pc[BG] = "clear")

\* Close returns: it is not blocked for ever, nor kept waiting by compactions that
\* schedule each other.
CloseReturns ==
  []NoDataRace => \A t \in Clients : (pc[t] = "close_lock" ~> pc[t] = "idle")

-----------------------------------------------------------------------------
(***************************************************************************)
(* What a database is doing, in the words of Compaction.                   *)
(***************************************************************************)
Phase(d) ==
  IF life[d] = "none" THEN "closed"
  ELSE IF ~CompactScheduled[d] THEN "idle"
  ELSE IF running = d /\ pc[BG] \in {"cw_assert", "clear", "cw_reset"} THEN "compacting"
  ELSE "pending"

Promise == INSTANCE Compaction WITH phase <- [d \in DBs |-> Phase(d)]

\* The databases keep the promise of Compaction: a schedule is accepted only while none
\* is outstanding and leads to one compaction, one database at a time, and a database
\* is destroyed only when nothing is outstanding.
ImplementsCompaction == Promise!Spec

=============================================================================
