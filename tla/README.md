# Qlevel in TLA+

Qlevel is a small key-value store in C++ after the model of leveldb: an
in-memory table (a skip list), a database object that hands the table to a
background thread for "compaction" when it has grown, and an environment that
owns that background thread. This directory holds TLA+ models of these parts,
TLC configurations that check them, and TLAPS proofs. Paths are relative to
`src/`.

## 1. The system

| Component | Code | State | Operations |
|---|---|---|---|
| Database | `dbimpl/db_posix.{h,cpp}` | `CompactScheduled`, `compact_mutex`, `compact_condVar`, `schedule_mutex`, the memory table | `Open`, `Set`, `Get`, `Delete`, `DataBaseSize`, `Close`; `MaybeCompact`, `CompactWork`, `Compact` |
| Environment | `dbimpl/envdepend_posix.cpp`, `include/qenvdepend.h` | `_taskQue`, `BGIsRunning`, `env_mutex`, `env_cond`, one thread | `Schedule`, `BGThread` |
| Skip list | `db/skiplist.h` with `db/{allocator,comparator,randomer}.h` | `dummyHead`, `dummyTail`, nodes, `nodeCount` | `Set`, `Get`, `Delete`, `Clear`, `NodeNum`, iterators |
| Memory table | `db/memtable.{h,cpp}` | a skip list | forwards to it |
| Mutex, CondVar | `port/port_posix.{h,cpp}` | pthread objects | `Lock`, `UnLock`, `Wait`, `Signal`, `SignalAll` |
| Files | `dbimpl/envdepend_posix.cpp:21-204`, `include/qenvdepend.h` | `FILE*`, descriptors, mappings | `New*File`; read, skip, append, flush, sync, close; `EnvDepend_Default` |
| Core object, `compact.h`, `supervisor.h` | `include/`, `db/` | none | declarations only |

How they interact:

* `Set` writes the memory table, then calls `MaybeCompact`, which sets
  `CompactScheduled` under `schedule_mutex` and calls `Schedule` after it has
  released it. The environment queues `(CompactWorkWrap, this)`.
* The background thread runs `CompactWork`: it locks `compact_mutex`, clears the
  table, resets the flag **without** `schedule_mutex`, calls `MaybeCompact`
  again (which may call `Schedule` from within the task), signals
  `compact_condVar` and unlocks.
* `Close` deletes the object; the destructor locks `compact_mutex` and waits on
  `compact_condVar` while the flag is set.
* All databases of the process share one environment, one queue and one thread.
* Operations on the memory table take no lock at all, so readers, iterators and
  `PrintStatis` walk the list between any two stores of a writer.
* The file objects are made by the environment and talk to stdio and the kernel;
  no other part of the repository uses them yet.

What is hard: the flag is read and written under three different regimes; the
object must outlive its queued task; two condition variables are signalled
conditionally; the background thread holds one mutex while it takes two others;
the table is shared without a lock; a skip list whose `Delete` leaves nodes
linked is used by long sequences of calls; bytes pass through two buffers before
they are durable, and every system call on the way may fail. What makes each part
correct:

* environment: no lost wakeup; every task runs exactly once, in order, finally;
* database: at most one outstanding compaction, the flag tells exactly whether
  there is one, its assertion holds, no use of a destroyed object, nobody sleeps
  for ever, data that was set is compacted, `Close` returns;
* skip list: ordered and nested levels, a counter that agrees with the list, no
  dangling link, no NULL met, and the answers of a map;
* skip list with a reader inside a writer's call: the reader meets neither NULL
  nor freed memory, a `Get` answers what was true at some moment of the call, an
  iteration ascends and misses no key that was there all the time;
* files: one environment however many threads ask for it, nothing lost or doubled
  on the way to the file, what `Sync` vouched for survives every crash, every
  descriptor accounted for, no mapping longer than its file, and reads that stay inside.

## 2. The modules

| Module | Stands for |
|---|---|
| `Port` | mutexes and condition variables as values: owner, set of waiters |
| `EnvDepend` | `Schedule` and `BGThread`, one action per locked region |
| `TaskRunner` | abstract: post, execute in order, finish |
| `TableSize` | the size contract of the memory table: counter, nodes on level 0 |
| `DatabasePosix` | databases and their clients, on top of `EnvDepend` and `TableSize` |
| `Compaction` | abstract: closed, idle, pending, compacting |
| `SkipList` | `skiplist.h` node by node, one action per outcome of a call |
| `KeyValueMap` | abstract: a map and the result of the last call |
| `SharedSkipList` | the same functions load by load and store by store, for several threads; iterators and `PrintStatis` |
| `EnvFiles` | `EnvDepend_Default`, the file objects, stdio, kernel and disk; crashes and restarts |
| `MCEnvDepend`, `MCDatabasePosix`, `MCSkipList`, `MCSharedSkipList`, `MCEnvFiles` | what TLC runs; symmetry, and the refinements with fairness, which no theorem is about |
| `MCListHang` | `SkipList` with one caller that makes eleven fixed calls, of any heights, for TLC |
| `EnvDepend_proofs`, `DatabasePosix_proofs` | theorems on the environment and the databases |
| `EnvFiles_proofs`, `EnvFilesSizes_proofs` | theorems on the files; the second on how large they get |
| `SkipList_proofs` | theorems on the skip list: what it is while nothing is deleted, and what holds with `Delete` |
| `SharedSkipList_proofs` | theorems on the shared skip list: types, the safety and the order of readers |
| `SharedSkipListHistory_proofs` | theorems on what a `Get` or an iteration finds while others change the list |
| `SharedSkipListLocked_proofs` | theorems on what a lock would give: no freed node is met, the writers' calls are atomic |

**EnvDepend.** `loc[t]` says where a thread is. `Schedule` is `CallSchedule`,
`ScheduleLock`, `SchedulePush`; the last is everything between lock and unlock,
including the creation of the thread on the first call and the signal when the
queue is one long. `pthread_cond_wait` is `BGWait` (unlock and join the waiters
in one step), an optional `BGSpurious`, and `BGRelock`. `pthread_create`, whose
result the code ignores, may fail when `CreateMayFail`.

**DatabasePosix.** `pc[t]` is the place in a handler; handlers are cut at every
lock, wait, call of `Schedule`, and unlocked access to shared data:

| Code | Actions |
|---|---|
| `Open`, constructor | `Open` |
| `Set`, `Get`, `Delete` | `BeginOp`, then `EndSet`, `EndGet`, `EndDelete` |
| `MaybeCompact` | `McLock`, `McRefuse`, `McTest`, `McSchedule`, `McQuit`, `McScheduled` |
| `CompactWork`, `Compact` | `CwStart`, `CwLock`, `CwClear`, `CwCleared`, `CwReset`, `CwSignal`, `CwUnlock` |
| `Close`, destructor | `CloseBegin`, `CloseLock`, `CloseWait`, `CloseSpurious`, `CloseUnlock`, `CloseFree` |

An operation of the memory table has a begin and an end. Two that overlap, one of them a
writer, are a data race: `raced[d]` is set and the size of that table is arbitrary from
then on. The safety properties hold regardless; the liveness properties that depend on the
counter assume executions without a race. The unlocked read of `nodeCount` by
`MaybeCompact` can return the value before or after an update in progress. Clients own
databases as C++ requires: no call on an object is in progress or begins once its `Close`
began, but a new object may get the address of one that was destroyed. `CompactScheduled`
is read and written as one unit.

**SkipList.** `mem[p]` is the node at address `p`. A search is a fold over the
levels (`Descent`) of a walk along one (`Advance`); `SetInsert` links the new
node behind `Predecessor(...)[l]` on each of its levels, which is where the
search ended for the levels that node has, and is found by walking up from
`dummyHead` above. `status` records that a call dereferenced NULL (`"crashed"`)
or loops for ever (`"hung"`); nothing happens after that. Keys are numbers: the
code only compares them. Memory that `Clear` frees is reset in the model so that
states do not differ in garbage; no property reads it, and `NoDanglingLink` says
that no link leads there.

**SharedSkipList** extends `SkipList` and shares its data, its helpers and the
answers of its calls. `frame[t]` holds the arguments and locals of the call a
thread is in, and the place it has reached:

| Code of `skiplist.h` | Actions |
|---|---|
| `_searchNode` and its copy in `Set`; the climb in `Set`; the walk in `Delete` | `Forward`, and `SearchStops`, `ClimbStops`, `UnlinkStops` |
| `Get` | `GetEnds` |
| `Set` | `SetUpdates`; or `SetAllocates` (`SetGetsNULL`), then `SetCopies` and `SetPublishes` per level, `SetCounts` |
| `Delete` | `DeleteMisses`; or `DeleteHits`, then `DeleteTests` and `DeleteCuts` per level, `DeleteCounts` |
| `Clear` | `ClearPops`, `ClearUnlinks`, `ClearFrees` per node, `ClearZeroes`, `ClearResets` |
| iterators, `PrintStatis` | `WalkBegins`, `WalkVisits`, `WalkSteps`, `WalkEnds` |

Each action has at most one store that other threads can see, except at the end of
`Clear`: the `memset` of `dummyHead` is one step (`ClearZeroes`) and the loop that sets
its links another (`ClearResets`). With callers that keep `Clear` apart nobody can tell; in
`race_clear` it leaves out interleavings, so that what is found there is there all the
more. Two liberties are taken. A load of a link and the comparison of the key behind it are one step,
since the key of a node never changes while the node is allocated. And stores
become visible in program order, as they do in the build of the `Makefile`, which
is unoptimised and for x86; with an optimising compiler the plain accesses of the
code would be undefined. Before every step `Safe` asks whether the pointers it is
about to dereference are nodes; if one is NULL or freed the process has failed
(`Fault`).

**EnvFiles.** `obj[o]` has the fields of a file object and of its stream. The
content of a file is the sequence of the objects that appended its bytes, so that
`BytesOf` can count whose bytes are where; `disk[f]` is the length of the prefix
that is on the disk for certain. One action per function, with one alternative per
result of its system calls. External, and modelled as POSIX describes it: `fread` reads
what there is or less; a write can put any part of the buffer into the file; one that fails
has put some of it there, `fwrite` then counts any number of the new bytes short of all,
and stdio may keep or drop the rest; after a successful `fsync` all of the file is on the disk, its
name included; a loss of power leaves of each file any prefix that contains what
was on the disk. (A kernel that drops dirty pages when `fsync` fails would be
harsher.) `Crash` is the end of the process, with or without a loss of power, and
its restart. Callers are assumed not to use an object again that they deleted or
whose `Close` failed: that is undefined in the code. `RandomReadFile::Read` changes
nothing the model keeps and is no action: `Copied` is the number of bytes it copies, for
any arguments, as the code computes it, `size_t` wrapping round at `SizeModulus`. `pos + n` and the bytes
appended through an object are bounded by `MaxBytes`.

**TableSize** is what `DatabasePosix` knows of the table: after a `Delete`, the
counter and the nodes that `Clear` will count may differ. `SizeContract` checks
on `SkipList` that every call does to the sizes what `TableSize` allows.

## 3. The checks

Runs that pass:

| Run | Bounds | Properties |
|---|---|---|
| `env` (`MCEnvDepend.cfg`) | 2 clients, 2 tasks, queue up to 3 | `EnvTypeOK`, `NoLostWakeup`, `EnvMutexOwned`; `ScheduledTaskRuns`; refines `TaskRunner` with its fairness; no deadlock |
| `db_safety` (`MCDbSafety.cfg`) | 2 clients with 3 calls each, 1 database, all operations, 2-bit counter, at most 2 nodes, creation may fail | `TypeOK`, `ScheduledOnce`, `AssertionHolds`, `NoUseAfterClose`, `DestructorWillBeWoken`; refines `Compaction` |
| `db_live` (`MCDbLive.cfg`) | 2 clients with 3 calls each, 1 database, only `Set` | `SetReturns`, `NonEmptyIsCompacted`, `CloseReturns` |
| `db_two` (`MCDbTwo.cfg`) | 1 client with 5 calls, 2 databases, only `Set` | `QueuedIsRun`, `AcceptedIsCarriedOut` (the fairness of `Compaction`) |
| `list` (`MCList.cfg`) | 3 keys, 2 values, 3 nodes, 3 levels, no `Delete`, `malloc` may fail | `ListTypeOK`, `LevelsAscend`, `LevelsNest`, `CountedAndOwned`, `NeverMeetsKey`; refines `KeyValueMap` |
| `list_delete` (`MCListDelete.cfg`) | 3 keys, 1 value, 4 nodes, 2 levels, with `Delete` | `NoDanglingLink`, `SearchesMeetNoNULL`, `SetIsReadBack`, `SizeContract` |
| `race` (`MCRace.cfg`) | 1 writer with 4 calls, 1 reader with any number, 3 keys, 3 nodes, 2 levels, no `Clear` while the reader is inside | `SharedTypeOK`, `ReadersAreSafe`, `GetAnswersTruly`, `WalkAscends`, `WalkIsComplete`, `TableIsLocked`; refines `SkipList` |
| `files` (`MCEnvFiles.cfg`) | 2 threads, 2 objects, 1 file, 2 bytes through each object, 2 descriptors | `FilesTypeOK`, `OneEnvironment`, `SyncedIsDurable`, `NothingLost`, `DescriptorsAccounted`, `MappingsStayInFile`, `ReadsOfMappings` |

Why the bounds are enough to be interesting. In `db_safety` one client opens,
sets and closes while the other sets, deletes or reads and, after the close, may
open an object at the same address; the counter underflows; a `Set` overlaps the
background `Clear`; a `MaybeCompact` of a client and that of `CompactWork` meet.
In `env` the queue is empty, one long and longer, with the running task itself
among the callers. In `list` three levels make `Set` walk several levels up;
three keys in any order give every position of a new node. In `list_delete` a
deleted node, its predecessor, its successor and a second node of the same key
exist at once.
In `race` four calls of the writer build a list of three keys and delete one, or
insert before, between and behind the nodes a reader stands on; the reader may be
at any place when any of them happens. In `files` the two objects can be two
appenders of one file, an appender and a reader or mapping of what it wrote, or an
object of the process before a crash and one of the process after it; two
descriptors are few enough for a leaked one to make the next call fail. A third
object is out of TLC's reach; the theorems of section 4 are about any number.
Threads and objects of `files` are interchangeable, which is why symmetry is sound:
no formula names one or orders them, and no liveness is checked there.

`GetAnswersTruly` compares with what a whole search (`Lookup`) would have found at some
moment between call and return. A `Delete` may leave its node linked (`list_hang`), so while
one of the same key overlaps the `Get`, NOT_FOUND counts as true as well.
`ReadsOfMappings` covers every `n` and `offset` that `size_t` can hold (3 bits of it), and
says what the code does: a read whose sum `offset + n` does not wrap round stays inside the
mapping if and only if the offset does, and is cut at its end; one whose sum wraps may be
taken for a short read, with an offset far outside. The reads outside the mapping are not
violations of it, since neither a comment nor a test says what `Read` does with such
arguments. Nor does it say that the right bytes are read: the code copies from the start of
the mapping whatever the offset is.
`ImplementsList` says that a writer's call, with readers inside, does as a whole
what the one atomic step of `SkipList` does; it is what justifies that `SkipList`
and the begin and end of `DatabasePosix` treat a call as one. `race` keeps `Clear`
apart from readers (`Conflicts`), as a caller of this list has to: a `Clear` frees
nodes a reader stands on. The database does not keep them apart, see `race_clear`.

The counter is 1 to 3 bits wide, so that it can wrap; 2^w is the constant `SizeModulus`.
The named bounds are `QueueBound`, `MaxCalls`, `MaxNodes`, `MaxFds`, `MaxBytes` and
`SizeModulus`. `QueueBound` limits `EnvDepend`
alone; composed with databases the queue is bounded by `ScheduledOnce`.

The compaction threshold is 1, as in the code ("for debug").

Runs that end in a violation, each a disagreement between the code and its own
comments:

| Run | What TLC shows |
|---|---|
| `list_null` | `Set` of the third of three ascending keys follows a NULL link (`db/skiplist.h:268`; comment at 204) |
| `list_hang` | a `Set` by a single caller that never returns: the ascent finds the key itself and has an empty statement for it (`db/skiplist.h:273`, "can't be _cmp == 0"). `Delete` leaves its node linked where it is the last of a level (309; comments at 240, 316) and the search finds it again; keys 4 and 5 are put behind it on level 0 (251), where nothing else leads to them. Once a greater key is behind it on level 2, a second `Delete` of it, which also answers `DATA_DELETE`, unlinks it there (314). Key 5 was set and never deleted, and no search finds it any more; but its node is still linked from `dummyHead` on level 1 (searches pass that by, as they descend from the deleted node of key 1, still the first of level 2), where the next `Set` of 5 meets it |
| `db_underflow` | after `Set`, `Delete` and a compaction the counter is 2^w - 1 (`db/skiplist.h:317, 332`; comment at 335), every compaction schedules another one and `Close` never returns (`dbimpl/db_posix.cpp:88`; comments at 25-26, 33, 34), by a single client, without a data race |
| `race_clear` | a `Set` that is inside the list while the background thread clears it: its new node, of height 1, is linked on level 0 and not yet on level 1 when `Clear` pops and frees it (`db/skiplist.h:331`), and the `Set` stores the link of level 1 into freed memory (258, or 250 for a node lower than `prev`; comments at `dbimpl/db_posix.cpp:42, 54`, "lock table here") |

Because of `list_null`, the properties of `list` and `list_delete` describe
the executions up to the first crash. So do the theorems on `SkipList`. `race_clear` and
`race` check the same property, `TableIsLocked`: with a `Clear` beside a `Set` it
fails, and where the callers keep them apart it holds. In the same way `list_hang` and
`list` check `NeverMeetsKey`: with `Delete` it fails, without it holds.

**Fairness.** Every thread that can take its next step finally does (weak
fairness of `EnvStep(t)`, `ThreadStep(t)`): threads are scheduled, and all loops
and handlers go on when they can. A POSIX mutex promises no order among
contenders; weak fairness of one thread does not give it a mutex that others
take again and again. Liveness is therefore stated for finitely many calls
(`MaxCalls`; in `EnvFairSpec` finally no more `CallSchedule`) and finitely many
spurious wakeups. Calls themselves are never forced to happen. Thread creation
succeeds in the liveness runs; when it fails, `ScheduledTaskRuns` does not hold,
since `Schedule` ignores the result (`dbimpl/envdepend_posix.cpp:213`).

Finitely many calls may still cause endless compactions: in `db_two` two overlapping
operations on `d1`, the `Clear` of the background thread being one of them, may leave it
with a counter that makes each compaction schedule the next. The background thread then
takes and releases `env_mutex` for ever, and weak fairness does not even let a client's
`Schedule` for `d2` in. What the code does guarantee is `QueuedIsRun`: once `d2` is in the
queue it is run, since what `d1` posts comes behind it. `AcceptedIsCarriedOut` goes back to
the moment the flag is set, and says so under a condition: `FairEnvMutex`, strong fairness
of what threads do at `env_mutex`, that is a mutex which starves none of its contenders.
No specification assumes it, only this property does. What it concludes is `Fairness` of
`Compaction`: strong fairness of `Begin(d)`, which the compacting of another database
disables again and again, and weak fairness of `End(d)`.

**Deadlock** is checked in `env`. The database runs stop when the clients have
used up `MaxCalls`, the list runs when the nodes are used up or a call crashed,
so it is not checked there; that no thread is stuck half-way is what `SetReturns`,
`CloseReturns` and `NonEmptyIsCompacted` say. In `race` the process stops
when `malloc` fails. In `files` a crash is possible in every state, so its deadlock
check cannot fail; nothing there waits for anything.

The definitions marked "mutant" in the modules are plausible bugs: each replaces
the definition below it, and makes the property it was written for fail.

## 4. The proofs

`EnvDepend_proofs` proves for `EnvSpec`, any set of clients and tasks and any
`QueueBound`: `EnvTypeCorrect`, `NeverLosesWakeup`, `MutexFollowsCode`. The
inductive invariant `EnvInv` adds where each thread can be, that the background
thread has a task in hand exactly from `BGTake` to `TaskReturn`, and that a
caller of `Schedule` brings a task. The case that matters is `SchedulePushInv`:
a waiting background thread implies an empty queue, so the push makes it one
long and signals. `RunsTasksInOrder` is the refinement of `TaskRunner` without its
fairness: `SchedulePush`, `BGTake` and `TaskReturn` map to `Post`, `Execute` and
`Finish`, every other step to a stutter, and the invariant says that nothing is in
hand when `BGTake` happens.

`DatabasePosix_proofs` proves for `Spec`, any clients, any databases, any
number of calls, any counter width: `TypeCorrect`, `SchedulesOnce`,
`NeverFailsAssertion`, `NeverUsedAfterClose`, `DestructorNotForgotten`. None of
the properties is inductive by itself. `DbInv` adds

* `Control`: which places a client and the background thread can be at, and that
  a thread is inside `Schedule` exactly at `mc_call`, with its own object;
* `ScheduleMutex`, `CompactMutex`: each mutex is owned exactly between lock and
  unlock;
* `StillUnscheduled`: between test and set of the flag nobody else sets it. This
  is what `schedule_mutex` is for, and why the reset without it does no harm;
* `Closing`: the destructor is alone with its object.

From these, a schedule is handed on from `MaybeCompact` to the queue to
`CompactWork` without being doubled or dropped (`ScheduledOnce`); the destructor
leaves only when the flag is FALSE and it owns `compact_mutex`, hence nothing
refers to the object (`NoUseAfterClose`). There is one lemma per action, with one
step per conjunct.

`KeepsPromise` is the refinement of `Compaction`, without its fairness. The place of
a database in `Compaction` is `Phase(d)`: closed, idle, pending or compacting, read
off the object, the flag and the place of the background thread. `Open`, `McSchedule`,
`CwLock`, `CwReset` and `CloseFree` are `Open`, `Accept`, `Begin`, `End` and `Close` of
`Compaction`, everything else is a stutter. That a schedule is accepted by a database that
is idle, that the one compacted has the flag set, and that the destructor frees only an
idle one, is `DbInv`.

`EnvFiles_proofs` proves for `FilesSpec`, any clients and names, any finite set of
objects and any bounds: `FilesTypeCorrect`, `OneEnvironmentCorrect`,
`SyncedIsDurableCorrect`, `NothingLostCorrect`, `DescriptorsCorrect`. The first
lemmas are about counting: `BytesOf` grows with the prefix it counts in, and what
`Written` appends adds to the bytes of its object and to those of no other. The
inductive invariant `FilesInv` adds

* `Once`: the instance is built once, and every client has it or nothing;
* `Born`: an object that is yet to be made has no byte in any file (so that it
  starts with nothing lost), one that was made has a file that exists, and no more
  in its buffer than was appended.

`OneObjectStep` says that a call which changes one object and lets the files grow
keeps the invariant if that object does; `AppenderStep` that an appender does so if
the bytes it passes on balance, and `Sync` vouches for no more than `NothingLost`
shows to be in the file. A crash shortens files, but not below `disk`, and counts of
a prefix depend on the prefix only (`BytesOfSame`).

`EnvFilesSizes_proofs` proves `MappingsStayInFile` and `ReadsOfMappings`. What `Read`
copies from a mapping is computed modulo `SizeModulus`, from a length that must itself be
less (`CopiedOf`). `FilesAssumption` bounds what one object appends, not what a file
contains, so the theorem needs that no file is longer than what all objects together
appended: `SizesInv` adds that the bytes of an
object are in its own file only, that those in the file and those in the buffer are no
more than were appended (`NothingLost` says equal, but only while no write failed), and
that a file does not get shorter than its mapping. That a file has no more bytes than
its objects have appended together is an injection, of positions in the file into
objects and numbers, not an induction on the objects.

`SkipList_proofs` has two parts, both for any keys, values, nodes and number of levels.
The first is about operations that do not include `Delete` (`NoDeletes`):
`LevelsStayAscending`, `LevelsStayNested`, `AscentNeverHangs`, `CountIsRight`, and the
refinement of `KeyValueMap`, `ListIsMap`. The invariant
`ListInv` is local: on each level, each node that is high enough, and `dummyHead`, is
linked to the node of the next key among those that are high enough (`Successor`), or
to `dummyTail`; a node is NULL above its height; keys differ. What the walks compute
then has to be shown. They are recursive functions, and the steps are

* a function that satisfies the defining equation exists: the lemma exhibits it (for a
  walk, the last place whose key is smaller; for the descent and the ascent, that on each
  level), so that the `CHOOSE` behind the definition has something to choose;
* every function that satisfies the equation has the property: if one had not, take the
  smallest place, or level, where it fails; the equation leads to one still smaller. The
  measure of a walk is the key, which ascends and is bounded, that of the others the level.

The first bug, `list_null`, is in these proofs: the ascent from a node that is too low
reaches NULL, and the lemma on `SetInsert` has two outcomes, `Fails` (the call crashes,
nothing is changed) and `Inserts`. `AscentNeverHangs` says that the third one, an endless
loop, is not possible. `NoDeletes` is necessary: with `Delete` neither the successors on
the upper levels nor the refinement survive, as `list_hang` shows. `CountIsRight` assumes
in addition that there are fewer nodes than `size_t` has values (`HeapFits`). TLC checked
`ListInv` on the instance of the `list` run before it was proved.

The walks are treated in general first (`Levelled(S)`): `S[l]` is any choice of the nodes of
level `l` that ascends along the links, and a node that is not in it has no link there or one
into the level. `ListInv` is the case that `S[l]` is all nodes of height `l` or more. Between the
steps of a `Set` it is the nodes that the writer has published on `l` so far, and the same
lemmas are used again below.

The second part holds with `Delete`: `ListTypeCorrect`, `SearchesEnd`, `LinksNeverDangle`,
`SetsAreReadBack` and `SizesKeepContract`. A deleted node stays linked on the levels where it
was the last, and later nodes are linked behind it, so no level is a sorted list of anything
and the proof must do without the order of the keys. `LinkInv` says

* a link of level `l` leads to an allocated node that is that high and is linked on each of
  its levels (`Targets`), or to `dummyTail`, or is NULL where its node has no such level;
* the links of a level make no circle: there are ranks of the nodes that descend along them
  (`Ranks`). An insertion has to find new ranks, which the proof does by doubling the old
  ones, so that there is room behind every place; unlinking keeps those there are.

By the ranks, every walk ends, whatever keys it meets, and it ends at a node of its level. From
there the theorems part:

* a search, the walk of `Delete` and the loop of `Clear` only look at links of such nodes on
  their own levels, none of which is NULL (`SearchesEnd`); all of them are allocated, and
  `Clear` leaves no link to what it frees (`LinksNeverDangle`, for a finite heap, without
  which `ReachableFrom` is not defined);
* the search after an insertion does, level by level, what the search before it did, until it
  meets the new node (`DescentNext`): it meets it at the latest on level 0, where the node was
  linked behind the place at which that search had ended (`SetsAreReadBack`);
* `Chain`, what `Clear` will count, is the least set that the links of level 0 lead through
  from `dummyHead`. An insertion adds its node to it, unless it was linked behind one that is
  not in it, and unlinking takes out at most the deleted node. That the former happens only
  after a `Delete` is `WholeChain`: until the first one, `Chain` has all nodes that are linked.
  This is `SizesKeepContract`, for a heap of no more than `MaxNodes` nodes (`HeapIsBounded`):
  the sizes that `DatabasePosix` computes with are those of the list.

`SharedSkipList_proofs` proves `SharedTypeCorrect`, `ReadersSafe` and `WalksAscend`
for any number of readers and writers, with `Delete` and between any two loads and
stores, provided the callers do what the code expects of them (`CallersExclude`: calls
that change the list exclude each other, and a `Clear` excludes readers; the constant of
the `race` run satisfies it, and `race_clear` is what happens without it). `SharedInv` says

* of a thread: which locals it has at each place, and that a key behind it is smaller
  than the one it looks for;
* of a `Set` with a new node: what is `Filled` (the node's own link is copied) and what is
  `Published` (the node before leads to it) level by level, in this order;
* of the list: a link of level 0 from a live and filled node leads to a live node of greater
  key or to `dummyTail`; on the upper levels too it leads to `dummyTail` or to a live node
  that is published on that level, though a `Delete` may have unlinked it on others.

Without a `Clear` beside it nothing that a reader stands on is freed, and a link that it
follows was filled before it was published (`SetCopies` before `SetPublishes`), which is
all that keeps it from NULL. `SharedSkipListLocked_proofs` adds the writers, `Clear`
included: `LockedTableIsSafe` says of the lock that `dbimpl/db_posix.cpp:42` leaves as a
comment that it would be enough to rule out what `race_clear` finds. `LockedInv` has to
say why `Clear` itself meets no freed node although it frees along level 0 while other
links still lead to what it has freed: what it has not reached is alive and linked in
ascending order to the live (`Onward`). TLC checked `SharedInv` on the instance of the
`race` run, all 1,132,034 states, before it was proved.

`SharedSkipListHistory_proofs` is about calls that take many steps while the list changes.

* `WalksAreComplete` holds with `Delete`, under `CallersExclude`: an iteration that returns has
  visited every key that was on level 0 all the time. `WalkInv` says that such a key has been
  visited or is ahead of the reader (`WalkOK`), which may stand on a node that was unlinked
  meanwhile. What is ahead is the recursive `ChainFrom`. It is defined in every state, since
  keys ascend and are bounded, and comparing it on both sides of a store shows that the store
  adds the new node to it or takes the deleted one out, and nothing else.
* `GetsAnswerTruly` holds without `Delete`, under `CallersExclude`: a `Get` answers with what a
  `Get` alone would have given at some moment since it began. `FindInv` says that the nodes
  published on a level ascend (`LevelsOK`), between the steps of a `Set` too, whose node is
  published from level 0 upwards, and of the reader (`GetOK`) that the moments it has seen include
  the present one, that it stands before its key, and that it gives up only where the
  key is not on level 0: at such a moment a `Get` alone would have found nothing either.

`ListIsAtomic` in `SharedSkipListLocked_proofs` is the refinement of `SkipList` by
`SharedSkipList` (`ImplementsList`), under `HeapFits`, `NoDeletes` and `CallersExclude`: what
the writers do in many steps, with readers inside, is one step of `SkipList` when the call
returns, and nothing before. The mapping takes `committed`, what the list was when the last
changing call returned. `AtomicInv` says what has become of it since:

* in no call that changes it the list is `committed`;
* during an insertion the levels below the current one have the new node linked behind
  `Spot(l, k)`, the place where the keys smaller than `k` end, the others are as they were
  (`NewNode`, `OtherNodes`), and the writer stands at the spot. That the ascent
  reaches it there, or reaches NULL exactly when the atomic insertion of `SkipList` does
  (`Stuck`), makes a failure of the many steps one of the single step;
* during `Clear` what is left of level 0 are the nodes from some key on, the counter
  is their number (`Freeing`), and the first is where the head leads.

With these the last step of a call equals, field by field, the memory that `Linked` or
`Clear` builds from `committed`. `C` is an instance of `SkipList_proofs` over `committed`; it
lends its lemmas on what a whole search and a whole ascent compute.

The proofs rest on `EnvAssumption`, `SizeAssumption`, `DbAssumption`, `FilesAssumption`
and the assumptions of the two skip lists: threads and model values are distinct, numbers
are natural, there are finitely many file objects, all they can append is less than
`size_t` can count, a missing file is not a content, the table's bound is smaller than the
modulus. `raced` makes the tables arbitrary, so the theorems on the database cover
executions with data races on the table as far as they damage only its size.

Only model-checked:

* liveness, the fairness of `Compaction` and of `TaskRunner` included: fairness and ENABLED are out of the prover's reach;
* `GetAnswersTruly` and `ImplementsList` with `Delete`, checked in `race` and proved without:
  both compare with what a search of the list alone would find, and the invariant that says
  which keys that misses was not found. What `race` shows of them is not more than its bounds.

Refuted: `NeverMeetsKey` with `Delete`, which is proved as long as nothing is deleted
(`AscentNeverHangs`) and false otherwise (`list_hang`). With `Delete` the keys have no order
on the upper levels, since a later node may be linked behind one that is itself out of reach
below, and is missed by searches from then on. (The links of level 0 do ascend: that is in
`SharedInv`.) The shortest sequence known takes eight nodes on three levels, more than the
bounds of `list_delete`, where TLC does not find it: this is why `list_hang` fixes the calls and
leaves only the heights to TLC.

Induction over data by the theorems of the library is out of reach, since they take an
operator as a parameter; the argument by the smallest counterexample above takes its place
where a measure in the natural numbers exists.

## 5. Not modelled

* `Posix_RandomAccessFile` (`dbimpl/envdepend_posix.cpp:74-86`, "Someday, we will use
  it"): nothing makes one, and nothing can, since its `Read` is `const` and so leaves
  the `Read` of the interface abstract.
* `GetTime` returns 0; `_cmpCount` only counts; `reallocate` has no caller; `Open2`
  is a stub without a return statement.
* What `PrintStatis` prints; it goes on until NULL and so visits `dummyTail` as well, whose
  key and value are NULL (`db/skiplist.h:138-139`), and what a stream does with a NULL
  `char*` is not modelled. Nor is the comparator for other types than the keys of
  the table.
* Key and value memory: the list stores the caller's pointers, a key or value that
  the caller changes is outside the models.
* Two writers inside one list, except a `Set` and a `Clear` in `race_clear`: the
  code does not survive it, and `DatabasePosix` records it as a race and leaves the
  size of that table arbitrary.
* `~DataBase_Posix` does not delete `_memTable`; the leak is not modelled.
* `coreobject`, `compact.h`, `supervisor.h` (declarations), tests, build files,
  `Pre-built.2` (third-party).

## 6. Plan

Done: `Port`, `EnvDepend`, `TableSize`, `DatabasePosix` with their abstract
specifications, the safety proofs and both safety refinements; `SkipList` with
`KeyValueMap`, its proofs without `Delete` and, as far as the list keeps its promises
then, with it; `SharedSkipList`, the proofs of its safety, of what its readers find, and
of its refinement of `SkipList` without `Delete`; `EnvFiles` and its proofs.

What is left, in this order:

1. `GetAnswersTruly` and `ImplementsList` with `Delete`: which nodes a search can still
   reach on every level, after any `Delete`.
2. Of `DatabasePosix`, that a database that is only set never underflows.
