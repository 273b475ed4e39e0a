----------------------------- MODULE EnvDepend -----------------------------
(***************************************************************************)
(* The environment of dbimpl/envdepend_posix.cpp: a process-wide queue of  *)
(* tasks (_taskQue) guarded by env_mutex, and one background thread that   *)
(* the first Schedule creates and that runs the tasks one after another.   *)
(* Any client thread may call Schedule, and so may the task the background *)
(* thread is running (CompactWork -> MaybeCompact -> Schedule does).       *)
(*                                                                         *)
(* loc[t] is where thread t is inside the environment's code:              *)
(*   "out"          a client, not inside Schedule                          *)
(*   "lock", "push" in Schedule, before the lock / holding env_mutex       *)
(*   "none"         the background thread does not exist yet               *)
(*   "loop"         about to lock env_mutex at the top of BGThread's loop  *)
(*   "test"         holds env_mutex, testing _taskQue.empty()              *)
(*   "wait"         inside pthread_cond_wait                               *)
(*   "task"         running the task it took, without env_mutex            *)
(***************************************************************************)
EXTENDS Naturals, Sequences, Port

CONSTANTS
  Clients,        \* the threads that call the library
  BG,             \* the background thread
  Tasks,          \* what can be scheduled: a (function, argument) pair
  NoTask,         \* no task: an empty slot
  CreateMayFail,  \* TRUE: pthread_create, whose result is ignored, may fail
  QueueBound      \* bound of the stand-alone specification on Len(taskQue)

ASSUME EnvAssumption ==
  /\ BG \notin Clients
  /\ NoThread \notin Clients \cup {BG}
  /\ NoTask \notin Tasks
  /\ CreateMayFail \in BOOLEAN
  /\ QueueBound \in Nat

Threads == Clients \cup {BG}

VARIABLES
  BGIsRunning,  \* the flag of the class: the thread was started
  taskQue,      \* _taskQue
  env_mutex,    \* owner of env_mutex
  env_cond,     \* threads waiting on env_cond
  loc,          \* thread -> where it is (see above)
  item,         \* thread -> the TaskItem it is scheduling
  running       \* the task the background thread runs

envVars == <<BGIsRunning, taskQue, env_mutex, env_cond, loc, item, running>>

(***************************************************************************)
(* The one instance, built by pthread_once in EnvDepend_Default().         *)
(***************************************************************************)
EnvInit ==
  /\ BGIsRunning = FALSE
  /\ taskQue = << >>
  /\ env_mutex = FreshMutex
  /\ env_cond = NoWaiters
  /\ loc = [t \in Threads |-> IF t = BG THEN "none" ELSE "out"]
  /\ item = [t \in Threads |-> NoTask]
  /\ running = NoTask

\* Where a thread is when it is not inside Schedule and may call it.
Outside(t) == IF t = BG THEN "task" ELSE "out"

(***************************************************************************)
(* Schedule(task, arg): lock, start the thread on the first call, push,    *)
(* signal when the queue was empty, unlock.                                *)
(***************************************************************************)
CallSchedule(t, k) ==
  /\ loc[t] = Outside(t)
  /\ loc' = [loc EXCEPT ![t] = "lock"]
  /\ item' = [item EXCEPT ![t] = k]
  /\ UNCHANGED <<BGIsRunning, taskQue, env_mutex, env_cond, running>>

ScheduleLock(t) ==
  /\ loc[t] = "lock"
  /\ CanLock(env_mutex)
  /\ env_mutex' = t
  /\ loc' = [loc EXCEPT ![t] = "push"]
  /\ UNCHANGED <<BGIsRunning, taskQue, env_cond, item, running>>

PushedEmpty(q, k) == Append(q, NoTask)    \* mutant: the item is pushed unset
PushedFront(q, k) == <<k>> \o q          \* mutant: a stack instead of a queue
Pushed(q, k) == Append(q, k)

SignalLate(q) == Len(q) = 2              \* mutant: the size test is off by one
NeedSignal(q) == Len(q) = 1              \* q: the queue after the push

\* What pthread_create makes of the background thread.
ThreadAfterCreate == IF CreateMayFail THEN {"loop", "none"} ELSE {"loop"}

SchedulePush(t) ==
  /\ loc[t] = "push"
  /\ BGIsRunning' = TRUE
  /\ \E bg \in IF BGIsRunning THEN {loc[BG]} ELSE ThreadAfterCreate :
        loc' = [[loc EXCEPT ![BG] = bg] EXCEPT ![t] = Outside(t)]
  /\ taskQue' = Pushed(taskQue, item[t])
  /\ IF NeedSignal(taskQue') THEN env_cond' \in AfterSignal(env_cond)
                             ELSE UNCHANGED env_cond
  /\ env_mutex' = NoThread
  /\ item' = [item EXCEPT ![t] = NoTask]
  /\ UNCHANGED running

(***************************************************************************)
(* BGThread(): lock; while empty, wait; take the front; unlock; run it.    *)
(***************************************************************************)
BGLock ==
  /\ loc[BG] = "loop"
  /\ CanLock(env_mutex)
  /\ env_mutex' = BG
  /\ loc' = [loc EXCEPT ![BG] = "test"]
  /\ UNCHANGED <<BGIsRunning, taskQue, env_cond, item, running>>

BGWait ==
  /\ loc[BG] = "test"
  /\ taskQue = << >>
  /\ env_mutex' = NoThread
  /\ env_cond' = AfterWait(env_cond, BG)
  /\ loc' = [loc EXCEPT ![BG] = "wait"]
  /\ UNCHANGED <<BGIsRunning, taskQue, item, running>>

\* pthread_cond_wait may also end without a signal.
BGSpurious ==
  /\ BG \in env_cond
  /\ env_cond' = env_cond \ {BG}
  /\ UNCHANGED <<BGIsRunning, taskQue, env_mutex, loc, item, running>>

BGRelock ==
  /\ loc[BG] = "wait"
  /\ BG \notin env_cond
  /\ CanLock(env_mutex)
  /\ env_mutex' = BG
  /\ loc' = [loc EXCEPT ![BG] = "test"]
  /\ UNCHANGED <<BGIsRunning, taskQue, env_cond, item, running>>

BGTakeLocked ==                          \* mutant: the task runs under the lock
  /\ loc[BG] = "test"
  /\ taskQue # << >>
  /\ running' = Head(taskQue)
  /\ taskQue' = Tail(taskQue)
  /\ loc' = [loc EXCEPT ![BG] = "task"]
  /\ UNCHANGED <<BGIsRunning, env_mutex, env_cond, item>>

BGTake ==
  /\ loc[BG] = "test"
  /\ taskQue # << >>
  /\ running' = Head(taskQue)
  /\ taskQue' = Tail(taskQue)
  /\ env_mutex' = NoThread
  /\ loc' = [loc EXCEPT ![BG] = "task"]
  /\ UNCHANGED <<BGIsRunning, env_cond, item>>

TaskReturn ==
  /\ loc[BG] = "task"
  /\ loc' = [loc EXCEPT ![BG] = "loop"]
  /\ running' = NoTask
  /\ UNCHANGED <<BGIsRunning, taskQue, env_mutex, env_cond, item>>

(***************************************************************************)
(* The steps a thread takes by itself once it is inside the environment,   *)
(* and the stand-alone specification, in which any thread that can may     *)
(* call Schedule while the queue is shorter than QueueBound.               *)
(***************************************************************************)
BGStep == BGLock \/ BGWait \/ BGRelock \/ BGTake

EnvStep(t) == ScheduleLock(t) \/ SchedulePush(t) \/ (t = BG /\ (BGStep \/ TaskReturn))

EnvNext ==
  \/ \E t \in Threads, k \in Tasks : Len(taskQue) < QueueBound /\ CallSchedule(t, k)
  \/ \E t \in Threads : EnvStep(t)
  \/ BGSpurious

EnvSpec == EnvInit /\ [][EnvNext]_envVars

\* Every thread that can take its next step eventually does.  A mutex promises no
\* order to the threads that contend for it, so one of them could starve under
\* endless traffic: calls and spurious wakeups are finitely many.
EnvTraffic == BGSpurious \/ \E t \in Threads, k \in Tasks : CallSchedule(t, k)

EnvFairSpec ==
  /\ EnvSpec
  /\ \A t \in Threads : WF_envVars(EnvStep(t))
  /\ <>[][~EnvTraffic]_envVars

-----------------------------------------------------------------------------
EnvTypeOK ==
  /\ BGIsRunning \in BOOLEAN
  /\ taskQue \in Seq(Tasks)
  /\ env_mutex \in Threads \cup {NoThread}
  /\ env_cond \subseteq {BG}
  /\ loc \in [Threads -> {"out", "lock", "push", "none", "loop", "test", "wait", "task"}]
  /\ item \in [Threads -> Tasks \cup {NoTask}]
  /\ running \in Tasks \cup {NoTask}

\* No lost wakeup: the background thread is never blocked on env_cond while a
\* task is queued, although Schedule signals only when the push made the queue
\* one long (envdepend_posix.cpp:218).
NoLostWakeup == BG \in env_cond => taskQue = << >> /\ loc[BG] = "wait"

\* env_mutex is owned exactly by the thread inside its critical section; in
\* particular a running task never owns it, so it may call Schedule.
EnvMutexOwned == \A t \in Threads : env_mutex = t <=> loc[t] \in {"push", "test"}

\* A call of Schedule returns and its task is run in the end, whatever is queued
\* before it and however the callers and the background thread interleave.
ScheduledTaskRuns ==
  \A t \in Threads, k \in Tasks : (loc[t] = "lock" /\ item[t] = k) ~> running = k

-----------------------------------------------------------------------------
\* What TaskRunner calls posted is the queue, and executing the task in hand.
Runner == INSTANCE TaskRunner WITH posted <- taskQue, executing <- running

=============================================================================
