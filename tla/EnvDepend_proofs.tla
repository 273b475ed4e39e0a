-------------------------- MODULE EnvDepend_proofs --------------------------
(***************************************************************************)
(* The safety of the environment for any number of client threads, any     *)
(* tasks and any bound on the queue.  EnvInv is inductive: where the       *)
(* background thread is determines whether it owns env_mutex, whether it   *)
(* runs a task and whether it may be waiting.                              *)
(***************************************************************************)
EXTENDS EnvDepend, TLAPS

\* A client is inside Schedule or outside the environment; only the background
\* thread visits the places of BGThread, and only once it was started.
Places ==
  /\ \A t \in Clients : loc[t] \in {"out", "lock", "push"}
  /\ loc[BG] # "out"
  /\ BGIsRunning \/ loc[BG] = "none"

\* The background thread has a task in hand from BGTake to TaskReturn, calls of
\* Schedule by that task included.
InHand == running # NoTask <=> loc[BG] \in {"task", "lock", "push"}

\* Whoever is inside Schedule brings a task along.
Brought == \A t \in Threads : loc[t] \in {"lock", "push"} => item[t] \in Tasks

EnvInv == EnvTypeOK /\ Places /\ InHand /\ Brought /\ EnvMutexOwned /\ NoLostWakeup

-----------------------------------------------------------------------------
(* One lemma per handler.  SchedulePush is the case that matters: it signals *)
(* only when its push made the queue one long, which is enough because the   *)
(* background thread waits on an empty queue only.                           *)

\* Initially nobody is inside the environment.
LEMMA EnvInitInv == EnvInit => EnvInv
<1> SUFFICES ASSUME EnvInit PROVE EnvInv
  OBVIOUS
<1> USE EnvAssumption DEF EnvInit, FreshMutex, NoWaiters, Threads
<1>1. EnvTypeOK
  <2>1. taskQue \in Seq(Tasks)
    OBVIOUS
  <2>2. loc \in [Threads -> {"out", "lock", "push", "none", "loop", "test", "wait", "task"}]
    OBVIOUS
  <2>3. QED
    BY <2>1, <2>2 DEF EnvTypeOK
<1>2. Places /\ InHand /\ Brought /\ EnvMutexOwned /\ NoLostWakeup
  BY DEF Places, InHand, Brought, EnvMutexOwned, NoLostWakeup
<1>3. QED
  BY <1>1, <1>2 DEF EnvInv

\* Calling Schedule touches nothing but the caller.
LEMMA CallScheduleInv ==
  ASSUME EnvInv, NEW t \in Threads, NEW k \in Tasks, CallSchedule(t, k)
  PROVE  EnvInv'
BY EnvAssumption
   DEF CallSchedule, Outside, EnvInv, EnvTypeOK, Places, InHand, Brought, EnvMutexOwned,
       NoLostWakeup, Threads

\* Schedule locks env_mutex.
LEMMA ScheduleLockInv ==
  ASSUME EnvInv, NEW t \in Threads, ScheduleLock(t)
  PROVE  EnvInv'
BY EnvAssumption
   DEF ScheduleLock, CanLock, EnvInv, EnvTypeOK, Places, InHand, Brought, EnvMutexOwned,
       NoLostWakeup, Threads

\* The background thread locks, waits, is woken, takes a task or returns from one.
LEMMA BGStepInv ==
  ASSUME EnvInv, BGStep \/ BGSpurious \/ TaskReturn
  PROVE  EnvInv'
<1> USE EnvAssumption DEF EnvInv, EnvTypeOK, Places, InHand, Brought, EnvMutexOwned,
                          NoLostWakeup, Threads
<1>1. CASE BGLock
  BY <1>1 DEF BGLock, CanLock
<1>2. CASE BGWait
  BY <1>2 DEF BGWait, AfterWait
<1>3. CASE BGRelock
  BY <1>3 DEF BGRelock, CanLock
<1>4. CASE BGTake
  BY <1>4 DEF BGTake
<1>5. CASE BGSpurious
  BY <1>5 DEF BGSpurious
<1>6. CASE TaskReturn
  BY <1>6 DEF TaskReturn
<1>7. QED
  BY <1>1, <1>2, <1>3, <1>4, <1>5, <1>6 DEF BGStep

\* The push moves its caller out of Schedule and may create the background thread.
LEMMA PushMoves ==
  ASSUME EnvInv, NEW t \in Threads, SchedulePush(t)
  PROVE  /\ loc' \in [Threads -> {"out", "lock", "push", "none", "loop", "test", "wait",
                                    "task"}]
         /\ loc'[t] = Outside(t)
         /\ \A u \in Threads \ {t} :
              loc'[u] = loc[u] \/ (u = BG /\ loc[u] = "none" /\ loc'[u] \in {"loop", "none"})
<1> DEFINE bgs == IF BGIsRunning THEN {loc[BG]} ELSE ThreadAfterCreate
<1>1. PICK bg \in bgs : loc' = [[loc EXCEPT ![BG] = bg] EXCEPT ![t] = Outside(t)]
  BY DEF SchedulePush
<1>2. (bg \in {"loop", "none"} /\ loc[BG] = "none") \/ bg = loc[BG]
  BY DEF ThreadAfterCreate, EnvInv, Places
<1>3. QED
  BY <1>1, <1>2 DEF Outside, EnvInv, EnvTypeOK, Threads

\* The push: only a background thread that waits on an empty queue is signalled.
LEMMA SchedulePushInv ==
  ASSUME EnvInv, NEW t \in Threads, SchedulePush(t)
  PROVE  EnvInv'
<1> USE EnvAssumption, PushMoves DEF EnvInv, Threads
<1>1. /\ loc[t] = "push"
      /\ BGIsRunning' = TRUE
      /\ taskQue' = Append(taskQue, item[t])
      /\ IF NeedSignal(taskQue') THEN env_cond' \in AfterSignal(env_cond)
                                 ELSE UNCHANGED env_cond
      /\ env_mutex' = NoThread
      /\ item' = [item EXCEPT ![t] = NoTask]
      /\ running' = running
  BY DEF SchedulePush, Pushed
<1>2. item[t] \in Tasks
  BY <1>1 DEF Brought
<1>3. EnvTypeOK'
  BY <1>1, <1>2 DEF EnvTypeOK, AfterSignal
<1>4. Places'
  BY <1>1 DEF Places, Outside
<1>5. InHand'
  BY <1>1 DEF InHand, Outside
<1>6. Brought'
  BY <1>1 DEF Brought, Outside, EnvTypeOK
<1>7. EnvMutexOwned'
  BY <1>1 DEF EnvMutexOwned, Outside
<1>8. NoLostWakeup'
  <2>1. BG \in env_cond => NeedSignal(taskQue')
    BY <1>1, <1>2 DEF NoLostWakeup, NeedSignal, EnvTypeOK
  <2>2. BG \in env_cond' => BG \in env_cond /\ ~NeedSignal(taskQue')
    BY <1>1 DEF AfterSignal, EnvTypeOK
  <2>3. QED
    BY <2>1, <2>2 DEF NoLostWakeup
<1>9. QED
  BY <1>3, <1>4, <1>5, <1>6, <1>7, <1>8

\* What happens outside the environment.
LEMMA EnvUnchangedInv == EnvInv /\ UNCHANGED envVars => EnvInv'
BY DEF envVars, EnvInv, EnvTypeOK, Places, InHand, Brought, EnvMutexOwned, NoLostWakeup

-----------------------------------------------------------------------------
\* Every step of the environment preserves the invariant.
LEMMA EnvNextInv == EnvInv /\ [EnvNext]_envVars => EnvInv'
<1> SUFFICES ASSUME EnvInv, [EnvNext]_envVars PROVE EnvInv'
  OBVIOUS
<1>1. ASSUME NEW t \in Threads, NEW k \in Tasks, CallSchedule(t, k) PROVE EnvInv'
  BY <1>1, CallScheduleInv
<1>2. ASSUME NEW t \in Threads, EnvStep(t) PROVE EnvInv'
  BY <1>2, ScheduleLockInv, SchedulePushInv, BGStepInv DEF EnvStep
<1>3. CASE BGSpurious
  BY <1>3, BGStepInv
<1>4. CASE UNCHANGED envVars
  BY <1>4, EnvUnchangedInv
<1>5. QED
  BY <1>1, <1>2, <1>3, <1>4 DEF EnvNext

\* The invariant holds in every execution of the environment.
THEOREM EnvInvariant == EnvSpec => []EnvInv
BY EnvInitInv, EnvNextInv, PTL DEF EnvSpec

\* The variables of the environment keep their types.
THEOREM EnvTypeCorrect == EnvSpec => []EnvTypeOK
<1>1. EnvInv => EnvTypeOK
  BY DEF EnvInv
<1>2. QED
  BY <1>1, EnvInvariant, PTL

\* No wakeup is lost: Schedule's signal on "size() == 1" (envdepend_posix.cpp:218)
\* never leaves the background thread blocked while a task is queued.
THEOREM NeverLosesWakeup == EnvSpec => []NoLostWakeup
<1>1. EnvInv => NoLostWakeup
  BY DEF EnvInv
<1>2. QED
  BY <1>1, EnvInvariant, PTL

\* env_mutex is held exactly inside the critical sections of Schedule and BGThread,
\* never while a task runs.
THEOREM MutexFollowsCode == EnvSpec => []EnvMutexOwned
<1>1. EnvInv => EnvMutexOwned
  BY DEF EnvInv
<1>2. QED
  BY <1>1, EnvInvariant, PTL

-----------------------------------------------------------------------------
(* The environment implements TaskRunner.                                    *)

\* A push posts the item its caller brought, BGTake executes the first one, and
\* TaskReturn finishes it; the background thread has none in hand when it takes one.
LEMMA RunnerStep == EnvInv /\ [EnvNext]_envVars => [Runner!Next]_Runner!runnerVars
<1> SUFFICES ASSUME EnvInv, [EnvNext]_envVars PROVE [Runner!Next]_Runner!runnerVars
  OBVIOUS
<1> USE DEF Runner!runnerVars
<1>1. ASSUME NEW t \in Threads, NEW k \in Tasks, CallSchedule(t, k)
      PROVE  UNCHANGED Runner!runnerVars
  BY <1>1 DEF CallSchedule
<1>2. ASSUME NEW t \in Threads, ScheduleLock(t)
      PROVE  UNCHANGED Runner!runnerVars
  BY <1>2 DEF ScheduleLock
<1>3. ASSUME NEW t \in Threads, SchedulePush(t)
      PROVE  Runner!Next
  <2>1. item[t] \in Tasks
    BY <1>3 DEF SchedulePush, EnvInv, Brought
  <2>2. Runner!Post(item[t])
    BY <1>3 DEF SchedulePush, Pushed, Runner!Post
  <2>3. QED
    BY <2>1, <2>2 DEF Runner!Next
<1>4. CASE BGLock \/ BGWait \/ BGRelock \/ BGSpurious
  BY <1>4 DEF BGLock, BGWait, BGRelock, BGSpurious
<1>5. CASE BGTake
  <2>1. running = NoTask
    BY <1>5 DEF BGTake, EnvInv, InHand
  <2>2. Runner!Execute
    BY <1>5, <2>1 DEF BGTake, Runner!Execute
  <2>3. QED
    BY <2>2 DEF Runner!Next
<1>6. CASE TaskReturn
  <2>1. running # NoTask
    BY <1>6 DEF TaskReturn, EnvInv, InHand
  <2>2. Runner!Finish
    BY <1>6, <2>1 DEF TaskReturn, Runner!Finish
  <2>3. QED
    BY <2>2 DEF Runner!Next
<1>7. CASE UNCHANGED envVars
  BY <1>7 DEF envVars
<1>8. QED
  BY <1>1, <1>2, <1>3, <1>4, <1>5, <1>6, <1>7 DEF EnvNext, EnvStep, BGStep

\* Tasks are executed one at a time, each once, in the order of the calls of Schedule.
THEOREM RunsTasksInOrder == EnvSpec => Runner!Spec
<1>1. EnvInit => Runner!Init
  BY DEF EnvInit, Runner!Init
<1>2. QED
  BY <1>1, RunnerStep, EnvInvariant, PTL DEF EnvSpec, Runner!Spec

=============================================================================
