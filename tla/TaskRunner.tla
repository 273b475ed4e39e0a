----------------------------- MODULE TaskRunner -----------------------------
(***************************************************************************)
(* What a user of the environment may rely on (qenvdepend.h: "Just         *)
(* Schedule, can not guaranteen task will run immediately"): posted tasks  *)
(* are executed one at a time, each exactly once, in the order of posting, *)
(* and every one of them is eventually executed.                           *)
(***************************************************************************)
EXTENDS Sequences

CONSTANTS Tasks, NoTask

VARIABLES posted, executing

runnerVars == <<posted, executing>>

Init == posted = << >> /\ executing = NoTask

Post(k) == posted' = Append(posted, k) /\ UNCHANGED executing

Execute ==
  /\ executing = NoTask
  /\ posted # << >>
  /\ executing' = Head(posted)
  /\ posted' = Tail(posted)

Finish ==
  /\ executing # NoTask
  /\ executing' = NoTask
  /\ UNCHANGED posted

Next == (\E k \in Tasks : Post(k)) \/ Execute \/ Finish

Spec == Init /\ [][Next]_runnerVars

FairSpec == Spec /\ WF_runnerVars(Execute) /\ WF_runnerVars(Finish)

=============================================================================
