-------------------------- MODULE MCDatabasePosix --------------------------
(***************************************************************************)
(* Databases and environment together, for TLC, and the fairness they      *)
(* promise in Compaction.                                                  *)
(***************************************************************************)
EXTENDS DatabasePosix

\* A compaction that is in the queue is carried out, although the one of another
\* database may schedule itself again and again: what is posted later is run later
\* (envdepend_posix.cpp:216, 239).
QueuedIsRun == \A d \in DBs : Queued(d) ~> running = d /\ pc[BG] = "clear"

\* What FairSpec does not assume: a thread that asks for env_mutex again and again
\* finds it free is let in some time, whoever contends for it.
FairEnvMutex == \A t \in Threads : SF_vars(EnvOnlyStep(t))

\* Under a fair env_mutex every schedule that a database accepts is carried out, from
\* the moment the flag is set: neither of two databases starves the other.
AcceptedIsCarriedOut == FairEnvMutex => Promise!Fairness

=============================================================================
