---------------------------- MODULE MCEnvDepend ----------------------------
(***************************************************************************)
(* The environment alone, for TLC, against the contract of TaskRunner.     *)
(***************************************************************************)
EXTENDS EnvDepend

\* The environment implements the contract: FIFO, one at a time, exactly once,
\* and, the background thread having been created, every task is executed.
ImplementsRunner == Runner!FairSpec

=============================================================================
