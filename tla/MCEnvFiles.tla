----------------------------- MODULE MCEnvFiles -----------------------------
(***************************************************************************)
(* The files of the environment for TLC.  Threads and objects are          *)
(* interchangeable: no formula names one of them or orders them.           *)
(***************************************************************************)
EXTENDS EnvFiles, TLC

Symmetry == Permutations(Objects) \cup Permutations(Clients)

=============================================================================
