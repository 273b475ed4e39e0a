-------------------------- MODULE MCSharedSkipList --------------------------
(* The shared skip list for TLC. *)
EXTENDS SharedSkipList

=============================================================================
