---------------------------- MODULE MCSkipList ----------------------------
(* The skip list for TLC. *)
EXTENDS SkipList

=============================================================================
