----------------------------- MODULE TableSize -----------------------------
(***************************************************************************)
(* What the memory table promises about its size, abstracted from the skip *)
(* list (db/skiplist.h).  A table is a record of                           *)
(*   nodeCount  the size_t counter NodeNum() returns,                      *)
(*   chain      the nodes Clear() will find: those linked on level 0,      *)
(*   deleted    a Delete has found a node since the list was last emptied. *)
(* The counter and the chain part company because Delete decrements the    *)
(* counter but leaves the last node of a level linked there, and because   *)
(* Set may then link a node behind one that level 0 no longer reaches.     *)
(***************************************************************************)
EXTENDS Naturals

CONSTANTS
  SizeModulus,  \* 2^w for the w bits of size_t
  MaxNodes      \* bound on the nodes linked on level 0

ASSUME SizeAssumption ==
  /\ SizeModulus \in Nat
  /\ MaxNodes \in Nat \ {0}
  /\ MaxNodes < SizeModulus

Sizes == 0..(SizeModulus - 1)

Tables == [nodeCount : Sizes, chain : 0..MaxNodes, deleted : BOOLEAN]

EmptyTable == [nodeCount |-> 0, chain |-> 0, deleted |-> FALSE]

NotCounted(n, k) == n                    \* mutant: nodeCount++ is missing
Plus(n, k) == (n + k) % SizeModulus
Minus(n, k) == (n + (SizeModulus - k)) % SizeModulus

\* Some node may be found: one on level 0, or one a Delete left on a higher level.
MayFind(tab) == tab.chain > 0 \/ tab.deleted

\* Set updates the node it finds, or links a new one and counts it.
AfterSet(tab) ==
  {u \in {tab} : MayFind(u)}
  \cup {[tab EXCEPT !.nodeCount = Plus(@, 1), !.chain = c] :
          c \in {d \in 0..MaxNodes : d = tab.chain + 1 \/ (tab.deleted /\ d = tab.chain)}}

\* Delete returns NOT_FOUND, or counts one node less, unlinked from level 0 or not.
AfterDelete(tab) ==
  {tab} \cup {[nodeCount |-> Minus(tab.nodeCount, 1), chain |-> c, deleted |-> TRUE] :
                c \in {d \in 0..MaxNodes : /\ MayFind(tab)
                                           /\ d = tab.chain \/ d + 1 = tab.chain}}

\* Clear counts one node less per node of level 0 and resets the heads.
AfterClear(tab) ==
  {[nodeCount |-> Minus(tab.nodeCount, tab.chain), chain |-> 0, deleted |-> FALSE]}

=============================================================================
