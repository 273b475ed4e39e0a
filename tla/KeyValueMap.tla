---------------------------- MODULE KeyValueMap ----------------------------
(***************************************************************************)
(* What the memory table promises about its content: a map from keys to    *)
(* values and, for the last call that returned, its result code (qlevel.h, *)
(* without the prefix QLEVEL_) and the value handed back.                  *)
(***************************************************************************)
CONSTANTS Keys, Values, NULL

VARIABLES map, last

mapVars == <<map, last>>

Answer(op, k, v, result) == [op |-> op, key |-> k, value |-> v, result |-> result]
Present(k) == map[k] # NULL
EmptyMap == [k \in Keys |-> NULL]

Init == map = EmptyMap /\ last = Answer("new", NULL, NULL, "SUCCESS")

Set(k, v) ==
  /\ last' = Answer("set", k, v, IF Present(k) THEN "DATA_UPDATE" ELSE "DATA_INSERT")
  /\ map' = [map EXCEPT ![k] = v]

Get(k) ==
  /\ last' = Answer("get", k, map[k], IF Present(k) THEN "SUCCESS" ELSE "NOT_FOUND")
  /\ UNCHANGED map

Delete(k) ==
  /\ last' = Answer("delete", k, NULL, IF Present(k) THEN "DATA_DELETE" ELSE "NOT_FOUND")
  /\ map' = [map EXCEPT ![k] = NULL]

Clear ==
  /\ last' = Answer("clear", NULL, NULL, "SUCCESS")
  /\ map' = EmptyMap

Next ==
  \/ \E k \in Keys : Get(k) \/ Delete(k) \/ \E v \in Values : Set(k, v)
  \/ Clear

Spec == Init /\ [][Next]_mapVars

=============================================================================
