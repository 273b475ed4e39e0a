---------------------------- MODULE MCListHang ----------------------------
(***************************************************************************)
(* The skip list with one caller, for TLC.  The calls are fixed, since all *)
(* sequences of this length are out of TLC's reach; the heights are not.   *)
(***************************************************************************)
EXTENDS SkipList, Sequences

VARIABLE made  \* how many of the calls were made

Caller ==
  <<<<"set", 1>>, <<"set", 2>>, <<"set", 7>>, <<"delete", 1>>, <<"set", 3>>, <<"delete", 3>>,
    <<"set", 4>>, <<"set", 5>>, <<"set", 6>>, <<"delete", 3>>, <<"set", 5>>>>

Makes(op, k) ==
  \/ op = "set" /\ \E v \in Values : Set(k, v)
  \/ op = "delete" /\ Delete(k)

HangInit == ListInit /\ made = 0

HangNext ==
  /\ made < Len(Caller)
  /\ made' = made + 1
  /\ Makes(Caller[made'][1], Caller[made'][2])

HangSpec == HangInit /\ [][HangNext]_<<listVars, made>>

=============================================================================
