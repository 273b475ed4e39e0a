----------------------------- MODULE Compaction -----------------------------
(***************************************************************************)
(* What a database promises about its compactions.  Each database is       *)
(* closed, or open and "idle", with a compaction "pending" or being        *)
(* "compacting".  A schedule is accepted only when none is outstanding,    *)
(* an accepted one leads to exactly one compaction, one database at a      *)
(* time, and a database is closed only when nothing is outstanding.        *)
(***************************************************************************)
CONSTANT DBs

VARIABLE phase

Init == phase = [d \in DBs |-> "closed"]

Move(d, from, to) == phase[d] = from /\ phase' = [phase EXCEPT ![d] = to]

Open(d) == Move(d, "closed", "idle")
Accept(d) == Move(d, "idle", "pending")
Begin(d) == (\A e \in DBs : phase[e] # "compacting") /\ Move(d, "pending", "compacting")
End(d) == Move(d, "compacting", "idle")
Close(d) == Move(d, "idle", "closed")

Next == \E d \in DBs : Open(d) \/ Accept(d) \/ Begin(d) \/ End(d) \/ Close(d)

Spec == Init /\ [][Next]_phase

\* Every accepted compaction is eventually carried out.  Strong fairness: another
\* database's compacting disables Begin(d) again and again, and must not starve d.
Fairness == \A d \in DBs : SF_phase(Begin(d)) /\ WF_phase(End(d))

=============================================================================
