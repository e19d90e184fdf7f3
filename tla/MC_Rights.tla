------------------------------ MODULE MC_Rights ------------------------------
(***************************************************************************)
(* What the node answers when the request names no level: the rights to     *)
(* bake the next block, and to endorse the block itself.                    *)
(***************************************************************************)
EXTENDS RightsProps

MCAhead == [t \in Table |-> IF t = "baking" THEN 1 ELSE 0]

\* Bounds of the exploration: no switch or failure beside an unreadable answer, two
\* such answers only of one coming level, and no more pending writes than those of a
\* page and one of a run, fewer beside the second of those answers.
FewTroubles ==
    /\ unread # {} => reorgs + failures = 0
    /\ \A u, v \in unread : u # v => u[2] = v[2] /\ u[3] = Future /\ v[3] = Future

FewPending == Cardinality(writes) <= IF Cardinality(unread) = 2 THEN 1 ELSE 3
=============================================================================
