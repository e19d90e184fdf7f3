---------------------------- MODULE RightsProps ----------------------------
(* What the three writers of the rights keep true of the tables they share.  *)
EXTENDS Rights

RightsTypeOK ==
    /\ head \in Block /\ target \in Block \union {NoBlock}
    /\ reorgs \in 0..MaxReorgs
    /\ unread \subseteq Table \X Nat \X Row
    /\ blocks \subseteq Block /\ page \subseteq blocks
    /\ rights \in [Table -> [RightsLevel -> Row]]
    /\ writes \subseteq [table : Table, mode : {"upsert", "insert"}, rows : [RightsLevel -> Row]]
    /\ pc \in {"loop", "fetchHead", "page", "rights", "update"}
    /\ near \subseteq RightsLevel
    /\ updating \subseteq Table
    /\ runs \in [Run -> [at : {"reading", "inserting"},
                         read : SUBSET (Table \union {"head"}),
                         from : Nat, last : Int]]
    /\ failures \in 0..MaxFailures

--------------------------------------------------------------------------
(* The parts of the inductive invariant *)

\* A row that names a block is where the node has the rights it answers for the
\* block, and pages name blocks.
RowsAreOfTheirLevel ==
    \A l \in RightsLevel :
        /\ \A t \in Table : rights[t][l] \in Block => RowLevel(t, rights[t][l]) = l
        /\ \A w \in writes : w.rows[l] \in Block => RowLevel(w.table, w.rows[l]) = l
        /\ \A w \in writes : w.mode = "upsert" => w.rows[l] # Future

OneBlockPerLevel == \A b, c \in blocks : Level(b) = Level(c) => b = c

\* Nothing is indexed above the head, nor are the pages counted from above it.
HeadIsHighest ==
    /\ \A b \in blocks : Level(b) <= Level(head)
    /\ pc \in {"page", "rights"} => target \in Block /\ Level(target) <= Level(head)

\* The update writes to levels that are not indexed, and only while no page is stored.
NearIsAhead ==
    /\ \A l \in near, b \in blocks : Level(b) < l
    /\ pc # "update" => near = {} /\ updating = {}
    /\ pc # "rights" => page = {}

RightsInv ==
    RightsTypeOK /\ RowsAreOfTheirLevel /\ OneBlockPerLevel /\ HeadIsHighest /\ NearIsAhead

--------------------------------------------------------------------------

\* Once a page has told which block was baked or endorsed by the rights of a level,
\* no other writer takes that back while the block is valid: not the update of the
\* next levels, not a scheduled run, not the late upsert of another page.  It is so of
\* the tables for which the node answers with the rights of the block's own level.
RowsKeepTheirBlock ==
    [][\A t \in Table, b \in blocks \intersect blocks' :
        Ahead[t] = 0 /\ rights[t][Level(b)] = b => rights'[t][Level(b)] = b]_vars

\* On one branch and without failures, an indexed block has its rights in such a
\* table as soon as the upserts of its page are through, whatever the others did,
\* unless the answer that had them could not be decoded.
PassedLevelsHaveTheirRights ==
    reorgs = 0 /\ failures = 0 =>
        \A b \in blocks \ page, t \in {t \in Table : Ahead[t] = 0} :
            \/ rights[t][Level(b)] = b
            \/ \E w \in writes : w.table = t /\ w.mode = "upsert" /\ w.rows[Level(b)] = b
            \/ <<t, Level(b), b>> \in unread

\* On one branch all blocks are of it, and no upsert of a page will be refused: what
\* makes PassedLevelsHaveTheirRights inductive.
OneBranch ==
    reorgs = 0 =>
        /\ \A b \in blocks : Extends(head, b)
        /\ target # NoBlock => Extends(head, target)
        /\ \A w \in writes : w.mode = "upsert" => Accepted(w.rows)

\* A level that a scheduled run missed in one table, for it counts from the higher
\* maximum, has rights in both before it is reached: the update makes up for it,
\* except where an answer about the level could not be decoded.
NearFutureIsKnown ==
    pc = "update" /\ updating = {} =>
        \A l \in near, t \in Table : rights[t][l] # NoRow \/ <<t, l, Future>> \in unread

\* What the update has written so far: why NearFutureIsKnown holds at its end.
UpdatedTables ==
    \A t \in Table \ updating, l \in near : rights[t][l] # NoRow \/ <<t, l, Future>> \in unread

\* There are rights of the level, or an answer about it could not be decoded.
HasRights(l) == \E t \in Table : rights[t][l] # NoRow

Covered(l) == HasRights(l) \/ \E t \in Table : <<t, l, Future>> \in unread

CoveredBelow(n) == \A l \in RightsLevel : Level(head) < l /\ l < n => Covered(l)

\* On one branch no coming level is passed over in both tables, but for unreadable
\* answers: what else stops a run stops it before the next partition.
NoLevelIsPassedOver ==
    reorgs = 0 => \A l \in RightsLevel : HasRights(l) => CoveredBelow(l)

\* Why it is so: whatever is written, pending or already asked for leaves no level
\* above the head behind.  A run that has read everything and passed its last level
\* only ends.
HasAllRead(run) == run.read = Table \union {"head"}

NoGap ==
    /\ \A l \in RightsLevel : HasRights(l) => CoveredBelow(l)
    /\ \A r \in Run :
        ~HasAllRead(runs[r]) \/ runs[r].from <= runs[r].last => CoveredBelow(runs[r].from)
    /\ \A w \in writes : \A l, m \in RightsLevel :
        w.rows[l] # NoRow /\ Level(head) < m /\ m < l => Covered(m) \/ w.rows[m] # NoRow
    /\ \A l \in near : \A m \in RightsLevel : Level(head) < m /\ m < l => m \in near

InsertsAreDue ==
    \A r \in Run :
        runs[r].at = "inserting" => HasAllRead(runs[r]) /\ runs[r].from <= runs[r].last

NoGapInv == InsertsAreDue /\ (reorgs = 0 => NoGap)
=============================================================================
