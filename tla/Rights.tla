------------------------------ MODULE Rights ------------------------------
(***************************************************************************)
(* The baking and endorsing rights, which three writers share: the pages of *)
(* new blocks, whose upserts nobody awaits; the update of the next levels   *)
(* at the end of each iteration; and the scheduled run that inserts the     *)
(* rights of the coming cycles, of which two may overlap.  All the rights   *)
(* of a level are one row here; the row of a level names its block once a   *)
(* page has stored it.                                                      *)
(*                                                                          *)
(* The search for forks is TezosIndexer's matter, and one step here: while  *)
(* the highest block is on the node's chain nothing need be found, and what *)
(* is found is a level whose block is not.                                  *)
(***************************************************************************)
EXTENDS Blockchain, FiniteSets

CONSTANTS
    Run,           \* scheduled runs that may be under way at once
    PageSize,      \* blocks of a page
    CycleSize,     \* cycleSize
    CyclesToFetch, \* cyclesToFetch
    FetchSize,     \* fetchSize: levels of a partition
    UpdateSize,    \* updateSize
    Ahead,         \* how far above a block are the rights that the node answers for it
    NoRow,         \* stands for a level without valid rights
    Future,        \* rights of a level that name no block
    MaxReorgs,     \* bound: how often the node switches branch
    MaxFailures,   \* bound: crashes and failed requests
    MaxUnread      \* bound: answers that cannot be decoded

Table == {"baking", "endorsing"}

ASSUME RightsAssumption ==
    /\ PageSize \in Nat \ {0}
    /\ CycleSize \in Nat \ {0}
    /\ CyclesToFetch \in Nat
    /\ FetchSize \in Nat \ {0}
    /\ UpdateSize \in Nat \ {0}
    /\ NoRow \notin Block /\ Future \notin Block /\ NoRow # Future
    /\ MaxReorgs \in Nat
    /\ MaxFailures \in Nat
    /\ MaxUnread \in Nat
    /\ Ahead \in [Table -> {0, 1}]

\* Levels whose rights are ever asked for.
RightsLevel == 0..MaxLevel + CycleSize * (CyclesToFetch + 1) + UpdateSize

Row == Block \union {NoRow, Future}

VARIABLES
    head,       \* the head of the node's chain
    reorgs,     \* how often the node switched branch
    unread,     \* only observed: the rows that such answers would have been
    blocks,     \* valid rows of the blocks table
    rights,     \* the valid row of each level in each table
    writes,     \* futures that nobody awaits: upserts of pages, insertions of runs
    pc,         \* the step the loop is at
    target,     \* the head the pages are counted from
    page,       \* blocks of the page whose rights are still to be fetched
    near,       \* the levels that the update is about
    updating,   \* the tables it has not written yet
    runs,       \* the scheduled runs
    failures    \* how many failures happened

nodeVars == <<head, reorgs, unread>>
loopVars == <<pc, target, page, near, updating>>
vars == <<nodeVars, blocks, rights, writes, loopVars, runs, failures>>

Larger(a, b) == IF a > b THEN a ELSE b
Smaller(a, b) == IF a < b THEN a ELSE b

MaxIndexed ==
    IF blocks = {} THEN -1
    ELSE CHOOSE l \in {Level(b) : b \in blocks} : \A b \in blocks : Level(b) <= l

--------------------------------------------------------------------------
(* What is written to the tables *)

FutureRows(levels) == [l \in RightsLevel |-> IF l \in levels THEN Future ELSE NoRow]

\* The block is the one that the request names, the level is the node's.
RowLevel(t, b) == Level(b) + Ahead[t]

PageRows(t, S) ==
    [l \in RightsLevel |->
        IF \E b \in S : RowLevel(t, b) = l THEN CHOOSE b \in S : RowLevel(t, b) = l ELSE NoRow]

Upserted(old, new) == [l \in RightsLevel |-> IF new[l] = NoRow THEN old[l] ELSE new[l]]

\* decodeData's recover: an answer that cannot be decoded is an empty list.
ReadInVain(rows) ==
    /\ unread' = unread \union rows
    /\ Cardinality(unread') <= MaxUnread

\* Each row names a valid block or none: the foreign key on the blocks.
Accepted(new) == \A l \in RightsLevel : new[l] \in blocks \union {NoRow, Future}

\* A plain insertion fails as a whole when one of its levels has rights.
Collides(old, new) == \E l \in RightsLevel : old[l] # NoRow /\ new[l] # NoRow

--------------------------------------------------------------------------
(* The node, whose head never falls *)

Advance ==
    /\ \E b \in Block : Level(b) > Level(head) /\ Extends(b, head) /\ head' = b
    /\ UNCHANGED <<reorgs, unread, blocks, rights, writes, loopVars, runs, failures>>

Reorganise ==
    /\ reorgs < MaxReorgs
    /\ \E b \in Block : ~Extends(b, head) /\ Level(b) >= Level(head) /\ head' = b
    /\ reorgs' = reorgs + 1
    /\ UNCHANGED <<unread, blocks, rights, writes, loopVars, runs, failures>>

--------------------------------------------------------------------------
(* The loop: an amendment, pages with their rights, the update *)

NoFork ==
    /\ pc = "loop"
    /\ TopIsOn(blocks, head)
    /\ pc' = "fetchHead"
    /\ UNCHANGED <<nodeVars, blocks, rights, writes, target, page, near, updating, runs, failures>>

\* Invalidates the blocks and the rights from the level of the fork on.
AmendFork(level) ==
    /\ blocks' = {b \in blocks : Level(b) < level}
    /\ rights' = [t \in Table |-> [l \in RightsLevel |->
                    IF l >= level THEN NoRow ELSE rights[t][l]]]

ForkDetected ==
    /\ pc = "loop"
    /\ \E b \in Orphaned(blocks, head) : AmendFork(Level(b))
    /\ pc' = "fetchHead"
    /\ UNCHANGED <<nodeVars, writes, target, page, near, updating, runs, failures>>

\* The head may be on another branch than when the forks were looked for.
FetchHead ==
    /\ pc = "fetchHead"
    /\ target' = head
    /\ pc' = "page"
    /\ UNCHANGED <<nodeVars, blocks, rights, writes, page, near, updating, runs, failures>>

StorePage ==
    /\ pc = "page"
    /\ MaxIndexed < Level(target)
    /\ page' = Segment(target, MaxIndexed + 1, Smaller(MaxIndexed + PageSize, Level(target)))
    /\ blocks' = blocks \union page'
    /\ pc' = "rights"
    /\ UNCHANGED <<nodeVars, rights, writes, target, near, updating, runs, failures>>

\* Mutant: the rights of a page are inserted, not upserted.
PageRightsInserted ==
    /\ pc = "rights"
    /\ writes' = writes \union
        {[table |-> t, mode |-> "insert", rows |-> PageRows(t, page)] : t \in Table}
    /\ page' = {}
    /\ pc' = "page"
    /\ UNCHANGED <<nodeVars, blocks, rights, target, near, updating, runs, failures>>

\* Both answers are there; the two upserts are started, and nobody waits for them.
PageRights ==
    /\ pc = "rights"
    /\ \E lost \in [Table -> SUBSET page] :
        /\ writes' = writes \union
            {[table |-> t, mode |-> "upsert", rows |-> PageRows(t, page \ lost[t])] : t \in Table}
        /\ ReadInVain(UNION {{<<t, RowLevel(t, b), b>> : b \in lost[t]} : t \in Table})
    /\ page' = {}
    /\ pc' = "page"
    /\ UNCHANGED <<head, reorgs, blocks, rights, target, near, updating, runs, failures>>

\* Mutant: the update begins with the head's own level.
BeginUpdateAtHead ==
    /\ pc = "page"
    /\ MaxIndexed >= Level(target)
    /\ near' = Level(head) .. Level(head) + UpdateSize - 1
    /\ updating' = Table
    /\ target' = NoBlock
    /\ pc' = "update"
    /\ UNCHANGED <<nodeVars, blocks, rights, writes, page, runs, failures>>

\* updateRights reads the head and asks for the levels above it.
BeginUpdate ==
    /\ pc = "page"
    /\ MaxIndexed >= Level(target)
    /\ near' = Level(head) + 1 .. Level(head) + UpdateSize - 1
    /\ updating' = Table
    /\ target' = NoBlock
    /\ pc' = "update"
    /\ UNCHANGED <<nodeVars, blocks, rights, writes, page, runs, failures>>

\* Mutant: only one of the tables is updated.
UpdateEither ==
    /\ \E t \in updating :
        /\ rights' = [rights EXCEPT ![t] = Upserted(@, FutureRows(near))]
        /\ updating' = {}
    /\ UNCHANGED <<nodeVars, blocks, writes, pc, target, page, near, runs, failures>>

Update ==
    /\ \E t \in updating, lost \in SUBSET near :
        /\ rights' = [rights EXCEPT ![t] = Upserted(@, FutureRows(near \ lost))]
        /\ ReadInVain({<<t, l, Future>> : l \in lost})
        /\ updating' = updating \ {t}
    /\ UNCHANGED <<head, reorgs, blocks, writes, pc, target, page, near, runs, failures>>

EndIteration ==
    /\ pc = "update" /\ updating = {}
    /\ pc' = "loop"
    /\ near' = {}
    /\ UNCHANGED <<nodeVars, blocks, rights, writes, target, page, updating, runs, failures>>

--------------------------------------------------------------------------
(* writeFutureRights: one scheduled run *)

NoRun == [at |-> "reading", read |-> {}, from |-> 0, last |-> -1]

Length(h) == (CycleSize - (h % CycleSize)) + CycleSize * CyclesToFetch

MaxRights(t) ==
    IF \A l \in RightsLevel : rights[t][l] = NoRow THEN -1
    ELSE CHOOSE l \in RightsLevel :
            rights[t][l] # NoRow /\ \A m \in RightsLevel : rights[t][m] # NoRow => m <= l

\* The three reads of a run are under way together; the first of them starts it.
ReadHead(r) ==
    /\ runs[r].at = "reading" /\ "head" \notin runs[r].read
    /\ runs' = [runs EXCEPT
                    ![r].read = @ \union {"head"},
                    ![r].from = Larger(@, Level(head) + 1),
                    ![r].last = Level(head) + Length(Level(head)) - 1]
    /\ UNCHANGED <<nodeVars, blocks, rights, writes, loopVars, failures>>

\* The first level is above the highest of either table.
ReadMax(r) ==
    /\ runs[r].at = "reading"
    /\ \E t \in Table \ runs[r].read :
        runs' = [runs EXCEPT ![r].read = @ \union {t},
                             ![r].from = Larger(@, MaxRights(t) + 1)]
    /\ UNCHANGED <<nodeVars, blocks, rights, writes, loopVars, failures>>

AllRead(r) == runs[r].at = "reading" /\ runs[r].read = Table \union {"head"}

Partition(r) == runs[r].from .. Smaller(runs[r].from + FetchSize - 1, runs[r].last)

\* The insertion of the baking rights is started, that of the endorsing rights awaited.
\* Levels whose answers are empty are inserted in neither, and the stream goes on.
NextPartition(r) ==
    /\ AllRead(r)
    /\ runs[r].from <= runs[r].last
    /\ \E lost \in SUBSET Partition(r) :
        /\ writes' = writes \union
            {[table |-> "baking", mode |-> "insert", rows |-> FutureRows(Partition(r) \ lost)]}
        /\ ReadInVain({<<"baking", l, Future>> : l \in lost})
    /\ runs' = [runs EXCEPT ![r].at = "inserting"]
    /\ UNCHANGED <<head, reorgs, blocks, rights, loopVars, failures>>

InsertEndorsing(r) ==
    /\ runs[r].at = "inserting"
    /\ \E lost \in SUBSET Partition(r) :
        /\ ~Collides(rights["endorsing"], FutureRows(Partition(r) \ lost))
        /\ rights' = [rights EXCEPT !["endorsing"] = Upserted(@, FutureRows(Partition(r) \ lost))]
        /\ ReadInVain({<<"endorsing", l, Future>> : l \in lost})
    /\ runs' = [runs EXCEPT ![r].at = "reading", ![r].from = @ + FetchSize]
    /\ UNCHANGED <<head, reorgs, blocks, writes, loopVars, failures>>

\* The failure of one partition ends the stream.
EndorsingCollides(r) ==
    /\ runs[r].at = "inserting"
    /\ Collides(rights["endorsing"], FutureRows(Partition(r)))
    /\ runs' = [runs EXCEPT ![r] = NoRun]
    /\ UNCHANGED <<nodeVars, blocks, rights, writes, loopVars, failures>>

RunEnds(r) ==
    /\ AllRead(r)
    /\ runs[r].from > runs[r].last
    /\ runs' = [runs EXCEPT ![r] = NoRun]
    /\ UNCHANGED <<nodeVars, blocks, rights, writes, loopVars, failures>>

--------------------------------------------------------------------------
(* The futures nobody awaits, in any order; their failures go unseen, and   *)
(* the insertion of a partition whose request fails is one never made.      *)

Write ==
    /\ \E w \in writes :
        /\ writes' = writes \ {w}
        /\ IF w.mode = "upsert" THEN Accepted(w.rows) ELSE ~Collides(rights[w.table], w.rows)
        /\ rights' = [rights EXCEPT ![w.table] = Upserted(@, w.rows)]
    /\ UNCHANGED <<nodeVars, blocks, loopVars, runs, failures>>

WriteRefused ==
    /\ \E w \in writes :
        /\ writes' = writes \ {w}
        /\ IF w.mode = "upsert" THEN ~Accepted(w.rows) ELSE Collides(rights[w.table], w.rows)
    /\ UNCHANGED <<nodeVars, blocks, rights, loopVars, runs, failures>>

--------------------------------------------------------------------------
(* Failures *)

CountFailure ==
    /\ failures < MaxFailures
    /\ failures' = failures + 1
    /\ UNCHANGED <<nodeVars, blocks, rights>>

\* Mutant: the page that failed is not discarded.
PageRightsFailHeld ==
    /\ pc = "rights"
    /\ CountFailure
    /\ pc' = "loop"
    /\ target' = NoBlock
    /\ UNCHANGED <<writes, page, near, updating, runs>>

\* The rights of a page are not answered: the page fails, its blocks are stored.
PageRightsFail ==
    /\ pc = "rights"
    /\ CountFailure
    /\ pc' = "loop"
    /\ page' = {}
    /\ target' = NoBlock
    /\ UNCHANGED <<writes, near, updating, runs>>

\* Mutant: the stream goes on with the next partition.
RunResumes(r) ==
    /\ runs[r].at = "inserting"
    /\ CountFailure
    /\ runs' = [runs EXCEPT ![r].at = "reading", ![r].from = @ + FetchSize]
    /\ UNCHANGED <<writes, loopVars>>

\* The rights of a partition are not answered, for one of the tables.
RunFails(r) ==
    /\ runs[r].at = "inserting"
    /\ CountFailure
    /\ runs' = [runs EXCEPT ![r] = NoRun]
    /\ UNCHANGED <<writes, loopVars>>

\* The process ends, and another starts.
Crash ==
    /\ CountFailure
    /\ pc' = "loop"
    /\ page' = {}
    /\ near' = {}
    /\ updating' = {}
    /\ target' = NoBlock
    /\ writes' = {}
    /\ runs' = [r \in Run |-> NoRun]

--------------------------------------------------------------------------

Init ==
    /\ head \in {b \in Block : Level(b) = FinalLevel}
    /\ reorgs = 0
    /\ unread = {}
    /\ blocks = {}
    /\ rights = [t \in Table |-> [l \in RightsLevel |-> NoRow]]
    /\ writes = {}
    /\ pc = "loop"
    /\ target = NoBlock
    /\ page = {}
    /\ near = {}
    /\ updating = {}
    /\ runs = [r \in Run |-> NoRun]
    /\ failures = 0

Node == Advance \/ Reorganise

Loop ==
    \/ NoFork \/ ForkDetected \/ FetchHead \/ StorePage \/ PageRights
    \/ BeginUpdate \/ Update \/ EndIteration

Scheduled(r) ==
    \/ ReadHead(r) \/ ReadMax(r)
    \/ NextPartition(r) \/ InsertEndorsing(r) \/ EndorsingCollides(r) \/ RunEnds(r)

Next ==
    \/ Node
    \/ Loop
    \/ \E r \in Run : Scheduled(r) \/ RunFails(r)
    \/ Write \/ WriteRefused
    \/ PageRightsFail \/ Crash

Spec == Init /\ [][Next]_vars
=============================================================================
