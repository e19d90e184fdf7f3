------------------------------ MODULE BigMaps ------------------------------
(***************************************************************************)
(* The tables of the big maps, kept from the differences that the           *)
(* operations of a block report.  A page applies all its differences kind   *)
(* by kind: the allocations, the updates, the copies of each block, the     *)
(* removals.  A row names the difference it is of, which stands for its     *)
(* value and level; the row of a map stands for the references to the   *)
(* contracts originated with it too, which are written, invalidated and     *)
(* removed with it.                                                         *)
(***************************************************************************)
EXTENDS ContractOperations, FiniteSets

Main == 0  \* the fork of the valid rows

VARIABLES
    maps,      \* rows of big_maps
    contents,  \* rows of big_map_contents
    history    \* rows of big_map_contents_history

mapVars == <<maps, contents, history>>

--------------------------------------------------------------------------
(* What a page writes *)

MapRow(p) == [map |-> DiffAt(p).map, at |-> p, fork |-> Main]

ContentRow(p) == [map |-> DiffAt(p).map, key |-> DiffAt(p).key, at |-> p, fork |-> Main]

MapRows(S) == {MapRow(p) : p \in Allocations(S)}

UpdateRows(S) == {ContentRow(p) : p \in Updates(S)}

RemovedIds(S) == {DiffAt(p).map : p \in Removals(S)}

SameEntry(r, q) == r.map = q.map /\ r.key = q.key

\* Mutant: of the updates of an entry the first one is kept.
Oldest(rows) == {r \in rows : \A q \in rows : SameEntry(r, q) => ~Later(r.at, q.at)}

\* Of the updates of an entry the last one is kept, by the levels of their blocks.
Newest(rows) == {r \in rows : \A q \in rows : SameEntry(r, q) => ~Later(q.at, r.at)}

\* insertOrUpdateAll, by the primary key.
Upserted(table, rows) ==
    rows \union {r \in table : ~\E q \in rows : SameEntry(r, q) /\ r.fork = q.fork}

\* Rows that the queries of a block may yield: for each copy, one row of its source,
\* of any key and any fork, written as a row of the destination.
CopiedRows(table, b) ==
    LET sources(p) == {r \in table : r.map = DiffAt(p).source}
        found == {p \in Copies({b}) : sources(p) # {}}
    IN  {[p \in found |-> [picks[p] EXCEPT !.map = DiffAt(p).map]] :
            picks \in {f \in [found -> table] : \A p \in found : f[p] \in sources(p)}}

\* The last of the rows of each entry, whichever fork they are of.
LastOfEntry(rows) ==
    {rows[p] : p \in {p \in DOMAIN rows :
        \A q \in DOMAIN rows : SameEntry(rows[p], rows[q]) => ~Later(q, p)}}

\* What the tables may be after the copies of a block.
AfterCopies(t, b) ==
    {[contents |-> Upserted(t.contents, LastOfEntry(rows)),
      history  |-> t.history \union {rows[p] : p \in DOMAIN rows}] :
        rows \in CopiedRows(t.contents, b)}

BlockAt(S, l) == CHOOSE b \in S : Level(b) = l

\* What the tables may be after the copies of the block at each level of a page,
\* from the lowest one on.
Copied(S, table, past) ==
    LET lowest == CHOOSE l \in {Level(b) : b \in S} : \A b \in S : l <= Level(b)
        after[l \in lowest - 1 .. lowest + Cardinality(S) - 1] ==
            IF l < lowest THEN {[contents |-> table, history |-> past]}
            ELSE UNION {AfterCopies(t, BlockAt(S, l)) : t \in after[l - 1]}
    IN  after[lowest + Cardinality(S) - 1]

Kept(table, ids) == {r \in table : r.map \notin ids}

\* An insertion that meets the primary key of a row, and with it the page, fails.
Collides(S) == \E r \in MapRows(S), q \in maps : r.map = q.map /\ q.fork = Main

\* Mutant: the maps are removed before their contents are written.
SaveRemovingFirst(S) ==
    /\ maps' = Kept(maps \union MapRows(S), RemovedIds(S))
    /\ \E after \in Copied(S, Upserted(Kept(contents, RemovedIds(S)), Newest(UpdateRows(S))),
                           history \union UpdateRows(S)) :
        contents' = after.contents /\ history' = after.history

SaveBigMaps(S) ==
    /\ maps' = Kept(maps \union MapRows(S), RemovedIds(S))
    /\ \E after \in Copied(S, Upserted(contents, Newest(UpdateRows(S))),
                           history \union UpdateRows(S)) :
        contents' = Kept(after.contents, RemovedIds(S)) /\ history' = after.history

--------------------------------------------------------------------------
(* What a fork invalidates *)

\* The rows of the main fork from a level on are given the identifier of a fork.
Invalidated(table, level, fork) ==
    {IF r.fork = Main /\ Level(r.at[1]) >= level THEN [r EXCEPT !.fork = fork] ELSE r :
        r \in table}

\* Mutant: the maps are not invalidated.
InvalidateContents(level, fork) ==
    /\ contents' = Invalidated(contents, level, fork)
    /\ history' = Invalidated(history, level, fork)
    /\ UNCHANGED maps

\* Mutant: the history is not invalidated.
InvalidateButHistory(level, fork) ==
    /\ maps' = Invalidated(maps, level, fork)
    /\ contents' = Invalidated(contents, level, fork)
    /\ UNCHANGED history

InvalidateBigMaps(level, fork) ==
    /\ maps' = Invalidated(maps, level, fork)
    /\ contents' = Invalidated(contents, level, fork)
    /\ history' = Invalidated(history, level, fork)
=============================================================================
