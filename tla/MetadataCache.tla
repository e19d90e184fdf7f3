--------------------------- MODULE MetadataCache ---------------------------
(***************************************************************************)
(* The cache of the attributes that the API answers metadata requests from. *)
(* What it is for is the cardinality of a table's columns, which takes a    *)
(* heavy query; the attributes of a table are that one count here.  A       *)
(* request that finds an entry expired is answered with it, and refreshes   *)
(* it in the background: several may, and nobody sees one fail.             *)
(***************************************************************************)
EXTENDS Integers

CONSTANTS
    Table,       \* the entities of the visible networks
    Request,     \* requests whose refresh may be under way at once
    HighCount,   \* isLowCardinality: from this count on a column is not counted again
    Absent,      \* stands for no entry
    MaxCount,    \* bound: how many distinct values a column gets
    MaxFailures  \* bound: failed queries and lost updates

ASSUME CacheAssumption ==
    /\ HighCount \in Nat \ {0}
    /\ MaxCount \in Nat \ {0}
    /\ MaxFailures \in Nat
    /\ Absent \notin [count : Nat, expired : BOOLEAN]

Entry == [count : 0..MaxCount, expired : BOOLEAN]

VARIABLES
    db,        \* distinct values of each table's column in the database
    cache,     \* attributesCache
    entities,  \* whether the cache of the entities could be filled
    status,    \* cachingStatus
    refresh,   \* what each request is refreshing
    failures   \* how many failures happened

vars == <<db, cache, entities, status, refresh, failures>>

NoRefresh == [at |-> "idle"]

Fresh(count) == [count |-> count, expired |-> FALSE]

\* The indexer adds rows.
Grow(t) ==
    /\ db[t] < MaxCount
    /\ db' = [db EXCEPT ![t] = @ + 1]
    /\ UNCHANGED <<cache, entities, status, refresh, failures>>

\* The time to live of an entry is over.
Expire(t) ==
    /\ cache[t] # Absent
    /\ cache' = [cache EXCEPT ![t].expired = TRUE]
    /\ UNCHANGED <<db, entities, status, refresh, failures>>

--------------------------------------------------------------------------
(* initAttributesCache, which counts nothing: it looks for the tables' names *)
(* among keys that begin with the platform and the network.                  *)

StartCounting ==
    /\ status = "NotStarted"
    /\ status' = "InProgress"
    /\ UNCHANGED <<db, cache, entities, refresh, failures>>

\* Without the entities it fails, and stays in progress.
FinishCounting ==
    /\ status = "InProgress"
    /\ entities
    /\ status' = "Finished"
    /\ UNCHANGED <<db, cache, entities, refresh, failures>>

--------------------------------------------------------------------------
(* getTableAttributes *)

\* Until the counting is finished no count is answered; a fresh entry just is.
FindExpired(r, t) ==
    /\ status = "Finished"
    /\ refresh[r].at = "idle"
    /\ cache[t] # Absent /\ cache[t].expired
    /\ refresh' = [refresh EXCEPT ![r] = [at |-> "marking", table |-> t, old |-> cache[t].count]]
    /\ UNCHANGED <<db, cache, entities, status, failures>>

\* Mutant: the refresh goes on without the query.
MarkOnly(r) ==
    /\ refresh[r].at = "marking"
    /\ cache' = [cache EXCEPT ![refresh[r].table] = Fresh(refresh[r].old)]
    /\ refresh' = [refresh EXCEPT ![r].at = "putting"]
    /\ UNCHANGED <<db, entities, status, failures>>

\* The old value is put back as a fresh one, whatever the entry became meanwhile.
MarkFresh(r) ==
    /\ refresh[r].at = "marking"
    /\ cache' = [cache EXCEPT ![refresh[r].table] = Fresh(refresh[r].old)]
    /\ refresh' = [refresh EXCEPT ![r].at = "counting"]
    /\ UNCHANGED <<db, entities, status, failures>>

\* Mutant: a column that was never counted keeps its zero.
CountAgain(r) ==
    LET t == refresh[r].table
        new == IF refresh[r].old \in 1..HighCount - 1 THEN db[t] ELSE refresh[r].old
    IN
    /\ refresh[r].at = "counting"
    /\ refresh' = [refresh EXCEPT ![r] = [at |-> "putting", table |-> t, new |-> new]]
    /\ UNCHANGED <<db, cache, entities, status, failures>>

\* A column whose old count is high keeps it.
Count(r) ==
    LET t == refresh[r].table
        new == IF refresh[r].old < HighCount THEN db[t] ELSE refresh[r].old
    IN
    /\ refresh[r].at = "counting"
    /\ refresh' = [refresh EXCEPT ![r] = [at |-> "putting", table |-> t, new |-> new]]
    /\ UNCHANGED <<db, cache, entities, status, failures>>

PutCount(r) ==
    /\ refresh[r].at = "putting"
    /\ cache' = [cache EXCEPT ![refresh[r].table] = Fresh(refresh[r].new)]
    /\ refresh' = [refresh EXCEPT ![r] = NoRefresh]
    /\ UNCHANGED <<db, entities, status, failures>>

--------------------------------------------------------------------------
(* Failures, all of them ignored *)

\* tryUpdate gives up when another update of the cache comes between.
MarkLost(r) ==
    /\ refresh[r].at = "marking"
    /\ failures < MaxFailures
    /\ failures' = failures + 1
    /\ refresh' = [refresh EXCEPT ![r].at = "counting"]
    /\ UNCHANGED <<db, cache, entities, status>>

\* The query fails, or the update with its result is lost.
CountLost(r) ==
    /\ refresh[r].at \in {"counting", "putting"}
    /\ failures < MaxFailures
    /\ failures' = failures + 1
    /\ refresh' = [refresh EXCEPT ![r] = NoRefresh]
    /\ UNCHANGED <<db, cache, entities, status>>

--------------------------------------------------------------------------

\* init has ended.  It puts zero counts at time 0 of a clock of any origin; when
\* one of its queries fails, that cache stays empty.
Init ==
    /\ db \in [Table -> 0..1]
    /\ \/ cache \in [Table -> {[count |-> 0, expired |-> e] : e \in BOOLEAN}]
       \/ cache = [t \in Table |-> Absent]
    /\ entities \in BOOLEAN
    /\ status = "NotStarted"
    /\ refresh = [r \in Request |-> NoRefresh]
    /\ failures = 0

Refreshing(r) == MarkFresh(r) \/ Count(r) \/ PutCount(r)

Next ==
    \/ \E t \in Table : Grow(t) \/ Expire(t)
    \/ StartCounting \/ FinishCounting
    \/ \E r \in Request :
        \/ \E t \in Table : FindExpired(r, t)
        \/ Refreshing(r) \/ MarkLost(r) \/ CountLost(r)

Spec == Init /\ [][Next]_vars

\* Refreshes go on, time passes, and the clients keep asking for each table.
Fairness ==
    /\ \A r \in Request : WF_vars(Refreshing(r))
    /\ \A t \in Table :
        WF_vars(Expire(t)) /\ SF_vars(\E r \in Request : FindExpired(r, t))

FairSpec == Spec /\ Fairness
=============================================================================
