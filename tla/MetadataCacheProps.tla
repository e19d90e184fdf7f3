------------------------- MODULE MetadataCacheProps -------------------------
(* What the cache of the attributes promises of the counts it answers.         *)
EXTENDS MetadataCache

RefreshType ==
    {NoRefresh}
    \union [at : {"marking", "counting"}, table : Table, old : 0..MaxCount]
    \union [at : {"putting"}, table : Table, new : 0..MaxCount]

CacheTypeOK ==
    /\ db \in [Table -> 0..MaxCount]
    /\ cache \in [Table -> Entry \union {Absent}]
    /\ entities \in BOOLEAN
    /\ status \in {"NotStarted", "InProgress", "Finished"}
    /\ refresh \in [Request -> RefreshType]
    /\ failures \in 0..MaxFailures

\* The count of the database, or one that is high and left alone.
IsCurrent(t) ==
    cache[t] # Absent /\ (cache[t].count = db[t] \/ cache[t].count >= HighCount)

\* However refreshes overlap, fail or lose their updates, a cached table is current
\* again and again once the initialisation is finished, although that counts nothing
\* itself.  Not for good: a refresh that read the entry before another one wrote it
\* sets it back to the old value.
CountsCatchUp ==
    \A t \in Table : <>(status = "Finished" /\ cache[t] # Absent) => []<>IsCurrent(t)
=============================================================================
