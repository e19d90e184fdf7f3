\* One table, three refreshes at once, two failures; a count of three is high, four is
\* reached.
\* An API without a cache of attributes has nothing left to do: no check for deadlock.
CHECK_DEADLOCK FALSE
SPECIFICATION FairSpec
CONSTANTS
    Table = {t1}
    Request = {r1, r2, r3}
    HighCount = 3
    Absent = Absent
    MaxCount = 4
    MaxFailures = 2
INVARIANT
    CacheTypeOK
PROPERTY
    CountsCatchUp
