\* Levels 0 to 2, two branches above level 1, one switch and one failure, or two answers
\* that cannot be decoded; cycles of four levels, partitions of one, updates of the next
\* level.
SPECIFICATION Spec
CONSTANTS
    Branch = {"a", "b"}
    Trunk = "a"
    FinalLevel = 1
    MaxLevel = 2
    NoBlock = NoBlock
    Run = {r1}
    PageSize = 2
    CycleSize = 4
    CyclesToFetch = 0
    FetchSize = 1
    UpdateSize = 2
    Ahead <- MCAhead
    NoRow = NoRow
    Future = Future
    MaxReorgs = 1
    MaxFailures = 1
    MaxUnread = 2
CONSTRAINTS
    FewTroubles
    FewPending
INVARIANTS
    RightsTypeOK
    PassedLevelsHaveTheirRights
    NearFutureIsKnown
    NoLevelIsPassedOver
PROPERTY
    RowsKeepTheirBlock
