\* Levels 0 to 3 and two branches above genesis; one branch switch, which may
\* lower the head, and one failure.
SPECIFICATION Spec
CONSTANTS
    Branch = {"a", "b"}
    Trunk = "a"
    FinalLevel = 0
    MaxLevel = 3
    NoBlock = NoBlock
    MaxAttempts = 2
    MaxReorgs = 1
    HeadMayFall = TRUE
    Events = {1, 2}
    BacktrackLevels = 1
    BacktrackInterval = 2
    PageSize = 2
    IgnoreFailures = TRUE
    MaxFailures = 1
INVARIANTS
    IndexerTypeOK
    ChainIsGapless
    ProcessedAreIndexed
    ProcessedWereRefilled
PROPERTIES
    ImplementsIndexedChain
