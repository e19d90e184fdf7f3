\* Final up to level 2, levels to 4: every branch point is in the window of the
\* backtracking, which fetches no level below genesis.  The head never falls.
SPECIFICATION FairSpec
CONSTANTS
    Branch = {"a", "b"}
    Trunk = "a"
    FinalLevel = 2
    MaxLevel = 4
    NoBlock = NoBlock
    MaxAttempts = 2
    MaxReorgs = 2
    HeadMayFall = FALSE
    Events = {1}
    BacktrackLevels = 2
    BacktrackInterval = 1
    PageSize = 3
    IgnoreFailures = FALSE
    MaxFailures = 1
PROPERTIES
    AlwaysCatchesUp
