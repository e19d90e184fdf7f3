\* Two branch switches while the pages of new blocks are stored.
SPECIFICATION Spec
CONSTANTS
    Branch = {"a", "b"}
    Trunk = "a"
    FinalLevel = 0
    MaxLevel = 3
    NoBlock = NoBlock
    MaxAttempts = 2
    MaxReorgs = 2
    HeadMayFall = TRUE
    Events = {}
    BacktrackLevels = 1
    BacktrackInterval = 2
    PageSize = 2
    IgnoreFailures = FALSE
    MaxFailures = 0
INVARIANTS
    KeptPartIsConsistent
