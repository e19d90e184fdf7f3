\* One branch switch and no failure, with the head never falling.
SPECIFICATION Spec
CONSTANTS
    Branch = {"a", "b"}
    Trunk = "a"
    FinalLevel = 2
    MaxLevel = 4
    NoBlock = NoBlock
    MaxAttempts = 2
    MaxReorgs = 1
    HeadMayFall = FALSE
    Events = {1}
    BacktrackLevels = 2
    BacktrackInterval = 1
    PageSize = 3
    IgnoreFailures = FALSE
    MaxFailures = 0
INVARIANTS
    FoundForkIsReal
