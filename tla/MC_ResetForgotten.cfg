\* One branch switch and no failure: the loop alone forgets the event.
SPECIFICATION Spec
CONSTANTS
    Branch = {"a", "b"}
    Trunk = "a"
    FinalLevel = 0
    MaxLevel = 3
    NoBlock = NoBlock
    MaxAttempts = 2
    MaxReorgs = 1
    HeadMayFall = FALSE
    Events = {1, 2}
    BacktrackLevels = 1
    BacktrackInterval = 1
    PageSize = 2
    IgnoreFailures = FALSE
    MaxFailures = 0
INVARIANTS
    NoResetForgotten
