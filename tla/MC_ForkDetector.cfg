\* Levels 0 to 4, two branches above level 1, one switch of branch.
SPECIFICATION MCSpec
CONSTANTS
    Branch = {"a", "b"}
    Trunk = "a"
    FinalLevel = 1
    MaxLevel = 4
    NoBlock = NoBlock
    MaxAttempts = 2
    MaxReorgs = 1
    HeadMayFall = TRUE
INVARIANTS
    DetectorTypeOK
    NothingOrphanedBelow
    CutIsTight
PROPERTIES
    ProbesHalveTheRange
    DetectionComesCloser
    DetectionEnds
CHECK_DEADLOCK FALSE
