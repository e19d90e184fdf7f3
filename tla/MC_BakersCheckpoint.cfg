\* Levels 0 to 3, two branches above level 0, one switch, two failures, one event.
SPECIFICATION BakersSpec
CONSTANTS
    Branch = {"a", "b"}
    Trunk = "a"
    FinalLevel = 0
    MaxLevel = 3
    NoBlock = NoBlock
    NoBaker = NoBaker
    Baker <- MCBaker
    Delegate <- MCDelegate
    Account <- MCAccount
    Touched <- MCTouched
    Events = {1}
    PageSize = 2
    MaxReorgs = 1
    MaxFailures = 2
    MaxUnread = 1
CONSTRAINT
    FewTroubles
INVARIANTS
    AccountsTypeOK
    NoUpdateLost
    RowsReferToValidBlocks
    BakersTypeOK
    NoDelegateLost
    BakersReferToValidBlocks
PROPERTIES
    RowsNeverRegress
    BakersNeverRegress
