\* One failure, one branch switch, no account reset.
SPECIFICATION Spec
CONSTANTS
    Branch = {"a", "b"}
    Trunk = "a"
    FinalLevel = 0
    MaxLevel = 3
    NoBlock = NoBlock
    Account <- MCAccount
    Touched <- MCTouched
    Events = {}
    PageSize = 2
    MaxReorgs = 1
    MaxFailures = 1
    MaxUnread = 1
INVARIANTS
    RecoveryCanBeStored
