\* Levels 0 to 4, two branches above level 2, two switches, two failures, pages of two
\* blocks. A page may wait for ever, and the chain ends: no check for deadlock.
SPECIFICATION Spec
CONSTANTS
    Branch = {"a", "b"}
    Trunk = "a"
    FinalLevel = 2
    MaxLevel = 4
    NoBlock = NoBlock
    MapId = {1, 2, 3, 4, 5, 6, 7}
    Key = {"k1", "k2"}
    Contract = {"first", "second", "third", "tns", "other"}
    Name = {"one", "two"}
    NoName = NoName
    Operations <- MCOperations
    Token = {"first", "second", "third"}
    Registrar = "tns"
    PageSize = 2
    MaxReorgs = 2
    MaxFailures = 2
    MaxUnread = 1
CHECK_DEADLOCK FALSE
CONSTRAINT FewTroubles
INVARIANTS
    PagesTypeOK
    ContentsFollowTheChain
    ContentsAreNeverStale
    HistoryIsOfTheChain
    AllocationsAreAccepted
    BalancesAreOfTheChain
    RegistrationsAreStored
    PagesWaitForTheRegistrar
