\* Levels 0 to 4, two branches above level 2, one switch, two failures; batches of
\* two hashes and of three blocks.
SPECIFICATION FairSpec
CONSTANTS
    Branch = {"a", "b"}
    Trunk = "a"
    FinalLevel = 2
    MaxLevel = 4
    NoBlock = NoBlock
    Address <- MCAddress
    NoAddress = "none"
    NullAddress = "null"
    Hash = {"payment", "deploy", "call", "new", "use"}
    Content <- MCContent
    Registered = {"token"}
    HashBatch = 2
    BlockBatch = 3
    CustomDepth = 1
    MaxReorgs = 1
    MaxFailures = 2
INVARIANTS
    LoaderTypeOK
    CompletedLoadIsComplete
    GapsAreBounded
PROPERTIES
    ImplementsWriteOnceIndex
    EverythingIsLoaded
