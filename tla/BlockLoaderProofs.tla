------------------------ MODULE BlockLoaderProofs ------------------------
(***************************************************************************)
(* For any content of the blocks, any batches and any number of failures    *)
(* and switches, the indexers of Bitcoin and Ethereum are type correct,     *)
(* forget nothing of a load that ended without an error, write every level  *)
(* at most once, and leave out no more than two batches of what a load of   *)
(* the newest blocks was interrupted in.                                    *)
(***************************************************************************)
EXTENDS BlockLoaderProps, BlockchainTheorems

\* Batches ask for levels that are still to be requested.
LEMMA LowestIsPart ==
    ASSUME NEW n, NEW S
    PROVE  Lowest(n, S) \subseteq S
BY DEF Lowest

\* The node answers a request for a level with a block of that level.
LEMMA AnswersAreBlocks ==
    ASSUME LoaderTypeOK, NEW S \in SUBSET (0..MaxLevel), NEW answer \in Answers(S), NEW l \in S
    PROVE  answer[l] \in Block /\ Level(answer[l]) = l
<1>1. answer[l] \in Known(l)
    BY DEF Answers
<1>2. PICK h \in seen : l <= Level(h) /\ answer[l] = AncestorAt(h, l)
    BY <1>1 DEF Known
<1>3. h \in Block /\ l \in Nat /\ MaxLevel \in Nat
    BY ChainAssumption DEF LoaderTypeOK
<1>4. l \in 0..Level(h)
    BY <1>2, <1>3, BlockIsSeq
<1> QED
    BY <1>2, <1>3, <1>4, AncestorIsBlock

\* The first level of a load is a level.
LEMMA StartIsLevel ==
    ASSUME LoaderTypeOK
    PROVE  Start \in Nat /\ Level(head) \in 0..MaxLevel /\ MaxLevel \in Nat
<1>1. Level(head) \in 0..MaxLevel /\ MaxLevel \in Nat /\ CustomDepth \in Nat
    BY BlockIsSeq, ChainAssumption, LoaderAssumption DEF LoaderTypeOK
<1>2. AboveLatest \in Nat
    <2>1. CASE blocks = {}
        BY <2>1 DEF AboveLatest
    <2>2. CASE blocks # {}
        <3>1. \E l \in {Level(b) : b \in blocks} : \A b \in blocks : Level(b) <= l
            BY <2>2, HighestLevel DEF LoaderTypeOK
        <3>2. Highest \in Levels(blocks)
            BY <3>1 DEF Highest, Levels
        <3>3. Levels(blocks) \subseteq Nat
            BY BlockIsSeq, ChainAssumption DEF Levels, LoaderTypeOK
        <3> QED
            BY <2>2, <3>2, <3>3 DEF AboveLatest
    <2> QED
        BY <2>1, <2>2
<1>3. depth \in {"newest", "everything", "custom"}
    BY DEF LoaderTypeOK
<1> QED
    BY <1>1, <1>2, <1>3 DEF Start, BitcoinStart, EthereumStart

LEMMA LoaderInitEstablishes == Init => LoaderInv
<1> SUFFICES ASSUME Init PROVE LoaderInv
    OBVIOUS
<1>1. LoaderTypeOK
    BY LoaderAssumption DEF Init, LoaderTypeOK
<1>2. LevelsAreDistinct
    BY DEF Init, LevelsAreDistinct, UnderWay
<1> QED
    BY <1>1, <1>2 DEF Init, LoaderInv, NothingIsForgotten, Idle, UnderWay

--------------------------------------------------------------------------
(* Each step keeps LoaderInv *)

LEMMA NodeStepKeeps ==
    ASSUME LoaderInv, Advance \/ Reorganise
    PROVE  LoaderInv'
<1>1. head' \in Block /\ seen' \subseteq Block /\ reorgs' \in 0..MaxReorgs
    BY LoaderAssumption DEF LoaderInv, LoaderTypeOK, Advance, Reorganise, loadVars
<1>2. UNCHANGED <<confVars, blocks, pc, range, todo, hashed, batch, fetched, dropped, failures>>
    BY DEF Advance, Reorganise, loadVars
<1>3. LoaderTypeOK'
    BY <1>1, <1>2 DEF LoaderInv, LoaderTypeOK, confVars
<1> QED
    BY <1>2, <1>3
    DEF LoaderInv, LevelsAreDistinct, NothingIsForgotten, Idle, UnderWay, Accounted, Levels

LEMMA StartLoadKeeps ==
    ASSUME LoaderInv, StartLoad
    PROVE  LoaderInv'
<1>1. range' \subseteq 0..MaxLevel /\ todo' = range' \ Levels(blocks) /\ seen' \subseteq Block
    BY StartIsLevel DEF StartLoad, LoaderInv, LoaderTypeOK
<1>2. /\ UNCHANGED <<nodeVars, confVars, blocks, hashed, batch, fetched, dropped, failures>>
      /\ pc' = "loading"
    BY DEF StartLoad
<1>3. hashed = {} /\ batch = {} /\ fetched = {}
    BY DEF LoaderInv, Idle, UnderWay, StartLoad
<1>4. LoaderTypeOK'
    BY <1>1, <1>2 DEF LoaderInv, LoaderTypeOK, nodeVars, confVars
<1>5. LevelsAreDistinct'
    BY <1>1, <1>2, <1>3 DEF LoaderInv, LevelsAreDistinct, UnderWay, Levels
<1>6. NothingIsForgotten'
    BY <1>1, <1>2 DEF NothingIsForgotten, Accounted, Levels
<1> QED
    BY <1>2, <1>4, <1>5, <1>6 DEF LoaderInv, Idle

\* What a request answered for a part of todo adds to the blocks under way.
LEMMA RequestKeeps ==
    ASSUME LoaderInv, pc = "loading",
           NEW S \in SUBSET todo, NEW answer \in Answers(S), todo' = todo \ S,
           \/ hashed = {} /\ hashed' = {answer[l] : l \in S} /\ fetched' = fetched
           \/ fetched = {} /\ fetched' = {answer[l] : l \in S} /\ hashed' = hashed,
           UNCHANGED <<nodeVars, confVars, blocks, pc, range, seen, batch, dropped, failures>>
    PROVE  LoaderInv'
<1> DEFINE new == {answer[l] : l \in S}
<1>1. S \subseteq 0..MaxLevel
    BY DEF LoaderInv, LoaderTypeOK
<1>2. \A l \in S : answer[l] \in Block /\ Level(answer[l]) = l
    BY <1>1, AnswersAreBlocks DEF LoaderInv
<1>3. new \subseteq Block /\ (\A b \in new : Level(b) \in S)
      /\ (\A b, c \in new : Level(b) = Level(c) => b = c) /\ S \subseteq Levels(new)
    BY <1>2 DEF Levels
<1>4. UnderWay' = UnderWay \union new
    BY DEF UnderWay
<1>5. \A b \in blocks \union UnderWay : Level(b) \notin S
    BY DEF LoaderInv, LevelsAreDistinct, Levels
<1>6. LoaderTypeOK'
    BY <1>3 DEF LoaderInv, LoaderTypeOK, nodeVars, confVars
<1>7. LevelsAreDistinct'
    <2>1. \A b, c \in blocks \union (UnderWay \union new) : Level(b) = Level(c) => b = c
        BY <1>3, <1>5 DEF LoaderInv, LevelsAreDistinct
    <2>2. (UnderWay \union new) \intersect blocks = {}
        BY <1>3, <1>5 DEF LoaderInv, LevelsAreDistinct
    <2>3. \A l \in todo \ S : l \notin Levels(blocks \union (UnderWay \union new))
        BY <1>3 DEF LoaderInv, LevelsAreDistinct, Levels
    <2>4. /\ hashed' \intersect batch' = {}
          /\ hashed' \intersect fetched' = {}
          /\ batch' \intersect fetched' = {}
        BY <1>3, <1>5 DEF LoaderInv, LevelsAreDistinct, UnderWay
    <2> QED
        BY <1>4, <2>1, <2>2, <2>3, <2>4 DEF LevelsAreDistinct
<1>8. NothingIsForgotten'
    BY <1>3, <1>4 DEF LoaderInv, NothingIsForgotten, Accounted, Levels
<1> QED
    BY <1>6, <1>7, <1>8 DEF LoaderInv, Idle

LEMMA RequestsKeep ==
    ASSUME LoaderInv, RequestHashes \/ RequestByNumber
    PROVE  LoaderInv'
<1>1. CASE RequestHashes
    <2>1. Lowest(HashBatch, todo) \in SUBSET todo
        BY LowestIsPart
    <2>2. PICK answer \in Answers(Lowest(HashBatch, todo)) :
            hashed' = {answer[l] : l \in Lowest(HashBatch, todo)}
        BY <1>1 DEF RequestHashes
    <2> QED
        BY <1>1, <2>1, <2>2, RequestKeeps DEF RequestHashes
<1>2. CASE RequestByNumber
    <2>1. Lowest(BlockBatch, todo) \in SUBSET todo
        BY LowestIsPart
    <2>2. PICK answer \in Answers(Lowest(BlockBatch, todo)) :
            fetched' = {answer[l] : l \in Lowest(BlockBatch, todo)}
        BY <1>2 DEF RequestByNumber
    <2> QED
        BY <1>2, <2>1, <2>2, RequestKeeps DEF RequestByNumber
<1> QED
    BY <1>1, <1>2

\* Blocks that move from one batch to the next stay under way.
LEMMA MovesKeep ==
    ASSUME LoaderInv, GatherHash \/ RequestBlocks
    PROVE  LoaderInv'
<1>1. /\ UnderWay' = UnderWay
      /\ hashed' \subseteq Block /\ batch' \subseteq Block /\ fetched' \subseteq Block
      /\ hashed' \intersect batch' = {}
      /\ hashed' \intersect fetched' = {}
      /\ batch' \intersect fetched' = {}
    BY DEF GatherHash, RequestBlocks, UnderWay, LoaderInv, LoaderTypeOK, LevelsAreDistinct
<1>2. UNCHANGED <<nodeVars, confVars, blocks, pc, range, seen, todo, dropped, failures>>
    BY DEF GatherHash, RequestBlocks
<1>3. LoaderTypeOK'
    BY <1>1, <1>2 DEF LoaderInv, LoaderTypeOK, nodeVars, confVars
<1> QED
    BY <1>1, <1>2, <1>3
    DEF LoaderInv, LevelsAreDistinct, NothingIsForgotten, Idle, Accounted, Levels

LEMMA StoreOrDropKeeps ==
    ASSUME LoaderInv, StoreBlock \/ DropBlock
    PROVE  LoaderInv'
<1>1. PICK b \in fetched :
        /\ fetched' = fetched \ {b}
        /\ \/ blocks' = blocks \union {b} /\ dropped' = dropped
           \/ dropped' = dropped \union {b} /\ blocks' = blocks
    BY DEF StoreBlock, DropBlock
<1>2. UNCHANGED <<nodeVars, confVars, pc, range, seen, todo, hashed, batch, failures>>
    BY DEF StoreBlock, DropBlock
<1>3. b \in UnderWay /\ UnderWay' = UnderWay \ {b}
    BY <1>1, <1>2 DEF UnderWay, LoaderInv, LevelsAreDistinct
<1>4. LoaderTypeOK'
    BY <1>1, <1>2 DEF LoaderInv, LoaderTypeOK, nodeVars, confVars
<1>5. LevelsAreDistinct'
    <2>1. blocks' \union UnderWay' \subseteq blocks \union UnderWay
        BY <1>1, <1>3
    <2>2. UnderWay' \intersect blocks' = {}
        BY <1>1, <1>3 DEF LoaderInv, LevelsAreDistinct
    <2>3. \A l \in todo' : l \notin Levels(blocks' \union UnderWay')
        BY <1>2, <2>1 DEF LoaderInv, LevelsAreDistinct, Levels
    <2> QED
        BY <1>1, <1>2, <2>1, <2>2, <2>3 DEF LoaderInv, LevelsAreDistinct
<1>6. NothingIsForgotten'
    BY <1>1, <1>2, <1>3 DEF LoaderInv, NothingIsForgotten, Accounted, Levels
<1>7. Idle'
    BY <1>2, <1>3 DEF LoaderInv, Idle
<1> QED
    BY <1>4, <1>5, <1>6, <1>7 DEF LoaderInv

LEMMA EndsKeep ==
    ASSUME LoaderInv, FinishLoad \/ Fail \/ Refuse \/ Restart
    PROVE  LoaderInv'
<1>1. /\ UNCHANGED <<nodeVars, confVars, blocks, dropped>>
      /\ pc' \in {"idle", "down"}
      /\ todo' = {} /\ hashed' = {} /\ batch' = {} /\ fetched' = {}
      /\ seen' \in {{}, seen}
    BY DEF FinishLoad, Fail, Refuse, Restart, End, LoaderInv, Idle, UnderWay
<1>2. failures' \in 0..MaxFailures
    BY LoaderAssumption
    DEF FinishLoad, Fail, Refuse, Restart, End, LoaderInv, LoaderTypeOK
<1>3. \/ range' = {}
      \/ range' = range /\ todo = {} /\ UnderWay = {}
    <2>1. CASE FinishLoad
        BY <2>1 DEF FinishLoad, UnderWay
    <2>2. CASE Restart
        BY <2>2 DEF Restart, LoaderInv, Idle
    <2>3. CASE Fail \/ Refuse
        BY <2>3 DEF Fail, Refuse, End
    <2> QED
        BY <2>1, <2>2, <2>3
<1>4. UnderWay' = {}
    BY <1>1 DEF UnderWay
<1>5. LoaderTypeOK'
    BY <1>1, <1>2, <1>3 DEF LoaderInv, LoaderTypeOK, nodeVars, confVars
<1>6. LevelsAreDistinct'
    BY <1>1, <1>4 DEF LoaderInv, LevelsAreDistinct
<1>7. NothingIsForgotten'
    BY <1>1, <1>3 DEF LoaderInv, NothingIsForgotten, Accounted, Levels
<1> QED
    BY <1>1, <1>4, <1>5, <1>6, <1>7 DEF LoaderInv, Idle

LEMMA LoaderStepKeeps == LoaderInv /\ [Next]_vars => LoaderInv'
<1> SUFFICES ASSUME LoaderInv, [Next]_vars PROVE LoaderInv'
    OBVIOUS
<1>1. CASE UNCHANGED vars
    BY <1>1
    DEF vars, nodeVars, confVars, loadVars, LoaderInv, LoaderTypeOK, LevelsAreDistinct,
        NothingIsForgotten, Idle, UnderWay, Accounted, Levels
<1> QED
    BY <1>1, NodeStepKeeps, StartLoadKeeps, RequestsKeep, MovesKeep, StoreOrDropKeeps, EndsKeep
    DEF Next, Loader

\* LoaderInv is an invariant of the loads.
THEOREM LoaderInvariant == Spec => []LoaderInv
BY LoaderInitEstablishes, LoaderStepKeeps, PTL DEF Spec

\* The state of the loads is always of its type: no load asks for a level that the
\* node does not have, in particular none below the genesis block.
THEOREM LoaderTypeCorrect == Spec => []LoaderTypeOK
<1>1. LoaderInv => LoaderTypeOK
    BY DEF LoaderInv
<1> QED
    BY <1>1, LoaderInvariant, PTL

\* Whatever order the batches were answered in and however they divide the range, a
\* load that ended without an error has stored, or dropped, every level it was about.
THEOREM LoadsAreComplete == Spec => []CompletedLoadIsComplete
<1>1. LoaderInv => CompletedLoadIsComplete
    BY DEF LoaderInv, NothingIsForgotten, CompletedLoadIsComplete, Idle, Levels
<1> QED
    BY <1>1, LoaderInvariant, PTL

--------------------------------------------------------------------------
(* The blocks table as an index written once *)

LEMMA StoreWritesIndex ==
    ASSUME LoaderInv, StoreBlock
    PROVE  Readers!Write
<1>1. PICK b \in fetched : blocks' = blocks \union {b}
    BY DEF StoreBlock
<1>2. /\ b \in Block /\ Level(b) \in 0..MaxLevel
      /\ \A c \in blocks : Level(c) # Level(b)
      /\ \A c, d \in blocks : Level(c) = Level(d) => c = d
    BY <1>1, BlockIsSeq DEF LoaderInv, LoaderTypeOK, LevelsAreDistinct, UnderWay
<1>3. BlockIndex[Level(b)] = NoBlock
    BY <1>2 DEF BlockIndex, Levels
<1>4. BlockIndex' = [BlockIndex EXCEPT ![Level(b)] = b]
    <2> DEFINE entry(S, l) ==
            IF l \in Levels(S) THEN CHOOSE c \in S : Level(c) = l ELSE NoBlock
               S == blocks \union {b}
    <2>1. entry(S, Level(b)) = b
        BY <1>2 DEF Levels
    <2>2. ASSUME NEW l \in 0..MaxLevel, l # Level(b)
          PROVE  entry(S, l) = entry(blocks, l)
        <3>1. l \in Levels(S) <=> l \in Levels(blocks)
            BY <2>2 DEF Levels
        <3>2. CASE l \in Levels(blocks)
            <4>1. PICK c \in blocks : Level(c) = l
                BY <3>2 DEF Levels
            <4>2. (CHOOSE d \in S : Level(d) = l) = c /\ (CHOOSE d \in blocks : Level(d) = l) = c
                BY <1>2, <2>2, <4>1
            <4> QED
                BY <3>1, <3>2, <4>2
        <3> QED
            BY <3>1, <3>2
    <2>3. BlockIndex = [l \in 0..MaxLevel |-> entry(blocks, l)]
        BY DEF BlockIndex
    <2>4. BlockIndex' = [l \in 0..MaxLevel |-> entry(S, l)]
        BY <1>1 DEF BlockIndex, Levels
    <2> HIDE DEF entry, S
    <2> QED
        BY <1>2, <2>1, <2>2, <2>3, <2>4
<1>5. b \in {c \in Readers!Block : Readers!Level(c) = Level(b)}
    BY <1>2 DEF Block, Level, Readers!Block, Readers!Level
<1> QED
    BY <1>2, <1>3, <1>4, <1>5 DEF Readers!Write

LEMMA StepWritesOnce == LoaderInv /\ [Next]_vars => [Readers!Write]_BlockIndex
<1> SUFFICES ASSUME LoaderInv, [Next]_vars PROVE Readers!Write \/ BlockIndex' = BlockIndex
    OBVIOUS
<1>1. StoreBlock \/ UNCHANGED blocks
    BY DEF Next, Loader, Advance, Reorganise, StartLoad, RequestHashes, GatherHash,
           RequestBlocks, RequestByNumber, DropBlock, FinishLoad, Fail, Refuse, End, Restart, vars
<1>2. CASE UNCHANGED blocks
    BY <1>2 DEF BlockIndex, Levels
<1> QED
    BY <1>1, <1>2, StoreWritesIndex

\* Whatever the node does and wherever a load ends, no level of the blocks table is
\* ever written twice, and none is changed or lost.
THEOREM LoaderWritesOnce == Spec => ImplementsWriteOnceIndex
<1>1. Init => Readers!Init
    BY DEF Init, Readers!Init, BlockIndex, Levels
<1> QED
    BY <1>1, StepWritesOnce, LoaderInvariant, PTL
    DEF Spec, ImplementsWriteOnceIndex, Readers!Spec

--------------------------------------------------------------------------
(* What a load that is cut off leaves out *)

\* Levels are finitely many.
LEMMA LevelsAreFinite ==
    ASSUME NEW S \in SUBSET Block
    PROVE  /\ Levels(S) \subseteq 0..MaxLevel
           /\ IsFiniteSet(Levels(S)) /\ Cardinality(Levels(S)) \in Nat
<1>1. Levels(S) \subseteq 0..MaxLevel
    BY BlockIsSeq DEF Levels
<1>2. IsFiniteSet(0..MaxLevel)
    BY ChainAssumption, FS_Interval
<1>3. IsFiniteSet(Levels(S))
    BY <1>1, <1>2, FS_Subset
<1> QED
    BY <1>1, <1>3, FS_CardinalityType

\* Blocks of different levels are as many as their levels.
LEMMA BlocksAreTheirLevels ==
    ASSUME NEW S \in SUBSET Block, \A b, c \in S : Level(b) = Level(c) => b = c
    PROVE  IsFiniteSet(S) /\ Cardinality(S) = Cardinality(Levels(S))
<1> DEFINE f == [b \in S |-> Level(b)]
<1>1. f \in Injection(S, Levels(S)) /\ f \in Surjection(S, Levels(S))
    BY DEF Injection, Surjection, IsInjective, Levels
<1>2. IsFiniteSet(Levels(S))
    BY LevelsAreFinite
<1> QED
    BY <1>1, <1>2, FS_Injection

\* Sets of levels are finite, and a part of one is no larger.
LEMMA LevelSets ==
    ASSUME NEW S \in SUBSET (0..MaxLevel), NEW T \in SUBSET S
    PROVE  /\ IsFiniteSet(S) /\ Cardinality(S) \in Nat
           /\ IsFiniteSet(T) /\ Cardinality(T) \in Nat /\ Cardinality(T) <= Cardinality(S)
<1>1. IsFiniteSet(0..MaxLevel)
    BY ChainAssumption, FS_Interval
<1>2. IsFiniteSet(S)
    BY <1>1, FS_Subset
<1>3. IsFiniteSet(T) /\ Cardinality(T) <= Cardinality(S)
    BY <1>2, FS_Subset
<1> QED
    BY <1>2, <1>3, FS_CardinalityType

\* A batch asks for no more levels than its size, and for none above a level that
\* it leaves for later.
LEMMA LowestIsBounded ==
    ASSUME NEW n \in Nat \ {0}, NEW S \in SUBSET (0..MaxLevel)
    PROVE  /\ Cardinality(Lowest(n, S)) <= n
           /\ \A x \in Lowest(n, S) : \A y \in S \ Lowest(n, S) : x < y
<1> DEFINE under(x) == {m \in S : m < x}
<1>1. \A x : Cardinality(under(x)) \in Nat /\ IsFiniteSet(under(x))
    <2> SUFFICES ASSUME NEW x PROVE Cardinality(under(x)) \in Nat /\ IsFiniteSet(under(x))
        OBVIOUS
    <2>1. under(x) \in SUBSET S
        OBVIOUS
    <2> QED
        BY <2>1, LevelSets
<1>2. Lowest(n, S) = {l \in S : Cardinality(under(l)) < n}
    BY DEF Lowest
<1>3. Lowest(n, S) \in SUBSET (0..MaxLevel) /\ MaxLevel \in Nat
    BY ChainAssumption DEF Lowest
<1>4. Cardinality(Lowest(n, S)) <= n
    <2>1. CASE Lowest(n, S) = {}
        BY <2>1, FS_EmptySet
    <2>2. CASE Lowest(n, S) # {}
        <3>1. PICK top \in Lowest(n, S) : \A x \in Lowest(n, S) : x <= top
            BY <1>3, <2>2, GreatestNumber
        <3>2. Lowest(n, S) \subseteq under(top) \union {top}
            BY <1>3, <3>1, LowestIsPart
        <3>3. Cardinality(under(top)) < n
            BY <1>2
        <3> DEFINE U == under(top)
        <3>4. IsFiniteSet(U) /\ top \notin U
            BY <1>1, <1>3
        <3> HIDE DEF U
        <3>5. /\ IsFiniteSet(U \union {top})
              /\ Cardinality(U \union {top}) = Cardinality(U) + 1
            BY <3>4, FS_AddElement
        <3>6. Cardinality(Lowest(n, S)) <= Cardinality(U) + 1
            BY <3>2, <3>5, FS_Subset DEF U
        <3>7. Cardinality(Lowest(n, S)) \in Nat
            BY <1>3, LevelSets
        <3>8. Cardinality(U) \in Nat /\ Cardinality(U) < n
            BY <1>1, <3>3 DEF U
        <3> QED
            BY <3>6, <3>7, <3>8
    <2> QED
        BY <2>1, <2>2
<1>5. ASSUME NEW x \in Lowest(n, S), NEW y \in S \ Lowest(n, S)
      PROVE  x < y
    <2>1. x \in Int /\ y \in Int /\ \A m \in S : m \in Int
        BY <1>3
    <2>2. Cardinality(under(x)) < n /\ ~(Cardinality(under(y)) < n)
        BY <1>2
    <2>3. SUFFICES ASSUME y <= x PROVE FALSE
        BY <2>1
    <2>4. under(y) \subseteq under(x)
        <3>1. ASSUME NEW m \in S, m < y
              PROVE  m < x
            BY <2>1, <2>3, <3>1
        <3> QED
            BY <3>1
    <2>5. Cardinality(under(y)) <= Cardinality(under(x))
        BY <1>1, <2>4, FS_Subset
    <2> QED
        BY <1>1, <2>2, <2>5
<1> QED
    BY <1>4, <1>5

\* The parts of the levels that WindowInv counts.
LEMMA CountedLevels ==
    ASSUME LoaderTypeOK
    PROVE  /\ UnderWay \subseteq Block
           /\ \A S \in SUBSET Block : \A l :
                /\ Below(l, S) \subseteq Levels(S)
                /\ Cardinality(Below(l, S)) \in Nat
                /\ Cardinality(Below(l, S)) <= Cardinality(Levels(S))
           /\ \A S \in SUBSET Block : \A T \in SUBSET S : \A l :
                Cardinality(Below(l, T)) <= Cardinality(Below(l, S))
           /\ Passed \subseteq Levels(UnderWay) /\ Cardinality(Passed) \in Nat
           /\ Window \in Nat
<1>1. UnderWay \subseteq Block
    BY DEF LoaderTypeOK, UnderWay
<1>2. ASSUME NEW S \in SUBSET Block, NEW l
      PROVE  /\ Below(l, S) \subseteq Levels(S)
             /\ Cardinality(Below(l, S)) \in Nat
             /\ Cardinality(Below(l, S)) <= Cardinality(Levels(S))
    <2>1. Levels(S) \in SUBSET (0..MaxLevel) /\ Below(l, S) \in SUBSET Levels(S)
        BY LevelsAreFinite DEF Below
    <2> QED
        BY <2>1, LevelSets
<1>3. ASSUME NEW S \in SUBSET Block, NEW T \in SUBSET S, NEW l
      PROVE  Cardinality(Below(l, T)) <= Cardinality(Below(l, S))
    <2>1. Below(l, S) \in SUBSET (0..MaxLevel) /\ Below(l, T) \in SUBSET Below(l, S)
        BY LevelsAreFinite DEF Below, Levels
    <2> QED
        BY <2>1, LevelSets
<1>4. Passed \in SUBSET Levels(UnderWay) /\ Levels(UnderWay) \in SUBSET (0..MaxLevel)
    BY <1>1, LevelsAreFinite DEF Passed
<1>5. Cardinality(Passed) \in Nat
    BY <1>4, LevelSets
<1>6. Window \in Nat
    BY LoaderAssumption DEF Window
<1> QED
    BY <1>1, <1>2, <1>3, <1>4, <1>5, <1>6
\* With nothing under way, all that is left to say is that a load of the newest
\* blocks asks for levels above everything stored.
LEMMA NothingUnderWay ==
    ASSUME hashed' = {}, batch' = {}, fetched' = {}, depth' = depth,
           depth = "newest" => \A l \in todo' : \A b \in blocks' : Level(b) < l
    PROVE  WindowInv'
<1>1. UnderWay' = {} /\ Levels({}) = {} /\ Cardinality({}) = 0
    BY FS_EmptySet DEF UnderWay, Levels
<1>2. BatchesAreBounded'
    BY <1>1, LoaderAssumption DEF BatchesAreBounded, Levels
<1>3. ASSUME depth = "newest" PROVE RunsUpwards'
    <2>1. \A l : {m \in {} : m < l} = {}
        OBVIOUS
    <2>2. \A b \in blocks' \union fetched' : Below(Level(b), hashed \union batch)' = {}
        BY <1>1, <2>1 DEF Below, Levels
    <2>3. Passed' = {}
        BY <1>1 DEF Passed, Levels
    <2>4. (0 <= Window)'
        BY LoaderAssumption DEF Window
    <2>5. \A b \in blocks' \union fetched' :
            (Cardinality(Below(Level(b), hashed \union batch)) < HashBatch)'
        BY <1>1, <2>2, LoaderAssumption
    <2>6. (Cardinality(Passed) <= Window)'
        BY <1>1, <2>3, <2>4
    <2> QED
        BY <1>1, <1>3, <2>5, <2>6 DEF RunsUpwards
<1> QED
    BY <1>2, <1>3 DEF WindowInv

\* A load of the newest blocks starts above everything stored.
LEMMA NewestIsAbove ==
    ASSUME LoaderTypeOK, depth = "newest", NEW b \in blocks
    PROVE  Level(b) < Start
<1>1. \E l \in {Level(c) : c \in blocks} : \A c \in blocks : Level(c) <= l
    BY HighestLevel DEF LoaderTypeOK
<1>2. Highest \in Levels(blocks) /\ \A c \in blocks : Level(c) <= Highest
    BY <1>1 DEF Highest, Levels
<1>3. Levels(blocks) \subseteq 0..MaxLevel /\ Level(b) \in 0..MaxLevel
    BY BlockIsSeq, LevelsAreFinite DEF LoaderTypeOK
<1>4. Start = Highest + 1
    BY DEF Start, BitcoinStart, EthereumStart, AboveLatest
<1> QED
    BY <1>2, <1>3, <1>4

LEMMA WindowIdleSteps ==
    ASSUME LoaderInv, WindowInv,
           StartLoad \/ FinishLoad \/ Fail \/ Refuse \/ Restart
    PROVE  WindowInv'
<1>1. CASE StartLoad
    <2>1. /\ hashed' = {} /\ batch' = {} /\ fetched' = {} /\ depth' = depth /\ blocks' = blocks
          /\ todo' \subseteq Start..Level(head)
        BY <1>1 DEF StartLoad, LoaderInv, Idle, UnderWay, confVars
    <2>2. ASSUME depth = "newest", NEW l \in todo', NEW b \in blocks
          PROVE  Level(b) < l
        <3>1. Level(b) < Start /\ Start \in Nat /\ Level(b) \in 0..MaxLevel
            BY <2>2, NewestIsAbove, StartIsLevel, BlockIsSeq DEF LoaderInv, LoaderTypeOK
        <3>2. l \in Int /\ Start <= l
            BY <2>1, StartIsLevel DEF LoaderInv
        <3> QED
            BY <3>1, <3>2, ChainAssumption
    <2> QED
        BY <2>1, <2>2, NothingUnderWay
<1>2. CASE FinishLoad \/ Fail \/ Refuse \/ Restart
    <2>1. hashed' = {} /\ batch' = {} /\ fetched' = {} /\ todo' = {} /\ depth' = depth
        BY <1>2 DEF FinishLoad, Fail, Refuse, Restart, End, LoaderInv, Idle, UnderWay, confVars
    <2> QED
        BY <2>1, NothingUnderWay
<1> QED
    BY <1>1, <1>2

\* Steps of the node change nothing that WindowInv speaks of.
LEMMA WindowFrame ==
    ASSUME WindowInv,
           UNCHANGED <<platform, depth, blocks, todo, hashed, batch, fetched>>
    PROVE  WindowInv'
BY DEF WindowInv, BatchesAreBounded, RunsUpwards, Passed, Window, Below, UnderWay, Levels
LEMMA WindowInit == Init => WindowInv
<1> SUFFICES ASSUME Init PROVE WindowInv
    OBVIOUS
<1>1. /\ hashed = {} /\ batch = {} /\ fetched = {} /\ blocks = {} /\ todo = {}
      /\ UnderWay = {} /\ Levels({}) = {} /\ Passed = {} /\ Cardinality({}) = 0
    BY FS_EmptySet DEF Init, UnderWay, Passed, Levels
<1>2. Window \in Nat
    BY LoaderAssumption DEF Window
<1> QED
    BY <1>1, <1>2, LoaderAssumption DEF WindowInv, BatchesAreBounded, RunsUpwards

\* What a request adds is above every block stored, fetched or gathered before.
LEMMA WindowRequestHashes ==
    ASSUME LoaderInv, WindowInv, RequestHashes
    PROVE  WindowInv'
<1> DEFINE L == Lowest(HashBatch, todo)
<1>1. todo \in SUBSET (0..MaxLevel) /\ L \subseteq todo /\ L \in SUBSET (0..MaxLevel)
    BY LowestIsPart DEF LoaderInv, LoaderTypeOK
<1>2. PICK answer \in Answers(L) : hashed' = {answer[l] : l \in L}
    BY DEF RequestHashes
<1>3. \A l \in L : answer[l] \in Block /\ Level(answer[l]) = l
    BY <1>1, AnswersAreBlocks DEF LoaderInv
<1>4. hashed' \subseteq Block /\ Levels(hashed') = L
    BY <1>2, <1>3 DEF Levels
<1>5. Cardinality(L) <= HashBatch /\ \A x \in L : \A y \in todo \ L : x < y
    BY <1>1, LowestIsBounded, LoaderAssumption
<1>6. /\ platform = "bitcoin" /\ hashed = {} /\ todo' = todo \ L
      /\ UNCHANGED <<platform, depth, blocks, batch, fetched>>
    BY DEF RequestHashes, confVars
<1> HIDE DEF L
<1>7. BatchesAreBounded'
    BY <1>4, <1>5, <1>6 DEF WindowInv, BatchesAreBounded, Levels
<1>8. ASSUME depth = "newest" PROVE RunsUpwards'
    <2>1. \A l \in todo : \A b \in blocks \union UnderWay : Level(b) < l
        BY <1>8 DEF WindowInv, RunsUpwards
    <2>2. UnderWay = batch \union fetched /\ UnderWay' = UnderWay \union hashed'
        BY <1>6 DEF UnderWay
    <2>3. \A b \in hashed' : Level(b) \in L
        BY <1>4 DEF Levels
    <2>4. \A b \in blocks \union UnderWay : Level(b) \in Int
        BY CountedLevels, BlockIsSeq, ChainAssumption DEF LoaderInv, LoaderTypeOK
    <2>5. \A l \in L : l \in Int /\ l \in todo
        BY <1>1
    <2>6. \A b \in blocks \union UnderWay :
            /\ Below(Level(b), hashed \union batch)' = Below(Level(b), hashed \union batch)
            /\ Below(Level(b), hashed)' = {}
        <3> SUFFICES ASSUME NEW b \in blocks \union UnderWay
                     PROVE  /\ Below(Level(b), hashed' \union batch) = Below(Level(b), batch)
                            /\ Below(Level(b), hashed') = {}
            BY <1>6 DEF Below, Levels
        <3>1. \A c \in hashed' : ~(Level(c) < Level(b))
            BY <2>1, <2>3, <2>4, <2>5
        <3> QED
            BY <3>1 DEF Below, Levels
    <2>7. Passed' = Passed
        <3>1. ASSUME NEW l \in Levels(hashed'), NEW b \in blocks PROVE ~(Level(b) > l)
            BY <1>4, <2>1, <2>4, <2>5
        <3>2. Passed' = {l \in Levels(UnderWay) \union Levels(hashed') : \E b \in blocks : Level(b) > l}
            BY <1>6, <2>2 DEF Passed, Levels
        <3> QED
            BY <3>1, <3>2 DEF Passed
    <2>8. \A l \in todo' : \A b \in blocks' \union UnderWay' : Level(b) < l
        BY <1>5, <1>6, <2>1, <2>2, <2>3
    <2>9. \A b \in blocks' \union fetched' :
            (Cardinality(Below(Level(b), hashed \union batch)) < HashBatch)'
        BY <1>6, <1>8, <2>2, <2>6 DEF WindowInv, RunsUpwards
    <2>10. \A b \in batch' : (Cardinality(Below(Level(b), hashed)) < HashBatch)'
        BY <1>6, <2>2, <2>6, FS_EmptySet, LoaderAssumption
    <2>11. (Cardinality(Passed) <= Window)'
        BY <1>6, <1>8, <2>7 DEF WindowInv, RunsUpwards, Window
    <2> QED
        BY <2>8, <2>9, <2>10, <2>11 DEF RunsUpwards
<1> QED
    BY <1>6, <1>7, <1>8 DEF WindowInv
LEMMA WindowRequestByNumber ==
    ASSUME LoaderInv, WindowInv, RequestByNumber
    PROVE  WindowInv'
<1> DEFINE L == Lowest(BlockBatch, todo)
<1>1. todo \in SUBSET (0..MaxLevel) /\ L \subseteq todo /\ L \in SUBSET (0..MaxLevel)
    BY LowestIsPart DEF LoaderInv, LoaderTypeOK
<1>2. PICK answer \in Answers(L) : fetched' = {answer[l] : l \in L}
    BY DEF RequestByNumber
<1>3. \A l \in L : answer[l] \in Block /\ Level(answer[l]) = l
    BY <1>1, AnswersAreBlocks DEF LoaderInv
<1>4. fetched' \subseteq Block /\ Levels(fetched') = L
    BY <1>2, <1>3 DEF Levels
<1>5. Cardinality(L) <= BlockBatch /\ \A x \in L : \A y \in todo \ L : x < y
    BY <1>1, LowestIsBounded, LoaderAssumption
<1>6. /\ hashed = {} /\ batch = {} /\ fetched = {} /\ todo' = todo \ L
      /\ UNCHANGED <<platform, depth, blocks, hashed, batch>>
    BY DEF RequestByNumber, confVars, WindowInv, BatchesAreBounded
<1> HIDE DEF L
<1>7. BatchesAreBounded'
    BY <1>4, <1>5, <1>6 DEF WindowInv, BatchesAreBounded, Levels
<1>8. ASSUME depth = "newest" PROVE RunsUpwards'
    <2>1. \A l \in todo : \A b \in blocks : Level(b) < l
        BY <1>8 DEF WindowInv, RunsUpwards
    <2>2. UnderWay' = fetched' /\ Levels({}) = {} /\ Cardinality({}) = 0
        BY <1>6, FS_EmptySet DEF UnderWay, Levels
    <2>3. \A b \in fetched' : Level(b) \in L
        BY <1>4 DEF Levels
    <2>4. \A b \in blocks : Level(b) \in Int
        BY BlockIsSeq, ChainAssumption DEF LoaderInv, LoaderTypeOK
    <2>5. \A l \in L : l \in Int /\ l \in todo
        BY <1>1
    <2>6. Passed' = {}
        <3>1. ASSUME NEW l \in Levels(fetched'), NEW b \in blocks PROVE ~(Level(b) > l)
            BY <1>4, <2>1, <2>4, <2>5
        <3>2. Passed' = {l \in Levels(fetched') : \E b \in blocks : Level(b) > l}
            BY <1>6, <2>2 DEF Passed, Levels
        <3> QED
            BY <3>1, <3>2
    <2>7. \A b \in blocks' \union fetched' : Below(Level(b), hashed \union batch)' = {}
        BY <1>6, <2>2 DEF Below, Levels
    <2>8. \A l \in todo' : \A b \in blocks' \union UnderWay' : Level(b) < l
        BY <1>5, <1>6, <2>1, <2>2, <2>3
    <2>9. \A b \in blocks' \union fetched' :
            (Cardinality(Below(Level(b), hashed \union batch)) < HashBatch)'
        BY <2>2, <2>7, LoaderAssumption
    <2>10. (Cardinality(Passed) <= Window)'
        BY <2>2, <2>6, LoaderAssumption DEF Window
    <2> QED
        BY <1>6, <2>8, <2>9, <2>10 DEF RunsUpwards
<1> QED
    BY <1>6, <1>7, <1>8 DEF WindowInv

\* The hash that is gathered was one of the batch: the rest is smaller than the batch.
LEMMA WindowGatherHash ==
    ASSUME LoaderInv, WindowInv, GatherHash
    PROVE  WindowInv'
<1>1. PICK b \in hashed :
        batch' = batch \union {b} /\ hashed' = hashed \ {b}
    BY DEF GatherHash
<1>2. /\ Cardinality(batch) < BlockBatch
      /\ UNCHANGED <<platform, depth, blocks, todo, fetched>>
    BY DEF GatherHash, confVars
<1>3. /\ b \in Block /\ hashed \subseteq Block /\ batch \subseteq Block
      /\ blocks \subseteq Block /\ fetched \subseteq Block
      /\ HashBatch \in Nat \ {0} /\ BlockBatch \in Nat \ {0}
    BY LoaderAssumption DEF LoaderInv, LoaderTypeOK
<1>4. \A c, d \in UnderWay : Level(c) = Level(d) => c = d
    BY DEF LoaderInv, LevelsAreDistinct
<1>5. UnderWay' = UnderWay /\ hashed' \union batch' = hashed \union batch
    BY <1>1, <1>2 DEF UnderWay
<1>6. Cardinality(Levels(batch')) <= BlockBatch
    <2>1. Cardinality(Levels(batch)) = Cardinality(batch)
        BY <1>3, <1>4, BlocksAreTheirLevels DEF UnderWay
    <2>2. Levels(batch') = Levels(batch) \union {Level(b)}
        BY <1>1 DEF Levels
    <2>3. IsFiniteSet(Levels(batch)) /\ Cardinality(Levels(batch)) \in Nat
        BY <1>3, LevelsAreFinite
    <2>4. Cardinality(Levels(batch')) <= Cardinality(Levels(batch)) + 1
        <3> DEFINE B == Levels(batch)
        <3>1. IsFiniteSet(B) /\ Cardinality(B) \in Nat
            BY <2>3
        <3> HIDE DEF B
        <3>2. Cardinality(B \union {Level(b)}) \in {Cardinality(B), Cardinality(B) + 1}
            BY <3>1, FS_AddElement
        <3>3. Cardinality(B \union {Level(b)}) <= Cardinality(B) + 1
            BY <3>1, <3>2
        <3> QED
            BY <2>2, <3>3 DEF B
    <2>5. Cardinality(Levels(batch')) \in Nat
        BY <1>1, <1>3, LevelsAreFinite
    <2> QED
        BY <1>2, <1>3, <2>1, <2>3, <2>4, <2>5
<1>7. /\ IsFiniteSet(Levels(hashed)) /\ Cardinality(Levels(hashed)) \in Nat
      /\ Cardinality(Levels(hashed)) <= HashBatch
      /\ hashed' \in SUBSET hashed
    BY <1>1, <1>3, LevelsAreFinite DEF WindowInv, BatchesAreBounded
<1>8. /\ Cardinality(Levels(hashed')) <= Cardinality(Levels(hashed)) - 1
      /\ Cardinality(Levels(hashed')) \in Nat
    <2>1. Levels(hashed') \subseteq Levels(hashed) \ {Level(b)} /\ Level(b) \in Levels(hashed)
        BY <1>1, <1>4 DEF UnderWay, Levels
    <2>2. /\ IsFiniteSet(Levels(hashed) \ {Level(b)})
          /\ Cardinality(Levels(hashed) \ {Level(b)}) = Cardinality(Levels(hashed)) - 1
        BY <1>7, <2>1, FS_RemoveElement
    <2>3. Cardinality(Levels(hashed')) <= Cardinality(Levels(hashed) \ {Level(b)})
        BY <2>1, <2>2, FS_Subset
    <2>4. Cardinality(Levels(hashed')) \in Nat
        BY <1>3, <1>7, LevelsAreFinite
    <2> QED
        BY <2>2, <2>3, <2>4
<1>9. BatchesAreBounded'
    BY <1>1, <1>2, <1>3, <1>6, <1>7, <1>8 DEF WindowInv, BatchesAreBounded, Levels
<1>10. ASSUME depth = "newest" PROVE RunsUpwards'
    <2>1. RunsUpwards
        BY <1>10 DEF WindowInv
    <2>2. \A c \in batch' : Cardinality(Below(Level(c), hashed')) < HashBatch
        <3>1. \A l : /\ Cardinality(Below(l, hashed')) \in Nat
                     /\ Cardinality(Below(l, hashed)) \in Nat
                     /\ Cardinality(Below(l, hashed')) <= Cardinality(Levels(hashed'))
                     /\ Cardinality(Below(l, hashed')) <= Cardinality(Below(l, hashed))
            <4>1. hashed' \in SUBSET Block /\ hashed \in SUBSET Block /\ LoaderTypeOK
                BY <1>3, <1>7 DEF LoaderInv
            <4> QED
                BY <1>7, <4>1, CountedLevels
        <3>2. ASSUME NEW c \in batch PROVE Cardinality(Below(Level(c), hashed')) < HashBatch
            <4>1. Cardinality(Below(Level(c), hashed)) < HashBatch
                BY <2>1 DEF RunsUpwards
            <4> QED
                BY <1>3, <3>1, <4>1
        <3>3. Cardinality(Below(Level(b), hashed')) < HashBatch
            BY <1>3, <1>7, <1>8, <3>1
        <3> QED
            BY <1>1, <3>2, <3>3
    <2>3. Passed' = Passed /\ Window' = Window
        BY <1>2, <1>5 DEF Passed, Window, Levels
    <2>4. \A l : Below(l, hashed \union batch)' = Below(l, hashed \union batch)
        BY <1>5 DEF Below, Levels
    <2>5. \A c \in batch' : (Cardinality(Below(Level(c), hashed)) < HashBatch)'
        BY <2>2 DEF Below, Levels
    <2>6. (Cardinality(Passed) <= Window)'
        BY <2>1, <2>3 DEF RunsUpwards
    <2>7. \A c \in blocks' \union fetched' :
            (Cardinality(Below(Level(c), hashed \union batch)) < HashBatch)'
        BY <1>2, <1>5, <2>1 DEF RunsUpwards, Below, Levels
    <2> QED
        BY <1>2, <1>5, <2>1, <2>5, <2>6, <2>7 DEF RunsUpwards
<1> QED
    BY <1>2, <1>9, <1>10 DEF WindowInv
\* A batch is requested when the one before is stored: what may be overtaken is
\* what its last hashes left behind.
LEMMA WindowRequestBlocks ==
    ASSUME LoaderInv, WindowInv, RequestBlocks
    PROVE  WindowInv'
<1>1. /\ fetched = {} /\ fetched' = batch /\ batch' = {}
      /\ UNCHANGED <<platform, depth, blocks, todo, hashed>>
    BY DEF RequestBlocks, confVars
<1>2. UnderWay' = UnderWay /\ Levels({}) = {} /\ Cardinality({}) = 0
    BY <1>1, FS_EmptySet DEF UnderWay, Levels
<1>3. BatchesAreBounded'
    BY <1>1, <1>2, LoaderAssumption DEF WindowInv, BatchesAreBounded, Levels
<1>4. ASSUME depth = "newest" PROVE RunsUpwards'
    <2>1. RunsUpwards
        BY <1>4 DEF WindowInv
    <2>2. ASSUME NEW b \in blocks \union batch
          PROVE  Cardinality(Below(Level(b), hashed)) < HashBatch
        <3>1. CASE b \in batch
            BY <2>1, <3>1 DEF RunsUpwards
        <3>2. CASE b \in blocks
            <4> DEFINE l == Level(b)
            <4>1. hashed \in SUBSET (hashed \union batch) /\ hashed \union batch \in SUBSET Block
                BY DEF LoaderInv, LoaderTypeOK
            <4>2. /\ Cardinality(Below(l, hashed)) \in Nat
                  /\ Cardinality(Below(l, hashed \union batch)) \in Nat
                  /\ Cardinality(Below(l, hashed)) <= Cardinality(Below(l, hashed \union batch))
                <5>1. hashed \in SUBSET Block
                    BY <4>1
                <5> QED
                    BY <4>1, <5>1, CountedLevels DEF LoaderInv
            <4>3. Cardinality(Below(l, hashed \union batch)) < HashBatch
                BY <2>1, <3>2 DEF RunsUpwards
            <4> QED
                BY <4>2, <4>3, LoaderAssumption
        <3> QED
            BY <3>1, <3>2
    <2>3. \A c \in blocks' \union fetched' :
            (Cardinality(Below(Level(c), hashed \union batch)) < HashBatch)'
        <3>1. \A l : Below(l, hashed \union batch)' = Below(l, hashed)
            BY <1>1 DEF Below, Levels
        <3> QED
            BY <1>1, <2>2, <3>1
    <2>4. (Cardinality(Passed) <= Window)'
        BY <1>1, <1>2, <2>1 DEF RunsUpwards, Passed, Window, Levels
    <2> QED
        BY <1>1, <1>2, <2>1, <2>3, <2>4 DEF RunsUpwards
<1> QED
    BY <1>1, <1>3, <1>4 DEF WindowInv

\* A block that is stored overtakes less than a batch of blocks, those of its own, and
\* less than a batch of hashes, those gathered with it and not asked for yet.
LEMMA WindowStoreOrDrop ==
    ASSUME LoaderInv, WindowInv, StoreBlock \/ DropBlock
    PROVE  WindowInv'
<1>1. PICK b \in fetched :
        /\ fetched' = fetched \ {b}
        /\ blocks' \in {blocks, blocks \union {b}}
    BY DEF StoreBlock, DropBlock
<1>2. UNCHANGED <<platform, depth, todo, hashed, batch>>
    BY DEF StoreBlock, DropBlock, confVars
<1>3. /\ b \in Block /\ hashed \subseteq Block /\ batch \subseteq Block
      /\ blocks \subseteq Block /\ fetched \subseteq Block
      /\ HashBatch \in Nat \ {0} /\ BlockBatch \in Nat \ {0}
      /\ platform \in {"bitcoin", "ethereum"}
    BY LoaderAssumption DEF LoaderInv, LoaderTypeOK
<1>4. \A c, d \in UnderWay : Level(c) = Level(d) => c = d
    BY DEF LoaderInv, LevelsAreDistinct
<1>5. UnderWay' \subseteq UnderWay /\ blocks' \union UnderWay' \subseteq blocks \union UnderWay
    BY <1>1, <1>2 DEF UnderWay
<1>6. /\ Cardinality(Levels(fetched')) <= BlockBatch - 1
      /\ Cardinality(Levels(fetched')) \in Nat
      /\ IsFiniteSet(Levels(fetched'))
    <2> DEFINE F == Levels(fetched)
    <2>1. Levels(fetched') \subseteq F \ {Level(b)} /\ Level(b) \in F
        BY <1>1, <1>4 DEF UnderWay, Levels
    <2>2. IsFiniteSet(F) /\ Cardinality(F) \in Nat /\ Cardinality(F) <= BlockBatch
        BY <1>3, LevelsAreFinite DEF WindowInv, BatchesAreBounded
    <2> HIDE DEF F
    <2>3. IsFiniteSet(F \ {Level(b)}) /\ Cardinality(F \ {Level(b)}) = Cardinality(F) - 1
        BY <2>1, <2>2, FS_RemoveElement
    <2>4. Cardinality(Levels(fetched')) <= Cardinality(F \ {Level(b)})
        BY <2>1, <2>3, FS_Subset
    <2>5. Cardinality(Levels(fetched')) \in Nat /\ IsFiniteSet(Levels(fetched'))
        BY <1>1, <1>3, LevelsAreFinite
    <2> QED
        BY <1>3, <2>2, <2>3, <2>4, <2>5
<1>7. BatchesAreBounded'
    BY <1>2, <1>3, <1>6 DEF WindowInv, BatchesAreBounded, Levels
<1>8. ASSUME depth = "newest" PROVE RunsUpwards'
    <2>1. RunsUpwards
        BY <1>8 DEF WindowInv
    <2>2. \A c \in blocks' \union fetched' :
            Cardinality(Below(Level(c), hashed \union batch)) < HashBatch
        BY <1>1, <2>1 DEF RunsUpwards
    <2>3. Cardinality(Passed') <= Window
        <3>1. CASE blocks' = {}
            BY <3>1, FS_EmptySet, LoaderAssumption DEF Passed, Window
        <3>2. CASE blocks' # {}
            <4>1. blocks' \in SUBSET Block
                BY <1>1, <1>3
            <4>2. PICK c \in blocks' : \A d \in blocks' : Level(d) <= Level(c)
                BY <3>2, <4>1, HighestLevel
            <4> DEFINE R == Below(Level(c), hashed \union batch)
                       F == Levels(fetched')
            <4>3. Passed' \subseteq F \union R
                <5>1. UnderWay' = (hashed \union batch) \union fetched'
                    BY <1>2 DEF UnderWay
                <5>2. Passed' = {l \in Levels(UnderWay') : \E d \in blocks' : Level(d) > l}
                    BY DEF Passed, Levels
                <5>3. ASSUME NEW l \in Levels(UnderWay'), NEW d \in blocks', Level(d) > l
                      PROVE  l < Level(c)
                    <6>1. Level(d) \in Int /\ Level(c) \in Int /\ l \in Int
                        BY <1>3, <1>5, <4>1, BlockIsSeq, ChainAssumption, CountedLevels
                        DEF Levels, LoaderInv
                    <6> QED
                        BY <4>2, <5>3, <6>1
                <5> QED
                    BY <5>1, <5>2, <5>3 DEF Below, Levels
            <4>4. /\ R \subseteq Levels(hashed \union batch) /\ IsFiniteSet(R)
                  /\ Cardinality(R) \in Nat /\ Cardinality(R) <= HashBatch - 1
                <5>1. hashed \union batch \in SUBSET Block
                    BY <1>3
                <5>2. /\ R \subseteq Levels(hashed \union batch)
                      /\ Cardinality(R) \in Nat
                    BY <5>1, CountedLevels DEF LoaderInv
                <5>3. IsFiniteSet(R)
                    BY <5>1, <5>2, LevelsAreFinite, FS_Subset
                <5>4. Cardinality(R) < HashBatch
                    BY <2>2
                <5>5. \A x \in Nat : x < HashBatch => x <= HashBatch - 1
                    BY <1>3
                <5> QED
                    BY <5>2, <5>3, <5>4, <5>5
            <4>5. platform = "ethereum" => Cardinality(R) = 0
                BY <4>4, FS_EmptySet DEF WindowInv, BatchesAreBounded, Levels
            <4>6. IsFiniteSet(F) /\ Cardinality(F) \in Nat /\ Cardinality(F) <= BlockBatch - 1
                BY <1>6
            <4> HIDE DEF F, R
            <4>7. /\ IsFiniteSet(F \union R) /\ IsFiniteSet(F \intersect R)
                  /\ Cardinality(F \union R)
                        = Cardinality(F) + Cardinality(R) - Cardinality(F \intersect R)
                BY <4>4, <4>6, FS_Union, FS_Intersection
            <4>8. /\ Cardinality(F \intersect R) \in Nat /\ Cardinality(F \union R) \in Nat
                BY <4>7, FS_CardinalityType
            <4>9. IsFiniteSet(Passed') /\ Cardinality(Passed') <= Cardinality(F \union R)
                BY <4>3, <4>7, FS_Subset
            <4>10. Cardinality(Passed') \in Nat
                BY <4>9, FS_CardinalityType
            <4>11. Cardinality(F \union R) <= Window
                BY <1>3, <4>4, <4>5, <4>6, <4>7, <4>8 DEF Window
            <4>12. Window \in Nat
                BY LoaderAssumption DEF Window
            <4> QED
                BY <4>8, <4>9, <4>10, <4>11, <4>12
        <3> QED
            BY <3>1, <3>2
    <2>4. \A l : /\ Below(l, hashed \union batch)' = Below(l, hashed \union batch)
                 /\ Below(l, hashed)' = Below(l, hashed)
        BY <1>2 DEF Below, Levels
    <2>5. Window' = Window
        BY <1>2 DEF Window
    <2>6. \A l \in todo' : \A c \in blocks' \union UnderWay' : Level(c) < l
        BY <1>2, <1>5, <2>1 DEF RunsUpwards
    <2>7. \A c \in blocks' \union fetched' :
            (Cardinality(Below(Level(c), hashed \union batch)) < HashBatch)'
        BY <2>2, <2>4
    <2>8. \A c \in batch' : (Cardinality(Below(Level(c), hashed)) < HashBatch)'
        BY <1>2, <2>1, <2>4 DEF RunsUpwards
    <2> QED
        BY <2>3, <2>5, <2>6, <2>7, <2>8 DEF RunsUpwards
<1> QED
    BY <1>2, <1>7, <1>8 DEF WindowInv

LEMMA WindowStepKeeps == LoaderInv /\ WindowInv /\ [Next]_vars => WindowInv'
<1> SUFFICES ASSUME LoaderInv, WindowInv, [Next]_vars PROVE WindowInv'
    OBVIOUS
<1>1. CASE Advance \/ Reorganise \/ UNCHANGED vars
    <2>1. UNCHANGED <<platform, depth, blocks, todo, hashed, batch, fetched>>
        BY <1>1 DEF Advance, Reorganise, vars, confVars, loadVars
    <2> QED
        BY <2>1, WindowFrame
<1> QED
    BY <1>1, WindowIdleSteps, WindowRequestHashes, WindowRequestByNumber, WindowGatherHash,
       WindowRequestBlocks, WindowStoreOrDrop
    DEF Next, Loader

\* What is missing below a stored block is under way.
LEMMA GapsAreUnderWay ==
    ASSUME LoaderInv, WindowInv
    PROVE  GapsAreBounded
<1> SUFFICES ASSUME depth = "newest" PROVE Cardinality(Overtaken) <= Window
    BY DEF GapsAreBounded
<1>1. RunsUpwards
    BY DEF WindowInv
<1>2. \A l \in range : l \in Int
    BY ChainAssumption DEF LoaderInv, LoaderTypeOK
<1>3. \A b \in blocks : Level(b) \in Int
    BY BlockIsSeq, ChainAssumption DEF LoaderInv, LoaderTypeOK
<1>4. Overtaken \subseteq Passed
    <2> SUFFICES ASSUME NEW l \in range, ~Accounted(l), NEW b \in blocks, Level(b) > l
                 PROVE  l \in Levels(UnderWay)
        BY DEF Overtaken, Passed
    <2>1. l \notin todo
        BY <1>1, <1>2, <1>3 DEF RunsUpwards
    <2> QED
        BY <2>1 DEF LoaderInv, NothingIsForgotten
<1>5. /\ Passed \in SUBSET (0..MaxLevel) /\ Cardinality(Passed) <= Window
      /\ Window \in Nat
    BY <1>1, CountedLevels, LevelsAreFinite DEF RunsUpwards, LoaderInv
<1>6. /\ Cardinality(Overtaken) <= Cardinality(Passed)
      /\ Cardinality(Overtaken) \in Nat /\ Cardinality(Passed) \in Nat
    BY <1>4, <1>5, LevelSets
<1> QED
    BY <1>5, <1>6

\* However the batches divide the range, in whatever order they are answered and
\* wherever the load ends: the levels below the highest block that a load of the newest
\* blocks leaves out for good are less than a batch of hashes and a batch of blocks.
THEOREM GapsStayBounded == Spec => []GapsAreBounded
<1>1. LoaderInv /\ WindowInv => GapsAreBounded
    BY GapsAreUnderWay
<1> QED
    BY <1>1, WindowInit, WindowStepKeeps, LoaderInvariant, PTL DEF Spec
=============================================================================
