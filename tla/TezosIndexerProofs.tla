------------------------- MODULE TezosIndexerProofs -------------------------
(***************************************************************************)
(* Lorre's main loop is type correct, keeps the indexed chain gapless and   *)
(* its account events consistent with it, and implements the abstract stack *)
(* of blocks, for any chain, page size, window of backtracking and number   *)
(* of failures.                                                             *)
(***************************************************************************)
EXTENDS TezosIndexerProps, ForkDetectorProofs

\* The highest indexed level exists when a block does, and -1 stands for none.
LEMMA MaxIndexedIsHighest ==
    ASSUME blocks \subseteq Block
    PROVE  /\ MaxIndexed \in -1..MaxLevel
           /\ \A b \in blocks : Level(b) <= MaxIndexed
           /\ blocks # {} => \E b \in blocks : Level(b) = MaxIndexed
           /\ blocks = {} => MaxIndexed = -1
<1>1. \A b \in blocks : Level(b) \in 0..MaxLevel
    BY BlockIsSeq
<1>2. CASE blocks = {}
    BY <1>2, ChainAssumption DEF MaxIndexed
<1>3. CASE blocks # {}
    <2>1. \E l \in {Level(b) : b \in blocks} : \A b \in blocks : Level(b) <= l
        BY <1>3, HighestLevel
    <2>2. MaxIndexed \in {Level(b) : b \in blocks} /\ \A b \in blocks : Level(b) <= MaxIndexed
        BY <1>3, <2>1 DEF MaxIndexed
    <2> QED
        BY <1>1, <1>3, <2>2, ChainAssumption
<1> QED
    BY <1>2, <1>3

\* Events that are past are at an indexed level.
LEMMA PastIsIndexed ==
    ASSUME IndexerTypeOK, Gapless(blocks), NEW e \in Past(Resets)
    PROVE  e \in Events /\ \E b \in blocks : Level(b) = e
<1>1. e \in Events /\ e \in Nat /\ e <= MaxIndexed
    BY IndexerAssumption, ChainAssumption DEF Past, Resets, IndexerTypeOK
<1>2. blocks \subseteq Block
    BY DEF IndexerTypeOK, DetectorTypeOK
<1>3. PICK b \in blocks : Level(b) = MaxIndexed
    BY <1>1, <1>2, MaxIndexedIsHighest
<1>4. e \in 0..Level(b)
    BY <1>1, <1>2, <1>3, MaxIndexedIsHighest
<1> QED
    BY <1>1, <1>3, <1>4 DEF Gapless

LEMMA ResetsType ==
    ASSUME IndexerTypeOK
    PROVE  Resets \subseteq Events /\ Past(Resets) \subseteq Resets /\ Unprocessed \subseteq Events
BY DEF IndexerTypeOK, Resets, Past, Unprocessed

\* The end of a page is within the chain of the target.
LEMMA PageBounds ==
    ASSUME IndexerInv, pc = "page", nextLevel <= Level(target)
    PROVE  /\ target \in Block /\ nextLevel \in Nat
           /\ LastOfPage \in Nat /\ nextLevel <= LastOfPage /\ LastOfPage <= Level(target)
           /\ Level(target) \in 0..MaxLevel
<1>1. target \in Block /\ nextLevel \in 0..MaxLevel + 1
    BY DEF IndexerInv, PagesGoOnTop, IndexerTypeOK
<1>2. Level(target) \in 0..MaxLevel /\ MaxLevel \in Nat /\ PageSize \in Nat \ {0}
    BY <1>1, BlockIsSeq, ChainAssumption, IndexerAssumption
<1> QED
    BY <1>1, <1>2 DEF LastOfPage

\* A counter of iterations wraps below its interval.
LEMMA NextIteration ==
    ASSUME IndexerTypeOK
    PROVE  (iteration + 1) % BacktrackInterval \in 0..BacktrackInterval - 1
BY IndexerAssumption DEF IndexerTypeOK

--------------------------------------------------------------------------
(* One lemma per group of steps: each keeps IndexerInv *)

LEMMA IndexerInitEstablishes == Init => IndexerInv
<1> SUFFICES ASSUME Init PROVE IndexerInv
    OBVIOUS
<1>1. /\ MaxLevel \in Nat /\ MaxAttempts \in Nat /\ MaxReorgs \in Nat /\ MaxFailures \in Nat
      /\ BacktrackInterval \in Nat \ {0}
    BY ChainAssumption, DetectorAssumption, IndexerAssumption
<1>2. DetectorTypeOK
    BY <1>1 DEF Init, DetectorTypeOK, Idle, Stages
<1>3. DetectorInv
    BY <1>2 DEF Init, DetectorInv, SearchIsNarrowing, Running, Gapless, Idle
<1>4. IndexerTypeOK
    BY <1>1, <1>2 DEF Init, IndexerTypeOK, Steps, NoReload
<1> QED
    BY <1>3, <1>4
    DEF Init, IndexerInv, SearchesInProcessFork, TopWasRead, RefillsBeforeMarks, PagesGoOnTop,
        ProcessedAreIndexed, ProcessedWereRefilled, Idle

\* A step away from the tables and the detection disturbs only what the loop knows.
LEMMA QuietStep ==
    ASSUME IndexerInv, UNCHANGED <<nodeVars, dbVars, engineVars>>
    PROVE  DetectorInv' /\ ProcessedAreIndexed' /\ ProcessedWereRefilled'
BY DEF IndexerInv, nodeVars, dbVars, engineVars, DetectorInv, DetectorTypeOK, SearchIsNarrowing,
       Running, LinksTo, Indexed, ProcessedAreIndexed, ProcessedWereRefilled

\* When no search is under way only the types and the indexed chain matter.
LEMMA IdleDetector ==
    ASSUME DetectorTypeOK', Gapless(blocks'), search'.at = "idle"
    PROVE  DetectorInv'
BY DEF DetectorInv, SearchIsNarrowing, Running

LEMMA IdleType ==
    /\ Idle.at = "idle"
    /\ Idle \in [at : Stages, low : 0..MaxLevel, high : 0..MaxLevel, top : 0..MaxLevel,
                 attempts : 0..MaxAttempts, ref : Block \union {NoBlock}, steady : BOOLEAN]
BY ChainAssumption, DetectorAssumption DEF Idle, Stages

\* The constants, as the steps need them.
LEMMA Bounds ==
    /\ MaxLevel \in Nat /\ MaxReorgs \in Nat /\ MaxFailures \in Nat
    /\ MaxAttempts \in Nat \ {0} /\ BacktrackInterval \in Nat \ {0} /\ BacktrackLevels \in Nat
BY ChainAssumption, DetectorAssumption, IndexerAssumption

\* A process that stops leaves the tables as they are.
LEMMA StopKeeps == IndexerInv /\ Stop /\ failures' \in 0..MaxFailures => IndexerInv'
<1> SUFFICES ASSUME IndexerInv, Stop, failures' \in 0..MaxFailures
             PROVE  IndexerInv'
    OBVIOUS
<1>1. /\ pc' = "down" /\ search' = Idle /\ anchor' = NoBlock /\ booting' = NoBlock
      /\ blocks' = blocks /\ processed' = processed /\ refilled' = refilled
      /\ head' = head /\ reorgs' = reorgs
    BY DEF Stop, nodeVars, dbVars
<1>2. DetectorTypeOK'
    BY <1>1, IdleType DEF IndexerInv, IndexerTypeOK, DetectorTypeOK
<1>3. DetectorInv'
    BY <1>1, <1>2, IdleType, IdleDetector DEF IndexerInv, DetectorInv
<1>4. IndexerTypeOK'
    BY <1>1, <1>2, Bounds DEF Stop, IndexerInv, IndexerTypeOK, Steps, NoReload
<1> QED
    BY <1>1, <1>3, <1>4, IdleType
    DEF IndexerInv, SearchesInProcessFork, TopWasRead, RefillsBeforeMarks, PagesGoOnTop,
        ProcessedAreIndexed, ProcessedWereRefilled

\* The node moves, or the anchor of the engine's constructor arrives.
LEMMA EnvironmentKeeps == IndexerInv /\ Environment => IndexerInv'
<1> SUFFICES ASSUME IndexerInv, Environment
             PROVE  IndexerInv'
    OBVIOUS
<1>1. /\ blocks' = blocks /\ processed' = processed /\ refilled' = refilled /\ search' = search
      /\ UNCHANGED volatileVars /\ failures' = failures
    BY DEF Environment, NodeStep, Advance, Reorganise, StoreBootAnchor
<1>2. DetectorInv'
    BY NodeStepKeeps DEF IndexerInv, Environment
<1> QED
    BY <1>1, <1>2
    DEF IndexerInv, volatileVars, IndexerTypeOK, DetectorInv, SearchesInProcessFork, TopWasRead,
        RefillsBeforeMarks, PagesGoOnTop, ProcessedAreIndexed, ProcessedWereRefilled, Past,
        Resets, MaxIndexed

\* The detection, one request at a time.
LEMMA DetectKeeps == IndexerInv /\ Detect => IndexerInv'
<1> SUFFICES ASSUME IndexerInv, Detect
             PROVE  IndexerInv'
    OBVIOUS
<1>1. /\ pc = "processFork" /\ blocks' = blocks
      /\ processed' = processed /\ refilled' = refilled
      /\ UNCHANGED volatileVars /\ failures' = failures
    BY DEF Detect, DetectorStep, Refused, CheckHead, Probe, Settle, Verify, Request
<1>2. DetectorInv'
    BY DetectorStepKeeps DEF IndexerInv, Detect
<1> QED
    BY <1>1, <1>2
    DEF IndexerInv, volatileVars, IndexerTypeOK, DetectorInv, SearchesInProcessFork, TopWasRead,
        RefillsBeforeMarks, PagesGoOnTop, ProcessedAreIndexed, ProcessedWereRefilled

\* An amendment cuts the chain and forgets the events of the levels it cuts.
LEMMA AmendKeeps ==
    ASSUME IndexerInv, NEW level \in 1..MaxLevel, AmendFork(level)
    PROVE  /\ blocks' \subseteq Block /\ Gapless(blocks')
           /\ processed' \subseteq Events /\ refilled' \subseteq Events
           /\ ProcessedAreIndexed' /\ ProcessedWereRefilled'
<1>1. level \in Int
    BY ChainAssumption
<1>2. /\ blocks' = {b \in blocks : Level(b) < level}
      /\ processed' = {e \in processed : e < level}
      /\ refilled' = {e \in refilled : e < level}
    BY DEF AmendFork, DeleteEvents
<1>3. Gapless(blocks')
    BY <1>1, <1>2, CutIsGapless DEF IndexerInv, DetectorInv, DetectorTypeOK
<1>4. ProcessedAreIndexed'
    BY <1>2 DEF IndexerInv, ProcessedAreIndexed
<1> QED
    BY <1>2, <1>3, <1>4
    DEF IndexerInv, IndexerTypeOK, DetectorTypeOK, ProcessedWereRefilled

\* processFork amends at the level that was verified.
LEMMA AmendDetectedKeeps == IndexerInv /\ AmendDetected => IndexerInv'
<1> SUFFICES ASSUME IndexerInv, AmendDetected
             PROVE  IndexerInv'
    OBVIOUS
<1>1. search.high \in 1..MaxLevel
    BY Bounds DEF AmendDetected, IndexerInv, DetectorInv, DetectorTypeOK, SearchIsNarrowing
<1>2. /\ AmendFork(search.high) /\ search' = Idle /\ pc' = "reload"
      /\ UNCHANGED <<nodeVars, anchor, booting, iteration, maxLevel, window, forked, reloaded,
                     pending, unhandled, target, nextLevel, failures>>
    BY DEF AmendDetected
<1>3. DetectorTypeOK'
    BY <1>1, <1>2, AmendKeeps, IdleType DEF IndexerInv, DetectorInv, DetectorTypeOK, nodeVars
<1>4. DetectorInv'
    BY <1>1, <1>2, <1>3, AmendKeeps, IdleType, IdleDetector
<1>5. IndexerTypeOK'
    BY <1>1, <1>2, <1>3, AmendKeeps DEF IndexerInv, IndexerTypeOK, Steps
<1>6. TopWasRead'
    BY <1>2 DEF AmendDetected, IndexerInv, TopWasRead
<1> QED
    BY <1>1, <1>2, <1>4, <1>5, <1>6, AmendKeeps, IdleType
    DEF IndexerInv, SearchesInProcessFork, RefillsBeforeMarks, PagesGoOnTop

\* processLastForks amends at the lowest level that diverged.
LEMMA AmendBacktrackedKeeps == IndexerInv /\ AmendBacktracked => IndexerInv'
<1> SUFFICES ASSUME IndexerInv, AmendBacktracked
             PROVE  IndexerInv'
    OBVIOUS
<1>1. PICK level \in forked : AmendFork(level)
    BY DEF AmendBacktracked
<1>2. level \in 1..MaxLevel
    BY <1>1 DEF IndexerInv, IndexerTypeOK
<1>3. /\ pc = "compare" /\ pc' = "reloadLast" /\ forked' = {}
      /\ UNCHANGED <<nodeVars, engineVars, iteration, maxLevel, window, reloaded, pending,
                     unhandled, target, nextLevel, failures>>
    BY DEF AmendBacktracked
<1>4. search.at = "idle" /\ search' = search
    BY <1>3 DEF IndexerInv, SearchesInProcessFork, engineVars
<1>5. DetectorTypeOK'
    BY <1>1, <1>2, <1>3, AmendKeeps
    DEF IndexerInv, DetectorInv, DetectorTypeOK, nodeVars, engineVars
<1>6. DetectorInv'
    BY <1>1, <1>2, <1>4, <1>5, AmendKeeps, IdleDetector
<1>7. IndexerTypeOK'
    BY <1>1, <1>2, <1>3, <1>5, AmendKeeps DEF IndexerInv, IndexerTypeOK, Steps
<1> QED
    BY <1>1, <1>2, <1>3, <1>4, <1>6, <1>7, AmendKeeps
    DEF IndexerInv, SearchesInProcessFork, TopWasRead, RefillsBeforeMarks, PagesGoOnTop

\* The events are past, so at indexed levels, and the refill is written first.
LEMMA RefillKeeps == IndexerInv /\ Refill => IndexerInv'
<1> SUFFICES ASSUME IndexerInv, Refill
             PROVE  IndexerInv'
    OBVIOUS
<1>1. /\ pc = "resets" /\ pc' = "mark" /\ refilled' = refilled \union Past(Resets)
      /\ UNCHANGED <<nodeVars, blocks, processed, engineVars, iteration, maxLevel, window,
                     forked, reloaded, pending, unhandled, target, nextLevel, failures>>
    BY DEF Refill
<1>2. Past(Resets)' = Past(Resets)
    BY <1>1 DEF Past, Resets, MaxIndexed
<1>3. DetectorInv'
    BY <1>1 DEF IndexerInv, nodeVars, engineVars, DetectorInv, DetectorTypeOK,
                SearchIsNarrowing, Running, LinksTo, Indexed
<1>4. IndexerTypeOK'
    BY <1>1, <1>3, ResetsType DEF IndexerInv, IndexerTypeOK, DetectorInv, Steps
<1>5. RefillsBeforeMarks'
    BY <1>1, <1>2 DEF RefillsBeforeMarks
<1> QED
    BY <1>1, <1>3, <1>4, <1>5
    DEF IndexerInv, engineVars, SearchesInProcessFork, TopWasRead, PagesGoOnTop,
        ProcessedAreIndexed, ProcessedWereRefilled

LEMMA MarkKeeps == IndexerInv /\ MarkProcessed => IndexerInv'
<1> SUFFICES ASSUME IndexerInv, MarkProcessed
             PROVE  IndexerInv'
    OBVIOUS
<1>1. /\ pc = "mark" /\ pc' = "fetchHead" /\ processed' = processed \union Past(Resets)
      /\ unhandled' = Resets \ Past(Resets)
      /\ UNCHANGED <<nodeVars, blocks, refilled, engineVars, iteration, maxLevel, window,
                     forked, reloaded, pending, target, nextLevel, failures>>
    BY DEF MarkProcessed
<1>2. DetectorInv'
    BY <1>1 DEF IndexerInv, nodeVars, engineVars, DetectorInv, DetectorTypeOK,
                SearchIsNarrowing, Running, LinksTo, Indexed
<1>3. IndexerTypeOK'
    BY <1>1, <1>2, ResetsType DEF IndexerInv, IndexerTypeOK, DetectorInv, Steps
<1>4. ProcessedAreIndexed'
    BY <1>1, PastIsIndexed DEF IndexerInv, DetectorInv, ProcessedAreIndexed
<1>5. ProcessedWereRefilled'
    BY <1>1 DEF IndexerInv, ProcessedWereRefilled, RefillsBeforeMarks
<1> QED
    BY <1>1, <1>2, <1>3, <1>4, <1>5
    DEF IndexerInv, engineVars, SearchesInProcessFork, TopWasRead, RefillsBeforeMarks,
        PagesGoOnTop

\* A page goes right on top of the chain.
LEMMA StorePageKeeps == IndexerInv /\ StorePage => IndexerInv'
<1> SUFFICES ASSUME IndexerInv, StorePage
             PROVE  IndexerInv'
    OBVIOUS
<1>1. /\ pc = "page" /\ nextLevel <= Level(target)
      /\ blocks' = blocks \union Segment(target, nextLevel, LastOfPage)
      /\ nextLevel' = LastOfPage + 1
      /\ UNCHANGED <<nodeVars, processed, refilled, engineVars, pc, iteration, maxLevel,
                     window, forked, reloaded, pending, unhandled, target, failures>>
    BY DEF StorePage
<1>2. /\ target \in Block /\ nextLevel \in Nat
      /\ LastOfPage \in Nat /\ nextLevel <= LastOfPage /\ LastOfPage <= Level(target)
      /\ Level(target) \in 0..MaxLevel
    BY <1>1, PageBounds
<1>3. /\ blocks \subseteq Block /\ Gapless(blocks)
      /\ nextLevel = 0 \/ \E b \in blocks : Level(b) = nextLevel - 1
      /\ \A b \in blocks : Level(b) < nextLevel
    BY <1>1 DEF IndexerInv, DetectorInv, DetectorTypeOK, PagesGoOnTop
<1>4. blocks' \subseteq Block /\ Gapless(blocks')
    BY <1>1, <1>2, <1>3, SegmentLevels, PushIsGapless
<1>5. search.at = "idle" /\ search' = search
    BY <1>1 DEF IndexerInv, SearchesInProcessFork, engineVars
<1>6. DetectorTypeOK'
    BY <1>1, <1>4 DEF IndexerInv, DetectorInv, DetectorTypeOK, nodeVars, engineVars
<1>7. DetectorInv'
    BY <1>4, <1>5, <1>6, IdleDetector
<1>8. IndexerTypeOK'
    <2>1. LastOfPage + 1 \in 0..MaxLevel + 1
        BY <1>2, Bounds
    <2> QED
        BY <1>1, <1>6, <2>1 DEF IndexerInv, IndexerTypeOK
<1>9. PagesGoOnTop'
    <2>1. \A b \in blocks' : Level(b) < LastOfPage + 1
        <3>1. \A b \in blocks : Level(b) \in Nat
            BY <1>3, BlockIsSeq, ChainAssumption
        <3>2. \A b \in Segment(target, nextLevel, LastOfPage) : Level(b) \in nextLevel..LastOfPage
            BY <1>2, SegmentLevels
        <3> QED
            BY <1>1, <1>2, <1>3, <3>1, <3>2
    <2>2. \E b \in blocks' : Level(b) = LastOfPage + 1 - 1
        <3>1. /\ AncestorAt(target, LastOfPage) \in Segment(target, nextLevel, LastOfPage)
              /\ Level(AncestorAt(target, LastOfPage)) = LastOfPage
            BY <1>2, SegmentLevels
        <3> QED
            BY <1>1, <1>2, <3>1
    <2> QED
        BY <1>1, <1>2, <2>1, <2>2 DEF PagesGoOnTop
<1>10. ProcessedAreIndexed'
    BY <1>1 DEF IndexerInv, ProcessedAreIndexed
<1> QED
    BY <1>1, <1>5, <1>7, <1>8, <1>9, <1>10
    DEF IndexerInv, SearchesInProcessFork, TopWasRead, RefillsBeforeMarks, ProcessedWereRefilled

\* The pages start right on top of what is indexed when the head is read.
LEMMA FetchHeadKeeps == IndexerInv /\ FetchHead => IndexerInv'
<1> SUFFICES ASSUME IndexerInv, FetchHead
             PROVE  IndexerInv'
    OBVIOUS
<1>1. /\ UNCHANGED <<nodeVars, dbVars, engineVars>>
      /\ UNCHANGED <<iteration, maxLevel, window, forked, reloaded, pending, unhandled, failures>>
      /\ pc = "fetchHead" /\ pc' \in {"page", "end"}
    BY DEF FetchHead
<1>2. DetectorInv' /\ ProcessedAreIndexed' /\ ProcessedWereRefilled'
    BY <1>1, QuietStep
<1>3. blocks \subseteq Block /\ head \in Block
    BY DEF IndexerInv, DetectorInv, DetectorTypeOK
<1>4. /\ MaxIndexed \in -1..MaxLevel
      /\ \A b \in blocks : Level(b) <= MaxIndexed
      /\ blocks # {} => \E b \in blocks : Level(b) = MaxIndexed
      /\ blocks = {} => MaxIndexed = -1
    BY <1>3, MaxIndexedIsHighest
<1>5. CASE MaxIndexed < Level(head)
    <2>1. target' = head /\ nextLevel' = MaxIndexed + 1 /\ pc' = "page" /\ blocks' = blocks
        BY <1>5, <1>1 DEF FetchHead, FirstLevel, dbVars
    <2>2. nextLevel' \in 0..MaxLevel + 1
        BY <1>4, <2>1, Bounds
    <2>3. IndexerTypeOK'
        BY <1>1, <1>2, <1>3, <2>1, <2>2
        DEF IndexerInv, IndexerTypeOK, DetectorInv, dbVars, Steps
    <2>4. \A b \in blocks : Level(b) \in Nat
        BY <1>3, BlockIsSeq, ChainAssumption
    <2>5. Level(head) \in Nat
        BY <1>3, BlockIsSeq, ChainAssumption
    <2>6. PagesGoOnTop'
        <3>1. nextLevel' <= Level(target') + 1
            BY <1>4, <1>5, <2>1, <2>5
        <3>2. nextLevel' = 0 \/ \E b \in blocks' : Level(b) = nextLevel' - 1
            BY <1>4, <2>1
        <3>3. \A b \in blocks' : Level(b) < nextLevel'
            BY <1>4, <2>1, <2>4
        <3> QED
            BY <1>3, <2>1, <3>1, <3>2, <3>3 DEF PagesGoOnTop
    <2> QED
        BY <1>1, <1>2, <2>1, <2>3, <2>6
        DEF IndexerInv, engineVars, SearchesInProcessFork, TopWasRead, RefillsBeforeMarks
<1>6. CASE ~(MaxIndexed < Level(head))
    <2>1. pc' = "end" /\ target' = target /\ nextLevel' = nextLevel
        BY <1>6 DEF FetchHead
    <2>2. IndexerTypeOK'
        BY <1>1, <1>2, <2>1 DEF IndexerInv, IndexerTypeOK, DetectorInv, dbVars, Steps
    <2> QED
        BY <1>1, <1>2, <2>1, <2>2
        DEF IndexerInv, engineVars, SearchesInProcessFork, TopWasRead, RefillsBeforeMarks,
            PagesGoOnTop
<1> QED
    BY <1>5, <1>6

\* An iteration starts a search at the highest indexed level, if there is one.
LEMMA BeginIterationKeeps == IndexerInv /\ BeginIteration => IndexerInv'
<1> SUFFICES ASSUME IndexerInv, BeginIteration
             PROVE  IndexerInv'
    OBVIOUS
<1>1. /\ UNCHANGED <<nodeVars, dbVars, anchor, booting>>
      /\ UNCHANGED <<iteration, window, forked, reloaded, pending, unhandled, target, nextLevel,
                     failures>>
      /\ pc = "loop" /\ maxLevel' = MaxIndexed
    BY DEF BeginIteration
<1>2. blocks \subseteq Block /\ blocks' = blocks /\ MaxIndexed \in -1..MaxLevel
    BY <1>1, MaxIndexedIsHighest DEF IndexerInv, DetectorInv, DetectorTypeOK, dbVars
<1>3. ProcessedAreIndexed' /\ ProcessedWereRefilled'
    BY <1>1 DEF IndexerInv, dbVars, ProcessedAreIndexed, ProcessedWereRefilled
<1>4. CASE MaxIndexed = -1
    <2>1. pc' = "resets" /\ search' = search
        BY <1>4 DEF BeginIteration
    <2>2. DetectorInv'
        BY <1>1, <2>1, QuietStep DEF engineVars
    <2>3. IndexerTypeOK'
        BY <1>1, <1>2, <2>1, <2>2 DEF IndexerInv, IndexerTypeOK, DetectorInv, dbVars, Steps
    <2> QED
        BY <1>1, <1>3, <2>1, <2>2, <2>3
        DEF IndexerInv, SearchesInProcessFork, TopWasRead, RefillsBeforeMarks, PagesGoOnTop
<1>5. CASE MaxIndexed # -1
    <2>1. pc' = "processFork" /\ search' = Started(MaxIndexed) /\ MaxIndexed \in 0..MaxLevel
        BY <1>2, <1>5 DEF BeginIteration
    <2>2. search' = [at |-> "head", low |-> 0, high |-> MaxIndexed, top |-> MaxIndexed,
                     attempts |-> MaxAttempts, ref |-> NoBlock, steady |-> TRUE]
        BY <2>1 DEF Started, Idle
    <2>3. DetectorTypeOK'
        BY <1>1, <2>1, <2>2, Bounds
        DEF IndexerInv, DetectorInv, DetectorTypeOK, nodeVars, dbVars, Stages
    <2>4. SearchIsNarrowing'
        BY <2>1, <2>2, Bounds DEF SearchIsNarrowing, Running
    <2>5. DetectorInv'
        BY <1>2, <2>3, <2>4 DEF IndexerInv, DetectorInv
    <2>6. IndexerTypeOK'
        BY <1>1, <1>2, <2>1, <2>3 DEF IndexerInv, IndexerTypeOK, dbVars, Steps
    <2> QED
        BY <1>1, <1>3, <2>1, <2>5, <2>6
        DEF IndexerInv, SearchesInProcessFork, TopWasRead, RefillsBeforeMarks, PagesGoOnTop
<1> QED
    BY <1>4, <1>5

\* The end of an iteration, successful or recovered from a failure, leaves its
\* events to the next.
LEMMA RecurKeeps ==
    ASSUME IndexerInv, NEW events \in SUBSET Events, Recur(events), search.at = "idle",
           failures' \in 0..MaxFailures
    PROVE  IndexerInv'
<1>1. UNCHANGED <<nodeVars, dbVars, engineVars, window, forked>> /\ pc' = "loop"
    BY DEF Recur
<1>2. DetectorInv' /\ ProcessedAreIndexed' /\ ProcessedWereRefilled'
    BY <1>1, QuietStep
<1>3. IndexerTypeOK'
    BY <1>1, <1>2, NextIteration, Bounds
    DEF Recur, IndexerInv, IndexerTypeOK, DetectorInv, dbVars, Steps, NoReload
<1> QED
    BY <1>1, <1>2, <1>3
    DEF IndexerInv, engineVars, SearchesInProcessFork, TopWasRead, RefillsBeforeMarks,
        PagesGoOnTop

LEMMA IterationEndKeeps == IndexerInv /\ (EndIteration \/ PageFailed) => IndexerInv'
<1> SUFFICES ASSUME IndexerInv, EndIteration \/ PageFailed
             PROVE  IndexerInv'
    OBVIOUS
<1>1. search.at = "idle" /\ IndexerTypeOK
    BY DEF EndIteration, PageFailed, IndexerInv, SearchesInProcessFork
<1>2. CASE EndIteration
    <2>1. unhandled \in SUBSET Events /\ failures' \in 0..MaxFailures /\ Recur(unhandled)
        BY <1>1, <1>2 DEF EndIteration, IndexerTypeOK
    <2> QED
        BY <1>1, <2>1, RecurKeeps
<1>3. CASE PageFailed
    <2>1. pending \in SUBSET Events /\ failures' \in 0..MaxFailures /\ Recur(pending)
        BY <1>1, <1>3, Bounds DEF PageFailed, IndexerTypeOK
    <2> QED
        BY <1>1, <2>1, RecurKeeps
<1> QED
    BY <1>2, <1>3

\* The fork steps that only move the loop on
LEMMA ForkFlowKeeps ==
    IndexerInv /\ (NoForkDetected \/ ReloadDetected \/ BeginBacktrack \/ Compare \/ NoneForked
                      \/ ReloadBacktracked)
        => IndexerInv'
<1>1. ASSUME IndexerInv, NoForkDetected PROVE IndexerInv'
    <2>1. /\ UNCHANGED <<nodeVars, dbVars, anchor, booting>> /\ search' = Idle
          /\ pc = "processFork" /\ pc' = "processLastForks"
          /\ UNCHANGED <<iteration, maxLevel, window, forked, reloaded, pending, unhandled,
                         target, nextLevel, failures>>
        BY <1>1 DEF NoForkDetected
    <2>2. DetectorTypeOK'
        BY <1>1, <2>1, IdleType DEF IndexerInv, DetectorInv, DetectorTypeOK, nodeVars, dbVars
    <2>3. DetectorInv'
        BY <1>1, <2>1, <2>2, IdleType, IdleDetector DEF IndexerInv, DetectorInv, dbVars
    <2>4. IndexerTypeOK'
        BY <1>1, <2>1, <2>2 DEF IndexerInv, IndexerTypeOK, dbVars, Steps
    <2> QED
        BY <1>1, <2>1, <2>3, <2>4, IdleType
        DEF IndexerInv, dbVars, SearchesInProcessFork, TopWasRead, RefillsBeforeMarks,
            PagesGoOnTop, ProcessedAreIndexed, ProcessedWereRefilled
<1>2. ASSUME IndexerInv, ReloadDetected PROVE IndexerInv'
    <2>1. DetectorInv' /\ ProcessedAreIndexed' /\ ProcessedWereRefilled'
        BY <1>2, QuietStep DEF ReloadDetected
    <2>2. IndexerTypeOK'
        BY <1>2, <2>1, ResetsType
        DEF ReloadDetected, IndexerInv, IndexerTypeOK, DetectorInv, dbVars, Steps, Reload
    <2> QED
        BY <1>2, <2>1, <2>2
        DEF ReloadDetected, IndexerInv, engineVars, SearchesInProcessFork, TopWasRead,
            RefillsBeforeMarks, PagesGoOnTop
<1>3. ASSUME IndexerInv, BeginBacktrack PROVE IndexerInv'
    <2>1. DetectorInv' /\ ProcessedAreIndexed' /\ ProcessedWereRefilled'
        BY <1>3, QuietStep DEF BeginBacktrack
    <2>2. maxLevel \in Nat /\ maxLevel <= MaxLevel
        BY <1>3, Bounds DEF BeginBacktrack, IndexerInv, TopWasRead, IndexerTypeOK
    <2>3. window' \subseteq -BacktrackLevels..MaxLevel
        <3>1. maxLevel - BacktrackLevels .. maxLevel \subseteq -BacktrackLevels..MaxLevel
            BY <2>2, Bounds
        <3> QED
            BY <1>3, <3>1 DEF BeginBacktrack, IndexerInv, IndexerTypeOK
    <2>4. IndexerTypeOK'
        BY <1>3, <2>1, <2>3
        DEF BeginBacktrack, IndexerInv, IndexerTypeOK, DetectorInv, dbVars, Steps
    <2> QED
        BY <1>3, <2>1, <2>4
        DEF BeginBacktrack, IndexerInv, engineVars, SearchesInProcessFork, TopWasRead,
            RefillsBeforeMarks, PagesGoOnTop
<1>4. ASSUME IndexerInv, Compare PROVE IndexerInv'
    <2>1. DetectorInv' /\ ProcessedAreIndexed' /\ ProcessedWereRefilled'
        BY <1>4, QuietStep DEF Compare
    <2>2. PICK l \in window :
            /\ l \in 0..Level(head)
            /\ window' = window \ {l}
            /\ forked' = IF Diverged(l) THEN forked \union {l} ELSE forked
        BY <1>4 DEF Compare
    <2>3. Diverged(l) => l \in 1..MaxLevel
        <3>1. Level(head) \in 0..MaxLevel
            BY <1>4, BlockIsSeq DEF IndexerInv, DetectorInv, DetectorTypeOK
        <3> QED
            BY <2>2, <3>1, Bounds DEF Diverged
    <2>4. IndexerTypeOK'
        BY <1>4, <2>1, <2>2, <2>3
        DEF Compare, IndexerInv, IndexerTypeOK, DetectorInv, dbVars
    <2> QED
        BY <1>4, <2>1, <2>4
        DEF Compare, IndexerInv, engineVars, SearchesInProcessFork, TopWasRead,
            RefillsBeforeMarks, PagesGoOnTop
<1>5. ASSUME IndexerInv, NoneForked PROVE IndexerInv'
    <2>1. DetectorInv' /\ ProcessedAreIndexed' /\ ProcessedWereRefilled'
        BY <1>5, QuietStep DEF NoneForked
    <2>2. IndexerTypeOK'
        BY <1>5, <2>1 DEF NoneForked, IndexerInv, IndexerTypeOK, DetectorInv, dbVars, Steps
    <2> QED
        BY <1>5, <2>1, <2>2
        DEF NoneForked, IndexerInv, engineVars, SearchesInProcessFork, TopWasRead,
            RefillsBeforeMarks, PagesGoOnTop
<1>6. ASSUME IndexerInv, ReloadBacktracked PROVE IndexerInv'
    <2>1. DetectorInv' /\ ProcessedAreIndexed' /\ ProcessedWereRefilled'
        BY <1>6, QuietStep DEF ReloadBacktracked
    <2>2. IndexerTypeOK'
        BY <1>6, <2>1, ResetsType
        DEF ReloadBacktracked, IndexerInv, IndexerTypeOK, DetectorInv, dbVars, Steps, Reload
    <2> QED
        BY <1>6, <2>1, <2>2
        DEF ReloadBacktracked, IndexerInv, engineVars, SearchesInProcessFork, TopWasRead,
            RefillsBeforeMarks, PagesGoOnTop
<1> QED
    BY <1>1, <1>2, <1>3, <1>4, <1>5, <1>6

\* The other steps that only move the loop on
LEMMA LoopFlowKeeps ==
    IndexerInv /\ (Boot \/ NothingToReset \/ PagesDone) => IndexerInv'
<1>1. ASSUME IndexerInv, Boot PROVE IndexerInv'
    <2>1. /\ UNCHANGED <<nodeVars, dbVars, anchor, search>> /\ booting' = head
          /\ pc = "down" /\ pc' = "loop" /\ pending' = Unprocessed
          /\ UNCHANGED <<iteration, maxLevel, window, forked, reloaded, unhandled, target,
                         nextLevel, failures>>
        BY <1>1 DEF Boot
    <2>2. DetectorTypeOK'
        BY <1>1, <2>1 DEF IndexerInv, DetectorInv, DetectorTypeOK, nodeVars, dbVars
    <2>3. DetectorInv'
        BY <1>1, <2>1, <2>2, IdleDetector
        DEF IndexerInv, DetectorInv, SearchesInProcessFork, dbVars
    <2>4. IndexerTypeOK'
        BY <1>1, <2>1, <2>2, ResetsType DEF IndexerInv, IndexerTypeOK, dbVars, Steps
    <2> QED
        BY <1>1, <2>1, <2>3, <2>4
        DEF IndexerInv, dbVars, SearchesInProcessFork, TopWasRead, RefillsBeforeMarks,
            PagesGoOnTop, ProcessedAreIndexed, ProcessedWereRefilled
<1>2. ASSUME IndexerInv, NothingToReset PROVE IndexerInv'
    <2>1. DetectorInv' /\ ProcessedAreIndexed' /\ ProcessedWereRefilled'
        BY <1>2, QuietStep DEF NothingToReset
    <2>2. IndexerTypeOK'
        BY <1>2, <2>1, ResetsType
        DEF NothingToReset, IndexerInv, IndexerTypeOK, DetectorInv, dbVars, Steps
    <2> QED
        BY <1>2, <2>1, <2>2
        DEF NothingToReset, IndexerInv, engineVars, SearchesInProcessFork, TopWasRead,
            RefillsBeforeMarks, PagesGoOnTop
<1>3. ASSUME IndexerInv, PagesDone PROVE IndexerInv'
    <2>1. DetectorInv' /\ ProcessedAreIndexed' /\ ProcessedWereRefilled'
        BY <1>3, QuietStep DEF PagesDone
    <2>2. IndexerTypeOK'
        BY <1>3, <2>1 DEF PagesDone, IndexerInv, IndexerTypeOK, DetectorInv, dbVars, Steps
    <2> QED
        BY <1>3, <2>1, <2>2
        DEF PagesDone, IndexerInv, engineVars, SearchesInProcessFork, TopWasRead,
            RefillsBeforeMarks, PagesGoOnTop
<1> QED
    BY <1>1, <1>2, <1>3

LEMMA FailuresKeep ==
    IndexerInv /\ (DetectionFailed \/ CompareFailed \/ MarkCollides \/ Crash) => IndexerInv'
<1> SUFFICES ASSUME IndexerInv, DetectionFailed \/ CompareFailed \/ MarkCollides \/ Crash
             PROVE  Stop /\ failures' \in 0..MaxFailures
    BY StopKeeps
<1>1. failures \in 0..MaxFailures
    BY DEF IndexerInv, IndexerTypeOK
<1> QED
    BY <1>1, Bounds DEF DetectionFailed, CompareFailed, MarkCollides, Crash

--------------------------------------------------------------------------
(* The theorems *)

LEMMA StepKeeps == IndexerInv /\ [Next]_vars => IndexerInv'
<1>1. IndexerInv /\ LorreStep => IndexerInv'
    BY LoopFlowKeeps, BeginIterationKeeps, DetectKeeps, ForkFlowKeeps, FailuresKeep,
       AmendDetectedKeeps, AmendBacktrackedKeeps, RefillKeeps, MarkKeeps, FetchHeadKeeps,
       StorePageKeeps, IterationEndKeeps
    DEF LorreStep
<1>2. IndexerInv /\ Next => IndexerInv'
    BY <1>1, EnvironmentKeeps, IterationEndKeeps, FailuresKeep DEF Next
<1>3. IndexerInv /\ UNCHANGED vars => IndexerInv'
    <2> SUFFICES ASSUME IndexerInv, UNCHANGED vars
                 PROVE  IndexerInv'
        OBVIOUS
    <2>1. DetectorInv' /\ ProcessedAreIndexed' /\ ProcessedWereRefilled'
        BY QuietStep DEF vars
    <2>2. IndexerTypeOK'
        BY <2>1 DEF vars, volatileVars, dbVars, IndexerInv, IndexerTypeOK, DetectorInv
    <2> QED
        BY <2>1, <2>2
        DEF vars, volatileVars, engineVars, dbVars, IndexerInv, SearchesInProcessFork,
            TopWasRead, RefillsBeforeMarks, PagesGoOnTop, Past, Resets, MaxIndexed
<1> QED
    BY <1>2, <1>3

LEMMA IndexerInvariant == Spec => []IndexerInv
BY IndexerInitEstablishes, StepKeeps, PTL DEF Spec

\* The main loop is type correct.
THEOREM IndexerTypeCorrect == Spec => []IndexerTypeOK
<1>1. IndexerInv => IndexerTypeOK
    BY DEF IndexerInv
<1> QED
    BY <1>1, IndexerInvariant, PTL

\* Readers never miss a level of the indexed chain nor see two blocks of one.
THEOREM IndexedChainIsGapless == Spec => []ChainIsGapless
<1>1. IndexerInv => ChainIsGapless
    BY DEF IndexerInv, DetectorInv, ChainIsGapless
<1> QED
    BY <1>1, IndexerInvariant, PTL

\* Processed events are at indexed levels: an amendment forgets those it cuts.
THEOREM ProcessedEventsAreIndexed == Spec => []ProcessedAreIndexed
<1>1. IndexerInv => ProcessedAreIndexed
    BY DEF IndexerInv
<1> QED
    BY <1>1, IndexerInvariant, PTL

\* No event is marked before its accounts are in the checkpoint, wherever it stops.
THEOREM ProcessedEventsWereRefilled == Spec => []ProcessedWereRefilled
<1>1. IndexerInv => ProcessedWereRefilled
    BY DEF IndexerInv
<1> QED
    BY <1>1, IndexerInvariant, PTL

\* What the detector promises alone holds inside the loop, on any chain it indexed.
THEOREM LoopDetectionIsSafe == Spec => []NothingOrphanedBelow
<1>1. IndexerInv => NothingOrphanedBelow
    BY LinkedBelowVerified DEF IndexerInv
<1> QED
    BY <1>1, IndexerInvariant, PTL

--------------------------------------------------------------------------
(* The loop implements the stack of blocks *)

\* An amendment, whichever way its level was found, is a cut above genesis.
LEMMA AmendIsCut ==
    ASSUME NEW level \in 1..MaxLevel, AmendFork(level)
    PROVE  Chain!Cut
BY DEF AmendFork, Chain!Cut, Chain!Level, Level

\* A page is a push.
LEMMA PageIsPush ==
    ASSUME IndexerInv, StorePage
    PROVE  Chain!Push
<1>1. /\ pc = "page" /\ nextLevel <= Level(target)
      /\ blocks' = blocks \union Segment(target, nextLevel, LastOfPage)
    BY DEF StorePage
<1>2. /\ target \in Block /\ nextLevel \in Nat
      /\ LastOfPage \in Nat /\ nextLevel <= LastOfPage /\ LastOfPage <= Level(target)
      /\ Level(target) \in 0..MaxLevel
    BY <1>1, PageBounds
<1>3. /\ nextLevel = 0 \/ \E b \in blocks : Level(b) = nextLevel - 1
      /\ \A b \in blocks : Level(b) < nextLevel
    BY <1>1 DEF IndexerInv, PagesGoOnTop
<1>4. nextLevel \in 0..MaxLevel /\ LastOfPage \in nextLevel..Level(target)
    BY <1>1, <1>2, Bounds
<1>5. /\ \A b : Chain!Level(b) = Level(b)
      /\ Chain!Block = Block
      /\ \A b, lo, hi : Chain!Segment(b, lo, hi) = Segment(b, lo, hi)
    BY DEF Chain!Level, Level, Chain!Block, Block, Chain!Segment, Segment, Chain!AncestorAt,
           AncestorAt
<1> DEFINE lo == nextLevel
           hi == LastOfPage
           tip == target
<1>6. /\ lo \in 0..MaxLevel
      /\ lo = 0 \/ \E b \in blocks : Chain!Level(b) = lo - 1
      /\ \A b \in blocks : Chain!Level(b) < lo
    BY <1>3, <1>4, <1>5
<1>7. /\ tip \in Chain!Block /\ hi \in lo..Chain!Level(tip)
      /\ blocks' = blocks \union Chain!Segment(tip, lo, hi)
    BY <1>1, <1>2, <1>4, <1>5
<1> HIDE DEF lo, hi, tip
<1> QED
    BY <1>6, <1>7 DEF Chain!Push

LEMMA StepImplements == IndexerInv /\ [Next]_vars => [Chain!Next]_blocks
<1> SUFFICES ASSUME IndexerInv, [Next]_vars, blocks' # blocks
             PROVE  Chain!Next
    OBVIOUS
<1>1. AmendDetected \/ AmendBacktracked \/ StorePage
    BY DEF Next, LorreStep, Environment, NodeStep, Advance, Reorganise, StoreBootAnchor, Boot,
           BeginIteration, Detect, DetectorStep, Refused, CheckHead, Probe, Settle, Verify,
           Request, NoForkDetected, DetectionFailed, ReloadDetected, BeginBacktrack, Compare,
           CompareFailed, NoneForked, ReloadBacktracked, NothingToReset, Refill, MarkProcessed,
           MarkCollides, FetchHead, PagesDone, EndIteration, PageFailed, Recur, Crash, Stop,
           vars, dbVars
<1>2. CASE AmendDetected
    <2>1. search.high \in 1..MaxLevel
        BY <1>2, Bounds
        DEF AmendDetected, IndexerInv, DetectorInv, DetectorTypeOK, SearchIsNarrowing
    <2>2. AmendFork(search.high)
        BY <1>2 DEF AmendDetected
    <2> QED
        BY <2>1, <2>2, AmendIsCut DEF Chain!Next
<1>3. CASE AmendBacktracked
    <2>1. PICK level \in forked : AmendFork(level)
        BY <1>3 DEF AmendBacktracked
    <2>2. level \in 1..MaxLevel
        BY <2>1 DEF IndexerInv, IndexerTypeOK
    <2> QED
        BY <2>1, <2>2, AmendIsCut DEF Chain!Next
<1>4. CASE StorePage
    BY <1>4, PageIsPush DEF Chain!Next
<1> QED
    BY <1>1, <1>2, <1>3, <1>4

\* Whatever the node does and wherever the process stops, the blocks table changes
\* only as a stack: pages on top, cuts from a level on, never a hole nor an overlap.
THEOREM IndexerImplementsChain == Spec => ImplementsIndexedChain
<1>1. Init => Chain!Init
    BY DEF Init, Chain!Init
<1> QED
    BY <1>1, StepImplements, IndexerInvariant, PTL DEF Spec, ImplementsIndexedChain, Chain!Spec
=============================================================================
