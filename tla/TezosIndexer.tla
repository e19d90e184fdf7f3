--------------------------- MODULE TezosIndexer ---------------------------
(***************************************************************************)
(* Lorre's main loop on Tezos.  An iteration looks for forks and amends     *)
(* them (processFork, then processLastForks), applies the pending account   *)
(* resets and indexes the blocks the node has above the highest stored one. *)
(* The process may fail between any two steps; a restart keeps the database *)
(* and loses the rest.  Fork handling is switched on, the depth is Newest.  *)
(***************************************************************************)
EXTENDS ForkDetector, FiniteSets

CONSTANTS
    Events,             \* levels configured as AccountsRefresh chain events
    BacktrackLevels,    \* forkHandling.backtrackLevels
    BacktrackInterval,  \* forkHandling.backtrackInterval
    PageSize,           \* blocks stored by one transaction
    IgnoreFailures,     \* ignoreProcessFailures
    MaxFailures         \* bound: crashes and failed pages together

ASSUME IndexerAssumption ==
    /\ Events \subseteq 0..MaxLevel
    /\ BacktrackLevels \in Nat
    /\ BacktrackInterval \in Nat \ {0}
    /\ PageSize \in Nat \ {0}
    /\ IgnoreFailures \in BOOLEAN
    /\ MaxFailures \in Nat

VARIABLES
    processed,  \* rows of processed_chain_events
    refilled,   \* observed: the events a refill was written for since their level
                \* was last indexed
    pc,         \* the step the process is at, "down" when it is not running
    iteration,  \* iteration % backtrackInterval
    maxLevel,   \* the maxLevel read at the start of the iteration
    window,     \* levels the backtracking has still to compare
    forked,     \* levels the backtracking found to diverge
    reloaded,   \* the Option[AccountResetEvents] of the fork handling
    pending,    \* accountResetEvents, the argument of mainLoop
    unhandled,  \* the outcome of applyUnhandledAccountsResets
    target,     \* the head the pages of new blocks are counted from
    nextLevel,  \* the first level of the next page
    failures    \* how many failures happened

dbVars == <<blocks, processed, refilled>>
volatileVars ==
    <<pc, iteration, maxLevel, window, forked, reloaded, pending, unhandled, target, nextLevel>>
nodeVars == <<head, reorgs>>
engineVars == <<anchor, booting, search>>
vars == <<nodeVars, engineVars, dbVars, volatileVars, failures>>

NoReload == [some |-> FALSE, events |-> {}]
Reload(events) == [some |-> TRUE, events |-> events]

\* fetchMaxLevel: -1 when no valid block is stored
MaxIndexed ==
    IF blocks = {} THEN -1
    ELSE CHOOSE l \in {Level(b) : b \in blocks} : \A b \in blocks : Level(b) <= l

\* unprocessedResetRequestLevels
Unprocessed == Events \ processed

--------------------------------------------------------------------------
(* The start of an iteration *)

\* A new process: the engine's constructor asks the node for an anchor, the
\* unprocessed events are read and the loop begins.
Boot ==
    /\ pc = "down"
    /\ booting' = head
    /\ pending' = Unprocessed
    /\ pc' = "loop"
    /\ UNCHANGED <<nodeVars, dbVars, anchor, search, iteration, maxLevel, window, forked,
                   reloaded, unhandled, target, nextLevel, failures>>

\* fetchMaxLevel, and handleFork unless nothing is indexed yet
BeginIteration ==
    /\ pc = "loop"
    /\ maxLevel' = MaxIndexed
    /\ IF MaxIndexed = -1
       THEN pc' = "resets" /\ UNCHANGED search
       ELSE pc' = "processFork" /\ search' = Started(MaxIndexed)
    /\ UNCHANGED <<nodeVars, dbVars, anchor, booting, iteration, window, forked, reloaded,
                   pending, unhandled, target, nextLevel, failures>>

\* What the process loses when it stops, whatever stopped it.
Stop ==
    /\ pc' = "down"
    /\ anchor' = NoBlock
    /\ booting' = NoBlock
    /\ search' = Idle
    /\ iteration' = 0
    /\ maxLevel' = -1
    /\ window' = {}
    /\ forked' = {}
    /\ reloaded' = NoReload
    /\ pending' = {}
    /\ unhandled' = {}
    /\ target' = NoBlock
    /\ nextLevel' = 0
    /\ UNCHANGED <<nodeVars, dbVars>>

--------------------------------------------------------------------------
(* processFork: detection by the cached anchor, then amendment *)

Detect ==
    /\ pc = "processFork"
    /\ DetectorStep
    /\ UNCHANGED <<processed, refilled, volatileVars, failures>>

NoForkDetected ==
    /\ pc = "processFork"
    /\ search.at = "same"
    /\ search' = Idle
    /\ pc' = "processLastForks"
    /\ UNCHANGED <<nodeVars, dbVars, anchor, booting, iteration, maxLevel, window, forked,
                   reloaded, pending, unhandled, target, nextLevel, failures>>

\* A failed detection is none of the failures the loop recovers from.
DetectionFailed ==
    /\ pc = "processFork"
    /\ search.at = "failed"
    /\ Stop
    /\ UNCHANGED failures

KeepEvents(level) == processed' = processed

DeleteEvents(level) == processed' = {e \in processed : e < level}

AmendAlone(level) ==
    /\ blocks' = {b \in blocks : Level(b) # level}
    /\ DeleteEvents(level)
    /\ refilled' = {e \in refilled : e < level}

\* The transaction of amendFork, as far as this model's tables go.
AmendFork(level) ==
    /\ blocks' = {b \in blocks : Level(b) < level}
    /\ DeleteEvents(level)
    /\ refilled' = {e \in refilled : e < level}

AmendDetected ==
    /\ pc = "processFork"
    /\ search.at = "found"
    /\ AmendFork(search.high)
    /\ search' = Idle
    /\ pc' = "reload"
    /\ UNCHANGED <<nodeVars, anchor, booting, iteration, maxLevel, window, forked, reloaded,
                   pending, unhandled, target, nextLevel, failures>>

ReloadDetected ==
    /\ pc = "reload"
    /\ reloaded' = Reload(Unprocessed)
    /\ pc' = "processLastForks"
    /\ UNCHANGED <<nodeVars, dbVars, engineVars, iteration, maxLevel, window, forked, pending,
                   unhandled, target, nextLevel, failures>>

--------------------------------------------------------------------------
(* processLastForks: every BacktrackInterval iterations, a level by level   *)
(* comparison with the node's main chain, from the maxLevel read before the *)
(* first amendment                                                          *)

BeginBacktrack ==
    /\ pc = "processLastForks"
    /\ IF iteration = 0
       THEN pc' = "compare" /\ window' = maxLevel - BacktrackLevels .. maxLevel
       ELSE pc' = "resets" /\ UNCHANGED window
    /\ UNCHANGED <<nodeVars, dbVars, engineVars, iteration, maxLevel, forked, reloaded, pending,
                   unhandled, target, nextLevel, failures>>

DivergedAtTop(l) == l = maxLevel /\ Indexed(l) \notin {NoBlock, AncestorAt(head, l)}

\* A level that is not indexed counts as a match, a divergence of genesis is
\* filtered out.
Diverged(l) == l > 0 /\ Indexed(l) \notin {NoBlock, AncestorAt(head, l)}

\* One answer of the batch, in no order.
Compare ==
    /\ pc = "compare"
    /\ \E l \in window :
        /\ l \in 0..Level(head)
        /\ window' = window \ {l}
        /\ forked' = IF Diverged(l) THEN forked \union {l} ELSE forked
    /\ UNCHANGED <<nodeVars, dbVars, engineVars, pc, iteration, maxLevel, reloaded, pending,
                   unhandled, target, nextLevel, failures>>

\* blocks/<level> for a level below genesis or above the head is an error, and
\* fails the batch and the process.
CompareFailed ==
    /\ pc = "compare"
    /\ \E l \in window : l \notin 0..Level(head)
    /\ Stop
    /\ UNCHANGED failures

NoneForked ==
    /\ pc = "compare"
    /\ window = {}
    /\ forked = {}
    /\ pc' = "resets"
    /\ UNCHANGED <<nodeVars, dbVars, engineVars, iteration, maxLevel, window, forked, reloaded,
                   pending, unhandled, target, nextLevel, failures>>

AmendBacktracked ==
    /\ pc = "compare"
    /\ window = {}
    /\ \E l \in forked : (\A m \in forked : l <= m) /\ AmendFork(l)
    /\ forked' = {}
    /\ pc' = "reloadLast"
    /\ UNCHANGED <<nodeVars, engineVars, iteration, maxLevel, window, reloaded, pending,
                   unhandled, target, nextLevel, failures>>

\* reloadedAccountEvents.orElse(lastReloadedAccountEvents): the first one wins.
ReloadBacktracked ==
    /\ pc = "reloadLast"
    /\ reloaded' = IF reloaded.some THEN reloaded ELSE Reload(Unprocessed)
    /\ pc' = "resets"
    /\ UNCHANGED <<nodeVars, dbVars, engineVars, iteration, maxLevel, window, forked, pending,
                   unhandled, target, nextLevel, failures>>

--------------------------------------------------------------------------
(* applyUnhandledAccountsResets *)

Resets == IF reloaded.some THEN reloaded.events ELSE pending

Past(events) == {e \in events : e <= MaxIndexed}

\* The block at levels.max, which the refreshed accounts are referred to
ReferenceStored ==
    \E e \in Past(Resets) :
        /\ \A f \in Past(Resets) : f <= e
        /\ Indexed(e) # NoBlock

\* No event is past, or its block is missing and the events wait for the next cycle.
NothingToReset ==
    /\ pc = "resets"
    /\ ~ReferenceStored
    /\ unhandled' = Resets
    /\ pc' = "fetchHead"
    /\ UNCHANGED <<nodeVars, dbVars, engineVars, iteration, maxLevel, window, forked, reloaded,
                   pending, target, nextLevel, failures>>

MarkFirst ==
    /\ pc = "resets"
    /\ ReferenceStored
    /\ processed' = processed \union Past(Resets)
    /\ pc' = "mark"
    /\ UNCHANGED <<nodeVars, blocks, refilled, engineVars, iteration, maxLevel, window, forked,
                   reloaded, pending, unhandled, target, nextLevel, failures>>

\* refillAccountsCheckpointFromExisting, at the block of the highest past event
Refill ==
    /\ pc = "resets"
    /\ ReferenceStored
    /\ refilled' = refilled \union Past(Resets)
    /\ pc' = "mark"
    /\ UNCHANGED <<nodeVars, blocks, processed, engineVars, iteration, maxLevel, window, forked,
                   reloaded, pending, unhandled, target, nextLevel, failures>>

\* writeProcessedEventsLevels, not in one transaction with the refill
MarkProcessed ==
    /\ pc = "mark"
    /\ Past(Resets) \intersect processed = {}
    /\ processed' = processed \union Past(Resets)
    /\ unhandled' = Resets \ Past(Resets)
    /\ pc' = "fetchHead"
    /\ UNCHANGED <<nodeVars, blocks, refilled, engineVars, iteration, maxLevel, window, forked,
                   reloaded, pending, target, nextLevel, failures>>

\* The insertion breaks the primary key of processed_chain_events.
MarkCollides ==
    /\ pc = "mark"
    /\ Past(Resets) \intersect processed # {}
    /\ Stop
    /\ UNCHANGED failures

--------------------------------------------------------------------------
(* processTezosBlocks *)

StaleFirstLevel == maxLevel + 1

\* maxLevelNew + 1
FirstLevel == MaxIndexed + 1

\* fetchMaxLevel again, and the head of getBlocksNotInDatabase
FetchHead ==
    /\ pc = "fetchHead"
    /\ IF MaxIndexed < Level(head)
       THEN pc' = "page" /\ target' = head /\ nextLevel' = FirstLevel
       ELSE pc' = "end" /\ UNCHANGED <<target, nextLevel>>
    /\ UNCHANGED <<nodeVars, dbVars, engineVars, iteration, maxLevel, window, forked, reloaded,
                   pending, unhandled, failures>>

LastOfPage ==
    IF nextLevel + PageSize - 1 <= Level(target) THEN nextLevel + PageSize - 1
    ELSE Level(target)

\* The transaction of processBlocksPage
StorePage ==
    /\ pc = "page"
    /\ nextLevel <= Level(target)
    /\ blocks' = blocks \union Segment(target, nextLevel, LastOfPage)
    /\ nextLevel' = LastOfPage + 1
    /\ UNCHANGED <<nodeVars, processed, refilled, engineVars, pc, iteration, maxLevel, window,
                   forked, reloaded, pending, unhandled, target, failures>>

PagesDone ==
    /\ pc = "page"
    /\ nextLevel > Level(target)
    /\ pc' = "end"
    /\ UNCHANGED <<nodeVars, dbVars, engineVars, iteration, maxLevel, window, forked, reloaded,
                   pending, unhandled, target, nextLevel, failures>>

\* What an iteration leaves to the next one: only its argument.
Recur(events) ==
    /\ pc' = "loop"
    /\ iteration' = (iteration + 1) % BacktrackInterval
    /\ pending' = events
    /\ maxLevel' = -1
    /\ reloaded' = NoReload
    /\ unhandled' = {}
    /\ target' = NoBlock
    /\ nextLevel' = 0
    /\ UNCHANGED <<nodeVars, dbVars, engineVars, window, forked>>

\* Fetching the head, or fetching or storing a page and what depends on it, fails;
\* the pages stored before stay.  The loop goes on with the events it had.
PageFailed ==
    /\ pc \in {"fetchHead", "page"}
    /\ IgnoreFailures
    /\ failures < MaxFailures
    /\ failures' = failures + 1
    /\ Recur(pending)

EndIteration ==
    /\ pc = "end"
    /\ Recur(unhandled)
    /\ UNCHANGED failures

\* A crash, or a failure that is not recovered, at any point
Crash ==
    /\ pc # "down"
    /\ failures < MaxFailures
    /\ failures' = failures + 1
    /\ Stop

--------------------------------------------------------------------------

Init ==
    /\ head \in {b \in Block : Level(b) >= FinalLevel}
    /\ reorgs = 0
    /\ blocks = {}
    /\ processed = {}
    /\ refilled = {}
    /\ anchor = NoBlock
    /\ booting = NoBlock
    /\ search = Idle
    /\ pc = "down"
    /\ iteration = 0
    /\ maxLevel = -1
    /\ window = {}
    /\ forked = {}
    /\ reloaded = NoReload
    /\ pending = {}
    /\ unhandled = {}
    /\ target = NoBlock
    /\ nextLevel = 0
    /\ failures = 0

\* What Lorre does, as opposed to what the node does or what befalls the process
LorreStep ==
    \/ Boot \/ BeginIteration
    \/ Detect \/ NoForkDetected \/ DetectionFailed \/ AmendDetected \/ ReloadDetected
    \/ BeginBacktrack \/ Compare \/ CompareFailed \/ NoneForked
    \/ AmendBacktracked \/ ReloadBacktracked
    \/ NothingToReset \/ Refill \/ MarkProcessed \/ MarkCollides
    \/ FetchHead \/ StorePage \/ PagesDone \/ EndIteration

Environment ==
    /\ NodeStep \/ StoreBootAnchor
    /\ UNCHANGED <<processed, refilled, volatileVars, failures>>

Next == LorreStep \/ Environment \/ PageFailed \/ Crash

Spec == Init /\ [][Next]_vars

\* The loop keeps running and the process is restarted when it stops; neither
\* the node nor the failures owe it anything.
FairSpec == Spec /\ WF_vars(LorreStep)
=============================================================================
