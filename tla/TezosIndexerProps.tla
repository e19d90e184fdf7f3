------------------------ MODULE TezosIndexerProps ------------------------
(* What Lorre's main loop keeps true of the indexed chain and of the account *)
(* reset events, and what it does not.                                        *)
EXTENDS TezosIndexer, ForkDetectorProps

Steps ==
    {"down", "loop", "processFork", "reload", "processLastForks", "compare", "reloadLast",
     "resets", "mark", "fetchHead", "page", "end"}

IndexerTypeOK ==
    /\ DetectorTypeOK
    /\ processed \subseteq Events
    /\ refilled \subseteq Events
    /\ pc \in Steps
    /\ iteration \in 0..BacktrackInterval - 1
    /\ maxLevel \in -1..MaxLevel
    /\ window \subseteq -BacktrackLevels..MaxLevel
    /\ forked \subseteq 1..MaxLevel
    /\ reloaded \in [some : BOOLEAN, events : SUBSET Events]
    /\ pending \subseteq Events
    /\ unhandled \subseteq Events
    /\ target \in Block \union {NoBlock}
    /\ nextLevel \in 0..MaxLevel + 1
    /\ failures \in 0..MaxFailures

\* What each step of an iteration knows of the steps before it.  With the type and
\* the invariant of the detection these parts are inductive.
SearchesInProcessFork == pc # "processFork" => search.at = "idle"

TopWasRead == pc \in {"processFork", "reload", "processLastForks"} => maxLevel \in Nat

RefillsBeforeMarks == pc = "mark" => Past(Resets) \subseteq refilled

PagesGoOnTop ==
    pc = "page" =>
        /\ target \in Block
        /\ nextLevel <= Level(target) + 1
        /\ nextLevel = 0 \/ \E b \in blocks : Level(b) = nextLevel - 1
        /\ \A b \in blocks : Level(b) < nextLevel

\* Readers of the blocks table see one valid block of each level, none missing,
\* whatever was amended between the reading of the highest level and the pages
\* stored on top of it, and wherever the process stopped.
ChainIsGapless == Gapless(blocks)

\* An event marked as processed is at a level still indexed: the amendment that
\* invalidates its block forgets it, or the accounts of the new branch would
\* never be refreshed.
ProcessedAreIndexed == \A e \in processed : \E b \in blocks : Level(b) = e

\* An event is marked only once its accounts are back in the checkpoint, also
\* when the process stops between the two writes.
ProcessedWereRefilled == processed \subseteq refilled

IndexerInv ==
    /\ IndexerTypeOK
    /\ DetectorInv
    /\ SearchesInProcessFork
    /\ TopWasRead
    /\ RefillsBeforeMarks
    /\ PagesGoOnTop
    /\ ProcessedAreIndexed
    /\ ProcessedWereRefilled

\* The loop, with its fork handling, implements the stack of blocks.
Chain == INSTANCE IndexedChain WITH blocks <- blocks
ImplementsIndexedChain == Chain!Spec

\* Lorre never loses the node's chain for good: whatever branches a race left
\* mixed, it comes to hold exactly the chain of the head, again and again.  It
\* may not stay there while the node stands still: an anchor on an abandoned
\* branch has the same blocks cut and fetched at every iteration, until the
\* chain grows past the anchor.
AlwaysCatchesUp == []<>(blocks = Segment(head, 0, Level(head)))

\* The documentation of handleFork: it amends nothing when no fork happened.
FoundForkIsReal == search.at = "found" => \E b \in blocks : ~Extends(head, b)

\* The documentation of ConsistentForkDetector: the stored blocks before the
\* detected level followed by those of the node are linked by predecessor.
KeptPartIsConsistent ==
    search.at = "found" => \A l \in 0..search.high - 1 : Matches(search.ref, l)

\* The comments on the reloads of the main loop: events forgotten by the
\* database in an amendment are loaded afresh, so that no iteration starts with
\* a configured event neither processed nor pending.
NoResetForgotten == pc = "loop" => Events \subseteq processed \union pending
=============================================================================
