------------------------- MODULE BlockLoaderProps -------------------------
(* What the indexers of Bitcoin and Ethereum keep true of their blocks       *)
(* tables, and what they leave out.                                          *)
EXTENDS BlockLoader

\* Blocks on their way to the table.
UnderWay == hashed \union batch \union fetched

LoaderTypeOK ==
    /\ head \in Block /\ reorgs \in 0..MaxReorgs
    /\ platform \in {"bitcoin", "ethereum"}
    /\ depth \in {"newest", "everything", "custom"}
    /\ pc \in {"idle", "loading", "down"}
    /\ blocks \subseteq Block /\ dropped \subseteq Block
    /\ hashed \subseteq Block /\ batch \subseteq Block /\ fetched \subseteq Block
    /\ seen \subseteq Block
    /\ range \subseteq 0..MaxLevel /\ todo \subseteq range
    /\ failures \in 0..MaxFailures

\* The node answers about chains, so no two blocks of a level are ever on their
\* way at once, nor is one whose level is stored: what the list of existing
\* levels, read once at the start of a load, has to guarantee until its end.
LevelsAreDistinct ==
    /\ \A b, c \in blocks \union UnderWay : Level(b) = Level(c) => b = c
    /\ UnderWay \intersect blocks = {}
    /\ \A l \in todo : l \notin Levels(blocks \union UnderWay)
    /\ hashed \intersect batch = {}
    /\ hashed \intersect fetched = {}
    /\ batch \intersect fetched = {}

Accounted(l) == l \in Levels(blocks \union dropped)

\* A load that ended without an error stored every level it was about, but those
\* whose blocks a stage of Ethereum dropped: no incomplete batch is forgotten.
CompletedLoadIsComplete == pc = "idle" => \A l \in range : Accounted(l)

\* The same, of a load under way.
NothingIsForgotten ==
    \A l \in range : Accounted(l) \/ l \in todo \union Levels(UnderWay)

Idle == pc # "loading" => todo = {} /\ UnderWay = {}

LoaderInv == LoaderTypeOK /\ LevelsAreDistinct /\ NothingIsForgotten /\ Idle

\* Batches keep their order, which bounds what a load that is interrupted leaves
\* out below the highest block, and a load of the newest blocks never looks at
\* again: less than a batch of hashes and a batch of blocks.
Overtaken == {l \in range : ~Accounted(l) /\ \E b \in blocks : Level(b) > l}

Window == BlockBatch - 1 + (IF platform = "bitcoin" THEN HashBatch - 1 ELSE 0)

GapsAreBounded == depth = "newest" => Cardinality(Overtaken) <= Window

\* Why it is so: batches are no longer than their bounds, and a load of the newest
\* blocks runs upwards.  What is still to be requested is above everything; what a
\* batch of hashes mixes up is the rest of that one batch; and the levels under way
\* that a stored block has overtaken are bounded like those of a load cut off now.
Below(level, S) == {l \in Levels(S) : l < level}

Passed == {l \in Levels(UnderWay) : \E b \in blocks : Level(b) > l}

BatchesAreBounded ==
    /\ Cardinality(Levels(hashed)) <= HashBatch
    /\ Cardinality(Levels(batch)) <= BlockBatch
    /\ Cardinality(Levels(fetched)) <= BlockBatch
    /\ platform = "ethereum" => hashed = {} /\ batch = {}

RunsUpwards ==
    /\ \A l \in todo : \A b \in blocks \union UnderWay : Level(b) < l
    /\ \A b \in batch : Cardinality(Below(Level(b), hashed)) < HashBatch
    /\ \A b \in blocks \union fetched :
        Cardinality(Below(Level(b), hashed \union batch)) < HashBatch
    /\ Cardinality(Passed) <= Window

WindowInv == BatchesAreBounded /\ (depth = "newest" => RunsUpwards)

\* The block that readers find at each level.
BlockIndex ==
    [l \in 0..MaxLevel |->
        IF l \in Levels(blocks) THEN CHOOSE b \in blocks : Level(b) = l ELSE NoBlock]

Readers == INSTANCE WriteOnceIndex WITH index <- BlockIndex

\* Every level is written at most once, with a block of that level, whatever
\* branches the node was on and whatever was indexed before.
ImplementsWriteOnceIndex == Readers!Spec

\* A block of the node's chain that the database will always refuse: one of its
\* transactions is stored with a block of an abandoned branch.
IsBarred(l) ==
    LET b == AncestorAt(head, l) IN
    l \notin Levels(blocks) /\ PassesStages(b) /\ IsRefused(b)

\* Loading everything closes every gap for good, whatever was interrupted, unless
\* a transaction of an abandoned branch is back in a block not stored yet.
EverythingIsLoaded ==
    depth = "everything" =>
        <>[](\/ \A l \in 1..Level(head) : Accounted(l)
             \/ \E l \in 1..Level(head) : IsBarred(l))
=============================================================================
