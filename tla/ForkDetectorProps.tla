------------------------ MODULE ForkDetectorProps ------------------------
(* What the fork detection promises, whatever the node does meanwhile. *)
EXTENDS ForkDetector

DetectorTypeOK ==
    /\ head \in Block
    /\ reorgs \in 0..MaxReorgs
    /\ blocks \subseteq Block
    /\ anchor \in Block \union {NoBlock}
    /\ booting \in Block \union {NoBlock}
    /\ search \in [at : Stages, low : 0..MaxLevel, high : 0..MaxLevel, top : 0..MaxLevel,
                   attempts : 0..MaxAttempts, ref : Block \union {NoBlock},
                   steady : BOOLEAN]

\* What the search knows at each stage: the range it narrows, and at the end the
\* link that was verified.  With the type and the shape of the indexed chain it is
\* inductive.
SearchIsNarrowing ==
    /\ Running => search.attempts >= 1
    /\ search.at = "head" => search.low = 0 /\ search.high = search.top
    /\ search.at \in {"probe", "verify", "found"} =>
        search.low < search.high /\ search.high <= search.top
    /\ search.at = "verify" => search.high = search.low + 1
    /\ search.at = "found" =>
        /\ search.ref \in Block
        /\ search.high <= Level(search.ref)
        /\ LinksTo(search.ref, search.high)

DetectorInv == DetectorTypeOK /\ SearchIsNarrowing /\ Gapless(blocks)

\* If the indexed blocks are one chain, none of those kept below the fork level
\* is orphaned: each is on the chain whose block passed the verification.  This
\* is what ConsistentForkDetector is for, and it must survive an anchor that
\* moves to another branch in the middle of the binary search.
NothingOrphanedBelow ==
    search.at = "found" /\ Linked(blocks) =>
        \A l \in 0..search.high - 1 : Matches(search.ref, l)

\* While the answers come from one reference the cut is tight: the block at the
\* fork level did diverge, so a good block is discarded only when the node's
\* answers changed under the search.
CutIsTight ==
    search.at = "found" /\ search.steady => ~Matches(search.ref, search.high)

\* What makes it so at every stage: a steady search keeps levels that diverged at
\* the end of its range, and at the top it returns to when it starts again.
SteadyEndsDiverge ==
    search.at \in {"probe", "verify", "found"} =>
        /\ search.ref \in Block
        /\ search.steady =>
            ~Matches(search.ref, search.high) /\ ~Matches(search.ref, search.top)

\* Each comparison at least halves the levels left undecided: the O(log N) steps
\* that the comment on searchForkLevel counts on.
ProbesHalveTheRange ==
    [][search.at = "probe" /\ search'.at = "probe" /\ search'.attempts = search.attempts
        => 2 * (search'.high - search'.low - 1) <= search.high - search.low - 1]_search

\* What a search may still do before it is over or made again: the comparisons it has
\* levels for, and the verification.
Left(s) ==
    CASE s.at = "head"   -> s.top + 1
      [] s.at = "probe"  -> s.high - s.low
      [] s.at = "verify" -> 0
      [] OTHER           -> -1

\* Every step of a detection leaves less to do, in fewer searches or in the same one,
\* whatever the node answers: why a detection that goes on ends.
DetectionComesCloser ==
    [][DetectorStep =>
        \/ search'.attempts < search.attempts
        \/ search'.attempts = search.attempts /\ Left(search') < Left(search)]_detectorVars

\* A detection ends, with a verdict or a failure, however the node moves.
DetectionEnds == <>~Running
=============================================================================
