--------------------------- MODULE ForkDetector ---------------------------
(***************************************************************************)
(* Detection of the level where the indexed chain left the node's chain:    *)
(* ForkHandler.handleFork up to the amendment, the binary search of         *)
(* ForkDetector, the verification and retries of ConsistentForkDetector,    *)
(* and the anchored node search of TezosForkSearchEngine.  Every request to *)
(* the node is a step of its own, so the node may move between two of them. *)
(***************************************************************************)
EXTENDS Blockchain

CONSTANTS
    MaxAttempts,  \* searches made before giving up on inconsistent results
    MaxReorgs,    \* bound: how often the node switches branch
    HeadMayFall   \* whether a branch replacing the head may be shorter

ASSUME DetectorAssumption ==
    /\ MaxAttempts \in Nat \ {0}
    /\ MaxReorgs \in Nat
    /\ HeadMayFall \in BOOLEAN

VARIABLES
    head,     \* the head of the node's main chain
    reorgs,   \* how often the node switched branch
    blocks,   \* the valid rows of the blocks table, those with fork_id "leader"
    anchor,   \* TezosForkSearchEngine.searchAnchor: a block to count offsets from
    booting,  \* the head read by the engine's constructor, not yet stored in anchor
    search    \* the detection under way

detectorVars == <<head, reorgs, blocks, anchor, booting, search>>

Stages == {"idle", "head", "probe", "verify", "same", "found", "failed"}

Idle ==
    [at |-> "idle", low |-> 0, high |-> 0, top |-> 0, attempts |-> 0,
     ref |-> NoBlock, steady |-> TRUE]

StartedUncounted(level) ==
    [Idle EXCEPT !.at = "head", !.high = level, !.top = level, !.attempts = MaxAttempts + 1]

\* handleFork(currentHeadLevel).  ref and steady only observe: the reference the
\* last answer came from, and whether every answer so far came from it.
Started(level) ==
    [Idle EXCEPT !.at = "head", !.high = level, !.top = level, !.attempts = MaxAttempts]

Running == search.at \in {"head", "probe", "verify"}

--------------------------------------------------------------------------
(* The two sources compared *)

\* fetchBlockAtLevel, with a fallback that matches no real hash
Indexed(l) ==
    IF \E b \in blocks : Level(b) = l
    THEN CHOOSE b \in blocks : Level(b) = l
    ELSE NoBlock

\* The cached anchor when it is high enough to count back from, else the head.
Reference(l) == IF anchor # NoBlock /\ l <= Level(anchor) THEN anchor ELSE head

\* What every answer of the node leaves behind: the anchor it was counted from.
Answered(ref) ==
    [search EXCEPT !.ref = ref, !.steady = search.steady /\ search.ref \in {NoBlock, ref}]

--------------------------------------------------------------------------
(* The node *)

Advance ==
    /\ \E b \in Block : Level(b) > Level(head) /\ Extends(b, head) /\ head' = b
    /\ UNCHANGED <<reorgs, blocks, anchor, booting, search>>

\* A fitter branch replaces the head.
Reorganise ==
    /\ reorgs < MaxReorgs
    /\ \E b \in Block :
        /\ ~Extends(b, head)
        /\ Level(b) >= Level(head) \/ HeadMayFall
        /\ head' = b
    /\ reorgs' = reorgs + 1
    /\ UNCHANGED <<blocks, anchor, booting, search>>

NodeStep == Advance \/ Reorganise

--------------------------------------------------------------------------
(* The detection *)

\* The constructor's own request is asynchronous: its answer may come late.
StoreBootAnchor ==
    /\ booting # NoBlock
    /\ anchor' = booting
    /\ booting' = NoBlock
    /\ UNCHANGED <<head, reorgs, blocks, search>>

LinearMidpoint(low, high) == low + 1

StuckMidpoint(low, high) == low

Midpoint(low, high) == (low + high + 1) \div 2

\* The level the next request to the node is about.
Asked ==
    CASE search.at = "head"   -> search.top
      [] search.at = "probe"  -> Midpoint(search.low, search.high)
      [] search.at = "verify" -> search.high

\* A level above the reference makes a negative offset: the node answers an error.
Refused ==
    /\ Running
    /\ Asked > Level(Reference(Asked))
    /\ search' = [search EXCEPT !.at = "failed"]
    /\ UNCHANGED <<head, reorgs, blocks, anchor, booting>>

\* Any other request is answered, and leaves its reference in the anchor.
Request(l, ref) ==
    /\ ref = Reference(l)
    /\ l <= Level(ref)
    /\ anchor' = ref
    /\ UNCHANGED <<head, reorgs, blocks, booting>>

Matches(ref, l) == Indexed(l) = AncestorAt(ref, l)

\* checkOnLevel(currentHeadLevel) and, if it forked, searchForkLevel(0, currentHeadLevel).
CheckHead ==
    /\ search.at = "head"
    /\ \E ref \in Block :
        /\ Request(search.top, ref)
        /\ search' = [Answered(ref) EXCEPT
                        !.at = IF Matches(ref, search.top) THEN "same"
                               ELSE IF search.top = 0 THEN "failed" ELSE "probe"]

EagerlyNarrowed(s, mid, same) ==
    IF same THEN [s EXCEPT !.low = mid] ELSE [s EXCEPT !.high = mid - 1]

\* The half of the range the next comparison is made in
Narrowed(s, mid, same) ==
    IF same THEN [s EXCEPT !.low = mid] ELSE [s EXCEPT !.high = mid]

\* One more step of the binary search.
Probe ==
    /\ search.at = "probe"
    /\ search.high - search.low > 1
    /\ LET mid == Midpoint(search.low, search.high)
       IN \E ref \in Block :
            /\ Request(mid, ref)
            /\ search' = Narrowed(Answered(ref), mid, Matches(ref, mid))

\* The termination of the binary search: high is the candidate.
Settle ==
    /\ search.at = "probe"
    /\ search.high - search.low = 1
    /\ search' = [search EXCEPT !.at = "verify"]
    /\ UNCHANGED <<head, reorgs, blocks, anchor, booting>>

OnlyDiffers(ref, l) == AncestorAt(ref, l) # Indexed(l)

LinksTo(ref, l) == Predecessor(AncestorAt(ref, l)) = Indexed(l - 1)

\* Mutant: the searches that are made again are not counted.
VerifyUncounted ==
    /\ search.at = "verify"
    /\ \E ref \in Block :
        /\ Request(search.high, ref)
        /\ search' =
            IF LinksTo(ref, search.high) THEN [Answered(ref) EXCEPT !.at = "found"]
            ELSE [Answered(ref) EXCEPT !.at = "probe", !.low = 0, !.high = search.top]

\* detectionIsLocallyConsistent: the node's block at the candidate level must
\* follow the indexed block below it; the search runs again if it does not.
Verify ==
    /\ search.at = "verify"
    /\ \E ref \in Block :
        /\ Request(search.high, ref)
        /\ search' =
            IF LinksTo(ref, search.high) THEN [Answered(ref) EXCEPT !.at = "found"]
            ELSE IF search.attempts = 1 THEN [Answered(ref) EXCEPT !.at = "failed"]
            ELSE [Answered(ref) EXCEPT !.at = "probe", !.low = 0, !.high = search.top,
                                       !.attempts = search.attempts - 1]

DetectorStep == Refused \/ CheckHead \/ Probe \/ Settle \/ Verify

DetectorNext == NodeStep \/ StoreBootAnchor \/ DetectorStep

--------------------------------------------------------------------------
(* The detector alone, started on whatever a gapless indexed chain may be *)

DetectorInit ==
    /\ head \in Block
    /\ reorgs = 0
    /\ blocks \in SUBSET Block
    /\ Gapless(blocks)
    /\ anchor \in Block \union {NoBlock}
    /\ booting \in Block \union {NoBlock}
    /\ \E b \in blocks :
        /\ \A c \in blocks : Level(c) <= Level(b)
        /\ search = Started(Level(b))

DetectorSpec == DetectorInit /\ [][DetectorNext]_detectorVars

\* The monadic chain of the detection runs to its end, the node answering.
FairDetectorSpec == DetectorSpec /\ WF_detectorVars(DetectorStep)
=============================================================================
