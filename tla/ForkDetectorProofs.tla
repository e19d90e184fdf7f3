------------------------- MODULE ForkDetectorProofs -------------------------
(***************************************************************************)
(* The fork detection is type correct, and the level it verifies cuts no    *)
(* orphaned block free, for any chain, any node and any number of retries.  *)
(***************************************************************************)
EXTENDS ForkDetectorProps, BlockchainTheorems

\* A block of the table is the one read back at its level.
LEMMA IndexedAtLevel ==
    ASSUME Gapless(blocks), NEW b \in blocks
    PROVE  Indexed(Level(b)) = b
BY DEF Gapless, Indexed

LEMMA IndexedType ==
    ASSUME NEW l
    PROVE  Indexed(l) \in blocks \union {NoBlock}
BY DEF Indexed

\* The node's answer is counted from a block.
LEMMA ReferenceIsBlock ==
    ASSUME DetectorTypeOK, NEW l
    PROVE  Reference(l) \in Block
BY DEF DetectorTypeOK, Reference

\* Recording an answer touches only the observation.
LEMMA AnsweredType ==
    ASSUME DetectorTypeOK, NEW ref \in Block
    PROVE  LET s == Answered(ref)
           IN  /\ s.at = search.at /\ s.low = search.low /\ s.high = search.high
               /\ s.top = search.top /\ s.attempts = search.attempts /\ s.ref = ref
               /\ s \in [at : Stages, low : 0..MaxLevel, high : 0..MaxLevel,
                         top : 0..MaxLevel, attempts : 0..MaxAttempts,
                         ref : Block \union {NoBlock}, steady : BOOLEAN]
BY DEF DetectorTypeOK, Answered

\* The probed level lies strictly inside the range.
LEMMA MidpointInside ==
    ASSUME NEW low \in Nat, NEW high \in Nat, high - low > 1
    PROVE  Midpoint(low, high) \in Nat /\ low < Midpoint(low, high) /\ Midpoint(low, high) < high
BY DEF Midpoint

LEMMA DetectorInitEstablishes == DetectorInit => DetectorInv
<1> SUFFICES ASSUME DetectorInit PROVE DetectorInv
    OBVIOUS
<1> USE DEF DetectorInit
<1>1. PICK b \in blocks : search = Started(Level(b))
    OBVIOUS
<1>2. Level(b) \in 0..MaxLevel
    BY BlockIsSeq
<1>3. /\ search = [at |-> "head", low |-> 0, high |-> Level(b), top |-> Level(b),
                   attempts |-> MaxAttempts, ref |-> NoBlock, steady |-> TRUE]
    BY <1>1 DEF Started, Idle
<1>4. MaxAttempts \in Nat \ {0} /\ MaxLevel \in Nat /\ MaxReorgs \in Nat
    BY DetectorAssumption, ChainAssumption
<1>5. DetectorTypeOK
    BY <1>2, <1>3, <1>4 DEF DetectorTypeOK, Stages
<1>6. SearchIsNarrowing
    BY <1>3, <1>4 DEF SearchIsNarrowing
<1> QED
    BY <1>5, <1>6 DEF DetectorInv

\* Every step of the detection keeps the invariant.
LEMMA DetectorStepKeeps == DetectorInv /\ DetectorStep => DetectorInv'
<1> SUFFICES ASSUME DetectorInv, DetectorStep
             PROVE  DetectorInv'
    OBVIOUS
<1>1. DetectorTypeOK /\ SearchIsNarrowing /\ Gapless(blocks)
    BY DEF DetectorInv
<1>2. MaxAttempts \in Nat \ {0} /\ MaxLevel \in Nat /\ MaxReorgs \in Nat
    BY DetectorAssumption, ChainAssumption
<1>3. CASE Refused
    BY <1>1, <1>2, <1>3
    DEF Refused, DetectorInv, DetectorTypeOK, SearchIsNarrowing, Stages, Running
<1>4. ASSUME NEW l, NEW ref \in Block, Request(l, ref)
      PROVE  /\ anchor' \in Block
             /\ head' = head /\ reorgs' = reorgs /\ blocks' = blocks /\ booting' = booting
             /\ l <= Level(ref)
    BY <1>4 DEF Request
<1>5. CASE CheckHead
    <2>1. PICK ref \in Block :
            /\ Request(search.top, ref)
            /\ search' = [Answered(ref) EXCEPT
                            !.at = IF Matches(ref, search.top) THEN "same"
                                   ELSE IF search.top = 0 THEN "failed" ELSE "probe"]
        BY <1>5 DEF CheckHead
    <2>2. search.at = "head"
        BY <1>5 DEF CheckHead
    <2>3. DetectorTypeOK'
        BY <1>1, <1>4, <2>1, AnsweredType DEF DetectorTypeOK, Stages
    <2>4. SearchIsNarrowing'
        BY <1>1, <1>2, <2>1, <2>2, AnsweredType DEF DetectorTypeOK, SearchIsNarrowing, Running
    <2> QED
        BY <1>1, <1>4, <2>1, <2>3, <2>4 DEF DetectorInv
<1>6. CASE Probe
    <2> DEFINE mid == Midpoint(search.low, search.high)
    <2>1. PICK ref \in Block :
            /\ Request(mid, ref)
            /\ search' = Narrowed(Answered(ref), mid, Matches(ref, mid))
        BY <1>6 DEF Probe
    <2>2. search.at = "probe" /\ search.high - search.low > 1
        BY <1>6 DEF Probe
    <2>3. mid \in 0..MaxLevel /\ search.low < mid /\ mid < search.high
        BY <1>1, <1>2, <2>2, MidpointInside DEF DetectorTypeOK
    <2> HIDE DEF mid
    <2>4. DetectorTypeOK'
        BY <1>1, <1>4, <2>1, <2>3, AnsweredType DEF DetectorTypeOK, Narrowed
    <2>5. SearchIsNarrowing'
        BY <1>1, <1>2, <2>1, <2>2, <2>3, AnsweredType
        DEF DetectorTypeOK, SearchIsNarrowing, Running, Narrowed
    <2> QED
        BY <1>1, <1>4, <2>1, <2>4, <2>5 DEF DetectorInv
<1>7. CASE Settle
    BY <1>1, <1>2, <1>7
    DEF Settle, DetectorInv, DetectorTypeOK, SearchIsNarrowing, Stages, Running
<1>8. CASE Verify
    <2>1. PICK ref \in Block :
            /\ Request(search.high, ref)
            /\ search' =
                IF LinksTo(ref, search.high) THEN [Answered(ref) EXCEPT !.at = "found"]
                ELSE IF search.attempts = 1 THEN [Answered(ref) EXCEPT !.at = "failed"]
                ELSE [Answered(ref) EXCEPT !.at = "probe", !.low = 0, !.high = search.top,
                                           !.attempts = search.attempts - 1]
        BY <1>8 DEF Verify
    <2>2. search.at = "verify"
        BY <1>8 DEF Verify
    <2>3. DetectorTypeOK'
        <3>1. search.attempts \in 1..MaxAttempts
            BY <1>1, <1>2, <2>2 DEF DetectorTypeOK, SearchIsNarrowing, Running
        <3>2. search' \in [at : Stages, low : 0..MaxLevel, high : 0..MaxLevel,
                           top : 0..MaxLevel, attempts : 0..MaxAttempts,
                           ref : Block \union {NoBlock}, steady : BOOLEAN]
            <4>1. CASE LinksTo(ref, search.high) \/ search.attempts = 1
                BY <1>1, <2>1, <4>1, AnsweredType DEF Stages
            <4>2. CASE ~LinksTo(ref, search.high) /\ search.attempts # 1
                <5>1. search.attempts - 1 \in 0..MaxAttempts /\ 0 \in 0..MaxLevel
                    BY <1>2, <3>1
                <5>2. search.top \in 0..MaxLevel
                    BY <1>1 DEF DetectorTypeOK
                <5>3. Answered(ref) \in [at : Stages, low : 0..MaxLevel, high : 0..MaxLevel,
                                        top : 0..MaxLevel, attempts : 0..MaxAttempts,
                                        ref : Block \union {NoBlock}, steady : BOOLEAN]
                    BY <1>1, AnsweredType
                <5>4. search' = [Answered(ref) EXCEPT
                                    !.at = "probe", !.low = 0, !.high = search.top,
                                    !.attempts = search.attempts - 1]
                    BY <2>1, <4>2
                <5> QED
                    BY <5>1, <5>2, <5>3, <5>4 DEF Stages
            <4> QED
                BY <4>1, <4>2
        <3> QED
            BY <1>1, <1>4, <2>1, <3>2 DEF DetectorTypeOK
    <2>4. SearchIsNarrowing'
        <3>1. CASE LinksTo(ref, search.high)
            <4>1. LinksTo(search.ref, search.high)'
                <5>1. search'.ref = ref /\ search'.high = search.high
                    BY <1>1, <2>1, <3>1, AnsweredType
                <5>2. blocks' = blocks
                    BY <1>4, <2>1
                <5> QED
                    BY <3>1, <5>1, <5>2 DEF LinksTo, Indexed
            <4> QED
                BY <1>1, <1>2, <1>4, <2>1, <2>2, <3>1, <4>1, AnsweredType
                DEF DetectorTypeOK, SearchIsNarrowing, Running, LinksTo, Indexed
        <3>2. CASE ~LinksTo(ref, search.high)
            BY <1>1, <1>2, <2>1, <2>2, <3>2, AnsweredType
            DEF DetectorTypeOK, SearchIsNarrowing, Running
        <3> QED
            BY <3>1, <3>2
    <2> QED
        BY <1>1, <1>4, <2>1, <2>3, <2>4 DEF DetectorInv
<1> QED
    BY <1>3, <1>5, <1>6, <1>7, <1>8 DEF DetectorStep

\* So does the node, whatever it does, and the late answer to the constructor.
LEMMA NodeStepKeeps == DetectorInv /\ (NodeStep \/ StoreBootAnchor) => DetectorInv'
<1> SUFFICES ASSUME DetectorInv, NodeStep \/ StoreBootAnchor
             PROVE  DetectorInv'
    OBVIOUS
<1>1. /\ blocks' = blocks /\ search' = search
      /\ head' \in Block /\ reorgs' \in 0..MaxReorgs
      /\ anchor' \in Block \union {NoBlock} /\ booting' \in Block \union {NoBlock}
    BY DetectorAssumption
    DEF NodeStep, Advance, Reorganise, StoreBootAnchor, DetectorInv, DetectorTypeOK
<1>2. DetectorTypeOK'
    BY <1>1 DEF DetectorInv, DetectorTypeOK
<1>3. SearchIsNarrowing'
    BY <1>1 DEF DetectorInv, SearchIsNarrowing, Running, LinksTo, Indexed
<1> QED
    BY <1>1, <1>2, <1>3 DEF DetectorInv

\* The invariant gives the promise of the verification: the verified block links to
\* the indexed block below it, and what a linked chain holds below that follows.
LEMMA LinkedBelowVerified == DetectorInv => NothingOrphanedBelow
<1> SUFFICES ASSUME DetectorInv, search.at = "found", Linked(blocks),
                    NEW l \in 0..search.high - 1
             PROVE  Matches(search.ref, l)
    BY DEF NothingOrphanedBelow
<1> DEFINE ref == search.ref
           h == search.high
<1>1. /\ blocks \subseteq Block /\ Gapless(blocks)
      /\ ref \in Block /\ h \in Nat /\ h >= 1 /\ h <= Level(ref) /\ LinksTo(ref, h)
    BY ChainAssumption DEF DetectorInv, DetectorTypeOK, SearchIsNarrowing
<1> HIDE DEF ref, h
<1>2. l \in 0..h - 1
    BY DEF h
<1>3. Level(ref) \in Nat
    BY <1>1, BlockIsSeq, ChainAssumption
<1>4. AncestorAt(ref, h) \in Block /\ Level(AncestorAt(ref, h)) = h
    BY <1>1, <1>3, AncestorIsBlock
<1>5. AncestorAt(ref, h - 1) = Indexed(h - 1)
    <2>1. Predecessor(AncestorAt(ref, h)) = AncestorAt(AncestorAt(ref, h), h - 1)
        BY <1>4 DEF Predecessor
    <2>2. AncestorAt(AncestorAt(ref, h), h - 1) = AncestorAt(ref, h - 1)
        BY <1>1, <1>3, AncestorOfAncestor
    <2> QED
        BY <1>1, <2>1, <2>2 DEF LinksTo
<1> DEFINE kept == AncestorAt(ref, h - 1)
<1>6. kept \in Block /\ Level(kept) = h - 1
    BY <1>1, <1>3, AncestorIsBlock
<1>7. kept \in blocks
    BY <1>5, <1>6, IndexedType, ChainAssumption
<1>8. AncestorAt(kept, l) \in blocks
    BY <1>2, <1>6, <1>7 DEF Linked
<1>9. AncestorAt(kept, l) = AncestorAt(ref, l)
    BY <1>1, <1>2, <1>3, AncestorOfAncestor
<1>10. Level(AncestorAt(ref, l)) = l
    BY <1>1, <1>2, <1>3, AncestorIsBlock
<1>11. Indexed(l) = AncestorAt(ref, l)
    BY <1>1, <1>8, <1>9, <1>10, IndexedAtLevel
<1> QED
    BY <1>11 DEF Matches, ref

LEMMA DetectorInvariant == DetectorSpec => []DetectorInv
<1>1. DetectorInit => DetectorInv
    BY DetectorInitEstablishes
<1>2. DetectorInv /\ [DetectorNext]_detectorVars => DetectorInv'
    <2>1. DetectorInv /\ DetectorNext => DetectorInv'
        BY DetectorStepKeeps, NodeStepKeeps DEF DetectorNext
    <2>2. DetectorInv /\ UNCHANGED detectorVars => DetectorInv'
        BY DEF detectorVars, DetectorInv, DetectorTypeOK, SearchIsNarrowing, Running, LinksTo,
               Indexed
    <2> QED
        BY <2>1, <2>2
<1> QED
    BY <1>1, <1>2, PTL DEF DetectorSpec

\* The detection is type correct: no level leaves the chain, and no search is retried
\* more often than ForksProcessor allows.
THEOREM DetectorTypeCorrect == DetectorSpec => []DetectorTypeOK
<1>1. DetectorInv => DetectorTypeOK
    BY DEF DetectorInv
<1> QED
    BY <1>1, DetectorInvariant, PTL

\* A verified fork level leaves no orphaned block under it, when the indexed blocks
\* are one chain: the promise of ConsistentForkDetector, whatever the node did.
THEOREM DetectionIsSafe == DetectorSpec => []NothingOrphanedBelow
BY DetectorInvariant, LinkedBelowVerified, PTL

\* While one reference gives the answers, the ends of the range keep diverging.
LEMMA SteadyStep ==
    DetectorInv /\ SteadyEndsDiverge /\ [DetectorNext]_detectorVars => SteadyEndsDiverge'
<1> SUFFICES ASSUME DetectorInv, SteadyEndsDiverge, [DetectorNext]_detectorVars
             PROVE  SteadyEndsDiverge'
    OBVIOUS
<1>0. blocks' = blocks
    BY DEF DetectorNext, NodeStep, Advance, Reorganise, StoreBootAnchor, DetectorStep,
           Refused, CheckHead, Probe, Settle, Verify, Request, detectorVars
<1> SUFFICES ASSUME search'.at \in {"probe", "verify", "found"}
             PROVE  /\ search'.ref \in Block
                    /\ search'.steady => ~Matches(search'.ref, search'.high)
                                        /\ ~Matches(search'.ref, search'.top)
    BY <1>0 DEF SteadyEndsDiverge, Matches, Indexed
<1>1. DetectorTypeOK
    BY DEF DetectorInv
<1> DEFINE Open == search.at \in {"probe", "verify"}
<1>2. Open => /\ search.ref \in Block
              /\ search.steady => ~Matches(search.ref, search.high)
                                  /\ ~Matches(search.ref, search.top)
    BY DEF SteadyEndsDiverge
<1>3. ASSUME NEW ref \in Block, Open, Answered(ref).steady
      PROVE  ~Matches(ref, search.high) /\ ~Matches(ref, search.top)
    <2>1. search.steady /\ search.ref \in {NoBlock, ref}
        BY <1>1, <1>3 DEF Answered, DetectorTypeOK
    <2> QED
        BY <1>2, <1>3, <2>1, ChainAssumption
<1>4. CASE UNCHANGED search
    BY <1>4 DEF SteadyEndsDiverge
<1>5. CASE Refused
    BY <1>1, <1>5 DEF Refused, DetectorTypeOK
<1>6. CASE CheckHead
    <2>1. PICK ref \in Block :
            search' = [Answered(ref) EXCEPT
                        !.at = IF Matches(ref, search.top) THEN "same"
                               ELSE IF search.top = 0 THEN "failed" ELSE "probe"]
        BY <1>6 DEF CheckHead
    <2>2. search.high = search.top
        BY <1>6 DEF CheckHead, DetectorInv, SearchIsNarrowing
    <2>3. ~Matches(ref, search.top)
        BY <1>1, <2>1, AnsweredType
    <2> QED
        BY <1>1, <2>1, <2>2, <2>3, AnsweredType
<1>7. CASE Probe
    <2> DEFINE mid == Midpoint(search.low, search.high)
    <2>1. PICK ref \in Block : search' = Narrowed(Answered(ref), mid, Matches(ref, mid))
        BY <1>7 DEF Probe
    <2>2. Open
        BY <1>7 DEF Probe
    <2> HIDE DEF mid, Open
    <2>3. CASE Matches(ref, mid)
        BY <1>1, <1>3, <2>1, <2>2, <2>3, AnsweredType DEF Narrowed
    <2>4. CASE ~Matches(ref, mid)
        BY <1>1, <1>3, <2>1, <2>2, <2>4, AnsweredType DEF Narrowed
    <2> QED
        BY <2>3, <2>4
<1>8. CASE Settle
    BY <1>1, <1>2, <1>8 DEF Settle, DetectorTypeOK
<1>9. CASE Verify
    <2>1. PICK ref \in Block :
            search' =
                IF LinksTo(ref, search.high) THEN [Answered(ref) EXCEPT !.at = "found"]
                ELSE IF search.attempts = 1 THEN [Answered(ref) EXCEPT !.at = "failed"]
                ELSE [Answered(ref) EXCEPT !.at = "probe", !.low = 0, !.high = search.top,
                                           !.attempts = search.attempts - 1]
        BY <1>9 DEF Verify
    <2>2. Open
        BY <1>9 DEF Verify
    <2> HIDE DEF Open
    <2>3. CASE LinksTo(ref, search.high)
        BY <1>1, <1>3, <2>1, <2>2, <2>3, AnsweredType
    <2>4. CASE ~LinksTo(ref, search.high)
        BY <1>1, <1>3, <2>1, <2>2, <2>4, AnsweredType
    <2> QED
        BY <2>3, <2>4
<1>10. CASE NodeStep \/ StoreBootAnchor
    BY <1>4, <1>10 DEF NodeStep, Advance, Reorganise, StoreBootAnchor
<1> QED
    BY <1>4, <1>5, <1>6, <1>7, <1>8, <1>9, <1>10
    DEF DetectorNext, DetectorStep, detectorVars

\* A steady detection discards no good block: the one at the fork level diverged.
THEOREM DetectionIsTight == DetectorSpec => []CutIsTight
<1>1. DetectorInit => SteadyEndsDiverge
    BY DEF DetectorInit, Started, Idle, SteadyEndsDiverge
<1>2. DetectorInv /\ SteadyEndsDiverge /\ [DetectorNext]_detectorVars => SteadyEndsDiverge'
    BY SteadyStep
<1>3. SteadyEndsDiverge => CutIsTight
    BY DEF SteadyEndsDiverge, CutIsTight
<1> QED
    BY <1>1, <1>2, <1>3, DetectorInvariant, PTL DEF DetectorSpec

\* Every answer leaves at most half of the levels undecided: the logarithmic number
\* of requests that the comment on searchForkLevel claims.
THEOREM ProbesHalve == DetectorSpec => ProbesHalveTheRange
<1> DEFINE Halves ==
        search.at = "probe" /\ search'.at = "probe" /\ search'.attempts = search.attempts
            => 2 * (search'.high - search'.low - 1) <= search.high - search.low - 1
<1>1. DetectorInv /\ [DetectorNext]_detectorVars => [Halves]_search
    <2> SUFFICES ASSUME DetectorInv, DetectorNext, search' # search,
                        search.at = "probe", search'.at = "probe"
                 PROVE  2 * (search'.high - search'.low - 1) <= search.high - search.low - 1
        BY DEF detectorVars
    <2>1. DetectorTypeOK /\ MaxLevel \in Nat
        BY ChainAssumption DEF DetectorInv
    <2>2. Probe
        BY <2>1 DEF DetectorNext, DetectorStep, NodeStep, Advance, Reorganise, StoreBootAnchor,
                    Refused, CheckHead, Settle, Verify, DetectorTypeOK
    <2> DEFINE mid == Midpoint(search.low, search.high)
    <2>3. PICK ref \in Block : search' = Narrowed(Answered(ref), mid, Matches(ref, mid))
        BY <2>2 DEF Probe
    <2>4. /\ search.low \in Nat /\ search.high \in Nat /\ mid \in Nat
          /\ search.low + search.high <= 2 * mid
          /\ 2 * mid <= search.low + search.high + 1
        BY <2>1 DEF DetectorTypeOK, Midpoint
    <2> HIDE DEF mid
    <2>5. \/ search'.low = mid /\ search'.high = search.high
          \/ search'.low = search.low /\ search'.high = mid
        BY <2>1, <2>3, AnsweredType DEF Narrowed
    <2> QED
        BY <2>4, <2>5
<1> QED
    BY <1>1, DetectorInvariant, PTL DEF DetectorSpec, ProbesHalveTheRange

\* Every step leaves less to do, in any detection on any chain: with the fairness that
\* DetectionEnds assumes, no more than that the steps go on, each detection ends.
THEOREM StepsComeCloser == DetectorSpec => DetectionComesCloser
<1> DEFINE Closer ==
        \/ search'.attempts < search.attempts
        \/ search'.attempts = search.attempts /\ Left(search') < Left(search)
<1>1. DetectorInv /\ DetectorStep => Closer
    <2> SUFFICES ASSUME DetectorInv, DetectorStep PROVE Closer
        OBVIOUS
    <2>1. DetectorTypeOK /\ SearchIsNarrowing /\ MaxLevel \in Nat /\ MaxAttempts \in Nat
        BY ChainAssumption, DetectorAssumption DEF DetectorInv
    <2>2. /\ search.low \in Nat /\ search.high \in Nat /\ search.top \in Nat
          /\ search.attempts \in Nat
        BY <2>1 DEF DetectorTypeOK
    <2>3. CASE Refused
        <3>1. search'.at = "failed" /\ search'.attempts = search.attempts
            BY <2>1, <2>3 DEF Refused, DetectorTypeOK
        <3>2. search.at \in {"head", "probe", "verify"}
            BY <2>3 DEF Refused, Running
        <3>3. Left(search') = -1
            BY <3>1 DEF Left
        <3>4. Left(search) \in Nat
            BY <2>1, <2>2, <3>2 DEF Left, SearchIsNarrowing
        <3>5. Left(search') < Left(search)
            BY <3>3, <3>4
        <3> QED
            BY <3>1, <3>5
    <2>4. CASE CheckHead
        <3>1. search.at = "head" /\ search.low = 0 /\ search.high = search.top
            BY <2>1, <2>4 DEF CheckHead, SearchIsNarrowing
        <3>2. /\ search'.at \in {"same", "failed", "probe"} /\ search'.attempts = search.attempts
              /\ search'.low = search.low /\ search'.high = search.high
            BY <2>1, <2>4, AnsweredType DEF CheckHead
        <3>3. Left(search') <= search.top
            BY <2>2, <3>1, <3>2 DEF Left
        <3>4. Left(search) = search.top + 1
            BY <3>1 DEF Left
        <3> QED
            BY <2>2, <3>2, <3>3, <3>4 DEF Left
    <2>5. CASE Probe
        <3> DEFINE mid == Midpoint(search.low, search.high)
        <3>1. PICK ref \in Block : search' = Narrowed(Answered(ref), mid, Matches(ref, mid))
            BY <2>5 DEF Probe
        <3>2. search.at = "probe" /\ search.low < mid /\ mid < search.high /\ mid \in Nat
            BY <2>2, <2>5 DEF Probe, Midpoint
        <3> HIDE DEF mid
        <3>3. /\ search'.at = "probe" /\ search'.attempts = search.attempts
              /\ \/ search'.low = mid /\ search'.high = search.high
                 \/ search'.low = search.low /\ search'.high = mid
            BY <2>1, <3>1, <3>2, AnsweredType DEF Narrowed
        <3> QED
            BY <2>2, <3>2, <3>3 DEF Left
    <2>6. CASE Settle
        <3>1. /\ search.at = "probe" /\ search.high - search.low = 1
              /\ search'.at = "verify" /\ search'.attempts = search.attempts
            BY <2>1, <2>6 DEF Settle, DetectorTypeOK
        <3> QED
            BY <3>1 DEF Left
    <2>7. CASE Verify
        <3>1. search.at = "verify"
            BY <2>7 DEF Verify
        <3>2. \/ search'.at \in {"found", "failed"} /\ search'.attempts = search.attempts
              \/ search'.attempts = search.attempts - 1
            BY <2>1, <2>2, <2>7, AnsweredType DEF Verify
        <3> QED
            BY <2>2, <3>1, <3>2 DEF Left
    <2> QED
        BY <2>3, <2>4, <2>5, <2>6, <2>7 DEF DetectorStep
<1>2. DetectorInv /\ [DetectorNext]_detectorVars => [DetectorStep => Closer]_detectorVars
    BY <1>1
<1> QED
    BY <1>2, DetectorInvariant, PTL DEF DetectorSpec, DetectionComesCloser
=============================================================================
