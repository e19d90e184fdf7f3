------------------------- MODULE MC_ForkDetector -------------------------
(***************************************************************************)
(* Detections started on every chain that two rounds of indexing, with a    *)
(* reorganisation in between, can leave.  Branches are interchangeable      *)
(* level by level, so the upper part of the indexed chain is on the trunk.  *)
(***************************************************************************)
EXTENDS ForkDetectorProps

TrunkTo(n) == [i \in 1..n |-> Trunk]

MCInit ==
    /\ head \in Block
    /\ reorgs = 0
    /\ \E top \in FinalLevel..MaxLevel, seam \in 0..MaxLevel, old \in Block :
        /\ seam <= top /\ seam = Level(old)
        /\ blocks = Segment(old, 0, seam) \union Segment(TrunkTo(top), seam + 1, top)
        /\ search = Started(top)
        /\ anchor \in {b \in Block : Level(b) <= Level(head)} \union {NoBlock}
    /\ booting \in {head, NoBlock}

MCSpec == MCInit /\ [][DetectorNext]_detectorVars /\ WF_detectorVars(DetectorStep)
=============================================================================
