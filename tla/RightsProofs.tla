--------------------------- MODULE RightsProofs ---------------------------
(***************************************************************************)
(* For any chain, cycles, sizes and number of overlapping runs, the tables  *)
(* of the rights are type correct, and a row that names the block of its    *)
(* own level is never taken back while the block is valid.  The argument:   *)
(* the level of a row follows from its block, one block is valid at each    *)
(* level, and the update writes above all of them.  The near levels are     *)
(* known when the update has ended, and on one branch no level to come is   *)
(* passed over, but for answers that could not be decoded: what is asked    *)
(* for, under way or written leaves none out.                               *)
(***************************************************************************)
EXTENDS RightsProps, BlockchainTheorems

LEMMA RightsBounds ==
    /\ MaxLevel \in Nat /\ FinalLevel \in 0..MaxLevel
    /\ \E n \in Nat : RightsLevel = 0..n /\ MaxLevel + UpdateSize + 1 <= n
    /\ UpdateSize \in Nat /\ FetchSize \in Nat \ {0} /\ PageSize \in Nat \ {0}
    /\ NoBlock \notin Block /\ NoRow \notin Block /\ Future \notin Block /\ NoRow # Future
    /\ Ahead \in [Table -> {0, 1}]
<1> DEFINE k == CycleSize * (CyclesToFetch + 1)
<1>1. CycleSize \in Nat /\ CyclesToFetch + 1 \in Nat
    BY RightsAssumption
<1>2. k \in Nat /\ k >= 1
    <2>1. CycleSize >= 1 /\ CyclesToFetch + 1 >= 1
        BY RightsAssumption
    <2>2. \A x, y \in Nat : x >= 1 /\ y >= 1 => x * y \in Nat /\ x * y >= 1
        OBVIOUS
    <2> QED
        BY <1>1, <2>1, <2>2
<1>3. RightsLevel = 0..MaxLevel + k + UpdateSize
    BY DEF RightsLevel
<1> HIDE DEF k
<1>4. MaxLevel \in Nat /\ FinalLevel \in 0..MaxLevel /\ UpdateSize \in Nat
    BY ChainAssumption, RightsAssumption
<1>5. MaxLevel + k + UpdateSize \in Nat /\ MaxLevel + UpdateSize + 1 <= MaxLevel + k + UpdateSize
    BY <1>2, <1>4
<1>6. \E n \in Nat : RightsLevel = 0..n /\ MaxLevel + UpdateSize + 1 <= n
    BY <1>3, <1>5
<1> QED
    BY <1>4, <1>6, ChainAssumption, RightsAssumption

LEMMA RightsLevelType ==
    ASSUME NEW b \in Block
    PROVE  Level(b) \in 0..MaxLevel /\ Level(b) \in Nat /\ Level(b) \in RightsLevel
BY BlockIsSeq, RightsBounds

\* The rows of a block are of its level or of the next.
LEMMA RowLevelType ==
    ASSUME NEW t \in Table, NEW b \in Block
    PROVE  /\ RowLevel(t, b) \in RightsLevel
           /\ RowLevel(t, b) <= Level(b) + 1
           /\ Ahead[t] = 0 => RowLevel(t, b) = Level(b)
<1>1. Level(b) \in 0..MaxLevel /\ Ahead[t] \in {0, 1}
    BY RightsLevelType, RightsBounds
<1>2. PICK n \in Nat : RightsLevel = 0..n /\ MaxLevel + UpdateSize + 1 <= n
    BY RightsBounds
<1>3. MaxLevel \in Nat /\ UpdateSize \in Nat
    BY RightsBounds
<1> QED
    BY <1>1, <1>2, <1>3 DEF RowLevel

\* No indexed block is above the highest indexed level.
LEMMA MaxIndexedBounds ==
    ASSUME blocks \subseteq Block
    PROVE  MaxIndexed \in -1..MaxLevel /\ \A b \in blocks : Level(b) <= MaxIndexed
<1>1. \A b \in blocks : Level(b) \in 0..MaxLevel
    BY BlockIsSeq
<1>2. CASE blocks = {}
    BY <1>2, ChainAssumption DEF MaxIndexed
<1>3. CASE blocks # {}
    <2>1. \E l \in {Level(b) : b \in blocks} : \A b \in blocks : Level(b) <= l
        BY <1>3, HighestLevel
    <2>2. MaxIndexed \in {Level(b) : b \in blocks} /\ \A b \in blocks : Level(b) <= MaxIndexed
        BY <1>3, <2>1 DEF MaxIndexed
    <2> QED
        BY <1>1, <2>2, ChainAssumption
<1> QED
    BY <1>2, <1>3

\* The first level that a run may ask for is a number.
LEMMA MaxRightsType ==
    ASSUME NEW t \in Table
    PROVE  MaxRights(t) + 1 \in Nat
<1> DEFINE S == {l \in RightsLevel : rights[t][l] # NoRow}
<1>1. PICK n \in Nat : RightsLevel = 0..n
    BY RightsBounds
<1>2. CASE S = {}
    BY <1>2 DEF MaxRights
<1>3. CASE S # {}
    <2>1. \E m \in S : \A x \in S : x <= m
        BY <1>1, <1>3, GreatestNumber
    <2>2. MaxRights(t) \in RightsLevel
        BY <1>3, <2>1 DEF MaxRights
    <2> QED
        BY <1>1, <2>2
<1> QED
    BY <1>2, <1>3

LEMMA LengthType ==
    ASSUME NEW h \in Nat
    PROVE  Length(h) \in Int
<1>1. CycleSize \in Nat \ {0} /\ CyclesToFetch \in Nat
    BY RightsAssumption
<1>2. h % CycleSize \in Int
    BY <1>1
<1>3. CycleSize * CyclesToFetch \in Int
    BY <1>1
<1> QED
    BY <1>1, <1>2, <1>3 DEF Length

\* The rows of a page name its blocks, each at the level of the block's rights.
LEMMA PageRowsType ==
    ASSUME NEW t \in Table, NEW S \in SUBSET Block
    PROVE  /\ PageRows(t, S) \in [RightsLevel -> Row]
           /\ \A l \in RightsLevel :
                /\ PageRows(t, S)[l] # NoRow
                     => PageRows(t, S)[l] \in S /\ RowLevel(t, PageRows(t, S)[l]) = l
                /\ PageRows(t, S)[l] # Future
<1>1. ASSUME NEW l \in RightsLevel
      PROVE  \/ PageRows(t, S)[l] = NoRow
             \/ PageRows(t, S)[l] \in S /\ RowLevel(t, PageRows(t, S)[l]) = l
    BY DEF PageRows
<1>2. /\ DOMAIN PageRows(t, S) = RightsLevel
      /\ PageRows(t, S) = [l \in RightsLevel |-> PageRows(t, S)[l]]
    BY DEF PageRows
<1> QED
    BY <1>1, <1>2, RightsBounds DEF Row

LEMMA FutureRowsType ==
    ASSUME NEW S
    PROVE  /\ FutureRows(S) \in [RightsLevel -> Row]
           /\ \A l \in RightsLevel : FutureRows(S)[l] \in {Future, NoRow}
                                     /\ (l \notin S => FutureRows(S)[l] = NoRow)
BY DEF FutureRows, Row

LEMMA UpsertedType ==
    ASSUME NEW old \in [RightsLevel -> Row], NEW new \in [RightsLevel -> Row]
    PROVE  /\ Upserted(old, new) \in [RightsLevel -> Row]
           /\ \A l \in RightsLevel :
                Upserted(old, new)[l] = IF new[l] = NoRow THEN old[l] ELSE new[l]
BY DEF Upserted

LEMMA RightsInitEstablishes == Init => RightsInv
<1> SUFFICES ASSUME Init PROVE RightsInv
    OBVIOUS
<1>1. RightsTypeOK
    BY RightsAssumption DEF Init, RightsTypeOK, NoRun, Row, Table
<1>2. RowsAreOfTheirLevel
    BY RightsBounds DEF Init, RowsAreOfTheirLevel
<1>3. OneBlockPerLevel /\ HeadIsHighest /\ NearIsAhead
    BY DEF Init, OneBlockPerLevel, HeadIsHighest, NearIsAhead
<1> QED
    BY <1>1, <1>2, <1>3 DEF RightsInv

\* A step of the node leaves the head no lower.
LEMMA NodeKeepsRights == RightsInv /\ Node => RightsInv'
<1> SUFFICES ASSUME RightsInv, Node PROVE RightsInv'
    OBVIOUS
<1>1. /\ head' \in Block /\ Level(head') >= Level(head)
      /\ reorgs' \in 0..MaxReorgs
      /\ UNCHANGED <<unread, blocks, rights, writes, loopVars, runs, failures>>
    BY RightsAssumption, RightsLevelType
    DEF Node, Advance, Reorganise, RightsInv, RightsTypeOK
<1>2. RightsTypeOK'
    BY <1>1 DEF RightsInv, RightsTypeOK, loopVars
<1>3. RowsAreOfTheirLevel' /\ OneBlockPerLevel' /\ NearIsAhead'
    BY <1>1 DEF RightsInv, RowsAreOfTheirLevel, OneBlockPerLevel, NearIsAhead, loopVars
<1>4. HeadIsHighest'
    <2>1. \A b \in Block : Level(b) <= Level(head) => Level(b) <= Level(head')
        BY <1>1, RightsLevelType DEF RightsInv, RightsTypeOK
    <2> QED
        BY <1>1, <2>1 DEF RightsInv, RightsTypeOK, HeadIsHighest, loopVars
<1> QED
    BY <1>2, <1>3, <1>4 DEF RightsInv

\* The amendment leaves rows of their level, and no other blocks.
LEMMA ForkDetectedKeepsRights == RightsInv /\ ForkDetected => RightsInv'
<1> SUFFICES ASSUME RightsInv, ForkDetected PROVE RightsInv'
    OBVIOUS
<1> USE DEF RightsInv
<1>1. /\ pc = "loop" /\ pc' = "fetchHead"
      /\ UNCHANGED <<head, reorgs, unread, writes, target, page, near, updating, runs, failures>>
    BY DEF ForkDetected, nodeVars
<1>2. blocks' \subseteq blocks
    BY DEF ForkDetected, AmendFork
<1>3. /\ rights' \in [Table -> [RightsLevel -> Row]]
      /\ \A t \in Table, l \in RightsLevel : rights'[t][l] \in {NoRow, rights[t][l]}
    BY DEF ForkDetected, AmendFork, RightsTypeOK, Row
<1>4. page = {}
    BY <1>1 DEF RightsTypeOK, NearIsAhead
<1>5. RightsTypeOK'
    BY <1>1, <1>2, <1>3, <1>4 DEF RightsTypeOK
<1>6. RowsAreOfTheirLevel'
    BY <1>1, <1>3, RightsBounds DEF RowsAreOfTheirLevel
<1> QED
    BY <1>1, <1>2, <1>5, <1>6 DEF OneBlockPerLevel, HeadIsHighest, NearIsAhead

\* Where no fork is found nothing is amended, and the pages count from the head.
LEMMA HeadReadKeepsRights == RightsInv /\ (NoFork \/ FetchHead) => RightsInv'
<1> SUFFICES ASSUME RightsInv, NoFork \/ FetchHead PROVE RightsInv'
    OBVIOUS
<1> USE DEF RightsInv
<1>1. /\ UNCHANGED <<head, reorgs, unread, blocks, rights, writes, page, near, updating, runs,
                     failures>>
      /\ \/ pc = "loop" /\ pc' = "fetchHead" /\ target' = target
         \/ pc = "fetchHead" /\ pc' = "page" /\ target' = head
    BY DEF NoFork, FetchHead, nodeVars
<1>2. RightsTypeOK'
    BY <1>1 DEF RightsTypeOK
<1>3. HeadIsHighest'
    <2>1. Level(head) <= Level(head)
        BY RightsLevelType DEF RightsTypeOK
    <2> QED
        BY <1>1, <2>1 DEF RightsTypeOK, HeadIsHighest
<1> QED
    BY <1>1, <1>2, <1>3 DEF RowsAreOfTheirLevel, OneBlockPerLevel, NearIsAhead

\* A page adds one block to each of the levels above the indexed ones.
LEMMA StorePageKeepsRights == RightsInv /\ StorePage => RightsInv'
<1> SUFFICES ASSUME RightsInv, StorePage PROVE RightsInv'
    OBVIOUS
<1> USE DEF RightsInv
<1> DEFINE lo == MaxIndexed + 1
           hi == Smaller(MaxIndexed + PageSize, Level(target))
<1>1. /\ pc = "page" /\ pc' = "rights" /\ page' = Segment(target, lo, hi)
      /\ blocks' = blocks \union page'
      /\ UNCHANGED <<head, reorgs, unread, rights, writes, target, near, updating, runs, failures>>
    BY DEF StorePage, nodeVars
<1>2. MaxIndexed \in -1..MaxLevel /\ \A b \in blocks : Level(b) <= MaxIndexed
    BY MaxIndexedBounds DEF RightsTypeOK
<1>3. target \in Block /\ Level(target) \in Nat /\ Level(target) <= Level(head)
      /\ MaxIndexed < Level(target) /\ Level(head) \in Nat
    BY <1>1, RightsLevelType DEF StorePage, HeadIsHighest, RightsTypeOK
<1>4. lo \in Nat /\ hi \in Nat /\ hi <= Level(target)
    BY <1>2, <1>3, RightsBounds DEF Smaller
<1> HIDE DEF lo, hi
<1>5. /\ page' \subseteq Block
      /\ \A c \in page' : Level(c) \in lo..hi /\ c = AncestorAt(target, Level(c))
    BY <1>1, <1>3, <1>4, SegmentLevels
<1>6. RightsTypeOK'
    BY <1>1, <1>5 DEF RightsTypeOK
<1>7. OneBlockPerLevel'
    <2>1. \A b \in blocks, c \in page' : Level(b) # Level(c)
        BY <1>2, <1>4, <1>5, RightsLevelType DEF RightsTypeOK, lo
    <2> QED
        BY <1>1, <1>5, <2>1 DEF OneBlockPerLevel
<1>8. HeadIsHighest'
    <2>1. \A c \in page' : Level(c) <= Level(head)
        BY <1>3, <1>4, <1>5
    <2> QED
        BY <1>1, <2>1 DEF HeadIsHighest
<1>9. RowsAreOfTheirLevel' /\ NearIsAhead'
    BY <1>1 DEF RowsAreOfTheirLevel, NearIsAhead
<1> QED
    BY <1>6, <1>7, <1>8, <1>9

\* The upserts of a page name its blocks, each at the level of the block's rights.
LEMMA PageRightsKeepsRights == RightsInv /\ PageRights => RightsInv'
<1> SUFFICES ASSUME RightsInv, PageRights PROVE RightsInv'
    OBVIOUS
<1> USE DEF RightsInv
<1>1. PICK lost \in [Table -> SUBSET page] :
        /\ writes' = writes \union
            {[table |-> t, mode |-> "upsert", rows |-> PageRows(t, page \ lost[t])] : t \in Table}
        /\ unread' = unread \union UNION {{<<t, RowLevel(t, b), b>> : b \in lost[t]} : t \in Table}
    BY DEF PageRights, ReadInVain
<1>2. /\ pc = "rights" /\ pc' = "page" /\ page' = {}
      /\ UNCHANGED <<head, reorgs, blocks, rights, target, near, updating, runs, failures>>
    BY DEF PageRights
<1>3. page \subseteq Block
    BY DEF RightsTypeOK
<1>4. ASSUME NEW w \in writes' \ writes
      PROVE  /\ w \in [table : Table, mode : {"upsert"}, rows : [RightsLevel -> Row]]
             /\ \A l \in RightsLevel : /\ w.rows[l] \in Block => RowLevel(w.table, w.rows[l]) = l
                                       /\ w.rows[l] # Future
    <2>1. PICK t \in Table :
            w = [table |-> t, mode |-> "upsert", rows |-> PageRows(t, page \ lost[t])]
        BY <1>1, <1>4
    <2>2. page \ lost[t] \in SUBSET Block
        BY <1>3
    <2> QED
        BY <2>1, <2>2, PageRowsType, RightsBounds
<1>5. unread' \subseteq Table \X Nat \X Row
    <2>1. ASSUME NEW t \in Table, NEW b \in lost[t]
          PROVE  <<t, RowLevel(t, b), b>> \in Table \X Nat \X Row
        <3>1. b \in Block
            BY <1>3
        <3>2. RowLevel(t, b) \in Nat
            BY <3>1, RowLevelType, RightsBounds
        <3> QED
            BY <3>1, <3>2 DEF Row
    <2> QED
        BY <1>1, <2>1 DEF RightsTypeOK
<1>6. writes' \subseteq [table : Table, mode : {"upsert", "insert"}, rows : [RightsLevel -> Row]]
    BY <1>4 DEF RightsTypeOK
<1>7. RightsTypeOK'
    BY <1>2, <1>5, <1>6 DEF RightsTypeOK
<1>8. RowsAreOfTheirLevel'
    BY <1>2, <1>4 DEF RowsAreOfTheirLevel
<1> QED
    BY <1>2, <1>7, <1>8 DEF OneBlockPerLevel, HeadIsHighest, NearIsAhead

\* The update is about levels above the head, which no indexed block is above.
LEMMA UpdatesKeepRights == RightsInv /\ (BeginUpdate \/ Update \/ EndIteration) => RightsInv'
<1> SUFFICES ASSUME RightsInv, BeginUpdate \/ Update \/ EndIteration PROVE RightsInv'
    OBVIOUS
<1> USE DEF RightsInv
<1>1. CASE BeginUpdate
    <2>1. /\ pc' = "update" /\ updating' = Table /\ target' = NoBlock
          /\ near' = Level(head) + 1 .. Level(head) + UpdateSize - 1
          /\ pc = "page"
          /\ UNCHANGED <<head, reorgs, unread, blocks, rights, writes, page, runs, failures>>
        BY <1>1 DEF BeginUpdate, nodeVars
    <2>2. near' \subseteq RightsLevel
        BY <2>1, RightsBounds, RightsLevelType DEF RightsTypeOK
    <2>3. \A b \in blocks : Level(b) <= Level(head) /\ Level(b) \in Nat /\ Level(head) \in Nat
        BY RightsLevelType DEF RightsTypeOK, HeadIsHighest
    <2>4. \A l \in near', b \in blocks : Level(b) < l
        BY <2>1, <2>3, RightsBounds
    <2>5. RightsTypeOK'
        BY <2>1, <2>2 DEF RightsTypeOK
    <2> QED
        BY <2>1, <2>4, <2>5
        DEF RowsAreOfTheirLevel, OneBlockPerLevel, HeadIsHighest, NearIsAhead
<1>2. CASE Update
    <2>1. PICK t \in updating, lost \in SUBSET near :
            /\ rights' = [rights EXCEPT ![t] = Upserted(@, FutureRows(near \ lost))]
            /\ unread' = unread \union {<<t, l, Future>> : l \in lost}
            /\ updating' = updating \ {t}
        BY <1>2 DEF Update, ReadInVain
    <2>2. UNCHANGED <<head, reorgs, blocks, writes, pc, target, page, near, runs, failures>>
        BY <1>2 DEF Update
    <2>3. t \in Table /\ rights[t] \in [RightsLevel -> Row]
        BY DEF RightsTypeOK
    <2>4. /\ Upserted(rights[t], FutureRows(near \ lost)) \in [RightsLevel -> Row]
          /\ \A l \in RightsLevel :
                Upserted(rights[t], FutureRows(near \ lost))[l] \in {Future, NoRow, rights[t][l]}
        BY <2>3, FutureRowsType, UpsertedType
    <2>7. unread' \subseteq Table \X Nat \X Row
        BY <2>1, <2>3, RightsBounds DEF RightsTypeOK, Row
    <2>5. RightsTypeOK'
        BY <2>1, <2>2, <2>3, <2>4, <2>7 DEF RightsTypeOK
    <2>6. RowsAreOfTheirLevel'
        BY <2>1, <2>2, <2>3, <2>4, RightsBounds DEF RowsAreOfTheirLevel, RightsTypeOK
    <2> QED
        BY <2>1, <2>2, <2>5, <2>6 DEF OneBlockPerLevel, HeadIsHighest, NearIsAhead
<1>3. CASE EndIteration
    <2>1. /\ pc' = "loop" /\ near' = {} /\ updating = {} /\ pc = "update"
          /\ UNCHANGED <<head, reorgs, unread, blocks, rights, writes, target, page, updating,
                         runs, failures>>
        BY <1>3 DEF EndIteration, nodeVars
    <2> QED
        BY <2>1 DEF RightsTypeOK, RowsAreOfTheirLevel, OneBlockPerLevel, HeadIsHighest, NearIsAhead
<1> QED
    BY <1>1, <1>2, <1>3

\* The step of a scheduled run keeps the runs of their type.
LEMMA RunsType ==
    ASSUME RightsTypeOK, NEW r \in Run, Scheduled(r) \/ RunFails(r)
    PROVE  runs' \in [Run -> [at : {"reading", "inserting"},
                              read : SUBSET (Table \union {"head"}),
                              from : Nat, last : Int]]
<1> DEFINE RunType == [at : {"reading", "inserting"}, read : SUBSET (Table \union {"head"}),
                       from : Nat, last : Int]
<1>1. runs \in [Run -> RunType] /\ NoRun \in RunType
    BY DEF RightsTypeOK, NoRun
<1>2. CASE ReadHead(r)
    <2>1. Level(head) \in Nat
        BY RightsLevelType DEF RightsTypeOK
    <2>2. Larger(runs[r].from, Level(head) + 1) \in Nat
        BY <1>1, <2>1 DEF Larger
    <2>3. Level(head) + Length(Level(head)) - 1 \in Int
        BY <2>1, LengthType
    <2>4. runs' = [runs EXCEPT ![r].read = @ \union {"head"},
                               ![r].from = Larger(@, Level(head) + 1),
                               ![r].last = Level(head) + Length(Level(head)) - 1]
        BY <1>2 DEF ReadHead
    <2> QED
        BY <1>1, <2>2, <2>3, <2>4
<1>3. CASE ReadMax(r)
    <2>1. PICK t \in Table :
            runs' = [runs EXCEPT ![r].read = @ \union {t},
                                 ![r].from = Larger(@, MaxRights(t) + 1)]
        BY <1>3 DEF ReadMax
    <2>2. Larger(runs[r].from, MaxRights(t) + 1) \in Nat
        BY <1>1, MaxRightsType DEF Larger
    <2> QED
        BY <1>1, <2>1, <2>2
<1>4. CASE InsertEndorsing(r)
    <2>1. runs' = [runs EXCEPT ![r].at = "reading", ![r].from = @ + FetchSize]
        BY <1>4 DEF InsertEndorsing
    <2>2. runs[r].from + FetchSize \in Nat
        BY <1>1, RightsBounds
    <2> QED
        BY <1>1, <2>1, <2>2
<1>5. CASE NextPartition(r)
    BY <1>1, <1>5 DEF NextPartition
<1>6. CASE EndorsingCollides(r) \/ RunEnds(r) \/ RunFails(r)
    BY <1>1, <1>6 DEF EndorsingCollides, RunEnds, RunFails
<1> QED
    BY <1>2, <1>3, <1>4, <1>5, <1>6 DEF Scheduled

\* An insertion that does not collide leaves every row it finds.
LEMMA InsertedType ==
    ASSUME RightsInv, NEW table \in Table, NEW new \in [RightsLevel -> Row],
           \A l \in RightsLevel : new[l] \in Block => RowLevel(table, new[l]) = l,
           rights' = [rights EXCEPT ![table] = Upserted(@, new)]
    PROVE  /\ rights' \in [Table -> [RightsLevel -> Row]]
           /\ \A u \in Table, l \in RightsLevel :
                /\ rights'[u][l] \in Block => RowLevel(u, rights'[u][l]) = l
                /\ u = table /\ new[l] # NoRow => rights'[u][l] = new[l]
                /\ u # table \/ new[l] = NoRow => rights'[u][l] = rights[u][l]
<1>1. rights \in [Table -> [RightsLevel -> Row]] /\ rights[table] \in [RightsLevel -> Row]
    BY DEF RightsInv, RightsTypeOK
<1>2. /\ Upserted(rights[table], new) \in [RightsLevel -> Row]
      /\ \A l \in RightsLevel :
            Upserted(rights[table], new)[l] = IF new[l] = NoRow THEN rights[table][l] ELSE new[l]
    BY <1>1, UpsertedType
<1>3. /\ rights' \in [Table -> [RightsLevel -> Row]]
      /\ \A u \in Table, l \in RightsLevel :
            rights'[u][l] = IF u = table /\ new[l] # NoRow THEN new[l] ELSE rights[u][l]
    BY <1>1, <1>2
<1> QED
    BY <1>3 DEF RightsInv, RowsAreOfTheirLevel

\* What a scheduled run writes names no block.
LEMMA ScheduledKeepsRights ==
    ASSUME RightsInv, NEW r \in Run, Scheduled(r) \/ RunFails(r)
    PROVE  RightsInv'
<1>1. RightsTypeOK
    BY DEF RightsInv
<1>2. runs' \in [Run -> [at : {"reading", "inserting"},
                          read : SUBSET (Table \union {"head"}), from : Nat, last : Int]]
    BY <1>1, RunsType
<1>3. \A S : /\ FutureRows(S) \in [RightsLevel -> Row]
             /\ \A l \in RightsLevel : FutureRows(S)[l] \notin Block
    BY FutureRowsType, RightsBounds
<1>4. /\ UNCHANGED <<head, reorgs, blocks, pc, target, page, near, updating>>
      /\ failures' \in 0..MaxFailures
    BY <1>1, RightsAssumption
    DEF Scheduled, ReadHead, ReadMax, NextPartition, InsertEndorsing, EndorsingCollides, RunEnds,
        RunFails, CountFailure, nodeVars, loopVars, RightsTypeOK
<1>5. /\ rights' \in [Table -> [RightsLevel -> Row]]
      /\ \A t \in Table, l \in RightsLevel :
            rights'[t][l] \in Block => RowLevel(t, rights'[t][l]) = l
    <2>1. CASE InsertEndorsing(r)
        <3>1. PICK S : rights' = [rights EXCEPT !["endorsing"] = Upserted(@, FutureRows(S))]
            BY <2>1 DEF InsertEndorsing
        <3> QED
            BY <1>3, <3>1, InsertedType DEF Table
    <2>2. CASE rights' = rights
        BY <2>2 DEF RightsInv, RightsTypeOK, RowsAreOfTheirLevel
    <2>3. InsertEndorsing(r) \/ rights' = rights
        BY DEF Scheduled, ReadHead, ReadMax, NextPartition, EndorsingCollides, RunEnds,
               RunFails, CountFailure
    <2> QED
        BY <2>1, <2>2, <2>3
<1>6. \A w \in writes' : w \in writes \/ \E S :
        w = [table |-> "baking", mode |-> "insert", rows |-> FutureRows(S)]
    <2>1. CASE NextPartition(r)
        BY <2>1 DEF NextPartition
    <2>2. CASE ~NextPartition(r)
        BY <2>2
        DEF Scheduled, ReadHead, ReadMax, InsertEndorsing, EndorsingCollides, RunEnds, RunFails
    <2> QED
        BY <2>1, <2>2
<1>7. unread' \subseteq Table \X Nat \X Row
    <2>1. Partition(r) \subseteq Nat
        BY <1>1, RightsBounds DEF Partition, RightsTypeOK
    <2>2. \A w \in unread' : w \in unread \/ \E t \in Table, l \in Partition(r) : w = <<t, l, Future>>
        <3>1. CASE NextPartition(r) \/ InsertEndorsing(r)
            <4>1. PICK t \in Table, lost \in SUBSET Partition(r) :
                    unread' = unread \union {<<t, l, Future>> : l \in lost}
                <5>1. CASE NextPartition(r)
                    BY <5>1 DEF NextPartition, ReadInVain, Table
                <5>2. CASE InsertEndorsing(r)
                    BY <5>2 DEF InsertEndorsing, ReadInVain, Table
                <5> QED
                    BY <3>1, <5>1, <5>2
            <4> QED
                BY <4>1
        <3>2. CASE ~(NextPartition(r) \/ InsertEndorsing(r))
            BY <3>2
            DEF Scheduled, ReadHead, ReadMax, EndorsingCollides, RunEnds, RunFails, CountFailure,
                nodeVars
        <3> QED
            BY <3>1, <3>2
    <2> QED
        BY <1>1, <2>1, <2>2 DEF RightsTypeOK, Row
<1>8. RightsTypeOK'
    <2>1. ASSUME NEW w \in writes'
          PROVE  w \in [table : Table, mode : {"upsert", "insert"}, rows : [RightsLevel -> Row]]
        <3>1. CASE w \in writes
            BY <1>1, <3>1 DEF RightsTypeOK
        <3>2. CASE w \notin writes
            BY <1>3, <1>6, <3>2 DEF Table
        <3> QED
            BY <3>1, <3>2
    <2> QED
        BY <1>1, <1>2, <1>4, <1>5, <1>7, <2>1 DEF RightsTypeOK
<1>9. RowsAreOfTheirLevel'
    <2>1. ASSUME NEW w \in writes', NEW l \in RightsLevel
          PROVE  /\ w.rows[l] \in Block => RowLevel(w.table, w.rows[l]) = l
                 /\ w.mode = "upsert" => w.rows[l] # Future
        <3>1. CASE w \in writes
            BY <3>1 DEF RightsInv, RowsAreOfTheirLevel
        <3>2. CASE w \notin writes
            BY <1>3, <1>6, <3>2
        <3> QED
            BY <3>1, <3>2
    <2> QED
        BY <1>5, <2>1 DEF RowsAreOfTheirLevel
<1> QED
    BY <1>4, <1>8, <1>9 DEF RightsInv, OneBlockPerLevel, HeadIsHighest, NearIsAhead

\* A late write is of its level too.
LEMMA WritesKeepRights == RightsInv /\ (Write \/ WriteRefused) => RightsInv'
<1> SUFFICES ASSUME RightsInv, Write \/ WriteRefused PROVE RightsInv'
    OBVIOUS
<1>1. PICK w \in writes :
        /\ writes' = writes \ {w}
        /\ \/ rights' = [rights EXCEPT ![w.table] = Upserted(@, w.rows)]
           \/ rights' = rights
    BY DEF Write, WriteRefused
<1>2. UNCHANGED <<head, reorgs, unread, blocks, pc, target, page, near, updating, runs, failures>>
    BY DEF Write, WriteRefused, nodeVars, loopVars
<1>3. /\ w.table \in Table /\ w.rows \in [RightsLevel -> Row]
      /\ \A l \in RightsLevel : w.rows[l] \in Block => RowLevel(w.table, w.rows[l]) = l
    BY DEF RightsInv, RightsTypeOK, RowsAreOfTheirLevel
<1>4. /\ rights' \in [Table -> [RightsLevel -> Row]]
      /\ \A t \in Table, l \in RightsLevel :
            rights'[t][l] \in Block => RowLevel(t, rights'[t][l]) = l
    <2>1. CASE rights' = [rights EXCEPT ![w.table] = Upserted(@, w.rows)]
        BY <1>3, <2>1, InsertedType
    <2>2. CASE rights' = rights
        BY <2>2 DEF RightsInv, RightsTypeOK, RowsAreOfTheirLevel
    <2> QED
        BY <1>1, <2>1, <2>2
<1>5. RightsTypeOK'
    BY <1>1, <1>2, <1>4 DEF RightsInv, RightsTypeOK
<1>6. RowsAreOfTheirLevel'
    BY <1>1, <1>4 DEF RightsInv, RowsAreOfTheirLevel
<1> QED
    BY <1>2, <1>5, <1>6 DEF RightsInv, OneBlockPerLevel, HeadIsHighest, NearIsAhead

LEMMA FailuresKeepRights == RightsInv /\ (PageRightsFail \/ Crash) => RightsInv'
<1> SUFFICES ASSUME RightsInv, PageRightsFail \/ Crash PROVE RightsInv'
    OBVIOUS
<1>1. /\ UNCHANGED <<head, reorgs, unread, blocks, rights>>
      /\ pc' = "loop" /\ page' = {} /\ target' = NoBlock
      /\ writes' \subseteq writes
      /\ near' = {} /\ updating' = {}
      /\ runs' \in {runs, [r \in Run |-> NoRun]}
      /\ failures' \in 0..MaxFailures
    BY RightsAssumption
    DEF PageRightsFail, Crash, CountFailure, nodeVars, RightsInv, RightsTypeOK, NearIsAhead
<1>2. RightsTypeOK'
    BY <1>1 DEF RightsInv, RightsTypeOK, NoRun
<1> QED
    BY <1>1, <1>2
    DEF RightsInv, RowsAreOfTheirLevel, OneBlockPerLevel, HeadIsHighest, NearIsAhead

LEMMA RightsStepKeeps == RightsInv /\ [Next]_vars => RightsInv'
<1> SUFFICES ASSUME RightsInv, [Next]_vars PROVE RightsInv'
    OBVIOUS
<1>1. CASE UNCHANGED vars
    BY <1>1
    DEF vars, nodeVars, loopVars, RightsInv, RightsTypeOK, RowsAreOfTheirLevel, OneBlockPerLevel,
        HeadIsHighest, NearIsAhead
<1> QED
    BY <1>1, NodeKeepsRights, ForkDetectedKeepsRights, HeadReadKeepsRights,
       StorePageKeepsRights, PageRightsKeepsRights, UpdatesKeepRights, ScheduledKeepsRights, WritesKeepRights,
       FailuresKeepRights
    DEF Next, Loop

LEMMA RightsInvariant == Spec => []RightsInv
BY RightsInitEstablishes, RightsStepKeeps, PTL DEF Spec

\* The tables of the rights, the pending writes and the runs are always of their type.
THEOREM RightsTypeCorrect == Spec => []RightsTypeOK
<1>1. RightsInv => RightsTypeOK
    BY DEF RightsInv
<1> QED
    BY <1>1, RightsInvariant, PTL

\* No writer takes back the block that a row names while that block is valid.
LEMMA StepKeepsTheirBlock ==
    ASSUME RightsInv, RightsInv', [Next]_vars,
           NEW t \in Table, Ahead[t] = 0,
           NEW l \in RightsLevel, rights[t][l] \in blocks \intersect blocks'
    PROVE  rights'[t][l] = rights[t][l]
<1> DEFINE b == rights[t][l]
<1>1. /\ rights \in [Table -> [RightsLevel -> Row]]
      /\ b \in Block /\ b \in blocks /\ b \in blocks' /\ Level(b) = l /\ b # NoRow
    BY RowLevelType, RightsBounds DEF RightsInv, RightsTypeOK, RowsAreOfTheirLevel
<1>2. CASE ForkDetected
    <2>1. PICK c \in Orphaned(blocks, head) : AmendFork(Level(c))
        BY <1>2 DEF ForkDetected
    <2>2. Level(b) < Level(c) /\ Level(c) \in Nat /\ Level(b) \in Nat
        BY <1>1, <2>1, RightsLevelType DEF AmendFork, Orphaned, RightsInv, RightsTypeOK
    <2>3. rights'[t][l] = IF l >= Level(c) THEN NoRow ELSE rights[t][l]
        BY <2>1 DEF AmendFork
    <2>4. ~(l >= Level(c))
        BY <1>1, <2>2
    <2> QED
        BY <2>3, <2>4
<1>3. CASE Update
    <2>1. l \notin near
        BY <1>1, RightsLevelType DEF RightsInv, NearIsAhead
    <2>2. PICK o \in Table, lost \in SUBSET near :
            rights' = [rights EXCEPT ![o] = Upserted(@, FutureRows(near \ lost))]
        BY <1>3 DEF Update, RightsInv, RightsTypeOK
    <2> DEFINE new == FutureRows(near \ lost)
    <2>3. /\ new \in [RightsLevel -> Row]
          /\ new[l] = NoRow
          /\ \A m \in RightsLevel : new[m] \notin Block
        BY <2>1, FutureRowsType, RightsBounds
    <2>5. rights' = [rights EXCEPT ![o] = Upserted(@, new)]
        BY <2>2
    <2> HIDE DEF new
    <2>4. Upserted(rights[o], new)[l] = rights[o][l]
        BY <1>1, <2>3, UpsertedType
    <2> QED
        BY <1>1, <2>4, <2>5
<1>4. ASSUME NEW r \in Run, InsertEndorsing(r)
      PROVE  rights'[t][l] = rights[t][l]
    <2>4. PICK S : /\ ~Collides(rights["endorsing"], FutureRows(S))
                   /\ rights' = [rights EXCEPT !["endorsing"] = Upserted(@, FutureRows(S))]
        BY <1>4 DEF InsertEndorsing
    <2> DEFINE new == FutureRows(S)
    <2>1. new \in [RightsLevel -> Row] /\ \A m \in RightsLevel : new[m] \notin Block
        BY FutureRowsType, RightsBounds
    <2>2. ~Collides(rights["endorsing"], new)
          /\ rights' = [rights EXCEPT !["endorsing"] = Upserted(@, new)]
        BY <2>4
    <2> HIDE DEF new
    <2>3. t = "endorsing" => new[l] = NoRow
        BY <1>1, <2>2 DEF Collides
    <2> QED
        BY <2>1, <2>2, <2>3, InsertedType DEF Table
<1>5. CASE Write
    <2>1. PICK w \in writes :
            /\ IF w.mode = "upsert" THEN Accepted(w.rows) ELSE ~Collides(rights[w.table], w.rows)
            /\ rights' = [rights EXCEPT ![w.table] = Upserted(@, w.rows)]
        BY <1>5 DEF Write
    <2>2. /\ w.table \in Table /\ w.rows \in [RightsLevel -> Row]
          /\ \A m \in RightsLevel : w.rows[m] \in Block => RowLevel(w.table, w.rows[m]) = m
        BY DEF RightsInv, RightsTypeOK, RowsAreOfTheirLevel
    <2> DEFINE o == w.table
               new == w.rows
    <2>3. /\ o \in Table /\ new \in [RightsLevel -> Row]
          /\ \A m \in RightsLevel : new[m] \in Block => RowLevel(o, new[m]) = m
          /\ rights' = [rights EXCEPT ![o] = Upserted(@, new)]
        BY <2>1, <2>2
    <2> HIDE DEF o, new
    <2>6. /\ t = o /\ new[l] # NoRow => rights'[t][l] = new[l]
          /\ t # o \/ new[l] = NoRow => rights'[t][l] = rights[t][l]
        <3>1. Upserted(rights[o], new)[l] = IF new[l] = NoRow THEN rights[o][l] ELSE new[l]
            BY <1>1, <2>3, UpsertedType
        <3>2. /\ t = o => rights'[t] = Upserted(rights[o], new)
              /\ t # o => rights'[t] = rights[t]
            BY <1>1, <2>3
        <3> QED
            BY <3>1, <3>2
    <2> USE DEF o, new
    <2>4. CASE w.mode = "upsert" /\ t = w.table
        <3>1. w.rows[l] \in blocks \union {NoRow}
            BY <2>1, <2>4 DEF Accepted, RightsInv, RowsAreOfTheirLevel
        <3>2. w.rows[l] \in blocks => w.rows[l] = b
            BY <1>1, <2>2, <2>4, RowLevelType DEF RightsInv, RightsTypeOK, OneBlockPerLevel
        <3> QED
            BY <2>6, <3>1, <3>2
    <2>5. CASE w.mode # "upsert" \/ t # w.table
        BY <1>1, <2>1, <2>6, <2>5 DEF Collides
    <2> QED
        BY <2>4, <2>5
<1>6. CASE rights' = rights
    BY <1>6
<1>7. \/ ForkDetected \/ Update \/ Write \/ rights' = rights
      \/ \E r \in Run : InsertEndorsing(r)
    BY DEF Next, Node, Loop, Scheduled, Advance, Reorganise, NoFork, FetchHead, StorePage,
           PageRights, BeginUpdate, EndIteration, ReadHead, ReadMax, NextPartition,
           EndorsingCollides, RunEnds, RunFails, WriteRefused, PageRightsFail, Crash,
           CountFailure, vars
<1> QED
    BY <1>2, <1>3, <1>4, <1>5, <1>6, <1>7

\* In a table whose answers are about the block's own level, the block that a page
\* recorded with the rights of the level stays with them: the late upserts, the update
\* and the scheduled runs all leave it, in any order.
THEOREM RightsKeepTheirBlock == Spec => RowsKeepTheirBlock
<1>1. ASSUME RightsInv, RightsInv', [Next]_vars,
             NEW t \in Table, NEW b \in blocks \intersect blocks',
             Ahead[t] = 0, rights[t][Level(b)] = b
      PROVE  rights'[t][Level(b)] = b
    <2>1. b \in Block /\ Level(b) \in RightsLevel
        <3>1. b \in Block
            BY <1>1 DEF RightsInv, RightsTypeOK
        <3> QED
            BY <3>1, RightsLevelType
    <2> QED
        BY <1>1, <2>1, StepKeepsTheirBlock
<1>2. RightsInv /\ RightsInv' /\ [Next]_vars
        => [\A t \in Table, b \in blocks \intersect blocks' :
                Ahead[t] = 0 /\ rights[t][Level(b)] = b => rights'[t][Level(b)] = b]_vars
    BY <1>1
<1> QED
    BY <1>2, RightsInvariant, PTL DEF Spec, RowsKeepTheirBlock

--------------------------------------------------------------------------
(* The rights of the levels passed, on one branch and without failures *)

\* As long as the node keeps its branch no fork is found.
LEMMA NoForkIsFound ==
    ASSUME OneBranch, reorgs = 0
    PROVE  ~ForkDetected
BY DEF OneBranch, Orphaned, ForkDetected

\* The pages, the rest of the loop and the node keep everything on one branch.
LEMMA StepKeepsOneBranch ==
    ASSUME RightsInv, RightsInv', OneBranch, [Next]_vars
    PROVE  OneBranch'
<1> SUFFICES ASSUME reorgs' = 0 PROVE OneBranch'
    BY DEF OneBranch
<1> USE DEF RightsInv
<1>1. head \in Block /\ blocks \subseteq Block /\ target \in Block \union {NoBlock}
      /\ reorgs \in Nat
    BY RightsAssumption DEF RightsTypeOK
<1>2. CASE Advance
    <2>1. head' \in Block /\ Extends(head', head) /\ UNCHANGED <<reorgs, blocks, writes, target>>
        BY <1>2 DEF Advance, loopVars
    <2>2. \A b \in Block : Extends(head, b) => Extends(head', b)
        BY <1>1, <2>1, ExtendsIsTransitive
    <2> QED
        BY <1>1, <2>1, <2>2 DEF OneBranch, Accepted
<1>3. CASE Reorganise
    BY <1>1, <1>3 DEF Reorganise
<1>4. CASE FetchHead
    <2>1. UNCHANGED <<head, reorgs, blocks, writes>> /\ target' = head
        BY <1>4 DEF FetchHead, nodeVars
    <2>2. Extends(head, head)
        BY <1>1, OwnAncestor, RightsLevelType DEF Extends
    <2> QED
        BY <2>1, <2>2 DEF OneBranch, Accepted
<1>5. CASE StorePage
    <2> DEFINE lo == MaxIndexed + 1
               hi == Smaller(MaxIndexed + PageSize, Level(target))
    <2>1. /\ pc = "page" /\ MaxIndexed < Level(target)
          /\ blocks' = blocks \union Segment(target, lo, hi)
          /\ UNCHANGED <<head, reorgs, writes, target>>
        BY <1>5 DEF StorePage, nodeVars
    <2>2. target \in Block /\ Level(target) \in Nat
        BY <2>1, RightsLevelType DEF HeadIsHighest
    <2>3. MaxIndexed \in -1..MaxLevel
        BY <1>1, MaxIndexedBounds
    <2>4. lo \in Nat /\ hi \in Nat /\ hi <= Level(target)
        BY <2>1, <2>2, <2>3, RightsBounds DEF Smaller
    <2>5. Extends(head, target)
        BY <2>1, <2>2, RightsBounds DEF OneBranch
    <2> HIDE DEF lo, hi
    <2>6. ASSUME NEW c \in Segment(target, lo, hi) PROVE Extends(head, c)
        <3>1. c \in Block /\ Level(c) \in lo..hi /\ c = AncestorAt(target, Level(c))
            BY <2>2, <2>4, SegmentLevels
        <3>2. Extends(target, c)
            BY <2>2, <2>4, <3>1 DEF Extends
        <3> QED
            BY <1>1, <2>2, <2>5, <3>1, <3>2, ExtendsIsTransitive
    <2> QED
        BY <2>1, <2>6 DEF OneBranch, Accepted
<1>6. CASE PageRights
    <2>1. UNCHANGED <<head, reorgs, blocks, target>>
        BY <1>6 DEF PageRights
    <2>2. \A w \in writes' : w \in writes \/ \E t \in Table, S \in SUBSET page :
                w.rows = PageRows(t, S)
        <3>1. PICK lost \in [Table -> SUBSET page] :
                writes' = writes \union {[table |-> t, mode |-> "upsert",
                                          rows |-> PageRows(t, page \ lost[t])] : t \in Table}
            BY <1>6 DEF PageRights
        <3>2. \A t \in Table : page \ lost[t] \in SUBSET page
            OBVIOUS
        <3>3. ASSUME NEW w \in writes', w \notin writes
              PROVE  \E t \in Table : w.rows = PageRows(t, page \ lost[t])
            BY <3>1, <3>3
        <3> QED
            BY <3>2, <3>3
    <2>3. ASSUME NEW t \in Table, NEW S \in SUBSET page PROVE Accepted(PageRows(t, S))
        <3>1. S \in SUBSET Block /\ S \subseteq blocks
            BY DEF RightsTypeOK
        <3> QED
            BY <3>1, PageRowsType DEF Accepted
    <2>4. reorgs = 0
        BY <2>1
    <2>5. \A w \in writes' : w.mode = "upsert" => \A l \in RightsLevel :
                w.rows[l] \in blocks \union {NoRow, Future}
        BY <2>2, <2>3, <2>4 DEF OneBranch, Accepted
    <2> QED
        BY <2>1, <2>4, <2>5 DEF OneBranch, Accepted
<1>7. ASSUME NEW r \in Run, NextPartition(r)
      PROVE  OneBranch'
    <2>1. UNCHANGED <<head, reorgs, blocks, target>>
        BY <1>7 DEF NextPartition, loopVars
    <2>2. \A w \in writes' : w \in writes \/ w.mode = "insert"
        BY <1>7 DEF NextPartition
    <2> QED
        BY <2>1, <2>2 DEF OneBranch, Accepted
<1>10. CASE ForkDetected
    <2>1. reorgs = 0
        BY <1>10 DEF ForkDetected, nodeVars
    <2> QED
        BY <1>10, <2>1, NoForkIsFound
<1>8. CASE /\ UNCHANGED <<head, reorgs, blocks>>
           /\ writes' \subseteq writes
           /\ target' \in {target, NoBlock}
    BY <1>8 DEF OneBranch, Accepted
<1>9. \/ Advance \/ Reorganise \/ ForkDetected \/ FetchHead \/ StorePage \/ PageRights
      \/ \E r \in Run : NextPartition(r)
      \/ /\ UNCHANGED <<head, reorgs, blocks>>
         /\ writes' \subseteq writes
         /\ target' \in {target, NoBlock}
    BY DEF Next, Node, Loop, Scheduled, NoFork, BeginUpdate, Update, EndIteration, ReadHead,
           ReadMax, InsertEndorsing, EndorsingCollides, RunEnds, RunFails, Write, WriteRefused,
           PageRightsFail, Crash, CountFailure, vars, nodeVars, loopVars
<1> QED
    BY <1>2, <1>3, <1>4, <1>5, <1>6, <1>7, <1>8, <1>9, <1>10

\* An answer that could not be decoded is not forgotten.
LEMMA UnreadGrows ==
    ASSUME [Next]_vars
    PROVE  unread \subseteq unread'
BY DEF Next, Node, Loop, Scheduled, Advance, Reorganise, NoFork, ForkDetected, FetchHead, StorePage,
       PageRights, BeginUpdate, Update, EndIteration, ReadHead, ReadMax, NextPartition,
       InsertEndorsing, EndorsingCollides, RunEnds, RunFails, Write, WriteRefused, PageRightsFail,
       Crash, CountFailure, ReadInVain, vars, nodeVars

\* The rights that a block has in the table, is about to get, or that were unreadable.
HasOwnRights(t, b) ==
    \/ rights[t][Level(b)] = b
    \/ \E w \in writes : w.table = t /\ w.mode = "upsert" /\ w.rows[Level(b)] = b
    \/ <<t, Level(b), b>> \in unread

\* A block that has its rights, or whose upsert is under way, keeps the one or the
\* other: the upsert is not refused, and ends in the row.
LEMMA StepKeepsOwnRights ==
    ASSUME RightsInv, RightsInv', OneBranch, [Next]_vars, reorgs' = 0, failures' = 0,
           NEW t \in Table, Ahead[t] = 0,
           NEW b \in blocks, b \in blocks', HasOwnRights(t, b)
    PROVE  HasOwnRights(t, b)'
<1> USE DEF RightsInv
<1>1. b \in Block /\ Level(b) \in RightsLevel /\ b # NoRow
    BY RightsLevelType, RightsBounds DEF RightsTypeOK
<1>2. CASE rights[t][Level(b)] = b
    BY <1>1, <1>2, StepKeepsTheirBlock DEF HasOwnRights
<1>3. ASSUME NEW w \in writes, w.table = t, w.mode = "upsert", w.rows[Level(b)] = b
      PROVE  HasOwnRights(t, b)'
    <2>1. CASE w \in writes'
        BY <1>3, <2>1 DEF HasOwnRights
    <2>2. CASE w \notin writes'
        <3>1. Write \/ WriteRefused \/ Crash
            BY <2>2
            DEF Next, Node, Loop, Scheduled, Advance, Reorganise, NoFork, ForkDetected, FetchHead,
                StorePage, PageRights, BeginUpdate, Update, EndIteration, ReadHead, ReadMax,
                NextPartition, InsertEndorsing, EndorsingCollides, RunEnds, RunFails, PageRightsFail,
                CountFailure, vars
        <3>2. ~Crash
            BY RightsAssumption DEF Crash, CountFailure, RightsTypeOK
        <3>3. reorgs = 0
            BY <3>1, <3>2 DEF Write, WriteRefused, nodeVars
        <3>4. Accepted(w.rows)
            BY <1>3, <3>3 DEF OneBranch
        <3>5. ~WriteRefused
            BY <1>3, <2>2, <3>4 DEF WriteRefused
        <3>6. rights' = [rights EXCEPT ![t] = Upserted(@, w.rows)]
            BY <1>3, <2>2, <3>1, <3>2, <3>5 DEF Write
        <3>7. w.rows \in [RightsLevel -> Row] /\ rights \in [Table -> [RightsLevel -> Row]]
            BY DEF RightsTypeOK
        <3>8. rights'[t][Level(b)] = b
            BY <1>1, <1>3, <3>6, <3>7, UpsertedType
        <3> QED
            BY <3>8 DEF HasOwnRights
    <2> QED
        BY <2>1, <2>2
<1>4. CASE <<t, Level(b), b>> \in unread
    BY <1>4, UnreadGrows DEF HasOwnRights
<1> QED
    BY <1>2, <1>3, <1>4 DEF HasOwnRights

LEMMA StepKeepsPassed ==
    ASSUME RightsInv, RightsInv', OneBranch, PassedLevelsHaveTheirRights, [Next]_vars
    PROVE  PassedLevelsHaveTheirRights'
<1> SUFFICES ASSUME reorgs' = 0, failures' = 0,
                    NEW t \in Table, Ahead[t] = 0, NEW b \in blocks', b \notin page'
             PROVE  HasOwnRights(t, b)'
    BY DEF PassedLevelsHaveTheirRights, HasOwnRights
<1> USE DEF RightsInv
<1>1. reorgs = 0 /\ failures = 0
    <2>1. reorgs \in Nat /\ failures \in Nat
        BY RightsAssumption DEF RightsTypeOK
    <2>2. reorgs' \in {reorgs, reorgs + 1} /\ failures' \in {failures, failures + 1}
        BY DEF Next, Node, Loop, Scheduled, Advance, Reorganise, NoFork, ForkDetected, FetchHead,
               StorePage, PageRights, BeginUpdate, Update, EndIteration, ReadHead, ReadMax, NextPartition,
               InsertEndorsing, EndorsingCollides, RunEnds, RunFails, Write, WriteRefused,
               PageRightsFail, Crash, CountFailure, vars, nodeVars
    <2> QED
        BY <2>1, <2>2
<1>2. \A c \in blocks \ page : HasOwnRights(t, c)
    BY <1>1 DEF PassedLevelsHaveTheirRights, HasOwnRights
<1>3. CASE b \in blocks \ page
    BY <1>2, <1>3, StepKeepsOwnRights
<1>4. CASE b \notin blocks \ page
    <2>1. PageRights /\ b \in page
        <3>1. ~StorePage
            BY <1>4 DEF StorePage, NearIsAhead
        <3>2. ~PageRightsFail /\ ~Crash
            BY <1>1 DEF PageRightsFail, Crash, CountFailure
        <3>3. ~(/\ blocks' \subseteq blocks
                /\ page' = page)
            BY <1>4
        <3>4. ForkDetected => blocks' \subseteq blocks /\ page' = page
            BY DEF ForkDetected, AmendFork
        <3>5. ASSUME NEW r \in Run
              PROVE  ~(ReadHead(r) \/ ReadMax(r) \/ NextPartition(r) \/ InsertEndorsing(r)
                       \/ EndorsingCollides(r) \/ RunEnds(r) \/ RunFails(r))
            BY <3>3 DEF ReadHead, ReadMax, NextPartition, InsertEndorsing, EndorsingCollides,
                        RunEnds, RunFails, CountFailure, loopVars
        <3>6. PageRights
            BY <3>1, <3>2, <3>3, <3>4, <3>5
            DEF Next, Node, Loop, Scheduled, Advance, Reorganise, NoFork, FetchHead,
                BeginUpdate, Update, EndIteration, Write, WriteRefused, vars, loopVars
        <3> QED
            BY <1>4, <3>6 DEF PageRights
    <2>2. PICK lost \in [Table -> SUBSET page] :
            /\ writes' = writes \union {[table |-> u, mode |-> "upsert",
                                         rows |-> PageRows(u, page \ lost[u])] : u \in Table}
            /\ unread' = unread \union
                UNION {{<<u, RowLevel(u, c), c>> : c \in lost[u]} : u \in Table}
        BY <2>1 DEF PageRights, ReadInVain
    <2>3. page \subseteq Block /\ page \subseteq blocks /\ b \in Block
        BY <2>1 DEF RightsTypeOK
    <2>4. RowLevel(t, b) = Level(b) /\ Level(b) \in RightsLevel
        BY <2>3, RowLevelType, RightsLevelType
    <2>5. CASE b \in lost[t]
        <3>1. <<t, RowLevel(t, b), b>> \in {<<t, RowLevel(t, c), c>> : c \in lost[t]}
            BY <2>5
        <3> QED
            BY <2>2, <2>4, <3>1 DEF HasOwnRights
    <2>6. CASE b \notin lost[t]
        <3> DEFINE S == page \ lost[t]
                   w == [table |-> t, mode |-> "upsert", rows |-> PageRows(t, S)]
        <3>1. w \in writes'
            BY <2>2
        <3>2. b \in S /\ S \subseteq blocks /\ S \subseteq Block
            BY <2>1, <2>3, <2>6
        <3> HIDE DEF S
        <3>3. PageRows(t, S)[Level(b)] \in S /\ RowLevel(t, PageRows(t, S)[Level(b)]) = Level(b)
            BY <2>4, <3>2 DEF PageRows
        <3>4. PageRows(t, S)[Level(b)] = b
            BY <2>3, <3>2, <3>3, RowLevelType DEF OneBlockPerLevel
        <3> QED
            BY <3>1, <3>4 DEF HasOwnRights
    <2> QED
        BY <2>5, <2>6
<1> QED
    BY <1>3, <1>4

\* While the node keeps its branch and nothing fails, an indexed block has its rights
\* in a table whose answers are about the block's own level, or the upsert that brings
\* them is under way, or the answer was unreadable: no writer is in the way of the
\* pages, for any cycles, partitions and overlapping runs.
THEOREM PassedLevelsGetTheirRights == Spec => []PassedLevelsHaveTheirRights
<1>1. Init => OneBranch /\ PassedLevelsHaveTheirRights
    BY DEF Init, OneBranch, PassedLevelsHaveTheirRights
<1>2. RightsInv /\ RightsInv' /\ OneBranch /\ [Next]_vars => OneBranch'
    BY StepKeepsOneBranch
<1>3. RightsInv /\ RightsInv' /\ OneBranch /\ PassedLevelsHaveTheirRights /\ [Next]_vars
        => PassedLevelsHaveTheirRights'
    BY StepKeepsPassed
<1> QED
    BY <1>1, <1>2, <1>3, RightsInvariant, PTL DEF Spec

--------------------------------------------------------------------------
(* The rights of the levels that come next *)

\* Only an amendment takes rows away.
LEMMA RowsStay ==
    ASSUME RightsInv, [Next]_vars, NEW t \in Table, NEW l \in RightsLevel,
           rights[t][l] # NoRow, ~ForkDetected
    PROVE  rights'[t][l] # NoRow
<1>1. rights \in [Table -> [RightsLevel -> Row]]
    BY DEF RightsInv, RightsTypeOK
<1>2. ASSUME NEW u \in Table, NEW new \in [RightsLevel -> Row],
             rights' = [rights EXCEPT ![u] = Upserted(@, new)]
      PROVE  rights'[t][l] # NoRow
    <2>1. Upserted(rights[u], new)[l] = IF new[l] = NoRow THEN rights[u][l] ELSE new[l]
        BY <1>1, UpsertedType
    <2> QED
        BY <1>1, <1>2, <2>1
<1>3. CASE Update
    <2>1. PICK u \in updating, S \in SUBSET near :
            rights' = [rights EXCEPT ![u] = Upserted(@, FutureRows(near \ S))]
        BY <1>3 DEF Update
    <2> QED
        BY <1>2, <2>1, FutureRowsType DEF RightsInv, RightsTypeOK
<1>4. ASSUME NEW r \in Run, InsertEndorsing(r) PROVE rights'[t][l] # NoRow
    BY <1>2, <1>4, FutureRowsType DEF InsertEndorsing, Table
<1>5. CASE Write
    <2>1. PICK w \in writes : rights' = [rights EXCEPT ![w.table] = Upserted(@, w.rows)]
        BY <1>5 DEF Write
    <2>2. w.table \in Table /\ w.rows \in [RightsLevel -> Row]
        BY DEF RightsInv, RightsTypeOK
    <2> QED
        BY <1>2, <2>1, <2>2
<1>6. \/ Update \/ Write \/ rights' = rights \/ \E r \in Run : InsertEndorsing(r)
    BY DEF Next, Node, Loop, Scheduled, Advance, Reorganise, NoFork, FetchHead, StorePage,
           PageRights, BeginUpdate, EndIteration, ReadHead, ReadMax, NextPartition,
           EndorsingCollides, RunEnds, RunFails, WriteRefused, PageRightsFail, Crash,
           CountFailure, vars
<1> QED
    BY <1>3, <1>4, <1>5, <1>6

LEMMA StepKeepsUpdatedTables ==
    ASSUME RightsInv, RightsInv', UpdatedTables, [Next]_vars
    PROVE  UpdatedTables'
<1>1. near \subseteq RightsLevel /\ (pc # "update" => near = {})
    BY DEF RightsInv, RightsTypeOK, NearIsAhead
<1>2. CASE near' = {}
    BY <1>2 DEF UpdatedTables
<1>3. CASE BeginUpdate
    BY <1>3 DEF BeginUpdate, UpdatedTables
<1>4. CASE ForkDetected
    BY <1>1, <1>2, <1>4 DEF ForkDetected
<1>5. CASE Update
    <2>1. PICK t \in updating, lost \in SUBSET near :
            /\ rights' = [rights EXCEPT ![t] = Upserted(@, FutureRows(near \ lost))]
            /\ unread' = unread \union {<<t, l, Future>> : l \in lost}
            /\ updating' = updating \ {t}
        BY <1>5 DEF Update, ReadInVain
    <2>2. near' = near /\ t \in Table /\ rights[t] \in [RightsLevel -> Row]
        BY <1>5 DEF Update, RightsInv, RightsTypeOK
    <2>3. ASSUME NEW l \in near PROVE rights'[t][l] # NoRow \/ <<t, l, Future>> \in unread'
        <3>1. CASE l \in lost
            BY <2>1, <3>1
        <3>2. CASE l \notin lost
            <4> DEFINE new == FutureRows(near \ lost)
            <4>1. new \in [RightsLevel -> Row] /\ new[l] = Future
                BY <1>1, <3>2, FutureRowsType DEF FutureRows
            <4> HIDE DEF new
            <4>2. Upserted(rights[t], new)[l] = Future
                BY <1>1, <2>2, <4>1, UpsertedType, RightsBounds
            <4>3. rights'[t][l] = Future
                BY <2>1, <2>2, <4>2 DEF RightsInv, RightsTypeOK, new
            <4> QED
                BY <4>3, RightsBounds
        <3> QED
            BY <3>1, <3>2
    <2>4. ASSUME NEW u \in Table \ updating, NEW l \in near
          PROVE  rights'[u][l] # NoRow \/ <<u, l, Future>> \in unread'
        <3>1. ~ForkDetected
            BY <1>5, <2>1 DEF ForkDetected, RightsInv, NearIsAhead
        <3> QED
            BY <1>1, <3>1, RowsStay, UnreadGrows DEF UpdatedTables
    <2> QED
        BY <2>1, <2>2, <2>3, <2>4 DEF UpdatedTables
<1>6. CASE UNCHANGED <<near, updating>> /\ ~ForkDetected
    BY <1>1, <1>6, RowsStay, UnreadGrows DEF UpdatedTables
<1>7. \/ near' = {} \/ BeginUpdate \/ ForkDetected \/ Update
      \/ UNCHANGED <<near, updating>>
    BY DEF Next, Node, Loop, Scheduled, Advance, Reorganise, NoFork, FetchHead, StorePage,
           PageRights, EndIteration, ReadHead, ReadMax, NextPartition, InsertEndorsing,
           EndorsingCollides, RunEnds, RunFails, Write, WriteRefused, PageRightsFail, Crash,
           CountFailure, vars, loopVars
<1> QED
    BY <1>2, <1>3, <1>4, <1>5, <1>6, <1>7

\* When an update is through, the levels it was about have rights in both tables but
\* for those whose answers could not be decoded, whatever pages, scheduled runs and
\* failures came between its steps.
THEOREM NearFutureStaysKnown == Spec => []NearFutureIsKnown
<1>1. Init => UpdatedTables
    BY DEF Init, UpdatedTables
<1>2. RightsInv /\ RightsInv' /\ UpdatedTables /\ [Next]_vars => UpdatedTables'
    BY StepKeepsUpdatedTables
<1>3. UpdatedTables => NearFutureIsKnown
    BY DEF UpdatedTables, NearFutureIsKnown
<1> QED
    BY <1>1, <1>2, <1>3, RightsInvariant, PTL DEF Spec

\* A run that inserts has read everything, and has levels to insert.
LEMMA StepKeepsInsertsAreDue ==
    ASSUME RightsInv, InsertsAreDue, [Next]_vars
    PROVE  InsertsAreDue'
<1> DEFINE Due(run) == run.at = "inserting" => HasAllRead(run) /\ run.from <= run.last
<1>1. InsertsAreDue <=> \A r \in Run : Due(runs[r])
    BY DEF InsertsAreDue
<1>2. InsertsAreDue' <=> \A r \in Run : Due(runs'[r])
    BY DEF InsertsAreDue, HasAllRead
<1>3. DOMAIN runs = Run /\ Due(NoRun)
    BY DEF RightsInv, RightsTypeOK, NoRun
<1>4. ASSUME NEW r \in Run, Scheduled(r) \/ RunFails(r)
      PROVE  Due(runs'[r]) /\ \A q \in Run \ {r} : runs'[q] = runs[q]
    <2>1. CASE NextPartition(r)
        BY <1>3, <2>1 DEF NextPartition, AllRead, HasAllRead, RightsInv, RightsTypeOK
    <2>2. CASE ReadHead(r) \/ ReadMax(r) \/ InsertEndorsing(r)
        <3>1. runs \in [Run -> [at : {"reading", "inserting"},
                                read : SUBSET (Table \union {"head"}), from : Nat, last : Int]]
            BY DEF RightsInv, RightsTypeOK
        <3>2. CASE ReadHead(r)
            BY <3>1, <3>2 DEF ReadHead
        <3>3. CASE ReadMax(r)
            <4>1. PICK t : runs' = [runs EXCEPT ![r].read = @ \union {t},
                                                ![r].from = Larger(@, MaxRights(t) + 1)]
                BY <3>3 DEF ReadMax
            <4> QED
                BY <3>1, <3>3, <4>1 DEF ReadMax
        <3>4. CASE InsertEndorsing(r)
            BY <3>1, <3>4 DEF InsertEndorsing
        <3> QED
            BY <2>2, <3>2, <3>3, <3>4
    <2>3. CASE EndorsingCollides(r) \/ RunEnds(r) \/ RunFails(r)
        BY <1>3, <2>3 DEF EndorsingCollides, RunEnds, RunFails
    <2> QED
        BY <1>4, <2>1, <2>2, <2>3 DEF Scheduled
<1>5. \/ \E r \in Run : Scheduled(r) \/ RunFails(r)
      \/ runs' = runs \/ runs' = [r \in Run |-> NoRun]
    BY DEF Next, Node, Loop, Advance, Reorganise, NoFork, ForkDetected, FetchHead, StorePage,
           PageRights, BeginUpdate, Update, EndIteration, Write, WriteRefused, PageRightsFail,
           Crash, vars
<1> HIDE DEF Due
<1> QED
    BY <1>1, <1>2, <1>3, <1>4, <1>5

\* What each part of the state must add to leave no gap: the other parts grow.
LEMMA NoGapGrows ==
    ASSUME RightsInv, NoGap,
           head' \in Block, Level(head') >= Level(head),
           \A l \in RightsLevel : Covered(l) => Covered(l)',
           \A l, m \in RightsLevel :
                HasRights(l)' /\ ~HasRights(l) /\ Level(head') < m /\ m < l => Covered(m)',
           \A r \in Run : \A m \in RightsLevel :
                \/ /\ runs'[r].from = runs[r].from
                   /\ ~HasAllRead(runs[r]) \/ runs[r].from <= runs[r].last
                \/ HasAllRead(runs'[r]) /\ ~(runs'[r].from <= runs'[r].last)
                \/ Level(head') < m /\ m < runs'[r].from => Covered(m)',
           \A w \in writes' \ writes : \A l, m \in RightsLevel :
                w.rows[l] # NoRow /\ Level(head') < m /\ m < l
                    => Covered(m)' \/ w.rows[m] # NoRow,
           near' # near => \A l \in near' : \A m \in RightsLevel :
                Level(head') < m /\ m < l => m \in near'
    PROVE  NoGap'
<1>1. \A m \in RightsLevel : Level(head') < m => Level(head) < m
    BY RightsLevelType, RightsBounds DEF RightsInv, RightsTypeOK
<1>2. \A l \in RightsLevel : HasRights(l)' => CoveredBelow(l)'
    BY <1>1 DEF NoGap, CoveredBelow
<1>3. ASSUME NEW r \in Run, ~HasAllRead(runs'[r]) \/ runs'[r].from <= runs'[r].last,
             NEW m \in RightsLevel, Level(head') < m, m < runs'[r].from
      PROVE  Covered(m)'
    BY <1>1, <1>3 DEF NoGap, CoveredBelow
<1>4. \A w \in writes' : \A l, m \in RightsLevel :
        w.rows[l] # NoRow /\ Level(head') < m /\ m < l => Covered(m)' \/ w.rows[m] # NoRow
    BY <1>1 DEF NoGap
<1>5. \A l \in near' : \A m \in RightsLevel : Level(head') < m /\ m < l => m \in near'
    BY <1>1 DEF NoGap
<1>6. \A r \in Run : (~HasAllRead(runs[r]) \/ runs[r].from <= runs[r].last
                        => CoveredBelow(runs[r].from))'
    BY <1>3 DEF HasAllRead, CoveredBelow
<1> QED
    BY <1>2, <1>4, <1>5, <1>6 DEF NoGap

\* What a table holds after new rows were upserted, or inserted without a collision.
LEMMA CoveredAfterWrite ==
    ASSUME RightsInv, NEW u \in Table, NEW new \in [RightsLevel -> Row],
           rights' = [rights EXCEPT ![u] = Upserted(@, new)], unread \subseteq unread'
    PROVE  \A l \in RightsLevel : /\ HasRights(l)' <=> HasRights(l) \/ new[l] # NoRow
                                  /\ Covered(l) \/ new[l] # NoRow => Covered(l)'
<1>1. rights \in [Table -> [RightsLevel -> Row]]
    BY DEF RightsInv, RightsTypeOK
<1>2. /\ Upserted(rights[u], new) \in [RightsLevel -> Row]
      /\ \A l \in RightsLevel :
            Upserted(rights[u], new)[l] = IF new[l] = NoRow THEN rights[u][l] ELSE new[l]
    BY <1>1, UpsertedType
<1>3. \A t \in Table, l \in RightsLevel :
        rights'[t][l] = IF t = u /\ new[l] # NoRow THEN new[l] ELSE rights[t][l]
    BY <1>1, <1>2
<1>4. \A l \in RightsLevel : HasRights(l)' <=> HasRights(l) \/ new[l] # NoRow
    BY <1>3 DEF HasRights
<1> QED
    BY <1>4 DEF Covered

\* What is covered stays so when no row is written.
LEMMA CoveredStays ==
    ASSUME rights' = rights, unread \subseteq unread'
    PROVE  \A l \in RightsLevel : /\ HasRights(l)' <=> HasRights(l)
                                  /\ Covered(l) => Covered(l)'
BY DEF HasRights, Covered

\* The steps of the loop and of the node, and the failures that end them.
LEMMA LoopLeavesNoGap ==
    ASSUME RightsInv, OneBranch, NoGap, reorgs' = 0,
           \/ Advance \/ NoFork \/ ForkDetected \/ FetchHead \/ StorePage \/ PageRights
           \/ EndIteration \/ PageRightsFail \/ Crash \/ WriteRefused \/ BeginUpdate
    PROVE  NoGap'
<1>1. head \in Block /\ reorgs = 0
    BY DEF RightsInv, RightsTypeOK, Advance, NoFork, ForkDetected, FetchHead, StorePage, PageRights,
           EndIteration, PageRightsFail, Crash, CountFailure, WriteRefused, BeginUpdate, nodeVars
<1>2. ~ForkDetected
    BY <1>1, NoForkIsFound
<1>9. rights' = rights /\ unread \subseteq unread'
    BY <1>2
    DEF Advance, NoFork, FetchHead, StorePage, PageRights, EndIteration, PageRightsFail, Crash,
        CountFailure, WriteRefused, BeginUpdate, ReadInVain, nodeVars
<1>3. \A l \in RightsLevel : (HasRights(l)' <=> HasRights(l)) /\ (Covered(l) => Covered(l)')
    BY <1>9, CoveredStays
<1>4. head' \in Block /\ Level(head') >= Level(head)
    BY <1>1, <1>2, RightsLevelType
    DEF Advance, NoFork, FetchHead, StorePage, PageRights, EndIteration, PageRightsFail, Crash,
        CountFailure, WriteRefused, BeginUpdate, nodeVars
<1>5. runs' \in {runs, [r \in Run |-> NoRun]}
    BY <1>2 DEF Advance, NoFork, FetchHead, StorePage, PageRights, EndIteration, PageRightsFail,
                Crash, WriteRefused, BeginUpdate
<1>6. ASSUME NEW r \in Run, NEW m \in RightsLevel
      PROVE  \/ /\ runs'[r].from = runs[r].from
                /\ ~HasAllRead(runs[r]) \/ runs[r].from <= runs[r].last
             \/ HasAllRead(runs'[r]) /\ ~(runs'[r].from <= runs'[r].last)
             \/ Level(head') < m /\ m < runs'[r].from => Covered(m)'
    <2>1. CASE runs' = runs
        BY <2>1
    <2>2. CASE runs'[r] = NoRun
        BY <2>2, RightsBounds DEF NoRun
    <2> QED
        BY <1>5, <2>1, <2>2
<1>7. ASSUME NEW w \in writes' \ writes, NEW l \in RightsLevel, NEW m \in RightsLevel,
             w.rows[l] # NoRow, Level(head') < m, m < l
      PROVE  FALSE
    <2>1. PageRights
        BY <1>2, <1>7
        DEF Advance, NoFork, FetchHead, StorePage, EndIteration, PageRightsFail, Crash,
            WriteRefused, BeginUpdate
    <2>2. head' = head
        BY <2>1 DEF PageRights
    <2>3. PICK t \in Table, S \in SUBSET page : w.rows = PageRows(t, S)
        <3>1. PICK lost \in [Table -> SUBSET page] :
                writes' = writes \union {[table |-> t, mode |-> "upsert",
                                          rows |-> PageRows(t, page \ lost[t])] : t \in Table}
            BY <2>1 DEF PageRights
        <3>2. \A t \in Table : page \ lost[t] \in SUBSET page
            OBVIOUS
        <3>4. w \in writes' /\ w \notin writes
            BY <1>7
        <3>3. PICK t \in Table : w = [table |-> t, mode |-> "upsert",
                                     rows |-> PageRows(t, page \ lost[t])]
            BY <3>1, <3>4
        <3> QED
            BY <3>2, <3>3
    <2>4. S \in SUBSET Block /\ S \subseteq blocks
        BY DEF RightsInv, RightsTypeOK
    <2>5. PICK b \in S : RowLevel(t, b) = l
        BY <1>7, <2>3, <2>4, PageRowsType
    <2>6. Level(b) <= Level(head) /\ l <= Level(b) + 1 /\ Level(b) \in Nat /\ Level(head) \in Nat
        BY <1>1, <2>4, <2>5, RowLevelType, RightsLevelType DEF RightsInv, HeadIsHighest
    <2> QED
        BY <1>7, <2>2, <2>6, RightsBounds
<1>8. ASSUME near' # near, NEW l \in near', NEW m \in RightsLevel, Level(head') < m, m < l
      PROVE  m \in near'
    <2>1. near' = {} \/ BeginUpdate
        BY <1>2, <1>8
        DEF Advance, NoFork, FetchHead, StorePage, PageRights, EndIteration, PageRightsFail, Crash,
            WriteRefused, loopVars
    <2>2. CASE BeginUpdate
        <3>1. near' = Level(head) + 1 .. Level(head) + UpdateSize - 1 /\ head' = head
            BY <2>2 DEF BeginUpdate, nodeVars
        <3>2. Level(head) \in Nat /\ m \in Nat /\ UpdateSize \in Nat
            BY <1>1, RightsLevelType, RightsBounds
        <3> QED
            BY <1>8, <3>1, <3>2
    <2> QED
        BY <1>8, <2>1, <2>2
<1> QED
    BY <1>3, <1>4, <1>6, <1>7, <1>8, NoGapGrows

\* The update and a late write of a page or of a run.
LEMMA WritesLeaveNoGap ==
    ASSUME RightsInv, NoGap, Update \/ Write
    PROVE  NoGap'
<1>1. /\ UNCHANGED <<head, near, runs>> /\ writes' \subseteq writes
      /\ head \in Block
      /\ near \subseteq RightsLevel
      /\ unread \subseteq unread'
    BY DEF Update, Write, ReadInVain, nodeVars, loopVars, RightsInv, RightsTypeOK
<1>2. PICK u \in Table, new \in [RightsLevel -> Row] :
        /\ rights' = [rights EXCEPT ![u] = Upserted(@, new)]
        /\ \/ \E lost \in SUBSET near : /\ new = FutureRows(near \ lost)
                                        /\ \A l \in lost : <<u, l, Future>> \in unread'
           \/ \E w \in writes : new = w.rows
    <2>1. CASE Update
        <3>1. PICK t \in updating, lost \in SUBSET near :
                /\ rights' = [rights EXCEPT ![t] = Upserted(@, FutureRows(near \ lost))]
                /\ unread' = unread \union {<<t, l, Future>> : l \in lost}
            BY <2>1 DEF Update, ReadInVain
        <3>2. t \in Table /\ FutureRows(near \ lost) \in [RightsLevel -> Row]
            BY FutureRowsType DEF RightsInv, RightsTypeOK
        <3> QED
            BY <3>1, <3>2
    <2>2. CASE Write
        <3>1. PICK w \in writes : rights' = [rights EXCEPT ![w.table] = Upserted(@, w.rows)]
            BY <2>2 DEF Write
        <3>2. w.table \in Table /\ w.rows \in [RightsLevel -> Row]
            BY DEF RightsInv, RightsTypeOK
        <3> QED
            BY <3>1, <3>2
    <2> QED
        BY <2>1, <2>2
<1>3. \A l \in RightsLevel : /\ HasRights(l)' <=> HasRights(l) \/ new[l] # NoRow
                             /\ Covered(l) \/ new[l] # NoRow => Covered(l)'
    BY <1>1, <1>2, CoveredAfterWrite
<1>4. ASSUME NEW l \in RightsLevel, NEW m \in RightsLevel, new[l] # NoRow,
             Level(head) < m, m < l
      PROVE  Covered(m)'
    <2>1. CASE \E lost \in SUBSET near : /\ new = FutureRows(near \ lost)
                                         /\ \A k \in lost : <<u, k, Future>> \in unread'
        <3>1. PICK lost \in SUBSET near : /\ new = FutureRows(near \ lost)
                                          /\ \A k \in lost : <<u, k, Future>> \in unread'
            BY <2>1
        <3>2. l \in near
            BY <1>4, <3>1 DEF FutureRows
        <3>3. m \in near
            BY <1>4, <3>2 DEF NoGap
        <3>4. CASE m \in lost
            BY <3>1, <3>4 DEF Covered
        <3>5. CASE m \notin lost
            <4>1. new[m] # NoRow
                BY <3>1, <3>3, <3>5, RightsBounds DEF FutureRows
            <4> QED
                BY <1>3, <4>1
        <3> QED
            BY <3>4, <3>5
    <2>2. CASE \E w \in writes : new = w.rows
        <3>1. Covered(m) \/ new[m] # NoRow
            BY <1>4, <2>2 DEF NoGap
        <3> QED
            BY <1>3, <3>1
    <2> QED
        BY <1>2, <2>1, <2>2
<1>5. Level(head') >= Level(head)
    BY <1>1, RightsLevelType
<1>6. ASSUME NEW r \in Run, NEW m \in RightsLevel
      PROVE  \/ /\ runs'[r].from = runs[r].from
                /\ ~HasAllRead(runs[r]) \/ runs[r].from <= runs[r].last
             \/ HasAllRead(runs'[r]) /\ ~(runs'[r].from <= runs'[r].last)
             \/ Level(head') < m /\ m < runs'[r].from => Covered(m)'
    BY <1>1
<1> QED
    BY <1>1, <1>3, <1>4, <1>5, <1>6, NoGapGrows

\* The highest level of a table has a row.
LEMMA MaxRightsIsKnown ==
    ASSUME NEW t \in Table
    PROVE  \/ MaxRights(t) = -1 /\ \A l \in RightsLevel : rights[t][l] = NoRow
           \/ MaxRights(t) \in RightsLevel /\ HasRights(MaxRights(t))
<1> DEFINE S == {l \in RightsLevel : rights[t][l] # NoRow}
<1>1. PICK n \in Nat : RightsLevel = 0..n
    BY RightsBounds
<1>2. CASE S = {}
    BY <1>2 DEF MaxRights
<1>3. CASE S # {}
    <2>1. \E m \in S : \A x \in S : x <= m
        BY <1>1, <1>3, GreatestNumber
    <2>2. MaxRights(t) \in RightsLevel /\ rights[t][MaxRights(t)] # NoRow
        BY <1>3, <2>1 DEF MaxRights
    <2> QED
        BY <2>2 DEF HasRights
<1> QED
    BY <1>2, <1>3

\* What a run asks for next follows on what is covered.
LEMMA PartitionLeavesNoGap ==
    ASSUME RightsInv, NoGap, NEW r \in Run,
           HasAllRead(runs[r]), runs[r].from <= runs[r].last,
           NEW l \in RightsLevel, NEW m \in RightsLevel,
           l \in Partition(r), Level(head) < m, m < l
    PROVE  Covered(m) \/ m \in Partition(r)
<1>1. /\ runs[r].from \in Nat /\ runs[r].last \in Int /\ l \in Nat /\ m \in Nat
      /\ FetchSize \in Nat \ {0}
    BY RightsBounds DEF RightsInv, RightsTypeOK
<1>2. CASE m < runs[r].from
    BY <1>2 DEF NoGap, CoveredBelow
<1>3. CASE ~(m < runs[r].from)
    BY <1>1, <1>3 DEF Partition, Smaller
<1> QED
    BY <1>2, <1>3

\* A scheduled run, whatever it read of the head and of the tables at which time.
LEMMA RunsLeaveNoGap ==
    ASSUME RightsInv, InsertsAreDue, NoGap, NEW r \in Run, Scheduled(r) \/ RunFails(r)
    PROVE  NoGap'
<1> DEFINE Kept(q, m) ==
        \/ /\ runs'[q].from = runs[q].from
           /\ ~HasAllRead(runs[q]) \/ runs[q].from <= runs[q].last
        \/ HasAllRead(runs'[q]) /\ ~(runs'[q].from <= runs'[q].last)
        \/ Level(head') < m /\ m < runs'[q].from => Covered(m)'
<1>7. unread \subseteq unread'
    BY DEF Scheduled, ReadHead, ReadMax, NextPartition, InsertEndorsing, EndorsingCollides,
           RunEnds, RunFails, CountFailure, ReadInVain, nodeVars
<1>1. /\ UNCHANGED <<head, near>> /\ head \in Block /\ Level(head') >= Level(head)
      /\ runs \in [Run -> [at : {"reading", "inserting"},
                           read : SUBSET (Table \union {"head"}), from : Nat, last : Int]]
    BY RightsLevelType
    DEF Scheduled, ReadHead, ReadMax, NextPartition, InsertEndorsing, EndorsingCollides, RunEnds,
        RunFails, CountFailure, nodeVars, loopVars, RightsInv, RightsTypeOK
<1>2. ASSUME NEW q \in Run, q # r, NEW m \in RightsLevel,
             \A l \in RightsLevel : Covered(l) => Covered(l)'
      PROVE  Kept(q, m)
    <2>1. runs'[q] = runs[q]
        <3>1. CASE ReadMax(r)
            <4>1. PICK t : runs' = [runs EXCEPT ![r].read = @ \union {t},
                                                ![r].from = Larger(@, MaxRights(t) + 1)]
                BY <3>1 DEF ReadMax
            <4> QED
                BY <1>1, <1>2, <4>1
        <3>2. CASE ~ReadMax(r)
            BY <1>1, <1>2, <3>2
            DEF Scheduled, ReadHead, NextPartition, InsertEndorsing, EndorsingCollides, RunEnds,
                RunFails
        <3> QED
            BY <3>1, <3>2
    <2> QED
        BY <2>1
<1>3. CASE ReadHead(r) \/ ReadMax(r)
    <2>1. UNCHANGED <<rights, writes>>
        BY <1>3 DEF ReadHead, ReadMax
    <2>2. \A l \in RightsLevel : (HasRights(l)' <=> HasRights(l)) /\ (Covered(l) => Covered(l)')
        BY <1>7, <2>1, CoveredStays
    <2>3. ~HasAllRead(runs[r])
        BY <1>3 DEF ReadHead, ReadMax, HasAllRead
    <2>4. \A m \in RightsLevel : Level(head) < m /\ m < runs[r].from => Covered(m)
        BY <2>3 DEF NoGap, CoveredBelow
    <2>5. ASSUME NEW m \in RightsLevel, Level(head) < m, m < runs'[r].from
          PROVE  Covered(m)
        <3>1. CASE ReadHead(r)
            <4>1. runs'[r].from = Larger(runs[r].from, Level(head) + 1)
                BY <1>1, <3>1 DEF ReadHead
            <4>2. Level(head) \in Nat /\ m \in Nat
                BY <1>1, RightsLevelType, RightsBounds
            <4> QED
                BY <2>4, <2>5, <4>1, <4>2 DEF Larger
        <3>2. CASE ReadMax(r)
            <4>1. PICK t \in Table :
                    runs' = [runs EXCEPT ![r].read = @ \union {t},
                                         ![r].from = Larger(@, MaxRights(t) + 1)]
                BY <3>2 DEF ReadMax
            <4> DEFINE top == MaxRights(t)
            <4>2. runs'[r].from = Larger(runs[r].from, top + 1)
                BY <1>1, <4>1
            <4>3. m \in Nat /\ \A k \in RightsLevel : k \in Nat
                BY RightsBounds
            <4>4. \/ top = -1
                  \/ top \in RightsLevel /\ HasRights(top)
                BY MaxRightsIsKnown
            <4> HIDE DEF top
            <4>5. CASE m < runs[r].from
                BY <2>4, <2>5, <4>5
            <4>6. CASE m < top + 1
                <5>1. top \in RightsLevel /\ HasRights(top)
                    BY <4>3, <4>4, <4>6
                <5>2. m = top \/ m < top
                    BY <4>3, <4>6, <5>1
                <5> QED
                    BY <2>5, <5>1, <5>2 DEF NoGap, CoveredBelow, Covered
            <4> QED
                BY <2>5, <4>2, <4>5, <4>6 DEF Larger
        <3> QED
            BY <1>3, <3>1, <3>2
    <2>6. \A q \in Run, m \in RightsLevel : Kept(q, m)
        BY <1>1, <1>2, <2>2, <2>5
    <2> QED
        BY <1>1, <2>1, <2>2, <2>6, NoGapGrows
<1>4. CASE NextPartition(r)
    <2>1. /\ runs' = [runs EXCEPT ![r].at = "inserting"] /\ rights' = rights
          /\ HasAllRead(runs[r]) /\ runs[r].from <= runs[r].last
        BY <1>4 DEF NextPartition, AllRead, HasAllRead
    <2>6. PICK lost \in SUBSET Partition(r) :
            /\ writes' = writes \union {[table |-> "baking", mode |-> "insert",
                                         rows |-> FutureRows(Partition(r) \ lost)]}
            /\ \A l \in lost : <<"baking", l, Future>> \in unread'
        BY <1>4 DEF NextPartition, ReadInVain
    <2>2. \A l \in RightsLevel : (HasRights(l)' <=> HasRights(l)) /\ (Covered(l) => Covered(l)')
        BY <1>7, <2>1, CoveredStays
    <2>3. \A m \in RightsLevel : Kept(r, m)
        BY <1>1, <2>1
    <2>4. ASSUME NEW w \in writes' \ writes, NEW l \in RightsLevel, NEW m \in RightsLevel,
                 w.rows[l] # NoRow, Level(head') < m, m < l
          PROVE  Covered(m)' \/ w.rows[m] # NoRow
        <3>1. w.rows = FutureRows(Partition(r) \ lost) /\ Level(head) < m
            BY <1>1, <2>4, <2>6
        <3>2. l \in Partition(r) /\ m < l
            BY <2>4, <3>1 DEF FutureRows
        <3>3. CASE Covered(m)
            BY <2>2, <3>3
        <3>4. CASE m \in lost
            BY <2>6, <3>4 DEF Covered, Table
        <3>5. CASE m \in Partition(r) \ lost
            BY <3>1, <3>5, RightsBounds DEF FutureRows
        <3>6. Covered(m) \/ m \in Partition(r)
            BY <2>1, <3>1, <3>2, PartitionLeavesNoGap
        <3> QED
            BY <3>3, <3>4, <3>5, <3>6
    <2>5. \A q \in Run, m \in RightsLevel : Kept(q, m)
        BY <1>2, <2>2, <2>3
    <2> QED
        BY <1>1, <2>2, <2>4, <2>5, NoGapGrows
<1>5. CASE InsertEndorsing(r)
    <2>1. /\ runs' = [runs EXCEPT ![r].at = "reading", ![r].from = @ + FetchSize]
          /\ writes' = writes /\ runs[r].at = "inserting"
        BY <1>5 DEF InsertEndorsing
    <2>8. PICK lost \in SUBSET Partition(r) :
            /\ rights' = [rights EXCEPT !["endorsing"] =
                                            Upserted(@, FutureRows(Partition(r) \ lost))]
            /\ \A l \in lost : <<"endorsing", l, Future>> \in unread'
        BY <1>5 DEF InsertEndorsing, ReadInVain
    <2>2. HasAllRead(runs[r]) /\ runs[r].from <= runs[r].last
        BY <2>1 DEF InsertsAreDue
    <2> DEFINE new == FutureRows(Partition(r) \ lost)
    <2>3. new \in [RightsLevel -> Row]
        BY FutureRowsType
    <2>4. \A l \in RightsLevel : /\ HasRights(l)' <=> HasRights(l) \/ new[l] # NoRow
                                 /\ Covered(l) \/ new[l] # NoRow => Covered(l)'
        BY <1>7, <2>3, <2>8, CoveredAfterWrite DEF Table
    <2>9. ASSUME NEW m \in RightsLevel, m \in Partition(r)
          PROVE  Covered(m)'
        <3>1. CASE m \in lost
            BY <2>8, <3>1 DEF Covered, Table
        <3>2. CASE m \notin lost
            <4>1. new[m] # NoRow
                BY <2>9, <3>2, RightsBounds DEF FutureRows
            <4> QED
                BY <2>4, <4>1
        <3> QED
            BY <3>1, <3>2
    <2>5. ASSUME NEW l \in RightsLevel, NEW m \in RightsLevel, new[l] # NoRow,
                 Level(head') < m, m < l
          PROVE  Covered(m)'
        <3>1. Level(head) < m
            BY <1>1, <2>5
        <3>2. l \in Partition(r) /\ m < l
            BY <2>5 DEF FutureRows
        <3>3. Covered(m) \/ m \in Partition(r)
            BY <2>2, <3>1, <3>2, PartitionLeavesNoGap
        <3> QED
            BY <2>4, <2>9, <3>3
    <2>6. ASSUME NEW m \in RightsLevel
          PROVE  Kept(r, m)
        <3>1. /\ runs'[r].from = runs[r].from + FetchSize /\ runs'[r].last = runs[r].last
              /\ runs'[r].read = runs[r].read
              /\ runs[r].from \in Nat /\ runs[r].last \in Int /\ m \in Nat
              /\ FetchSize \in Nat \ {0}
            BY <1>1, <2>1, RightsBounds
        <3>2. CASE ~(runs'[r].from <= runs'[r].last)
            BY <2>2, <3>1, <3>2 DEF HasAllRead
        <3>3. CASE runs'[r].from <= runs'[r].last
            <4>1. ASSUME Level(head) < m, m < runs[r].from PROVE Covered(m)
                BY <2>2, <4>1 DEF NoGap, CoveredBelow
            <4>2. ASSUME m < runs'[r].from, ~(m < runs[r].from) PROVE m \in Partition(r)
                BY <3>1, <3>3, <4>2 DEF Partition, Smaller
            <4> QED
                BY <1>1, <2>4, <2>9, <4>1, <4>2
        <3> QED
            BY <3>2, <3>3
    <2>7. \A q \in Run, m \in RightsLevel : Kept(q, m)
        BY <1>2, <2>4, <2>6
    <2> HIDE DEF new
    <2> QED
        BY <1>1, <2>1, <2>4, <2>5, <2>7, NoGapGrows
<1>6. CASE EndorsingCollides(r) \/ RunEnds(r) \/ RunFails(r)
    <2>1. UNCHANGED <<rights, writes>> /\ runs'[r] = NoRun
        BY <1>1, <1>6 DEF EndorsingCollides, RunEnds, RunFails, CountFailure
    <2>2. \A l \in RightsLevel : (HasRights(l)' <=> HasRights(l)) /\ (Covered(l) => Covered(l)')
        BY <1>7, <2>1, CoveredStays
    <2>3. \A m \in RightsLevel : Kept(r, m)
        BY <2>1, RightsBounds DEF NoRun
    <2>4. \A q \in Run, m \in RightsLevel : Kept(q, m)
        BY <1>2, <2>2, <2>3
    <2> QED
        BY <1>1, <2>1, <2>2, <2>4, NoGapGrows
<1> QED
    BY <1>3, <1>4, <1>5, <1>6 DEF Scheduled

LEMMA StepLeavesNoGap ==
    ASSUME RightsInv, OneBranch, NoGapInv, [Next]_vars
    PROVE  NoGapInv'
<1>1. InsertsAreDue'
    BY StepKeepsInsertsAreDue DEF NoGapInv
<1>2. ASSUME reorgs' = 0 PROVE NoGap'
    <2>1. reorgs \in Nat
        BY RightsAssumption DEF RightsInv, RightsTypeOK
    <2>2. reorgs = 0 /\ ~Reorganise
        <3>1. reorgs' \in {reorgs, reorgs + 1}
            BY DEF Next, Node, Loop, Scheduled, Advance, Reorganise, NoFork, ForkDetected,
                   FetchHead, StorePage, PageRights, BeginUpdate, Update, EndIteration, ReadHead, ReadMax,
                   NextPartition, InsertEndorsing, EndorsingCollides, RunEnds, RunFails, Write,
                   WriteRefused, PageRightsFail, Crash, CountFailure, vars, nodeVars
        <3> QED
            BY <1>2, <2>1, <3>1 DEF Reorganise
    <2>3. NoGap /\ InsertsAreDue
        BY <2>2 DEF NoGapInv
    <2>4. CASE UNCHANGED vars
        BY <2>3, <2>4
        DEF NoGap, Covered, HasRights, CoveredBelow, HasAllRead, vars, nodeVars, loopVars
    <2> QED
        BY <1>2, <2>2, <2>3, <2>4, LoopLeavesNoGap, WritesLeaveNoGap, RunsLeaveNoGap
        DEF Next, Node, Loop
<1> QED
    BY <1>1, <1>2 DEF NoGapInv

\* On one branch the levels to come are known without a gap up to the highest one known,
\* in one table or the other, but for levels some answer about which could not be
\* decoded: however many runs overlap, whenever each of them read the head and the
\* tables, and wherever crashes and failed requests stop them.
THEOREM NoLevelIsEverPassedOver == Spec => []NoLevelIsPassedOver
<1>1. Init => OneBranch /\ NoGapInv
    BY RightsBounds
    DEF Init, OneBranch, NoGapInv, InsertsAreDue, NoGap, HasRights, CoveredBelow, NoRun, HasAllRead
<1>2. RightsInv /\ RightsInv' /\ OneBranch /\ [Next]_vars => OneBranch'
    BY StepKeepsOneBranch
<1>3. RightsInv /\ OneBranch /\ NoGapInv /\ [Next]_vars => NoGapInv'
    BY StepLeavesNoGap
<1>4. NoGapInv => NoLevelIsPassedOver
    BY DEF NoGapInv, NoGap, NoLevelIsPassedOver
<1> QED
    BY <1>1, <1>2, <1>3, <1>4, RightsInvariant, PTL DEF Spec
=============================================================================
