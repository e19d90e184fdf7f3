------------------------- MODULE ContractPagesProofs -------------------------
(***************************************************************************)
(* For any chain and any operations on it, and for any switch between the   *)
(* search for forks and the reading of the head.  The allocations of a page *)
(* meet no valid map but one of a valid block of another branch, and valid  *)
(* balances are of their own chain: a valid map is of a valid block, below  *)
(* the page, and a chain allocates a map once, before it is updated.        *)
(*                                                                          *)
(* Of the maps that nothing is copied into, the history is all updates of   *)
(* the valid blocks, the contents are the last of each entry and, on one    *)
(* branch, what replaying the differences of the chain gives: what a page   *)
(* copies leaves them alone, and both the pages and the replay keep, of     *)
(* each entry, the update that no later one undoes.                         *)
(*                                                                          *)
(* Only the registrar has a page wait, and its names are stored: the maps   *)
(* in memory are those its one origination brought.                         *)
(***************************************************************************)
EXTENDS ContractPagesProps, BlockchainTheorems

\* A place is a block, an operation of it and a difference of that operation.
LEMMA PlaceHasParts ==
    ASSUME NEW S, NEW Ops, NEW action, NEW p \in Places(S, Ops, action)
    PROVE  \E b \in S : \E i \in OpsOf(b, Ops) : \E j \in DiffsOf(Operations[b][i], action) :
                p = <<b, i, j>>
<1>1. PICK b \in S :
        p \in UNION {{<<b, i, j>> : j \in DiffsOf(Operations[b][i], action)} : i \in OpsOf(b, Ops)}
    BY DEF Places
<1>2. PICK i \in OpsOf(b, Ops) : p \in {<<b, i, j>> : j \in DiffsOf(Operations[b][i], action)}
    BY <1>1
<1> QED
    BY <1>2

\* A place in blocks of S is one in its own block, and is one in any set with its block.
LEMMA PlaceOfItsBlock ==
    ASSUME NEW S, NEW Ops, NEW action, NEW p \in Places(S, Ops, action)
    PROVE  /\ p[1] \in S
           /\ \A T : p[1] \in T => p \in Places(T, Ops, action)
<1>1. PICK b \in S : \E i \in OpsOf(b, Ops) : \E j \in DiffsOf(Operations[b][i], action) :
                        p = <<b, i, j>>
    BY PlaceHasParts
<1>2. PICK i \in OpsOf(b, Ops) : \E j \in DiffsOf(Operations[b][i], action) : p = <<b, i, j>>
    BY <1>1
<1>3. PICK j \in DiffsOf(Operations[b][i], action) : p = <<b, i, j>>
    BY <1>2
<1>4. p[1] = b
    BY <1>3
<1>5. ASSUME NEW T, p[1] \in T PROVE p \in Places(T, Ops, action)
    BY <1>3, <1>4, <1>5 DEF Places
<1> QED
    BY <1>4, <1>5

\* The parts of a place have their types.
LEMMA PlaceType ==
    ASSUME NEW S \in SUBSET Block, NEW Ops, NEW action, NEW p \in Places(S, Ops, action)
    PROVE  /\ p \in Block \X Nat \X Nat
           /\ OpAt(p) \in Operation /\ DiffAt(p) \in Diff
<1>1. PICK b \in S : \E i \in OpsOf(b, Ops) : \E j \in DiffsOf(Operations[b][i], action) :
                        p = <<b, i, j>>
    BY PlaceHasParts
<1>2. PICK i \in OpsOf(b, Ops) : \E j \in DiffsOf(Operations[b][i], action) : p = <<b, i, j>>
    BY <1>1
<1>3. PICK j \in DiffsOf(Operations[b][i], action) : p = <<b, i, j>>
    BY <1>2
<1>4. Operations[b] \in Seq(Operation) /\ i \in DOMAIN Operations[b]
    BY OperationsAssumption DEF OpsOf
<1>5. i \in Nat /\ Operations[b][i] \in Operation
    BY <1>4
<1>6. Operations[b][i].diffs \in Seq(Diff) /\ j \in DOMAIN Operations[b][i].diffs
    BY <1>5 DEF Operation, DiffsOf
<1>7. j \in Nat /\ Operations[b][i].diffs[j] \in Diff
    BY <1>6
<1>8. p[1] = b /\ p[2] = i /\ p[3] = j /\ OpAt(p) = Operations[b][i]
    BY <1>3 DEF OpAt
<1> QED
    BY <1>3, <1>5, <1>7, <1>8 DEF DiffAt

\* Blocks that a block extends are of its chain.
LEMMA ExtendedIsOfChain ==
    ASSUME NEW b \in Block, NEW c \in Block, Extends(b, c)
    PROVE  c \in Chain(b)
<1>1. Level(c) \in 0..Level(b)
    BY BlockIsSeq, ChainAssumption DEF Extends
<1> QED
    BY <1>1 DEF Extends, Chain, Segment

\* Of two blocks of a chain the lower one is of the chain of the higher one.
LEMMA LowerIsOfChain ==
    ASSUME NEW t \in Block, NEW b \in Block, NEW c \in Block,
           Extends(t, b), Extends(t, c), Level(c) <= Level(b)
    PROVE  c \in Chain(b)
<1>1. Level(b) \in 0..Level(t) /\ Level(c) \in 0..Level(b)
    BY BlockIsSeq, ChainAssumption DEF Extends
<1>2. AncestorAt(AncestorAt(t, Level(b)), Level(c)) = AncestorAt(t, Level(c))
    BY <1>1, AncestorOfAncestor
<1>3. AncestorAt(b, Level(c)) = c
    BY <1>2 DEF Extends
<1> QED
    BY <1>1, <1>3 DEF Chain, Segment

\* No indexed block is above the highest indexed level.
LEMMA PagesMaxIndexed ==
    ASSUME blocks \subseteq Block
    PROVE  MaxIndexed \in -1..MaxLevel /\ \A b \in blocks : Level(b) <= MaxIndexed
<1>1. \A b \in blocks : Level(b) \in 0..MaxLevel
    BY BlockIsSeq
<1>2. CASE blocks = {}
    BY <1>2, ChainAssumption DEF MaxIndexed
<1>3. CASE blocks # {}
    <2>1. \E l \in {Level(b) : b \in blocks} : \A b \in blocks : Level(b) <= l
        BY <1>3, HighestLevel
    <2>2. MaxIndexed \in {Level(b) : b \in blocks} /\ \A b \in blocks : Level(b) <= MaxIndexed
        BY <1>3, <2>1 DEF MaxIndexed
    <2> QED
        BY <1>1, <2>2, ChainAssumption
<1> QED
    BY <1>2, <1>3

\* A page is of the target's chain, above the indexed blocks.
LEMMA PageBlocks ==
    ASSUME PagesControl, PageIsDue, target \in Block
    PROVE  /\ Page \subseteq Block
           /\ \A b \in Page : Extends(target, b) /\ Level(b) > MaxIndexed
<1> DEFINE lo == MaxIndexed + 1
           hi == Smaller(MaxIndexed + PageSize, Level(target))
<1>1. MaxIndexed \in -1..MaxLevel /\ Level(target) \in 0..MaxLevel /\ PageSize \in Nat \ {0}
    BY PagesMaxIndexed, BlockIsSeq, PagesAssumption DEF PagesControl
<1>2. lo \in Nat /\ hi \in Nat /\ hi <= Level(target)
    BY <1>1, ChainAssumption DEF Smaller
<1> HIDE DEF lo, hi
<1>3. /\ Segment(target, lo, hi) \subseteq Block
      /\ \A c \in Segment(target, lo, hi) : Level(c) \in lo..hi /\ c = AncestorAt(target, Level(c))
    BY <1>2, SegmentLevels
<1>4. Page = Segment(target, lo, hi)
    BY DEF Page, lo, hi
<1>5. \A c \in Page : Level(c) <= Level(target) /\ Level(c) > MaxIndexed
    BY <1>1, <1>2, <1>3, <1>4 DEF lo
<1> QED
    BY <1>1, <1>3, <1>4, <1>5 DEF Extends

\* Whatever a page allocates and updates is of the chain of its target.
LEMMA PlacesOfThePage ==
    ASSUME PagesControl, PageIsDue, target \in Block, NEW Ops, NEW action,
           NEW p \in Places(Page, Ops, action)
    PROVE  /\ p[1] \in Page /\ p[1] \in Block /\ Extends(target, p[1])
           /\ p \in Places(Chain(target), Ops, action)
<1>1. p[1] \in Page /\ p[1] \in Block /\ Extends(target, p[1])
    BY PlaceOfItsBlock, PageBlocks
<1>2. p[1] \in Chain(target)
    BY <1>1, ExtendedIsOfChain
<1> QED
    BY <1>1, <1>2, PlaceOfItsBlock

\* A balance of a page is of an entry that its block updated, in a map which the chain
\* of that block gave to the token: a map is allocated before it is updated.
LEMMA BalancesOfThePage ==
    ASSUME PagesControl, PageIsDue, target \in Block, NEW r \in BalanceRows(Page)
    PROVE  /\ r.block \in Page
           /\ \E p \in Updates({r.block}) :
                /\ OpAt(p).contract = r.token /\ DiffAt(p).key = r.account
                /\ DiffAt(p).map \in MapsOf(Chain(r.block), r.token)
<1>1. PICK p \in Updates(Page) :
        /\ r = [token |-> OpAt(p).contract, account |-> DiffAt(p).key, block |-> p[1]]
        /\ DiffAt(p).map \in MapsOf(Page, OpAt(p).contract)
    BY DEF BalanceRows
<1>2. /\ p[1] \in Page /\ p[1] \in Block /\ Extends(target, p[1])
      /\ p \in Updates(Chain(target))
    BY PlacesOfThePage DEF Updates
<1>3. PICK q \in Allocations(Page) :
        OpAt(q).contract = OpAt(p).contract /\ DiffAt(q).map = DiffAt(p).map
    BY <1>1 DEF MapsOf
<1>4. /\ q[1] \in Page /\ q[1] \in Block /\ Extends(target, q[1])
      /\ q \in Allocations(Chain(target))
    BY PlacesOfThePage DEF Allocations
<1>5. Level(q[1]) <= Level(p[1])
    BY <1>2, <1>3, <1>4, AllocationAssumption
<1>6. q[1] \in Chain(p[1])
    BY <1>2, <1>4, <1>5, LowerIsOfChain
<1>7. q \in Allocations(Chain(p[1]))
    BY <1>6, PlaceOfItsBlock DEF Allocations
<1>8. DiffAt(p).map \in MapsOf(Chain(p[1]), OpAt(p).contract)
    BY <1>3, <1>7 DEF MapsOf
<1>9. p \in Updates({p[1]})
    BY PlaceOfItsBlock DEF Updates
<1> QED
    BY <1>1, <1>2, <1>8, <1>9

--------------------------------------------------------------------------
(* The steps *)

\* The levels that a search may find.
LEMMA LevelsAreNumbers == \A b \in Block : Level(b) \in Nat
<1> QED
    BY BlockIsSeq, ChainAssumption

\* What an amendment leaves valid is of blocks that it leaves valid.
LEMMA AmendForkPreserves ==
    ASSUME PagesInv, NEW level \in Nat, AmendFork(level)
    PROVE  /\ blocks' \subseteq blocks /\ forks' \in Nat
           /\ maps' \subseteq [map : MapId, at : Block \X Nat \X Nat, fork : Nat]
           /\ MapsAreOfTheBlocks'
           /\ BalancesAreOfTheChain'
<1> USE DEF PagesInv, PagesControl
<1>1. blocks' = {b \in blocks : Level(b) < level} /\ forks' = forks + 1
    BY DEF AmendFork
<1>2. ASSUME NEW r \in maps'
      PROVE  /\ r \in [map : MapId, at : Block \X Nat \X Nat, fork : Nat]
             /\ r.fork = Main => r \in maps /\ Level(r.at[1]) < level
    <2>1. PICK q \in maps :
            r = IF q.fork = Main /\ Level(q.at[1]) >= level
                THEN [q EXCEPT !.fork = forks + 1] ELSE q
        BY <1>2 DEF AmendFork, InvalidateBigMaps, Invalidated
    <2>2. q \in [map : MapId, at : Block \X Nat \X Nat, fork : Nat]
        OBVIOUS
    <2>3. Level(q.at[1]) \in Nat
        BY <2>2, LevelsAreNumbers
    <2>4. CASE q.fork = Main /\ Level(q.at[1]) >= level
        <3>1. r = [q EXCEPT !.fork = forks + 1]
            BY <2>1, <2>4
        <3>2. r \in [map : MapId, at : Block \X Nat \X Nat, fork : Nat] /\ r.fork = forks + 1
            BY <2>2, <3>1
        <3> QED
            BY <3>2 DEF Main
    <2>5. CASE ~(q.fork = Main /\ Level(q.at[1]) >= level)
        BY <2>1, <2>2, <2>3, <2>5
    <2> QED
        BY <2>4, <2>5
<1>3. MapsAreOfTheBlocks'
    <2>1. ASSUME NEW r \in maps', r.fork = Main
          PROVE  r.at \in Allocations(blocks') /\ r.map = DiffAt(r.at).map
        <3>1. r.at \in Allocations(blocks) /\ r.map = DiffAt(r.at).map /\ Level(r.at[1]) < level
            BY <1>2, <2>1 DEF MapsAreOfTheBlocks
        <3>2. r.at[1] \in blocks'
            BY <1>1, <3>1, PlaceOfItsBlock DEF Allocations
        <3> QED
            BY <3>1, <3>2, PlaceOfItsBlock DEF Allocations
    <2> QED
        BY <2>1 DEF MapsAreOfTheBlocks, Allocations, Places
<1>4. BalancesAreOfTheChain'
    BY <1>1 DEF BalancesAreOfTheChain, AmendFork, InvalidateBalances
<1> QED
    BY <1>1, <1>2, <1>3, <1>4

\* A page leaves its rows on the chains of their blocks.
LEMMA StorePagePreserves ==
    ASSUME PagesInv, StorePage
    PROVE  PagesInv'
<1> USE DEF PagesInv
<1>1. PageIsDue /\ target \in Block /\ target' = target /\ blocks' = blocks \union Page
    BY DEF StorePage, PageIsDue, TargetIsABlock
<1>2. Page \subseteq Block /\ \A b \in Page : Extends(target, b)
    BY <1>1, PageBlocks
<1>3. \A r \in maps' : r \in maps \/ \E p \in Allocations(Page) : r = MapRow(p)
    BY DEF StorePage, SaveBigMaps, Kept, MapRows
<1>4. ASSUME NEW p \in Allocations(Page)
      PROVE  MapRow(p) \in [map : MapId, at : Block \X Nat \X Nat, fork : Nat]
    <2>1. p \in Block \X Nat \X Nat /\ DiffAt(p) \in Diff
        BY <1>2, PlaceType DEF Allocations
    <2> QED
        BY <2>1 DEF MapRow, Diff, Main
<1>5. PagesControl'
    BY <1>1, <1>2, <1>3, <1>4 DEF PagesControl, StorePage, nodeVars
<1>6. TargetIsABlock'
    BY <1>1 DEF TargetIsABlock
<1>7. MapsAreOfTheBlocks'
    <2>1. ASSUME NEW r \in maps', r.fork = Main
          PROVE  r.at \in Allocations(blocks') /\ r.map = DiffAt(r.at).map
        <3>1. CASE r \in maps
            BY <1>1, <2>1, <3>1, PlaceOfItsBlock DEF MapsAreOfTheBlocks, Allocations
        <3>2. CASE \E p \in Allocations(Page) : r = MapRow(p)
            <4>1. PICK p \in Allocations(Page) : r = MapRow(p)
                BY <3>2
            <4>2. r.at = p /\ r.map = DiffAt(p).map
                BY <4>1 DEF MapRow
            <4> QED
                BY <1>1, <4>2, PlaceOfItsBlock DEF Allocations
        <3> QED
            BY <1>3, <3>1, <3>2
    <2> QED
        BY <2>1 DEF MapsAreOfTheBlocks, Allocations, Places
<1>8. BalancesAreOfTheChain'
    <2>1. \A r \in balances' : r \in balances \/ r \in BalanceRows(Page)
        BY DEF StorePage, SaveBalances
    <2>2. \A r \in BalanceRows(Page) :
            /\ r.block \in blocks'
            /\ \E p \in Updates({r.block}) :
                /\ OpAt(p).contract = r.token /\ DiffAt(p).key = r.account
                /\ DiffAt(p).map \in MapsOf(Chain(r.block), r.token)
        BY <1>1, BalancesOfThePage
    <2> QED
        BY <1>1, <2>1, <2>2 DEF BalancesAreOfTheChain
<1> QED
    BY <1>5, <1>6, <1>7, <1>8

LEMMA PagesInvInit == Init => PagesInv
<1> SUFFICES ASSUME Init PROVE PagesInv
    OBVIOUS
<1> QED
    BY DEF Init, PagesInv, PagesControl, TargetIsABlock, MapsAreOfTheBlocks,
           BalancesAreOfTheChain

LEMMA PagesInvNext == PagesInv /\ [Next]_vars => PagesInv'
<1> SUFFICES ASSUME PagesInv, [Next]_vars PROVE PagesInv'
    OBVIOUS
<1> USE DEF PagesInv
<1> DEFINE Tables == <<blocks, forks, maps, balances>>
\* What reads only the tables, and the head and target, is kept by a step that leaves them.
<1>1. ASSUME UNCHANGED Tables, head' \in Block, target' \in Block \union {NoBlock}
      PROVE  PagesControl' /\ MapsAreOfTheBlocks' /\ BalancesAreOfTheChain'
    BY <1>1 DEF PagesControl, MapsAreOfTheBlocks, BalancesAreOfTheChain
<1>2. CASE Advance
    BY <1>1, <1>2 DEF Advance, tableVars, PagesControl, TargetIsABlock
<1>3. CASE Reorganise
    BY <1>1, <1>3 DEF Reorganise, tableVars, PagesControl, TargetIsABlock
<1>4. CASE NoFork
    BY <1>1, <1>4 DEF NoFork, nodeVars, tableVars, PagesControl, TargetIsABlock
<1>5. CASE ForkDetected
    <2>1. PICK b \in Orphaned(blocks, head) : AmendFork(Level(b))
        BY <1>5 DEF ForkDetected
    <2>2. Level(b) \in Nat
        BY LevelsAreNumbers DEF Orphaned, PagesControl
    <2>3. /\ blocks' \subseteq blocks /\ forks' \in Nat
          /\ maps' \subseteq [map : MapId, at : Block \X Nat \X Nat, fork : Nat]
          /\ MapsAreOfTheBlocks' /\ BalancesAreOfTheChain'
        BY <2>1, <2>2, AmendForkPreserves
    <2>4. PagesControl' /\ TargetIsABlock'
        BY <1>5, <2>3 DEF ForkDetected, nodeVars, PagesControl, TargetIsABlock
    <2> QED
        BY <2>3, <2>4
<1>6. CASE FetchHead
    BY <1>1, <1>6 DEF FetchHead, nodeVars, tableVars, PagesControl, TargetIsABlock
<1>7. CASE StorePage
    BY <1>7, StorePagePreserves
<1>8. CASE PageWaits
    BY <1>1, <1>8 DEF PageWaits, PageIsDue, nodeVars, tableVars, PagesControl, TargetIsABlock
<1>9. CASE PageRefused
    BY <1>1, <1>9 DEF PageRefused, nodeVars, tableVars, PagesControl, TargetIsABlock
<1>10. CASE ProcessNames
    BY <1>1, <1>10 DEF ProcessNames, nodeVars, mapVars, PagesControl, TargetIsABlock
<1>11. CASE EndIteration
    BY <1>1, <1>11 DEF EndIteration, nodeVars, tableVars, PagesControl, TargetIsABlock
<1>12. CASE CountFailure
    BY <1>1, <1>12 DEF CountFailure, nodeVars, tableVars, PagesControl, TargetIsABlock
<1>13. CASE UNCHANGED vars
    BY <1>1, <1>13 DEF vars, nodeVars, tableVars, PagesControl, TargetIsABlock
<1> QED
    BY <1>2, <1>3, <1>4, <1>5, <1>6, <1>7, <1>8, <1>9, <1>10, <1>11, <1>12, <1>13
    DEF Next, Loop, PageFails, NamesFail, Restart

\* The invariant the other theorems rest on.
THEOREM PagesInvariant == Spec => []PagesInv
<1> QED
    BY PagesInvInit, PagesInvNext, PTL DEF Spec

--------------------------------------------------------------------------

\* A page meets no valid map that it allocates, unless of another branch: a valid one is
\* of a block below the page, and a chain allocates each map once.
LEMMA PagesDoNotCollide == PagesInv => AllocationsAreAccepted
<1> SUFFICES ASSUME PagesInv, PageIsDue,
                    NEW r \in MapRows(Page), NEW q \in maps, r.map = q.map, q.fork = Main
             PROVE  q.at[1] \in blocks /\ ~Extends(target, q.at[1])
    BY DEF AllocationsAreAccepted
<1> USE DEF PagesInv
<1>1. target \in Block
    BY DEF PageIsDue, TargetIsABlock
<1>2. PICK p \in Allocations(Page) : MapRow(p).map = q.map
    BY DEF MapRows
<1>3. p[1] \in Page /\ p \in Allocations(Chain(target))
    BY <1>1, PlacesOfThePage DEF Allocations
<1>4. q.at \in Allocations(blocks) /\ q.map = DiffAt(q.at).map
    BY DEF MapsAreOfTheBlocks
<1>5. q.at[1] \in blocks
    BY <1>4, PlaceOfItsBlock DEF Allocations
<1>6. ASSUME Extends(target, q.at[1]) PROVE FALSE
    <2>1. q.at \in Allocations(Chain(target))
        <3>1. q.at[1] \in Chain(target)
            BY <1>1, <1>5, <1>6, ExtendedIsOfChain DEF PagesControl
        <3> QED
            BY <1>4, <3>1, PlaceOfItsBlock DEF Allocations
    <2>2. p = q.at
        <3>1. DiffAt(p).map = DiffAt(q.at).map
            BY <1>2, <1>4 DEF MapRow
        <3> QED
            BY <1>1, <1>3, <2>1, <3>1, AllocationAssumption
    <2>3. Level(p[1]) > MaxIndexed
        BY <1>1, <1>3, PageBlocks
    <2>4. Level(p[1]) <= MaxIndexed /\ MaxIndexed \in Int /\ Level(p[1]) \in Int
        BY <1>5, <2>2, PagesMaxIndexed, BlockIsSeq, ChainAssumption DEF PagesControl
    <2> QED
        BY <2>3, <2>4
<1> QED
    BY <1>5, <1>6

\* Whatever branches the node takes, and whenever, a page meets the primary key of
\* big_maps, which saveMaps inserts into plainly, only because of a valid block of
\* another branch: never because of a map that was invalidated.
THEOREM AllocationsMeetOtherBranchesOnly == Spec => []AllocationsAreAccepted
<1> QED
    BY PagesInvariant, PagesDoNotCollide, PTL

\* Whatever branches the node takes, a valid row of token_balances is of a valid block,
\* and of an entry that the block updated in a map which its own chain gave to the token.
THEOREM BalancesKeepToTheirChain == Spec => []BalancesAreOfTheChain
<1>1. PagesInv => BalancesAreOfTheChain
    BY DEF PagesInv
<1> QED
    BY PagesInvariant, <1>1, PTL

--------------------------------------------------------------------------
(* Copies *)

\* A place is one among more blocks and more operations.
LEMMA PlacesGrow ==
    ASSUME NEW S, NEW T, S \subseteq T, NEW Ops, NEW More, Ops \subseteq More, NEW action
    PROVE  Places(S, Ops, action) \subseteq Places(T, More, action)
<1> SUFFICES ASSUME NEW p \in Places(S, Ops, action) PROVE p \in Places(T, More, action)
    OBVIOUS
<1>1. PICK b \in S : \E i \in OpsOf(b, Ops) : \E j \in DiffsOf(Operations[b][i], action) :
                        p = <<b, i, j>>
    BY PlaceHasParts
<1>2. PICK i \in OpsOf(b, Ops) : \E j \in DiffsOf(Operations[b][i], action) : p = <<b, i, j>>
    BY <1>1
<1>3. PICK j \in DiffsOf(Operations[b][i], action) : p = <<b, i, j>>
    BY <1>2
<1>4. b \in T /\ i \in OpsOf(b, More)
    BY <1>2 DEF OpsOf
<1> QED
    BY <1>3, <1>4 DEF Places

\* Nothing is copied into a plain map.
LEMMA PlainMapsAreNotCopied ==
    ASSUME NEW m \in PlainMaps, NEW b \in Block, NEW p \in Copies({b})
    PROVE  DiffAt(p).map # m
<1>1. p \in Places(Block, Operation, "copy")
    <2>1. {b} \subseteq Block /\ OwnTransactions \subseteq Operation
        BY DEF OwnTransactions
    <2> QED
        BY <2>1, PlacesGrow DEF Copies
<1>2. {OpAt(q) : q \in {q \in Places(Block, Operation, "copy") : DiffAt(q).map = m}} = {}
    BY DEF PlainMaps
<1> QED
    BY <1>1, <1>2

\* A copied row is one of its destination.
LEMMA CopiesAreOfTheirMaps ==
    ASSUME NEW table \in SUBSET EntryRow, NEW b \in Block, NEW rows \in CopiedRows(table, b),
           NEW p \in DOMAIN rows
    PROVE  p \in Copies({b}) /\ rows[p] \in EntryRow /\ rows[p].map = DiffAt(p).map
<1> DEFINE sources(q) == {r \in table : r.map = DiffAt(q).source}
           found == {q \in Copies({b}) : sources(q) # {}}
<1>1. PICK picks \in {f \in [found -> table] : \A q \in found : f[q] \in sources(q)} :
            rows = [q \in found |-> [picks[q] EXCEPT !.map = DiffAt(q).map]]
    BY DEF CopiedRows
<1>2. p \in found /\ rows[p] = [picks[p] EXCEPT !.map = DiffAt(p).map] /\ picks[p] \in EntryRow
    BY <1>1
<1>3. DiffAt(p).map \in MapId
    <2>1. p \in Places({b}, OwnTransactions, "copy")
        BY <1>2 DEF Copies
    <2>2. DiffAt(p) \in Diff
        BY <2>1, PlaceType
    <2> QED
        BY <2>2 DEF Diff
<1> HIDE DEF found
<1>4. rows[p] \in EntryRow /\ rows[p].map = DiffAt(p).map
    BY <1>2, <1>3 DEF EntryRow
<1> QED
    BY <1>2, <1>4 DEF found

\* What the tables may be, with the rows of the plain maps of two others.
SamePlainRows(T, U) == \A m \in PlainMaps : \A r : r.map = m => (r \in T <=> r \in U)

EntryTables == [contents : SUBSET EntryRow, history : SUBSET EntryRow]

\* The copies of a block leave plain maps alone.
LEMMA CopiesOfABlock ==
    ASSUME NEW t \in EntryTables, NEW b \in Block, NEW u \in AfterCopies(t, b)
    PROVE  /\ u \in EntryTables
           /\ SamePlainRows(u.contents, t.contents) /\ SamePlainRows(u.history, t.history)
<1> DEFINE written(rows) == {rows[p] : p \in DOMAIN rows}
<1>1. PICK rows \in CopiedRows(t.contents, b) :
        u = [contents |-> Upserted(t.contents, LastOfEntry(rows)),
             history  |-> t.history \union written(rows)]
    BY DEF AfterCopies
<1>2. t.contents \in SUBSET EntryRow /\ t.history \in SUBSET EntryRow
    BY DEF EntryTables
<1>3. ASSUME NEW r \in written(rows)
      PROVE  r \in EntryRow /\ r.map \notin PlainMaps
    <2>1. PICK p \in DOMAIN rows : r = rows[p]
        OBVIOUS
    <2>2. p \in Copies({b}) /\ rows[p] \in EntryRow /\ rows[p].map = DiffAt(p).map
        BY <1>2, CopiesAreOfTheirMaps
    <2> QED
        BY <2>1, <2>2, PlainMapsAreNotCopied
<1>4. LastOfEntry(rows) \subseteq written(rows)
    BY DEF LastOfEntry
<1> DEFINE last == LastOfEntry(rows)
           all == written(rows)
<1>5. u.contents = last \union {r \in t.contents : ~\E q \in last : SameEntry(r, q) /\ r.fork = q.fork}
      /\ u.history = t.history \union all
    BY <1>1 DEF Upserted
<1>6. u = [contents |-> u.contents, history |-> u.history]
    BY <1>1
<1>7. last \subseteq all /\ \A r \in all : r \in EntryRow /\ r.map \notin PlainMaps
    BY <1>3, <1>4
<1> HIDE DEF last, all
<1>8. u.contents \subseteq EntryRow /\ u.history \subseteq EntryRow
    BY <1>2, <1>5, <1>7
<1>9. u \in EntryTables
    BY <1>6, <1>8 DEF EntryTables
<1>10. SamePlainRows(u.contents, t.contents)
    BY <1>5, <1>7 DEF SamePlainRows, SameEntry
<1>11. SamePlainRows(u.history, t.history)
    BY <1>5, <1>7 DEF SamePlainRows
<1> QED
    BY <1>9, <1>10, <1>11

\* The equation of the function that Copied defines level by level.
IsCopying(after, S, start, lo, n) ==
    after = [l \in lo - 1 .. lo + n - 1 |->
                IF l < lo THEN start
                ELSE UNION {AfterCopies(t, BlockAt(S, l)) : t \in after[l - 1]}]

\* There is such a function.
LEMMA CopyingExists ==
    ASSUME NEW S, NEW start \in SUBSET EntryTables, NEW lo \in Int, NEW n \in Nat,
           \A l \in lo .. lo + n - 1 : BlockAt(S, l) \in Block
    PROVE  \E after : IsCopying(after, S, start, lo, n)
<1> DEFINE V == SUBSET EntryTables
           base == lo - 1
           I == base + 1 .. base + n
           next(T, l) == UNION {AfterCopies(t, BlockAt(S, l)) : t \in T}
           F == [x \in V \X I |-> next(x[1], x[2])]
<1>1. \A l \in lo - 1 .. lo + n - 1 : l = lo - 1 \/ (l \in I /\ l - 1 \in lo - 1 .. lo + n - 1 /\ ~(l < lo))
    OBVIOUS
<1>2. ASSUME NEW x \in V \X I PROVE next(x[1], x[2]) \in V
    <2>1. BlockAt(S, x[2]) \in Block
        OBVIOUS
    <2>2. \A t \in x[1] : AfterCopies(t, BlockAt(S, x[2])) \subseteq EntryTables
        BY <2>1, CopiesOfABlock
    <2> QED
        BY <2>2
<1>3. F \in [V \X I -> V] /\ base \in Int /\ start \in V
    BY <1>2
<1> HIDE DEF V, F, next
<1>4. PICK f \in [base .. base + n -> V] : Iterates(f, F, start, base, n)
    <2> HIDE DEF base
    <2> QED
        BY <1>3, RecursionExists
<1>5. \A l \in lo - 1 .. lo + n - 1 : f[l] = IF l < lo THEN start ELSE next(f[l - 1], l)
    <2>1. f[lo - 1] = IF lo - 1 < lo THEN start ELSE next(f[lo - 1 - 1], lo - 1)
        BY <1>4 DEF Iterates
    <2>2. ASSUME NEW l \in I, l - 1 \in lo - 1 .. lo + n - 1 PROVE f[l] = next(f[l - 1], l)
        <3>1. f[l - 1] \in V
            BY <1>4, <2>2
        <3> QED
            BY <1>4, <3>1 DEF F, Iterates
    <2> QED
        BY <1>1, <2>1, <2>2
<1>6. lo - 1 + n = lo + n - 1 /\ f = [l \in lo - 1 .. lo - 1 + n |-> f[l]]
    BY <1>4
<1>7. f = [l \in lo - 1 .. lo + n - 1 |-> IF l < lo THEN start ELSE next(f[l - 1], l)]
    BY <1>5, <1>6
<1>8. IsCopying(f, S, start, lo, n)
    BY <1>7 DEF IsCopying, next
<1> QED
    BY <1>8

LowestOf(S) == CHOOSE l \in {Level(b) : b \in S} : \A b \in S : l <= Level(b)

LeadsToCopied(after, S, table, past, lo, n) ==
    /\ IsCopying(after, S, {[contents |-> table, history |-> past]}, lo, n)
    /\ Copied(S, table, past) = after[lo + n - 1]

\* Copied is the last value of that function.
LEMMA CopiedIsTheLast ==
    ASSUME NEW S, NEW table \in SUBSET EntryRow, NEW past \in SUBSET EntryRow,
           NEW lo \in Int, NEW n \in Nat, lo = LowestOf(S), n = Cardinality(S),
           \A l \in lo .. lo + n - 1 : BlockAt(S, l) \in Block
    PROVE  \E after : LeadsToCopied(after, S, table, past, lo, n)
<1> DEFINE start == {[contents |-> table, history |-> past]}
           after == CHOOSE f : IsCopying(f, S, start, lo, n)
<1>1. IsCopying(after, S, start, lo, n)
    <2>1. start \in SUBSET EntryTables
        BY DEF EntryTables
    <2>2. \E f : IsCopying(f, S, start, lo, n)
        <3> HIDE DEF start
        <3> QED
            BY <2>1, CopyingExists
    <2> QED
        BY <2>2
<1>2. Copied(S, table, past) = after[lo + n - 1]
    BY DEF Copied, IsCopying, LowestOf
<1> HIDE DEF after
<1> QED
    BY <1>1, <1>2 DEF LeadsToCopied

\* The copies of a page leave plain maps alone.
LEMMA CopiesOfAPage ==
    ASSUME NEW b \in Block, NEW lo \in Nat, NEW hi \in Nat, lo <= hi, hi <= Level(b),
           NEW table \in SUBSET EntryRow, NEW past \in SUBSET EntryRow,
           NEW u \in Copied(Segment(b, lo, hi), table, past)
    PROVE  /\ u \in EntryTables
           /\ SamePlainRows(u.contents, table) /\ SamePlainRows(u.history, past)
<1> DEFINE S == Segment(b, lo, hi)
           n == Cardinality(S)
<1>1. /\ S \subseteq Block
      /\ \A c \in S : Level(c) \in lo..hi /\ c = AncestorAt(b, Level(c))
      /\ \A l \in lo..hi : AncestorAt(b, l) \in S /\ Level(AncestorAt(b, l)) = l
    BY SegmentLevels
<1> HIDE DEF S
<1>2. LowestOf(S) = lo
    <2>1. lo \in {Level(c) : c \in S}
        BY <1>1
    <2>2. \A c \in S : lo <= Level(c)
        BY <1>1
    <2>3. \A l \in {Level(c) : c \in S} : (\A c \in S : l <= Level(c)) => l = lo
        BY <1>1
    <2> QED
        BY <2>1, <2>2, <2>3 DEF LowestOf
<1>3. n \in Nat /\ n <= hi - lo + 1
    <2> DEFINE I == [c \in S |-> Level(c)]
    <2>1. IsFiniteSet(lo..hi) /\ Cardinality(lo..hi) = hi - lo + 1
        BY FS_Interval
    <2>2. I \in Injection(S, lo..hi)
        BY <1>1 DEF Injection, IsInjective
    <2>3. IsFiniteSet(S) /\ n <= Cardinality(lo..hi)
        <3> HIDE DEF I
        <3> QED
            BY <2>1, <2>2, FS_Injection
    <2> QED
        BY <2>1, <2>3, FS_CardinalityType
<1>4. ASSUME NEW l \in lo .. lo + n - 1 PROVE BlockAt(S, l) \in Block
    <2>1. l \in lo..hi
        BY <1>3
    <2>2. AncestorAt(b, l) \in S /\ Level(AncestorAt(b, l)) = l
        BY <1>1, <2>1
    <2>3. BlockAt(S, l) \in S
        BY <2>2 DEF BlockAt
    <2> QED
        BY <1>1, <2>3
<1>5. PICK after : LeadsToCopied(after, S, table, past, lo, n)
    <2>1. lo = LowestOf(S) /\ lo \in Int /\ n \in Nat /\ n = Cardinality(S)
        BY <1>2, <1>3
    <2> HIDE DEF n
    <2> QED
        BY <1>4, <2>1, CopiedIsTheLast
<1> HIDE DEF n
<1> DEFINE Good(t) == /\ t \in EntryTables
                      /\ SamePlainRows(t.contents, table) /\ SamePlainRows(t.history, past)
           good == {k \in 0..n : \A t \in after[lo + k - 1] : Good(t)}
<1>6. 0 \in good
    <2>1. lo - 1 \in lo - 1 .. lo + n - 1 /\ lo - 1 < lo /\ lo + 0 - 1 = lo - 1 /\ 0 \in 0..n
        BY <1>3
    <2>2. after[lo - 1] = {[contents |-> table, history |-> past]}
        BY <1>5, <2>1 DEF IsCopying, LeadsToCopied
    <2>3. Good([contents |-> table, history |-> past])
        BY DEF EntryTables, SamePlainRows
    <2> HIDE DEF Good
    <2> QED
        BY <2>1, <2>2, <2>3
<1>7. ASSUME NEW k \in 1..n, k - 1 \in good PROVE k \in good
    <2> DEFINE l == lo + k - 1
    <2>1. l \in lo - 1 .. lo + n - 1 /\ ~(l < lo) /\ l \in lo .. lo + n - 1 /\ lo + (k - 1) - 1 = l - 1
          /\ k \in 0..n
        BY <1>3
    <2>2. \A t \in after[l - 1] : Good(t)
        <3> HIDE DEF Good, l
        <3> QED
            BY <1>7, <2>1
    <2> HIDE DEF l
    <2>3. after[l] = UNION {AfterCopies(t, BlockAt(S, l)) : t \in after[l - 1]}
        BY <1>5, <2>1 DEF IsCopying, LeadsToCopied
    <2>4. ASSUME NEW v \in after[l] PROVE Good(v)
        <3>1. PICK t \in after[l - 1] : v \in AfterCopies(t, BlockAt(S, l))
            BY <2>3
        <3>2. t \in EntryTables /\ SamePlainRows(t.contents, table) /\ SamePlainRows(t.history, past)
            BY <2>2
        <3>3. v \in EntryTables
              /\ SamePlainRows(v.contents, t.contents) /\ SamePlainRows(v.history, t.history)
            BY <1>4, <2>1, <3>1, <3>2, CopiesOfABlock
        <3> QED
            BY <3>2, <3>3 DEF SamePlainRows
    <2> HIDE DEF Good
    <2> QED
        BY <2>1, <2>4 DEF l
<1>8. \A t \in after[lo + n - 1] : Good(t)
    <2>1. n \in 0..n
        BY <1>3
    <2>2. n \in good
        <3> HIDE DEF good
        <3> QED
            BY <1>3, <1>6, <1>7, <2>1, BoundedInduction
    <2> HIDE DEF Good
    <2> QED
        BY <2>2
<1>9. u \in after[lo + n - 1]
    BY <1>5 DEF S, LeadsToCopied
<1> QED
    BY <1>8, <1>9

--------------------------------------------------------------------------
(* Rows *)

\* The bounds of a page.
LEMMA PageIsSegment ==
    ASSUME PagesControl, PageIsDue, target \in Block
    PROVE  \E hi \in Nat : /\ MaxIndexed + 1 \in Nat /\ MaxIndexed + 1 <= hi /\ hi <= Level(target)
                           /\ Page = Segment(target, MaxIndexed + 1, hi)
<1> DEFINE hi == Smaller(MaxIndexed + PageSize, Level(target))
<1>1. MaxIndexed \in -1..MaxLevel /\ Level(target) \in 0..MaxLevel /\ PageSize \in Nat \ {0}
      /\ MaxLevel \in Nat /\ MaxIndexed < Level(target)
    BY PagesMaxIndexed, BlockIsSeq, PagesAssumption, ChainAssumption DEF PagesControl, PageIsDue
<1>2. hi \in Nat /\ MaxIndexed + 1 <= hi /\ hi <= Level(target) /\ MaxIndexed + 1 \in Nat
    BY <1>1 DEF Smaller
<1>3. Page = Segment(target, MaxIndexed + 1, hi)
    BY DEF Page
<1> HIDE DEF hi
<1> QED
    BY <1>2, <1>3

\* The row of an update is valid and names its place.
LEMMA UpdateRow ==
    ASSUME NEW S \in SUBSET Block, NEW r \in UpdateRows(S)
    PROVE  /\ r \in EntryRow /\ r.fork = Main
           /\ r.at \in Updates(S) /\ r = ContentRow(r.at) /\ r.at[1] \in S
<1>1. PICK p \in Updates(S) : r = ContentRow(p)
    BY DEF UpdateRows
<1>2. p \in Block \X Nat \X Nat /\ DiffAt(p) \in Diff /\ p[1] \in S
    BY PlaceType, PlaceOfItsBlock DEF Updates
<1>3. r = [map |-> DiffAt(p).map, key |-> DiffAt(p).key, at |-> p, fork |-> Main]
    BY <1>1 DEF ContentRow
<1>4. DiffAt(p).map \in MapId /\ DiffAt(p).key \in Key /\ Main \in Nat
    BY <1>2, PagesAssumption DEF Diff, Main
<1>5. r.at = p /\ r.fork = Main /\ r \in EntryRow
    BY <1>2, <1>3, <1>4 DEF EntryRow
<1> QED
    BY <1>1, <1>2, <1>5

\* A row of an update is one for any blocks with that of its place.
LEMMA UpdateRowOfItsBlock ==
    ASSUME NEW S \in SUBSET Block, NEW T, NEW r \in UpdateRows(S), r.at[1] \in T
    PROVE  r \in UpdateRows(T)
<1>1. r.at \in Updates(S) /\ r = ContentRow(r.at)
    BY UpdateRow
<1>2. r.at \in Updates(T)
    BY <1>1, PlaceOfItsBlock DEF Updates
<1> QED
    BY <1>1, <1>2 DEF UpdateRows

\* More blocks, more updates.
LEMMA UpdateRowsOfMore ==
    ASSUME NEW S \in SUBSET Block, NEW T \in SUBSET Block
    PROVE  UpdateRows(S \union T) = UpdateRows(S) \union UpdateRows(T)
<1>1. ASSUME NEW r \in UpdateRows(S \union T) PROVE r \in UpdateRows(S) \union UpdateRows(T)
    <2>1. r.at[1] \in S \union T
        BY UpdateRow
    <2> QED
        BY <2>1, UpdateRowOfItsBlock
<1>2. ASSUME NEW r \in UpdateRows(S) PROVE r \in UpdateRows(S \union T)
    <2>1. r.at[1] \in S
        BY UpdateRow
    <2> QED
        BY <2>1, UpdateRowOfItsBlock
<1>3. ASSUME NEW r \in UpdateRows(T) PROVE r \in UpdateRows(S \union T)
    <2>1. r.at[1] \in T
        BY UpdateRow
    <2> QED
        BY <2>1, UpdateRowOfItsBlock
<1> QED
    BY <1>1, <1>2, <1>3

\* An amendment leaves the types of the rows, and valid the rows below its level.
LEMMA InvalidatedMaps ==
    ASSUME NEW table \in SUBSET Row, NEW level, NEW fork \in Nat \ {0}
    PROVE  Invalidated(table, level, fork) \subseteq Row
<1> SUFFICES ASSUME NEW r \in Invalidated(table, level, fork) PROVE r \in Row
    OBVIOUS
<1>1. PICK q \in table :
        r = IF q.fork = Main /\ Level(q.at[1]) >= level THEN [q EXCEPT !.fork = fork] ELSE q
    BY DEF Invalidated
<1>2. q \in Row /\ fork \in Nat
    BY PagesAssumption
<1> QED
    BY <1>1, <1>2 DEF Row

LEMMA InvalidatedEntries ==
    ASSUME NEW table \in SUBSET EntryRow, NEW level \in Nat, NEW fork \in Nat \ {0}
    PROVE  /\ Invalidated(table, level, fork) \subseteq EntryRow
           /\ \A r : r.fork = Main =>
                (r \in Invalidated(table, level, fork) <=> r \in table /\ Level(r.at[1]) < level)
<1> DEFINE new == Invalidated(table, level, fork)
<1>1. \A q \in table : q \in EntryRow /\ Level(q.at[1]) \in Nat
    <2> SUFFICES ASSUME NEW q \in table PROVE q \in EntryRow /\ Level(q.at[1]) \in Nat
        OBVIOUS
    <2>1. q \in EntryRow /\ q.at[1] \in Block
        BY DEF EntryRow
    <2> QED
        BY <2>1, BlockIsSeq, ChainAssumption
<1>2. fork \in Nat /\ fork # Main
    BY PagesAssumption DEF Main
<1>3. ASSUME NEW r \in new
      PROVE  r \in EntryRow /\ (r.fork = Main => r \in table /\ Level(r.at[1]) < level)
    <2>1. PICK q \in table :
            r = IF q.fork = Main /\ Level(q.at[1]) >= level THEN [q EXCEPT !.fork = fork] ELSE q
        BY DEF Invalidated
    <2>2. CASE q.fork = Main /\ Level(q.at[1]) >= level
        <3>1. r = [q EXCEPT !.fork = fork] /\ q \in EntryRow
            BY <1>1, <2>1, <2>2
        <3>2. r \in EntryRow /\ r.fork = fork
            BY <1>2, <3>1 DEF EntryRow
        <3> QED
            BY <1>2, <3>2
    <2>3. CASE ~(q.fork = Main /\ Level(q.at[1]) >= level)
        <3>1. r = q /\ q \in table
            BY <2>1, <2>3
        <3>2. q.fork = Main => Level(q.at[1]) < level
            BY <1>1, <2>3
        <3> QED
            BY <1>1, <3>1, <3>2
    <2> QED
        BY <2>2, <2>3
<1>4. ASSUME NEW r \in table, r.fork = Main, Level(r.at[1]) < level
      PROVE  r \in new
    <2>1. ~(Level(r.at[1]) >= level)
        BY <1>1, <1>4
    <2>2. r = IF r.fork = Main /\ Level(r.at[1]) >= level THEN [r EXCEPT !.fork = fork] ELSE r
        BY <2>1
    <2> QED
        BY <2>2 DEF Invalidated
<1> HIDE DEF new
<1>5. new \subseteq EntryRow
    BY <1>3
<1>6. \A r : r.fork = Main => (r \in new <=> r \in table /\ Level(r.at[1]) < level)
    BY <1>3, <1>4
<1> QED
    BY <1>5, <1>6 DEF new

\* What a page writes, up to copies.
LEMMA EntriesOfThePage ==
    ASSUME PagesInv, PagesTypeOK, StorePage
    PROVE  \E t \in EntryTables :
            /\ contents' = Kept(t.contents, RemovedIds(Page)) /\ history' = t.history
            /\ SamePlainRows(t.contents, Upserted(contents, Newest(UpdateRows(Page))))
            /\ SamePlainRows(t.history, history \union UpdateRows(Page))
<1> DEFINE table == Upserted(contents, Newest(UpdateRows(Page)))
           past == history \union UpdateRows(Page)
<1>1. PagesControl /\ PageIsDue /\ target \in Block
    BY DEF StorePage, PageIsDue, TargetIsABlock, PagesInv
<1>2. Page \subseteq Block
    BY <1>1, PageBlocks
<1>3. UpdateRows(Page) \subseteq EntryRow
    BY <1>2, UpdateRow
<1>4. table \in SUBSET EntryRow /\ past \in SUBSET EntryRow
    BY <1>3 DEF PagesTypeOK, Upserted, Newest
<1>5. PICK t \in Copied(Page, table, past) :
        contents' = Kept(t.contents, RemovedIds(Page)) /\ history' = t.history
    BY DEF StorePage, SaveBigMaps
<1> HIDE DEF table, past
<1>6. PICK hi \in Nat : /\ MaxIndexed + 1 \in Nat /\ MaxIndexed + 1 <= hi /\ hi <= Level(target)
                       /\ Page = Segment(target, MaxIndexed + 1, hi)
    BY <1>1, PageIsSegment
<1>7. t \in EntryTables /\ SamePlainRows(t.contents, table) /\ SamePlainRows(t.history, past)
    <2> DEFINE lo == MaxIndexed + 1
    <2>1. lo \in Nat /\ lo <= hi /\ t \in Copied(Segment(target, lo, hi), table, past)
        BY <1>5, <1>6
    <2> HIDE DEF lo
    <2> QED
        BY <1>1, <1>4, <1>6, <2>1, CopiesOfAPage
<1> QED
    BY <1>5, <1>7 DEF table, past

--------------------------------------------------------------------------
(* Types *)

\* A step that finds a fork amends it from some level on.
LEMMA ForkIsAmended ==
    ASSUME PagesInv, ForkDetected
    PROVE  \E level \in Nat : AmendFork(level)
<1>1. PICK b \in Orphaned(blocks, head) : AmendFork(Level(b))
    BY DEF ForkDetected
<1>2. Level(b) \in Nat
    BY LevelsAreNumbers DEF Orphaned, PagesInv, PagesControl
<1> QED
    BY <1>1, <1>2

\* As long as the node keeps to its branch no block is orphaned.
LEMMA NothingOrphaned ==
    ASSUME PagesTypeInv, reorgs = 0
    PROVE  Orphaned(blocks, head) = {}
BY DEF PagesTypeInv, OneBranch, Orphaned

\* What an amendment leaves.
LEMMA AmendedTypes ==
    ASSUME PagesInv, PagesTypeOK, NEW level \in Nat, AmendFork(level)
    PROVE  /\ forks + 1 \in Nat \ {0} /\ forks' = forks + 1
           /\ blocks' \subseteq blocks
           /\ maps' \subseteq Row /\ contents' \subseteq EntryRow /\ history' \subseteq EntryRow
           /\ balances' \subseteq [token : Token, account : Key, block : Block]
<1> USE DEF PagesTypeOK
<1>1. forks + 1 \in Nat \ {0} /\ forks' = forks + 1
    BY DEF AmendFork
<1>2. blocks' \subseteq blocks
    BY AmendForkPreserves
<1>3. maps' \subseteq Row
    <2>1. maps' = Invalidated(maps, level, forks + 1)
        BY DEF AmendFork, InvalidateBigMaps
    <2> QED
        BY <1>1, <2>1, InvalidatedMaps
<1>4. contents' \subseteq EntryRow /\ history' \subseteq EntryRow
    <2>1. /\ contents' = Invalidated(contents, level, forks + 1)
          /\ history' = Invalidated(history, level, forks + 1)
        BY DEF AmendFork, InvalidateBigMaps
    <2> QED
        BY <1>1, <2>1, InvalidatedEntries
<1>5. balances' \subseteq [token : Token, account : Key, block : Block]
    BY DEF AmendFork, InvalidateBalances
<1> QED
    BY <1>1, <1>2, <1>3, <1>4, <1>5

\* What a page identifies is the registrar's maps, or nothing.
LEMMA FoundOfThePage ==
    ASSUME NEW S, NEW rows, NEW found \in FoundTnsMaps(S, rows)
    PROVE  found = MapsOf(S, Registrar) \/ found = {}
<1> QED
    BY DEF FoundTnsMaps

\* The maps of a contract, the balances and the names of a page have their types.
LEMMA ReadTypes ==
    ASSUME NEW S \in SUBSET Block
    PROVE  /\ \A c : MapsOf(S, c) \subseteq MapId
           /\ BalanceRows(S) \subseteq [token : Token, account : Key, block : Block]
           /\ NameRows(S) \subseteq [name : Name, block : Block]
<1>1. ASSUME NEW c, NEW m \in MapsOf(S, c) PROVE m \in MapId
    <2>1. PICK p \in Allocations(S) : m = DiffAt(p).map
        BY <1>1 DEF MapsOf
    <2>2. DiffAt(p) \in Diff
        BY PlaceType DEF Allocations
    <2> QED
        BY <2>1, <2>2 DEF Diff
<1>2. ASSUME NEW r \in BalanceRows(S) PROVE r \in [token : Token, account : Key, block : Block]
    <2>1. PICK p \in Updates(S) :
            /\ r = [token |-> OpAt(p).contract, account |-> DiffAt(p).key, block |-> p[1]]
            /\ OpAt(p).contract \in Token
        BY DEF BalanceRows
    <2>2. DiffAt(p) \in Diff /\ p[1] \in Block
        BY PlaceType, PlaceOfItsBlock DEF Updates
    <2> QED
        BY <2>1, <2>2 DEF Diff
<1>3. ASSUME NEW r \in NameRows(S) PROVE r \in [name : Name, block : Block]
    <2>1. PICK b \in S : r \in {[name |-> Operations[b][i].name, block |-> b] : i \in Registrations(b)}
        BY DEF NameRows
    <2>2. PICK i \in Registrations(b) : r = [name |-> Operations[b][i].name, block |-> b]
        BY <2>1
    <2>3. i \in DOMAIN Operations[b] /\ Operations[b][i].name # NoName
        BY DEF Registrations, CallsOf, OpsOf
    <2>4. Operations[b] \in Seq(Operation)
        BY OperationsAssumption
    <2>5. Operations[b][i] \in Operation
        BY <2>3, <2>4
    <2>6. Operations[b][i].name \in Name
        BY <2>3, <2>5 DEF Operation
    <2> QED
        BY <2>2, <2>6
<1> QED
    BY <1>1, <1>2, <1>3

LEMMA StorePageTypes ==
    ASSUME PagesInv, PagesTypeInv, StorePage
    PROVE  PagesTypeInv'
<1> USE DEF PagesTypeInv, PagesTypeOK
<1>1. PagesControl /\ PageIsDue /\ target \in Block
    BY DEF StorePage, PageIsDue, TargetIsABlock, PagesInv
<1>2. Page \subseteq Block /\ \A b \in Page : Extends(target, b)
    BY <1>1, PageBlocks
<1>3. /\ \A c : MapsOf(Page, c) \subseteq MapId
      /\ BalanceRows(Page) \subseteq [token : Token, account : Key, block : Block]
    BY <1>2, ReadTypes
<1>4. PICK t \in EntryTables :
        contents' = Kept(t.contents, RemovedIds(Page)) /\ history' = t.history
    BY EntriesOfThePage
<1>5. contents' \subseteq EntryRow /\ history' \subseteq EntryRow
    BY <1>4 DEF EntryTables, Kept
<1>6. maps' \subseteq Row
    <2>1. ASSUME NEW p \in Allocations(Page) PROVE MapRow(p) \in Row
        <3>1. p \in Block \X Nat \X Nat /\ DiffAt(p) \in Diff /\ Main \in Nat
            BY <1>2, PlaceType, PagesAssumption DEF Allocations, Main
        <3> QED
            BY <3>1 DEF MapRow, Diff, Row
    <2>2. \A r \in maps' : r \in maps \/ \E p \in Allocations(Page) : r = MapRow(p)
        BY DEF StorePage, SaveBigMaps, Kept, MapRows
    <2> QED
        BY <2>1, <2>2
<1>7. balances' \subseteq [token : Token, account : Key, block : Block] /\ tnsMaps' \subseteq MapId
    <2>1. PICK found \in FoundTnsMaps(Page, maps) : tnsMaps' = IdentifiedTnsMaps(found)
        BY DEF StorePage
    <2>2. found \subseteq MapId
        BY <1>3, FoundOfThePage
    <2> QED
        BY <1>3, <2>1, <2>2 DEF StorePage, SaveBalances, IdentifiedTnsMaps
<1>8. /\ blocks' = blocks \union Page /\ page' = Page /\ pc' = "names"
      /\ UNCHANGED <<head, reorgs, unread, forks, names, target, failures>>
    BY DEF StorePage, nodeVars
<1>9. PagesTypeOK'
    BY <1>2, <1>5, <1>6, <1>7, <1>8
<1>10. OneBranch'
    <2> SUFFICES ASSUME reorgs = 0
                 PROVE  /\ \A b \in blocks' : Extends(head, b)
                        /\ Extends(head, target)
                        /\ \A r \in maps' : r.fork = Main
        BY <1>8 DEF OneBranch
    <2>1. /\ \A b \in blocks : Extends(head, b)
          /\ Extends(head, target)
          /\ \A r \in maps : r.fork = Main
        BY <1>1, ChainAssumption DEF OneBranch
    <2>2. \A b \in Page : Extends(head, b)
        BY <1>1, <1>2, <2>1, ExtendsIsTransitive
    <2>3. \A r \in maps' : r \in maps \/ \E p \in Allocations(Page) : r = MapRow(p)
        BY DEF StorePage, SaveBigMaps, Kept, MapRows
    <2> QED
        BY <1>8, <2>1, <2>2, <2>3 DEF MapRow
<1>11. NamesAreDue'
    BY <1>8 DEF NamesAreDue
<1> QED
    BY <1>9, <1>10, <1>11

LEMMA PagesTypeInit == Init => PagesTypeInv
<1> SUFFICES ASSUME Init PROVE PagesTypeInv
    OBVIOUS
<1> QED
    BY PagesAssumption
    DEF Init, PagesTypeInv, PagesTypeOK, OneBranch, NamesAreDue

LEMMA PagesTypeNext == PagesInv /\ PagesTypeInv /\ [Next]_vars => PagesTypeInv'
<1> SUFFICES ASSUME PagesInv, PagesTypeInv, [Next]_vars PROVE PagesTypeInv'
    OBVIOUS
<1> USE DEF PagesTypeInv
\* A step of the node leaves the tables, and its new head is on the old chain or a switch.
<1>1. CASE Advance
    <2>1. PICK b \in Block : Extends(b, head) /\ head' = b
        BY <1>1 DEF Advance
    <2>2. OneBranch'
        <3>1. UNCHANGED <<reorgs, blocks, target, maps>>
            BY <1>1 DEF Advance, tableVars
        <3>2. \A c \in Block : Extends(head, c) => Extends(b, c)
            BY <2>1, ExtendsIsTransitive DEF PagesTypeOK
        <3> QED
            BY <2>1, <3>1, <3>2 DEF OneBranch, PagesTypeOK
    <2>3. PagesTypeOK' /\ NamesAreDue'
        BY <1>1, <2>1 DEF Advance, tableVars, mapVars, PagesTypeOK, NamesAreDue
    <2> QED
        BY <2>2, <2>3
<1>2. CASE Reorganise
    <2>1. reorgs' \in 0..MaxReorgs /\ reorgs' # 0
        BY <1>2, PagesAssumption DEF Reorganise, PagesTypeOK
    <2>2. OneBranch'
        BY <2>1 DEF OneBranch
    <2>3. PagesTypeOK' /\ NamesAreDue'
        BY <1>2, <2>1 DEF Reorganise, tableVars, mapVars, PagesTypeOK, NamesAreDue
    <2> QED
        BY <2>2, <2>3
<1>3. CASE NoFork
    BY <1>3 DEF NoFork, nodeVars, tableVars, mapVars, PagesTypeOK, OneBranch, NamesAreDue
<1>4. CASE ForkDetected
    <2>1. /\ UNCHANGED <<head, reorgs, unread, tnsMaps, target, failures>>
          /\ pc' = "fetchHead" /\ page' = page /\ page = {}
        BY <1>4 DEF ForkDetected, nodeVars, NamesAreDue
    <2>2. PICK level \in Nat : AmendFork(level)
        BY <1>4, ForkIsAmended
    <2>3. /\ forks' \in Nat
          /\ blocks' \subseteq blocks
          /\ maps' \subseteq Row /\ contents' \subseteq EntryRow /\ history' \subseteq EntryRow
          /\ balances' \subseteq [token : Token, account : Key, block : Block]
        BY <2>2, AmendedTypes
    <2>4. names' = names
        BY <2>2 DEF AmendFork
    <2>5. PagesTypeOK' /\ NamesAreDue'
        BY <2>1, <2>3, <2>4 DEF PagesTypeOK, NamesAreDue
    <2>6. reorgs # 0
        BY <1>4 DEF ForkDetected, Orphaned, OneBranch
    <2>7. OneBranch'
        BY <2>1, <2>6 DEF OneBranch
    <2> QED
        BY <2>5, <2>7
<1>5. CASE FetchHead
    <2>1. Extends(head, head)
        BY OwnAncestor, BlockIsSeq, ChainAssumption DEF Extends, PagesTypeOK
    <2> QED
        BY <1>5, <2>1
        DEF FetchHead, nodeVars, tableVars, mapVars, PagesTypeOK, OneBranch, NamesAreDue
<1>6. CASE StorePage
    BY <1>6, StorePageTypes
<1>7. CASE ProcessNames
    <2>1. NameRows(page) \subseteq [name : Name, block : Block]
        BY ReadTypes DEF PagesTypeOK
    <2>2. PICK rows \in SUBSET NameRows(page) :
            /\ names' = rows \union {n \in names : ~\E m \in rows : m.name = n.name}
            /\ unread' = unread \union (NameRows(page) \ rows)
        BY <1>7 DEF ProcessNames, SaveNames
    <2>3. /\ names' \subseteq [name : Name, block : Block]
          /\ unread' \subseteq [name : Name, block : Block]
        BY <2>1, <2>2 DEF PagesTypeOK
    <2> QED
        BY <1>7, <2>3 DEF ProcessNames, mapVars, PagesTypeOK, OneBranch, NamesAreDue
<1>8. CASE PageFails
    <2>1. PageIsDue /\ target \in Block
        BY <1>8 DEF PageFails, PageIsDue, TargetIsABlock, PagesInv
    <2>2. Page \subseteq Block
        BY <2>1, PageBlocks DEF PagesInv
    <2>3. tnsMaps' \subseteq MapId
        <3>1. \A found \in FoundTnsMaps(Page, maps) : found \subseteq MapId
            BY <2>2, ReadTypes, FoundOfThePage
        <3> QED
            BY <1>8, <3>1 DEF PageFails, IdentifiedTnsMaps, PagesTypeOK
    <2>4. failures' \in 0..MaxFailures
        BY <1>8, PagesAssumption DEF PageFails, CountFailure, PagesTypeOK
    <2> QED
        BY <1>8, <2>3, <2>4 DEF PageFails, CountFailure, nodeVars, tableVars, mapVars, PagesTypeOK,
                                OneBranch, NamesAreDue
<1>9. CASE NamesFail \/ Restart
    <2>1. tnsMaps' \subseteq MapId /\ failures' \in 0..MaxFailures
        BY <1>9, PagesAssumption DEF NamesFail, Restart, CountFailure, PagesTypeOK
    <2> QED
        BY <1>9, <2>1 DEF NamesFail, Restart, CountFailure, nodeVars, tableVars, mapVars, PagesTypeOK,
                          OneBranch, NamesAreDue
<1>10. CASE PageWaits
    BY <1>10 DEF PageWaits, PageIsDue, nodeVars, tableVars, mapVars, PagesTypeOK, OneBranch,
                 NamesAreDue
<1>11. CASE PageRefused
    BY <1>11 DEF PageRefused, PageIsDue, nodeVars, tableVars, mapVars, PagesTypeOK, OneBranch,
                 NamesAreDue
<1>12. CASE EndIteration
    BY <1>12 DEF EndIteration, nodeVars, tableVars, mapVars, PagesTypeOK, OneBranch, NamesAreDue
<1>13. CASE UNCHANGED vars
    BY <1>13 DEF vars, nodeVars, tableVars, mapVars, PagesTypeOK, OneBranch, NamesAreDue
<1> QED
    BY <1>1, <1>2, <1>3, <1>4, <1>5, <1>6, <1>7, <1>8, <1>9, <1>10, <1>11, <1>12, <1>13
    DEF Next, Loop

LEMMA PagesTypeInvariant == Spec => []PagesTypeInv
<1> QED
    BY PagesInvariant, PagesTypeInit, PagesTypeNext, PTL DEF Spec

\* Type correctness, with the names under way of valid blocks and the rows of copies,
\* whatever their sources, of the columns of the tables.
THEOREM PagesTypeCorrect == Spec => []PagesTypeOK
<1>1. PagesTypeInv => PagesTypeOK
    BY DEF PagesTypeInv
<1> QED
    BY PagesTypeInvariant, <1>1, PTL

--------------------------------------------------------------------------
(* The history of a map *)

\* What the blocks below a level update is what all update below it.
LEMMA UpdateRowsBelow ==
    ASSUME NEW S \in SUBSET Block, NEW level, NEW r
    PROVE  r \in UpdateRows({b \in S : Level(b) < level})
              <=> r \in UpdateRows(S) /\ Level(r.at[1]) < level
<1> DEFINE T == {b \in S : Level(b) < level}
<1>1. ASSUME r \in UpdateRows(T) PROVE r \in UpdateRows(S) /\ Level(r.at[1]) < level
    <2>1. T \in SUBSET Block
        OBVIOUS
    <2>2. r.at[1] \in T
        BY <1>1, <2>1, UpdateRow
    <2> QED
        BY <1>1, <2>1, <2>2, UpdateRowOfItsBlock
<1>2. ASSUME r \in UpdateRows(S), Level(r.at[1]) < level PROVE r \in UpdateRows(T)
    <2>1. r.at[1] \in T
        BY <1>2, UpdateRow
    <2> QED
        BY <1>2, <2>1, UpdateRowOfItsBlock
<1> QED
    BY <1>1, <1>2

\* Each step leaves, of a plain map, the updates of its blocks.
LEMMA HistoryOfAMap ==
    ASSUME PagesInv, PagesTypeInv, HistoryIsOfTheChain, [Next]_vars,
           NEW m \in PlainMaps, NEW r, r.map = m, r.fork = Main
    PROVE  r \in history' <=> r \in UpdateRows(blocks')
<1>1. r \in history <=> r \in UpdateRows(blocks)
    BY DEF HistoryIsOfTheChain, ValidRows
<1>2. blocks \subseteq Block /\ history \subseteq EntryRow
    BY DEF PagesTypeInv, PagesTypeOK
<1>3. CASE UNCHANGED <<blocks, history>>
    BY <1>1, <1>3
<1>4. CASE ForkDetected
    <2>1. PICK level \in Nat : AmendFork(level)
        BY <1>4, ForkIsAmended
    <2>2. forks + 1 \in Nat \ {0}
        BY <2>1, AmendedTypes DEF PagesTypeInv
    <2>3. history' = Invalidated(history, level, forks + 1)
        BY <2>1 DEF AmendFork, InvalidateBigMaps
    <2>4. r \in history' <=> r \in history /\ Level(r.at[1]) < level
        BY <1>2, <2>2, <2>3, InvalidatedEntries
    <2>5. blocks' = {b \in blocks : Level(b) < level}
        BY <2>1 DEF AmendFork
    <2>6. r \in UpdateRows({b \in blocks : Level(b) < level})
            <=> r \in UpdateRows(blocks) /\ Level(r.at[1]) < level
        BY <1>2, UpdateRowsBelow
    <2> QED
        BY <1>1, <2>4, <2>5, <2>6
<1>5. CASE StorePage
    <2>1. PagesControl /\ PageIsDue /\ target \in Block
        BY <1>5 DEF StorePage, PageIsDue, TargetIsABlock, PagesInv
    <2>2. Page \in SUBSET Block /\ blocks \in SUBSET Block
        BY <1>2, <2>1, PageBlocks
    <2>3. SamePlainRows(history', history \union UpdateRows(Page))
        BY <1>5, EntriesOfThePage DEF PagesTypeInv
    <2>4. r \in history' <=> r \in history \/ r \in UpdateRows(Page)
        BY <2>3 DEF SamePlainRows
    <2>5. UpdateRows(blocks \union Page) = UpdateRows(blocks) \union UpdateRows(Page)
        BY <2>2, UpdateRowsOfMore
    <2>6. blocks' = blocks \union Page
        BY <1>5 DEF StorePage
    <2> QED
        BY <1>1, <2>4, <2>5, <2>6
<1> QED
    BY <1>3, <1>4, <1>5
    DEF Next, Loop, Advance, Reorganise, NoFork, FetchHead, PageWaits, PageRefused, ProcessNames,
        EndIteration, PageFails, NamesFail, Restart, CountFailure, vars, tableVars, mapVars

LEMMA HistoryNext ==
    PagesInv /\ PagesTypeInv /\ HistoryIsOfTheChain /\ [Next]_vars => HistoryIsOfTheChain'
<1> SUFFICES ASSUME PagesInv, PagesTypeInv, HistoryIsOfTheChain, [Next]_vars, NEW m \in PlainMaps
             PROVE  ValidRows(history', m) = {r \in UpdateRows(blocks') : r.map = m}
    BY DEF HistoryIsOfTheChain, ValidRows
<1>1. \A r : r.map = m /\ r.fork = Main => (r \in history' <=> r \in UpdateRows(blocks'))
    BY HistoryOfAMap
<1>2. blocks' \in SUBSET Block
    BY PagesInvNext DEF PagesInv, PagesControl
<1>3. \A r \in UpdateRows(blocks') : r.fork = Main
    BY <1>2, UpdateRow
<1> QED
    BY <1>1, <1>3 DEF ValidRows

\* Whatever branches the node takes, and whatever else is copied or removed, the valid
\* rows of big_map_contents_history are, for a map that nothing is copied into, all the
\* updates of the valid blocks.
THEOREM HistoryKeepsToTheChain == Spec => []HistoryIsOfTheChain
<1>1. Init => HistoryIsOfTheChain
    <2> SUFFICES ASSUME Init PROVE HistoryIsOfTheChain
        OBVIOUS
    <2>1. UpdateRows({}) = {}
        BY DEF UpdateRows, Updates, Places
    <2> QED
        BY <2>1 DEF Init, HistoryIsOfTheChain, ValidRows
<1> QED
    BY <1>1, PagesInvariant, PagesTypeInvariant, HistoryNext, PTL DEF Spec

--------------------------------------------------------------------------
(* The contents of a map *)

\* The parts of a place are bounded by its block.
LEMMA PlaceIsBounded ==
    ASSUME NEW S \in SUBSET Block, NEW Ops, NEW action, NEW p \in Places(S, Ops, action)
    PROVE  /\ p[2] \in 0..Len(Operations[p[1]])
           /\ p[3] \in 0..Len(Operations[p[1]][p[2]].diffs)
           /\ Len(Operations[p[1]]) \in Nat /\ Len(Operations[p[1]][p[2]].diffs) \in Nat
<1>1. PICK b \in S : \E i \in OpsOf(b, Ops) : \E j \in DiffsOf(Operations[b][i], action) :
                        p = <<b, i, j>>
    BY PlaceHasParts
<1>2. PICK i \in OpsOf(b, Ops) : \E j \in DiffsOf(Operations[b][i], action) : p = <<b, i, j>>
    BY <1>1
<1>3. PICK j \in DiffsOf(Operations[b][i], action) : p = <<b, i, j>>
    BY <1>2
<1>4. Operations[b] \in Seq(Operation) /\ i \in DOMAIN Operations[b]
    BY OperationsAssumption DEF OpsOf
<1>5. i \in 1..Len(Operations[b]) /\ Len(Operations[b]) \in Nat /\ Operations[b][i] \in Operation
    BY <1>4
<1>6. Operations[b][i].diffs \in Seq(Diff) /\ j \in DOMAIN Operations[b][i].diffs
    BY <1>5 DEF Operation, DiffsOf
<1>7. j \in 1..Len(Operations[b][i].diffs) /\ Len(Operations[b][i].diffs) \in Nat
    BY <1>6
<1> QED
    BY <1>3, <1>5, <1>7

\* Among the places of the blocks of one chain there is a last one.
LEMMA LastPlace ==
    ASSUME NEW S \in SUBSET Block, \A b, c \in S : Level(b) = Level(c) => b = c,
           NEW Ops, NEW action, NEW X \in SUBSET Places(S, Ops, action), X # {}
    PROVE  \E p \in X : \A q \in X : ~Later(q, p)
<1>1. \A p \in X : /\ p \in Places(S, Ops, action) /\ p[1] \in S /\ p \in Block \X Nat \X Nat
                   /\ Level(p[1]) \in Nat /\ Level(p[1]) \in 0..MaxLevel /\ p[2] \in Nat /\ p[3] \in Nat
    BY PlaceType, PlaceOfItsBlock, BlockIsSeq, ChainAssumption
<1> DEFINE L == {Level(p[1]) : p \in X}
<1>2. PICK l \in L : \A x \in L : x <= l
    <2>1. L \in SUBSET (0..MaxLevel) /\ L # {} /\ MaxLevel \in Nat
        BY <1>1, ChainAssumption
    <2> HIDE DEF L
    <2> QED
        BY <2>1, GreatestNumber
<1>3. PICK p0 \in X : Level(p0[1]) = l
    BY <1>2
<1> DEFINE b == p0[1]
           X1 == {p \in X : p[1] = b}
           I == {p[2] : p \in X1}
<1>4. \A p \in X : p \in X1 \/ Level(p[1]) < l
    BY <1>1, <1>2, <1>3
<1>5. PICK i \in I : \A x \in I : x <= i
    <2>1. I \in SUBSET (0..Len(Operations[b])) /\ Len(Operations[b]) \in Nat
        BY <1>1, <1>3, PlaceIsBounded
    <2>2. p0[2] \in I
        BY <1>3
    <2> HIDE DEF I
    <2> QED
        BY <2>1, <2>2, GreatestNumber
<1>6. PICK p1 \in X1 : p1[2] = i
    BY <1>5
<1> DEFINE X2 == {p \in X1 : p[2] = i}
           J == {p[3] : p \in X2}
<1>7. \A p \in X1 : p \in X2 \/ p[2] < i
    BY <1>1, <1>5, <1>6
<1>8. PICK j \in J : \A x \in J : x <= j
    <2>1. \A p \in X2 : /\ p[3] \in 0..Len(Operations[b][i].diffs)
                        /\ Len(Operations[b][i].diffs) \in Nat
        <3> SUFFICES ASSUME NEW p \in X2
                     PROVE  /\ p[3] \in 0..Len(Operations[b][i].diffs)
                            /\ Len(Operations[b][i].diffs) \in Nat
            OBVIOUS
        <3>1. p \in Places(S, Ops, action) /\ p[1] = b /\ p[2] = i
            BY <1>1
        <3> HIDE DEF X1, X2, I, J, L, b
        <3> QED
            BY <3>1, PlaceIsBounded
    <2>2. J \in SUBSET (0..Len(Operations[b][i].diffs)) /\ Len(Operations[b][i].diffs) \in Nat
        <3>1. p1 \in X2
            BY <1>6
        <3> HIDE DEF X2
        <3> QED
            BY <2>1, <3>1
    <2>3. p1[3] \in J
        BY <1>6
    <2> HIDE DEF J
    <2> QED
        BY <2>2, <2>3, GreatestNumber
<1>9. PICK p2 \in X2 : p2[3] = j
    BY <1>8
<1>10. p2 \in X /\ p2[1] = b /\ p2[2] = i /\ Level(p2[1]) = l /\ p2[3] = j
       /\ l \in Nat /\ i \in Nat /\ j \in Nat
    BY <1>1, <1>3, <1>9
<1>11. \A q \in X2 : q[3] <= j /\ q[1] = b /\ q[2] = i
    BY <1>8
<1>12. ASSUME NEW q \in X, Later(q, p2) PROVE FALSE
    <2>1. Level(q[1]) \in Nat /\ q[2] \in Nat /\ q[3] \in Nat
        BY <1>1
    <2>2. CASE q \in X2
        <3>1. q[3] <= j /\ q[1] = b /\ q[2] = i
            BY <1>11, <2>2
        <3> HIDE DEF X1, X2, I, J, L, b
        <3> QED
            BY <1>10, <1>12, <2>1, <3>1 DEF Later
    <2>3. CASE q \in X1 /\ q[2] < i
        <3>1. q[1] = b
            BY <2>3
        <3> HIDE DEF X1, X2, I, J, L, b
        <3> QED
            BY <1>10, <1>12, <2>1, <2>3, <3>1 DEF Later
    <2>4. CASE Level(q[1]) < l
        <3> HIDE DEF X1, X2, I, J, L, b
        <3> QED
            BY <1>10, <1>12, <2>1, <2>4 DEF Later
    <2> QED
        BY <1>4, <1>7, <2>2, <2>3, <2>4
<1> QED
    BY <1>10, <1>12

\* Of the updates of an entry that a page has there is a last one.
LEMMA NewestExists ==
    ASSUME NEW S \in SUBSET Block, \A b, c \in S : Level(b) = Level(c) => b = c,
           NEW r \in UpdateRows(S)
    PROVE  \E q \in Newest(UpdateRows(S)) : SameEntry(r, q) /\ q.fork = Main
<1> DEFINE X == {p \in Updates(S) : SameEntry(ContentRow(p), r)}
<1>1. r.at \in X
    <2>1. r.at \in Updates(S) /\ r = ContentRow(r.at)
        BY UpdateRow
    <2> QED
        BY <2>1 DEF SameEntry
<1>2. X \in SUBSET Places(S, AppliedTransactions, "update") /\ X # {}
    BY <1>1 DEF Updates
<1>3. PICK p \in X : \A q \in X : ~Later(q, p)
    <2> HIDE DEF X
    <2> QED
        BY <1>2, LastPlace
<1>4. ContentRow(p) \in UpdateRows(S) /\ SameEntry(ContentRow(p), r)
    BY DEF UpdateRows
<1>5. ContentRow(p).at = p /\ ContentRow(p).fork = Main
    BY DEF ContentRow
<1>6. ASSUME NEW q \in UpdateRows(S), SameEntry(ContentRow(p), q)
      PROVE  ~Later(q.at, ContentRow(p).at)
    <2>1. q.at \in Updates(S) /\ q = ContentRow(q.at)
        BY UpdateRow
    <2>2. q.at \in X
        BY <1>4, <1>6, <2>1 DEF SameEntry
    <2> QED
        BY <1>3, <1>5, <2>2
<1>7. ContentRow(p) \in Newest(UpdateRows(S))
    BY <1>4, <1>6 DEF Newest
<1> QED
    BY <1>4, <1>5, <1>7 DEF SameEntry

\* A page has one block of a level.
LEMMA PageLevelsDiffer ==
    ASSUME PagesControl, PageIsDue, target \in Block
    PROVE  \A b, c \in Page : Level(b) = Level(c) => b = c
<1>1. \A b \in Page : b = AncestorAt(target, Level(b))
    BY PageBlocks DEF Extends
<1> QED
    BY <1>1

\* The updates of a page are later than those of the blocks below it.
LEMMA PageIsLater ==
    ASSUME PagesControl, PageIsDue, target \in Block,
           NEW r \in UpdateRows(Page), NEW q \in UpdateRows(blocks)
    PROVE  Later(r.at, q.at) /\ ~Later(q.at, r.at)
<1>1. Page \in SUBSET Block /\ blocks \in SUBSET Block
    BY PageBlocks DEF PagesControl
<1>2. r.at[1] \in Page /\ q.at[1] \in blocks
    BY <1>1, UpdateRow
<1>3. Level(r.at[1]) > MaxIndexed /\ Level(q.at[1]) <= MaxIndexed /\ MaxIndexed \in Int
      /\ Level(r.at[1]) \in Int /\ Level(q.at[1]) \in Int
    BY <1>1, <1>2, PageBlocks, PagesMaxIndexed, BlockIsSeq, ChainAssumption
<1> QED
    BY <1>3 DEF Later

\* Each step leaves, of a plain map, entries of valid blocks, and the last of each.
LEMMA ContentsOfAMap ==
    ASSUME PagesInv, PagesTypeInv, ContentsAreNeverStale, [Next]_vars,
           NEW m \in PlainMaps, NEW r \in contents', r.map = m, r.fork = Main
    PROVE  /\ r \in UpdateRows(blocks')
           /\ \A q \in UpdateRows(blocks') : SameEntry(q, r) => ~Later(q.at, r.at)
<1>1. r \in contents => /\ r \in UpdateRows(blocks)
                       /\ \A q \in UpdateRows(blocks) : SameEntry(q, r) => ~Later(q.at, r.at)
    BY DEF ContentsAreNeverStale, ValidRows
<1>2. blocks \in SUBSET Block /\ contents \in SUBSET EntryRow
    BY DEF PagesTypeInv, PagesTypeOK
<1>3. CASE UNCHANGED <<blocks, contents>>
    BY <1>1, <1>3
<1>4. CASE ForkDetected
    <2>1. PICK level \in Nat : AmendFork(level)
        BY <1>4, ForkIsAmended
    <2>2. forks + 1 \in Nat \ {0}
        BY <2>1, AmendedTypes DEF PagesTypeInv
    <2>3. contents' = Invalidated(contents, level, forks + 1)
        BY <2>1 DEF AmendFork, InvalidateBigMaps
    <2>4. r \in contents /\ Level(r.at[1]) < level
        BY <1>2, <2>2, <2>3, InvalidatedEntries
    <2>5. blocks' = {b \in blocks : Level(b) < level}
        BY <2>1 DEF AmendFork
    <2>6. \A q : q \in UpdateRows({b \in blocks : Level(b) < level})
                    <=> q \in UpdateRows(blocks) /\ Level(q.at[1]) < level
        BY <1>2, UpdateRowsBelow
    <2> QED
        BY <1>1, <2>4, <2>5, <2>6
<1>5. CASE StorePage
    <2>1. PagesControl /\ PageIsDue /\ target \in Block
        BY <1>5 DEF StorePage, PageIsDue, TargetIsABlock, PagesInv
    <2>2. Page \in SUBSET Block
        BY <2>1, PageBlocks
    <2>3. UpdateRows(blocks') = UpdateRows(blocks) \union UpdateRows(Page)
        BY <1>2, <1>5, <2>2, UpdateRowsOfMore DEF StorePage
    <2> DEFINE new == UpdateRows(Page)
               newest == Newest(new)
    <2>4. r \in Upserted(contents, newest)
        <3>1. PICK t \in EntryTables :
                /\ contents' = Kept(t.contents, RemovedIds(Page))
                /\ SamePlainRows(t.contents, Upserted(contents, newest))
            BY <1>5, EntriesOfThePage DEF PagesTypeInv
        <3>2. r \in t.contents
            BY <3>1 DEF Kept
        <3> HIDE DEF newest
        <3> QED
            BY <3>1, <3>2 DEF SamePlainRows
    <2>5. CASE r \in newest
        <3>1. r \in new /\ \A q \in new : SameEntry(r, q) => ~Later(q.at, r.at)
            BY <2>5 DEF Newest
        <3>2. \A q \in UpdateRows(blocks) : ~Later(q.at, r.at)
            BY <2>1, <3>1, PageIsLater
        <3> HIDE DEF new
        <3>3. UpdateRows(blocks') = UpdateRows(blocks) \union new
            BY <2>3 DEF new
        <3> QED
            BY <3>1, <3>2, <3>3 DEF SameEntry
    <2>6. CASE r \notin newest
        <3>1. r \in contents /\ ~\E q \in newest : SameEntry(r, q) /\ r.fork = q.fork
            BY <2>4, <2>6 DEF Upserted
        <3>2. ASSUME NEW q \in UpdateRows(Page), SameEntry(q, r) PROVE FALSE
            <4>1. \A b, c \in Page : Level(b) = Level(c) => b = c
                BY <2>1, PageLevelsDiffer
            <4>2. PICK n \in newest : SameEntry(q, n) /\ n.fork = Main
                BY <2>2, <4>1, NewestExists
            <4>3. SameEntry(r, n) /\ r.fork = n.fork
                BY <3>2, <4>2 DEF SameEntry
            <4> QED
                BY <3>1, <4>3
        <3> QED
            BY <1>1, <2>3, <3>1, <3>2
    <2> QED
        BY <2>5, <2>6
<1> QED
    BY <1>3, <1>4, <1>5
    DEF Next, Loop, Advance, Reorganise, NoFork, FetchHead, PageWaits, PageRefused, ProcessNames,
        EndIteration, PageFails, NamesFail, Restart, CountFailure, vars, tableVars, mapVars

LEMMA ContentsNext ==
    PagesInv /\ PagesTypeInv /\ ContentsAreNeverStale /\ [Next]_vars => ContentsAreNeverStale'
<1> SUFFICES ASSUME PagesInv, PagesTypeInv, ContentsAreNeverStale, [Next]_vars,
                    NEW m \in PlainMaps, NEW r \in ValidRows(contents', m)
             PROVE  /\ r \in UpdateRows(blocks')
                    /\ \A q \in UpdateRows(blocks') : SameEntry(q, r) => ~Later(q.at, r.at)
    BY DEF ContentsAreNeverStale, ValidRows
<1>1. r \in contents' /\ r.map = m /\ r.fork = Main
    BY DEF ValidRows
<1> QED
    BY <1>1, ContentsOfAMap

\* Whatever branches the node takes, a valid row of big_map_contents, of a map that
\* nothing is copied into, is of a valid block, and no valid block has a later update
\* of it: one page replaces an entry, and one fork invalidates it, whichever comes first.
THEOREM ContentsDoNotGoStale == Spec => []ContentsAreNeverStale
<1>1. Init => ContentsAreNeverStale
    BY DEF Init, ContentsAreNeverStale, ValidRows
<1> QED
    BY <1>1, PagesInvariant, PagesTypeInvariant, ContentsNext, PTL DEF Spec

--------------------------------------------------------------------------
(* The reference: what replaying the differences of a chain one by one leaves *)

RowsOf(table, m) == {r \in table : r.map = m}

\* The difference at q takes away the entry that the one at p wrote.
Undoes(q, p) ==
    \/ DiffAt(q).action = "update" /\ SameEntry(ContentRow(q), ContentRow(p))
    \/ DiffAt(q).action = "remove" /\ DiffAt(q).map = DiffAt(p).map

\* The entries of a map that the differences at some places leave.
Alive(P, m) ==
    {ContentRow(p) : p \in {p \in P :
        /\ DiffAt(p).action = "update" /\ DiffAt(p).map = m
        /\ \A q \in P : Undoes(q, p) => ~Later(q, p)}}

\* A step adds its place to those before it.
LEMMA StepKeepsAlive ==
    ASSUME NEW table, NEW P, NEW p, NEW m, RowsOf(table, m) = Alive(P, m),
           \A q \in P : Later(p, q) /\ ~Later(q, p), ~Later(p, p)
    PROVE  RowsOf(Step(table, p), m) = Alive(P \union {p}, m)
<1> DEFINE d == DiffAt(p)
           T == P \union {p}
           new == ContentRow(p)
           alive(S, q) == /\ DiffAt(q).action = "update" /\ DiffAt(q).map = m
                          /\ \A x \in S : Undoes(x, q) => ~Later(x, q)
<1>1. \A q : ContentRow(q).map = DiffAt(q).map /\ ContentRow(q).at = q
    BY DEF ContentRow
<1>2. \A q \in P : alive(T, q) <=> alive(P, q) /\ ~Undoes(p, q)
    OBVIOUS
<1>3. alive(T, p) <=> d.action = "update" /\ d.map = m
    OBVIOUS
<1>4. \A r : r \in Alive(T, m) <=>
            \/ \E q \in P : r = ContentRow(q) /\ alive(P, q) /\ ~Undoes(p, q)
            \/ r = new /\ d.action = "update" /\ d.map = m
    <2>1. \A r : r \in Alive(T, m) <=> \E q \in T : r = ContentRow(q) /\ alive(T, q)
        BY DEF Alive
    <2> HIDE DEF alive
    <2> QED
        BY <1>2, <1>3, <2>1
<1>5. \A r : r \in table /\ r.map = m <=> \E q \in P : r = ContentRow(q) /\ alive(P, q)
    BY DEF Alive, RowsOf
<1> HIDE DEF alive
<1>6. CASE d.action = "update"
    <2>1. Step(table, p) = {new} \union {r \in table : ~SameEntry(r, new)}
        BY <1>6 DEF Step
    <2>2. \A q : Undoes(p, q) <=> SameEntry(new, ContentRow(q))
        BY <1>6 DEF Undoes
    <2>3. \A r : r \in RowsOf(Step(table, p), m) <=>
                \/ r = new /\ new.map = m
                \/ r \in table /\ r.map = m /\ ~SameEntry(new, r)
        BY <2>1 DEF RowsOf, SameEntry
    <2>4. new.map = d.map
        BY <1>1
    <2>5. \A r : r \in RowsOf(Step(table, p), m) <=> r \in Alive(T, m)
        BY <1>4, <1>5, <1>6, <2>2, <2>3, <2>4
    <2>6. RowsOf(Step(table, p), m) \subseteq Alive(T, m) /\ Alive(T, m) \subseteq RowsOf(Step(table, p), m)
        BY <2>5
    <2> QED
        BY <2>6
<1>7. CASE d.action = "remove"
    <2>1. Step(table, p) = {r \in table : r.map # d.map}
        BY <1>7 DEF Step
    <2>2. \A q : Undoes(p, q) <=> d.map = ContentRow(q).map
        BY <1>1, <1>7 DEF Undoes
    <2>3. \A r : r \in RowsOf(Step(table, p), m) <=> r \in table /\ r.map = m /\ r.map # d.map
        BY <2>1 DEF RowsOf
    <2>4. \A r : r \in RowsOf(Step(table, p), m) <=> r \in Alive(T, m)
        BY <1>4, <1>5, <1>7, <2>2, <2>3
    <2>5. RowsOf(Step(table, p), m) \subseteq Alive(T, m) /\ Alive(T, m) \subseteq RowsOf(Step(table, p), m)
        BY <2>4
    <2> QED
        BY <2>5
<1>8. CASE d.action # "update" /\ d.action # "remove"
    <2>1. Step(table, p) = table
        BY <1>8 DEF Step
    <2>2. \A q : ~Undoes(p, q)
        BY <1>8 DEF Undoes
    <2>3. \A r : r \in RowsOf(Step(table, p), m) <=> r \in Alive(T, m)
        BY <1>4, <1>5, <1>8, <2>1, <2>2 DEF RowsOf
    <2>4. RowsOf(Step(table, p), m) \subseteq Alive(T, m) /\ Alive(T, m) \subseteq RowsOf(Step(table, p), m)
        BY <2>3
    <2> QED
        BY <2>4
<1> QED
    BY <1>6, <1>7, <1>8

\* What a replay may hold.
Replayed == SUBSET {ContentRow(p) : p \in Block \X Nat \X Nat}

\* A step from one of a block's places goes on with what a replay may hold.
LEMMA StepType ==
    ASSUME NEW table \in Replayed, NEW p \in Block \X Nat \X Nat
    PROVE  Step(table, p) \in Replayed
<1>1. Step(table, p) \subseteq table \union {ContentRow(p)}
    <2>1. CASE DiffAt(p).action = "update"
        BY <2>1 DEF Step
    <2>2. CASE DiffAt(p).action = "remove"
        BY <2>2 DEF Step
    <2>3. CASE DiffAt(p).action # "update" /\ DiffAt(p).action # "remove"
        BY <2>3 DEF Step
    <2> QED
        BY <2>1, <2>2, <2>3
<1> QED
    BY <1>1 DEF Replayed

\* The places of an applied operation, of the first operations of a block, of a block.
PlacesOf(b, i) ==
    {<<b, i, j>> : j \in {j \in DOMAIN Operations[b][i].diffs : Operations[b][i].applied}}

PlacesUpTo(b, k) == UNION {PlacesOf(b, i) : i \in 1..k}

Before(P, b, i) == \A q \in P : Level(q[1]) < Level(b) \/ (Level(q[1]) = Level(b) /\ q[2] < i)

\* From the entries left by the places before it, a replay goes on to those left by it.
GoesOn(old, new, b, i, Q) ==
    \A m : \A P \in SUBSET (Block \X Nat \X Nat) :
        Before(P, b, i) /\ RowsOf(old, m) = Alive(P, m) => RowsOf(new, m) = Alive(P \union Q, m)

LEMMA OperationIsReplayed ==
    ASSUME NEW table \in Replayed, NEW b \in Block, NEW i \in DOMAIN Operations[b]
    PROVE  /\ ReplayOperation(table, b, i) \in Replayed
           /\ GoesOn(table, ReplayOperation(table, b, i), b, i, PlacesOf(b, i))
<1> DEFINE o == Operations[b][i]
           n == Len(o.diffs)
           Is(f) == f = [j \in 0..n |-> IF j = 0 THEN table ELSE Step(f[j - 1], <<b, i, j>>)]
           after == CHOOSE f : Is(f)
<1>1. /\ Level(b) \in Nat /\ i \in Nat /\ o \in Operation /\ n \in Nat /\ DOMAIN o.diffs = 1..n
    <2>1. Operations[b] \in Seq(Operation)
        BY OperationsAssumption
    <2>2. i \in Nat /\ o \in Operation
        BY <2>1
    <2>3. o.diffs \in Seq(Diff)
        BY <2>2 DEF Operation
    <2> QED
        BY <2>2, <2>3, BlockIsSeq, ChainAssumption
<1>2. CASE ~o.applied
    <2>1. ReplayOperation(table, b, i) = table
        BY <1>2 DEF ReplayOperation
    <2>2. PlacesOf(b, i) = {}
        BY <1>2 DEF PlacesOf
    <2> QED
        BY <2>1, <2>2 DEF GoesOn
<1>3. CASE o.applied
    <2>1. ReplayOperation(table, b, i) = after[n]
        BY <1>3 DEF ReplayOperation
    <2>2. PlacesOf(b, i) = {<<b, i, j>> : j \in 1..n}
        BY <1>1, <1>3 DEF PlacesOf
    <2> HIDE DEF n
    <2>3. \E f : Is(f)
        <3> DEFINE zero == 0
                   I == zero + 1 .. zero + n
                   F == [x \in Replayed \X I |-> Step(x[1], <<b, i, x[2]>>)]
        <3>1. F \in [Replayed \X I -> Replayed]
            <4> SUFFICES ASSUME NEW x \in Replayed \X I PROVE Step(x[1], <<b, i, x[2]>>) \in Replayed
                OBVIOUS
            <4>1. x[1] \in Replayed /\ <<b, i, x[2]>> \in Block \X Nat \X Nat
                BY <1>1
            <4> QED
                BY <4>1, StepType
        <3>2. zero \in Int
            OBVIOUS
        <3> HIDE DEF F
        <3>3. PICK f \in [zero .. zero + n -> Replayed] : Iterates(f, F, table, zero, n)
            <4> HIDE DEF zero
            <4> QED
                BY <1>1, <3>1, <3>2, RecursionExists
        <3>4. f \in [0..n -> Replayed] /\ f[0] = table /\ \A j \in 1..n : f[j] = F[<<f[j - 1], j>>]
            BY <1>1, <3>3 DEF Iterates
        <3>5. ASSUME NEW j \in 1..n PROVE f[j] = Step(f[j - 1], <<b, i, j>>)
            <4>1. f[j - 1] \in Replayed /\ j \in I
                BY <1>1, <3>4
            <4> QED
                BY <3>4, <4>1 DEF F
        <3>6. \A j \in 0..n : f[j] = IF j = 0 THEN table ELSE Step(f[j - 1], <<b, i, j>>)
            BY <1>1, <3>4, <3>5
        <3>7. f = [j \in 0..n |-> f[j]]
            BY <3>4
        <3>8. Is(f)
            BY <3>6, <3>7
        <3> QED
            BY <3>8
    <2>4. Is(after)
        BY <2>3
    <2> HIDE DEF after
    <2> DEFINE good == {k \in 0..n : /\ after[k] \in Replayed
                                    /\ GoesOn(table, after[k], b, i, {<<b, i, j>> : j \in 1..k})}
    <2>5. 0 \in good
        <3>1. after[0] = table /\ 0 \in 0..n
            BY <1>1, <2>4
        <3>2. {<<b, i, j>> : j \in 1..0} = {}
            OBVIOUS
        <3>3. GoesOn(table, table, b, i, {})
            BY DEF GoesOn
        <3> QED
            BY <3>1, <3>2, <3>3
    <2>6. ASSUME NEW k \in 1..n, k - 1 \in good PROVE k \in good
        <3> DEFINE p == <<b, i, k>>
                   Q == {<<b, i, j>> : j \in 1..k - 1}
        <3>1. k \in 0..n /\ k \in Nat /\ k # 0
            BY <1>1
        <3>2. after[k] = Step(after[k - 1], p)
            BY <2>4, <3>1
        <3>3. after[k - 1] \in Replayed /\ GoesOn(table, after[k - 1], b, i, Q)
            BY <2>6
        <3>4. after[k] \in Replayed
            BY <1>1, <3>1, <3>2, <3>3, StepType
        <3>5. {<<b, i, j>> : j \in 1..k} = Q \union {p}
            BY <3>1
        <3>6. \A q \in Q : Later(p, q) /\ ~Later(q, p)
            BY <1>1, <3>1 DEF Later
        <3>7. ~Later(p, p)
            BY <1>1, <3>1 DEF Later
        <3> HIDE DEF Q
        <3>8. ASSUME NEW m, NEW P \in SUBSET (Block \X Nat \X Nat),
                     Before(P, b, i), RowsOf(table, m) = Alive(P, m)
              PROVE  RowsOf(after[k], m) = Alive(P \union (Q \union {p}), m)
            <4>1. RowsOf(after[k - 1], m) = Alive(P \union Q, m)
                BY <3>3, <3>8 DEF GoesOn
            <4>2. ASSUME NEW q \in P PROVE Later(p, q) /\ ~Later(q, p)
                <5>1. Level(q[1]) \in Nat /\ q[2] \in Nat
                    BY BlockIsSeq, ChainAssumption
                <5> QED
                    BY <1>1, <3>8, <5>1 DEF Before, Later
            <4>3. \A q \in P \union Q : Later(p, q) /\ ~Later(q, p)
                BY <3>6, <4>2
            <4>4. RowsOf(Step(after[k - 1], p), m) = Alive((P \union Q) \union {p}, m)
                <5> HIDE DEF p
                <5> QED
                    BY <3>7, <4>1, <4>3, StepKeepsAlive
            <4>5. (P \union Q) \union {p} = P \union (Q \union {p})
                OBVIOUS
            <4> QED
                BY <3>2, <4>4, <4>5
        <3> HIDE DEF p
        <3>9. GoesOn(table, after[k], b, i, Q \union {p})
            BY <3>8 DEF GoesOn
        <3> QED
            BY <3>1, <3>4, <3>5, <3>9
    <2>7. n \in good
        <3>1. n \in 0..n
            BY <1>1
        <3> HIDE DEF good
        <3> QED
            BY <1>1, <2>5, <2>6, <3>1, BoundedInduction
    <2> QED
        BY <2>1, <2>2, <2>7
<1> QED
    BY <1>2, <1>3

\* The places of the first operations are places of the block, of those operations.
LEMMA PlacesOfABlock ==
    ASSUME NEW b \in Block, NEW k \in Nat, k <= Len(Operations[b])
    PROVE  \A q \in PlacesUpTo(b, k) :
                q \in Block \X Nat \X Nat /\ q[1] = b /\ q[2] \in 1..k
<1> SUFFICES ASSUME NEW q \in PlacesUpTo(b, k)
             PROVE  q \in Block \X Nat \X Nat /\ q[1] = b /\ q[2] \in 1..k
    OBVIOUS
<1>1. PICK i \in 1..k : q \in PlacesOf(b, i)
    BY DEF PlacesUpTo
<1>2. PICK j \in DOMAIN Operations[b][i].diffs : q = <<b, i, j>>
    BY <1>1 DEF PlacesOf
<1>3. Operations[b] \in Seq(Operation)
    BY OperationsAssumption
<1>4. Operations[b][i] \in Operation
    BY <1>3
<1>5. Operations[b][i].diffs \in Seq(Diff)
    BY <1>4 DEF Operation
<1>6. j \in Nat /\ i \in Nat
    BY <1>5
<1> QED
    BY <1>2, <1>6

LEMMA BlockIsReplayed ==
    ASSUME NEW table \in Replayed, NEW b \in Block
    PROVE  /\ ReplayBlock(table, b) \in Replayed
           /\ GoesOn(table, ReplayBlock(table, b), b, 1, PlacesUpTo(b, Len(Operations[b])))
<1> DEFINE n == Len(Operations[b])
           Is(f) == f = [i \in 0..n |-> IF i = 0 THEN table ELSE ReplayOperation(f[i - 1], b, i)]
           after == CHOOSE f : Is(f)
<1>1. Level(b) \in Nat /\ n \in Nat /\ DOMAIN Operations[b] = 1..n
    <2>1. Operations[b] \in Seq(Operation)
        BY OperationsAssumption
    <2> QED
        BY <2>1, BlockIsSeq, ChainAssumption
<1>2. ReplayBlock(table, b) = after[n]
    BY DEF ReplayBlock
<1>3. \A k \in 1..n : \A q \in PlacesUpTo(b, k - 1) :
            q \in Block \X Nat \X Nat /\ q[1] = b /\ q[2] \in 1..k - 1
    BY <1>1, PlacesOfABlock
<1> HIDE DEF n
<1>4. \E f : Is(f)
    <2> DEFINE zero == 0
               I == zero + 1 .. zero + n
               F == [x \in Replayed \X I |-> ReplayOperation(x[1], b, x[2])]
    <2>1. F \in [Replayed \X I -> Replayed]
        <3> SUFFICES ASSUME NEW x \in Replayed \X I PROVE ReplayOperation(x[1], b, x[2]) \in Replayed
            OBVIOUS
        <3>1. x[1] \in Replayed /\ x[2] \in DOMAIN Operations[b]
            BY <1>1
        <3> QED
            BY <3>1, OperationIsReplayed
    <2>2. zero \in Int
        OBVIOUS
    <2> HIDE DEF F
    <2>3. PICK f \in [zero .. zero + n -> Replayed] : Iterates(f, F, table, zero, n)
        <3> HIDE DEF zero
        <3> QED
            BY <1>1, <2>1, <2>2, RecursionExists
    <2>4. f \in [0..n -> Replayed] /\ f[0] = table /\ \A i \in 1..n : f[i] = F[<<f[i - 1], i>>]
        BY <1>1, <2>3 DEF Iterates
    <2>5. ASSUME NEW i \in 1..n PROVE f[i] = ReplayOperation(f[i - 1], b, i)
        <3>1. f[i - 1] \in Replayed /\ i \in I
            BY <1>1, <2>4
        <3> QED
            BY <2>4, <3>1 DEF F
    <2>6. \A i \in 0..n : f[i] = IF i = 0 THEN table ELSE ReplayOperation(f[i - 1], b, i)
        BY <1>1, <2>4, <2>5
    <2>7. f = [i \in 0..n |-> f[i]]
        BY <2>4
    <2>8. Is(f)
        BY <2>6, <2>7
    <2> QED
        BY <2>8
<1>5. Is(after)
    BY <1>4
<1> HIDE DEF after
<1> DEFINE good == {k \in 0..n : /\ after[k] \in Replayed
                                /\ GoesOn(table, after[k], b, 1, PlacesUpTo(b, k))}
<1>6. 0 \in good
    <2>1. after[0] = table /\ 0 \in 0..n
        BY <1>1, <1>5
    <2>2. PlacesUpTo(b, 0) = {}
        BY DEF PlacesUpTo
    <2>3. GoesOn(table, table, b, 1, {})
        BY DEF GoesOn
    <2> QED
        BY <2>1, <2>2, <2>3
<1>7. ASSUME NEW k \in 1..n, k - 1 \in good PROVE k \in good
    <2> DEFINE Q == PlacesUpTo(b, k - 1)
    <2>1. k \in 0..n /\ k \in Nat /\ k # 0 /\ k \in DOMAIN Operations[b]
        BY <1>1
    <2>2. after[k] = ReplayOperation(after[k - 1], b, k)
        BY <1>5, <2>1
    <2>3. after[k - 1] \in Replayed /\ GoesOn(table, after[k - 1], b, 1, Q)
        BY <1>7
    <2>4. after[k] \in Replayed /\ GoesOn(after[k - 1], after[k], b, k, PlacesOf(b, k))
        BY <2>1, <2>2, <2>3, OperationIsReplayed
    <2>5. PlacesUpTo(b, k) = Q \union PlacesOf(b, k)
        <3>1. 1..k = (1..k - 1) \union {k}
            BY <2>1
        <3> QED
            BY <3>1 DEF PlacesUpTo
    <2>6. \A q \in Q : q \in Block \X Nat \X Nat /\ Level(q[1]) = Level(b) /\ q[2] < k
        BY <1>1, <1>3
    <2> HIDE DEF Q
    <2>7. ASSUME NEW m, NEW P \in SUBSET (Block \X Nat \X Nat),
                 Before(P, b, 1), RowsOf(table, m) = Alive(P, m)
          PROVE  RowsOf(after[k], m) = Alive(P \union (Q \union PlacesOf(b, k)), m)
        <3>1. RowsOf(after[k - 1], m) = Alive(P \union Q, m)
            BY <2>3, <2>7 DEF GoesOn
        <3>2. Before(P \union Q, b, k)
            <4>1. ASSUME NEW q \in P PROVE Level(q[1]) < Level(b) \/ (Level(q[1]) = Level(b) /\ q[2] < k)
                <5>1. q[2] \in Nat /\ (Level(q[1]) < Level(b) \/ (Level(q[1]) = Level(b) /\ q[2] < 1))
                    BY <2>7 DEF Before
                <5> QED
                    BY <2>1, <5>1
            <4> QED
                BY <2>6, <4>1 DEF Before
        <3>3. P \union Q \in SUBSET (Block \X Nat \X Nat)
            BY <2>6
        <3>4. RowsOf(after[k], m) = Alive((P \union Q) \union PlacesOf(b, k), m)
            BY <2>4, <3>1, <3>2, <3>3 DEF GoesOn
        <3>5. (P \union Q) \union PlacesOf(b, k) = P \union (Q \union PlacesOf(b, k))
            OBVIOUS
        <3> QED
            BY <3>4, <3>5
    <2>8. GoesOn(table, after[k], b, 1, Q \union PlacesOf(b, k))
        BY <2>7 DEF GoesOn
    <2> QED
        BY <2>1, <2>4, <2>5, <2>8
<1>8. n \in good
    <2>1. n \in 0..n
        BY <1>1
    <2> HIDE DEF good
    <2> QED
        BY <1>1, <1>6, <1>7, <2>1, BoundedInduction
<1> QED
    BY <1>2, <1>8 DEF n

\* All places of the applied operations of some blocks.
AllPlaces(S) == UNION {PlacesUpTo(b, Len(Operations[b])) : b \in S}

\* Replaying a chain leaves the entries that are alive at its end.
LEMMA ChainIsReplayed ==
    ASSUME NEW b \in Block
    PROVE  \A m : RowsOf(Replay(b), m) = Alive(AllPlaces(Chain(b)), m)
<1> DEFINE top == Level(b)
           Is(f) == f = [l \in -1..top |-> IF l = -1 THEN {} ELSE ReplayBlock(f[l - 1], AncestorAt(b, l))]
           after == CHOOSE f : Is(f)
<1>1. top \in Nat /\ \A l \in 0..top : AncestorAt(b, l) \in Block /\ Level(AncestorAt(b, l)) = l
    BY BlockIsSeq, ChainAssumption, AncestorIsBlock
<1>2. Replay(b) = after[top]
    BY DEF Replay
<1>3. Chain(b) = {AncestorAt(b, l) : l \in 0..top}
    BY DEF Chain, Segment
<1> HIDE DEF top
<1>4. {} \in Replayed
    BY DEF Replayed
<1>5. \E f : Is(f)
    <2> DEFINE base == -1
               n == top + 1
               I == base + 1 .. base + n
               F == [x \in Replayed \X I |-> ReplayBlock(x[1], AncestorAt(b, x[2]))]
    <2>1. F \in [Replayed \X I -> Replayed]
        <3> SUFFICES ASSUME NEW x \in Replayed \X I PROVE ReplayBlock(x[1], AncestorAt(b, x[2])) \in Replayed
            OBVIOUS
        <3>1. x[1] \in Replayed /\ x[2] \in 0..top
            BY <1>1
        <3> QED
            BY <1>1, <3>1, BlockIsReplayed
    <2>2. base \in Int /\ n \in Nat
        BY <1>1
    <2> HIDE DEF F
    <2>3. PICK f \in [base .. base + n -> Replayed] : Iterates(f, F, {}, base, n)
        <3> HIDE DEF base, n
        <3> QED
            BY <1>4, <2>1, <2>2, RecursionExists
    <2>4. f \in [-1..top -> Replayed] /\ f[-1] = {} /\ \A l \in 0..top : f[l] = F[<<f[l - 1], l>>]
        BY <1>1, <2>3 DEF Iterates
    <2>5. ASSUME NEW l \in 0..top PROVE f[l] = ReplayBlock(f[l - 1], AncestorAt(b, l))
        <3>1. f[l - 1] \in Replayed /\ l \in I
            BY <1>1, <2>4
        <3> QED
            BY <2>4, <3>1 DEF F
    <2>6. \A l \in -1..top : f[l] = IF l = -1 THEN {} ELSE ReplayBlock(f[l - 1], AncestorAt(b, l))
        BY <1>1, <2>4, <2>5
    <2>7. f = [l \in -1..top |-> f[l]]
        BY <2>4
    <2>8. Is(f)
        BY <2>6, <2>7
    <2> QED
        BY <2>8
<1>6. Is(after)
    BY <1>5
<1> HIDE DEF after
<1> DEFINE blocksTo(l) == {AncestorAt(b, k) : k \in 0..l}
           good == {k \in 0..top + 1 :
                        /\ after[k - 1] \in Replayed
                        /\ \A m : RowsOf(after[k - 1], m) = Alive(AllPlaces(blocksTo(k - 1)), m)}
<1>7. 0 \in good
    <2>1. 0 - 1 \in -1..top /\ 0 - 1 = -1 /\ 0 \in 0..top + 1
        BY <1>1
    <2>2. after[0 - 1] = {}
        BY <1>6, <2>1
    <2>3. AllPlaces(blocksTo(0 - 1)) = {}
        BY DEF AllPlaces
    <2>4. \A m : RowsOf({}, m) = {} /\ Alive({}, m) = {}
        BY DEF RowsOf, Alive
    <2> HIDE DEF blocksTo
    <2> QED
        BY <1>4, <2>1, <2>2, <2>3, <2>4
<1>8. ASSUME NEW k \in 1..top + 1, k - 1 \in good PROVE k \in good
    <2> DEFINE l == k - 1
               c == AncestorAt(b, l)
               P == AllPlaces(blocksTo(l - 1))
               Q == PlacesUpTo(c, Len(Operations[c]))
    <2>1. l \in 0..top /\ l \in -1..top /\ l # -1 /\ k \in 0..top + 1
        BY <1>1
    <2>2. c \in Block /\ Level(c) = l
        BY <1>1, <2>1
    <2>3. after[l - 1] \in Replayed /\ \A m : RowsOf(after[l - 1], m) = Alive(P, m)
        <3> HIDE DEF blocksTo
        <3> QED
            BY <1>8
    <2>4. after[l] = ReplayBlock(after[l - 1], c)
        BY <1>6, <2>1
    <2>5. blocksTo(l) = blocksTo(l - 1) \union {c}
        <3>1. 0..l = (0..l - 1) \union {l}
            BY <2>1
        <3> QED
            BY <3>1
    <2>6. AllPlaces(blocksTo(l)) = P \union Q
        <3> HIDE DEF blocksTo, c
        <3> QED
            BY <2>5 DEF AllPlaces
    <2>7. ASSUME NEW q \in P PROVE q \in Block \X Nat \X Nat /\ Level(q[1]) < l
        <3>1. PICK d \in blocksTo(l - 1) : q \in PlacesUpTo(d, Len(Operations[d]))
            <4> HIDE DEF blocksTo
            <4> QED
                BY DEF AllPlaces
        <3>2. PICK j \in 0..l - 1 : d = AncestorAt(b, j)
            BY <3>1
        <3>3. j \in 0..top /\ j < l
            BY <1>1, <2>1
        <3>4. d \in Block /\ Level(d) = j
            BY <1>1, <3>2, <3>3
        <3>5. Operations[d] \in Seq(Operation)
            BY <3>4, OperationsAssumption
        <3>6. Len(Operations[d]) \in Nat
            BY <3>5
        <3>7. q \in Block \X Nat \X Nat /\ q[1] = d
            BY <3>1, <3>4, <3>6, PlacesOfABlock
        <3> QED
            BY <3>3, <3>4, <3>7
    <2> HIDE DEF c, P, Q
    <2>8. after[l] \in Replayed /\ GoesOn(after[l - 1], after[l], c, 1, Q)
        BY <2>2, <2>3, <2>4, BlockIsReplayed DEF Q
    <2>9. Before(P, c, 1) /\ P \in SUBSET (Block \X Nat \X Nat)
        BY <2>2, <2>7 DEF Before
    <2>10. \A m : RowsOf(after[l], m) = Alive(P \union Q, m)
        BY <2>3, <2>8, <2>9 DEF GoesOn
    <2> HIDE DEF blocksTo
    <2> QED
        BY <2>1, <2>6, <2>8, <2>10
<1>9. top + 1 \in good
    <2>1. top + 1 \in 0..top + 1 /\ top + 1 \in Nat
        BY <1>1
    <2> HIDE DEF good
    <2> QED
        BY <1>7, <1>8, <2>1, BoundedInduction
<1>10. \A m : RowsOf(after[top], m) = Alive(AllPlaces(blocksTo(top)), m)
    <2> DEFINE k == top + 1
    <2> HIDE DEF blocksTo, k
    <2>1. \A m : RowsOf(after[k - 1], m) = Alive(AllPlaces(blocksTo(k - 1)), m)
        BY <1>9 DEF k
    <2>2. k - 1 = top
        BY <1>1 DEF k
    <2> QED
        BY <2>1, <2>2
<1> QED
    BY <1>2, <1>3, <1>10

\* A place has the action it is found by, and is found by any operations with its own.
LEMMA PlaceMembers ==
    ASSUME NEW S \in SUBSET Block, NEW Ops, NEW action
    PROVE  \A p : p \in Places(S, Ops, action) <=>
                \E b \in S : \E i \in DOMAIN Operations[b] : \E j \in DOMAIN Operations[b][i].diffs :
                    /\ p = <<b, i, j>> /\ OpAt(p) \in Ops /\ DiffAt(p).action = action
<1> DEFINE is(p, b, i, j) == p = <<b, i, j>> /\ OpAt(p) \in Ops /\ DiffAt(p).action = action
<1>1. ASSUME NEW p \in Places(S, Ops, action)
      PROVE  \E b \in S : \E i \in DOMAIN Operations[b] : \E j \in DOMAIN Operations[b][i].diffs :
                is(p, b, i, j)
    <2>1. PICK b \in S : \E i \in OpsOf(b, Ops) : \E j \in DiffsOf(Operations[b][i], action) :
                            p = <<b, i, j>>
        BY PlaceHasParts
    <2>2. PICK i \in OpsOf(b, Ops) : \E j \in DiffsOf(Operations[b][i], action) : p = <<b, i, j>>
        BY <2>1
    <2>3. PICK j \in DiffsOf(Operations[b][i], action) : p = <<b, i, j>>
        BY <2>2
    <2>4. p[1] = b /\ p[2] = i /\ p[3] = j
        BY <2>3
    <2>5. i \in DOMAIN Operations[b] /\ j \in DOMAIN Operations[b][i].diffs /\ is(p, b, i, j)
        BY <2>3, <2>4 DEF OpsOf, DiffsOf, OpAt, DiffAt
    <2> QED
        BY <2>5
<1>2. ASSUME NEW p, NEW b \in S, NEW i \in DOMAIN Operations[b],
             NEW j \in DOMAIN Operations[b][i].diffs, is(p, b, i, j)
      PROVE  p \in Places(S, Ops, action)
    <2>1. p = <<b, i, j>> /\ p[1] = b /\ p[2] = i /\ p[3] = j
        BY <1>2
    <2>2. i \in OpsOf(b, Ops) /\ j \in DiffsOf(Operations[b][i], action)
        BY <1>2, <2>1 DEF OpsOf, DiffsOf, OpAt, DiffAt
    <2> QED
        BY <2>1, <2>2 DEF Places
<1> QED
    BY <1>1, <1>2

Applied == {o \in Operation : o.applied}

\* The places of the applied operations, by their actions.
LEMMA AppliedPlaces ==
    ASSUME NEW S \in SUBSET Block
    PROVE  \A p : p \in AllPlaces(S) <=> p \in Places(S, Applied, DiffAt(p).action)
<1>1. ASSUME NEW p \in AllPlaces(S) PROVE p \in Places(S, Applied, DiffAt(p).action)
    <2>1. PICK b \in S : p \in PlacesUpTo(b, Len(Operations[b]))
        BY DEF AllPlaces
    <2>2. PICK i \in 1..Len(Operations[b]) : p \in PlacesOf(b, i)
        BY <2>1 DEF PlacesUpTo
    <2>3. PICK j \in DOMAIN Operations[b][i].diffs : p = <<b, i, j>> /\ Operations[b][i].applied
        BY <2>2 DEF PlacesOf
    <2>4. Operations[b] \in Seq(Operation)
        BY OperationsAssumption
    <2>5. i \in DOMAIN Operations[b] /\ Operations[b][i] \in Operation
        BY <2>4
    <2>6. OpAt(p) = Operations[b][i]
        BY <2>3 DEF OpAt
    <2>7. OpAt(p) \in Applied
        BY <2>3, <2>5, <2>6 DEF Applied
    <2> QED
        BY <2>3, <2>5, <2>7, PlaceMembers
<1>2. ASSUME NEW p, p \in Places(S, Applied, DiffAt(p).action) PROVE p \in AllPlaces(S)
    <2> DEFINE a == DiffAt(p).action
    <2>1. \E b \in S : \E i \in DOMAIN Operations[b] : \E j \in DOMAIN Operations[b][i].diffs :
                p = <<b, i, j>> /\ OpAt(p) \in Applied /\ DiffAt(p).action = a
        <3> HIDE DEF a
        <3>1. p \in Places(S, Applied, a)
            BY <1>2 DEF a
        <3> QED
            BY <3>1, PlaceMembers
    <2>2. PICK b \in S : \E i \in DOMAIN Operations[b] : \E j \in DOMAIN Operations[b][i].diffs :
                p = <<b, i, j>> /\ OpAt(p) \in Applied
        BY <2>1
    <2>3. PICK i \in DOMAIN Operations[b] : \E j \in DOMAIN Operations[b][i].diffs :
                p = <<b, i, j>> /\ OpAt(p) \in Applied
        BY <2>2
    <2>4. PICK j \in DOMAIN Operations[b][i].diffs : p = <<b, i, j>> /\ OpAt(p) \in Applied
        BY <2>3
    <2>5. Operations[b] \in Seq(Operation)
        BY OperationsAssumption
    <2>6. i \in 1..Len(Operations[b]) /\ OpAt(p) = Operations[b][i] /\ Operations[b][i].applied
        BY <2>4, <2>5 DEF OpAt, Applied
    <2>7. p \in PlacesOf(b, i)
        BY <2>4, <2>6 DEF PlacesOf
    <2> QED
        BY <2>6, <2>7 DEF AllPlaces, PlacesUpTo
<1> QED
    BY <1>1, <1>2

\* Of a plain map, the updates and removals of all applied operations are those that
\* the pages look at.
LEMMA PlainPlaces ==
    ASSUME NEW S \in SUBSET Block, NEW m \in PlainMaps, NEW p, DiffAt(p).map = m
    PROVE  /\ p \in AllPlaces(S) /\ DiffAt(p).action = "update" <=> p \in Updates(S)
           /\ p \in AllPlaces(S) /\ DiffAt(p).action = "remove" <=> p \in Removals(S)
           /\ p \in Removals(S) => p \in Places(S, AppliedTransactions, "remove")
<1> DEFINE of(action) == {OpAt(q) : q \in {q \in Places(Block, Operation, action) : DiffAt(q).map = m}}
<1>1. /\ \A o \in of("update") : o.kind = "transaction"
      /\ of("remove") \subseteq OwnTransactions \intersect AppliedTransactions
    BY DEF PlainMaps
<1>2. /\ Applied \subseteq Operation /\ OwnTransactions \subseteq Operation
      /\ AppliedTransactions \subseteq Operation
    BY DEF Applied, OwnTransactions, AppliedTransactions
<1>3. \A Ops, action : Ops \subseteq Operation =>
        Places(S, Ops, action) \subseteq Places(Block, Operation, action)
    BY PlacesGrow
<1>4. p \in Places(Block, Operation, "update") => OpAt(p).kind = "transaction"
    BY <1>1
<1>5. p \in Places(Block, Operation, "remove") => OpAt(p) \in OwnTransactions \intersect AppliedTransactions
    BY <1>1
<1>6. \A Ops, More, action : p \in Places(S, Ops, action) /\ OpAt(p) \in More => p \in Places(S, More, action)
    BY PlaceMembers
<1>7. \A Ops, action : p \in Places(S, Ops, action) => OpAt(p) \in Ops /\ DiffAt(p).action = action
    BY PlaceMembers
<1>8. p \in AllPlaces(S) <=> p \in Places(S, Applied, DiffAt(p).action)
    BY AppliedPlaces
<1> HIDE DEF of
<1>9. ASSUME p \in AllPlaces(S), DiffAt(p).action = "update" PROVE p \in Updates(S)
    <2>1. p \in Places(S, Applied, "update")
        BY <1>8, <1>9
    <2>2. OpAt(p) \in Applied /\ OpAt(p).kind = "transaction"
        BY <1>2, <1>3, <1>4, <1>7, <2>1
    <2>3. OpAt(p) \in AppliedTransactions
        BY <2>2 DEF Applied, AppliedTransactions
    <2> QED
        BY <1>6, <2>1, <2>3 DEF Updates
<1>10. ASSUME p \in Updates(S) PROVE p \in AllPlaces(S) /\ DiffAt(p).action = "update"
    <2>1. OpAt(p) \in AppliedTransactions /\ DiffAt(p).action = "update"
        BY <1>7, <1>10 DEF Updates
    <2>2. OpAt(p) \in Applied
        BY <2>1 DEF Applied, AppliedTransactions
    <2>3. p \in Places(S, Applied, "update")
        BY <1>6, <1>10, <2>2 DEF Updates
    <2> QED
        BY <1>8, <2>1, <2>3
<1>11. ASSUME p \in AllPlaces(S), DiffAt(p).action = "remove" PROVE p \in Removals(S)
    <2>1. p \in Places(S, Applied, "remove")
        BY <1>8, <1>11
    <2>2. OpAt(p) \in OwnTransactions
        BY <1>2, <1>3, <1>5, <2>1
    <2> QED
        BY <1>6, <2>1, <2>2 DEF Removals
<1>12. ASSUME p \in Removals(S)
       PROVE  /\ p \in AllPlaces(S) /\ DiffAt(p).action = "remove"
              /\ p \in Places(S, AppliedTransactions, "remove")
    <2>1. p \in Places(Block, Operation, "remove") /\ DiffAt(p).action = "remove"
        BY <1>2, <1>3, <1>7, <1>12 DEF Removals
    <2>2. OpAt(p) \in AppliedTransactions /\ OpAt(p) \in Applied
        BY <1>5, <2>1 DEF Applied, AppliedTransactions
    <2>3. p \in Places(S, Applied, "remove") /\ p \in Places(S, AppliedTransactions, "remove")
        BY <1>6, <1>12, <2>2 DEF Removals
    <2> QED
        BY <1>8, <2>1, <2>3
<1> QED
    BY <1>9, <1>10, <1>11, <1>12

\* Of two places of one chain one is the later.
LEMMA OneIsLater ==
    ASSUME NEW p \in Block \X Nat \X Nat, NEW q \in Block \X Nat \X Nat,
           Level(p[1]) = Level(q[1]) => p[1] = q[1]
    PROVE  Later(p, q) \/ Later(q, p) \/ p = q
<1>1. Level(p[1]) \in Nat /\ Level(q[1]) \in Nat
    BY BlockIsSeq, ChainAssumption
<1>2. p = <<p[1], p[2], p[3]>> /\ q = <<q[1], q[2], q[3]>>
    OBVIOUS
<1>3. p[2] \in Nat /\ p[3] \in Nat /\ q[2] \in Nat /\ q[3] \in Nat
    OBVIOUS
<1>4. p[1] = q[1] /\ p[2] = q[2] /\ p[3] = q[3] => p = q
    BY <1>2
<1> QED
    BY <1>1, <1>3, <1>4 DEF Later

\* The entries of a plain map that are alive at the end of a chain are the last update
\* of each, and none once the map was removed: its updates are all before that.
LEMMA AliveAreTheLast ==
    ASSUME NEW b \in Block, NEW m \in PlainMaps
    PROVE  Alive(AllPlaces(Chain(b)), m) =
                {r \in Newest(UpdateRows(Chain(b))) : r.map = m /\ m \notin RemovedIds(Chain(b))}
<1> DEFINE C == Chain(b)
           A == AllPlaces(C)
<1>1. C \in SUBSET Block /\ \A c, d \in C : Level(c) = Level(d) => c = d
    <2>1. Level(b) \in Nat /\ 0 \in Nat
        BY BlockIsSeq, ChainAssumption
    <2>2. /\ Segment(b, 0, Level(b)) \subseteq Block
          /\ \A c \in Segment(b, 0, Level(b)) : c = AncestorAt(b, Level(c))
        BY <2>1, SegmentLevels
    <2> QED
        BY <2>2 DEF Chain
<1>2. \A p : DiffAt(p).map = m =>
        /\ p \in A /\ DiffAt(p).action = "update" <=> p \in Updates(C)
        /\ p \in A /\ DiffAt(p).action = "remove" <=> p \in Removals(C)
        /\ p \in Removals(C) => p \in Places(C, AppliedTransactions, "remove")
    BY <1>1, PlainPlaces
<1>3. \A p \in Places(C, AppliedTransactions, "remove") :
        \A q \in Updates(C) : DiffAt(p).map = DiffAt(q).map => ~Later(q, p)
    BY RemovalAssumption
<1> HIDE DEF C, A
<1>4. \A p : ContentRow(p).map = DiffAt(p).map /\ ContentRow(p).at = p
    BY DEF ContentRow
<1>5. ASSUME NEW r \in Alive(A, m)
      PROVE  r \in Newest(UpdateRows(C)) /\ r.map = m /\ m \notin RemovedIds(C)
    <2>1. PICK p \in A : /\ DiffAt(p).action = "update" /\ DiffAt(p).map = m
                         /\ \A q \in A : Undoes(q, p) => ~Later(q, p)
                         /\ r = ContentRow(p)
        BY <1>5 DEF Alive
    <2>2. p \in Updates(C) /\ r \in UpdateRows(C) /\ r.at = p /\ r.map = m
        BY <1>2, <1>4, <2>1 DEF UpdateRows
    <2>3. ASSUME NEW q \in UpdateRows(C), SameEntry(r, q) PROVE ~Later(q.at, r.at)
        <3>1. q.at \in Updates(C) /\ q = ContentRow(q.at)
            BY <1>1, UpdateRow
        <3>2. DiffAt(q.at).map = m
            BY <1>4, <2>2, <2>3, <3>1 DEF SameEntry
        <3>3. q.at \in A /\ DiffAt(q.at).action = "update"
            BY <1>2, <3>1, <3>2
        <3>4. Undoes(q.at, p)
            BY <2>1, <2>3, <3>1, <3>3 DEF Undoes, SameEntry
        <3> QED
            BY <2>1, <2>2, <3>3, <3>4
    <2>4. ASSUME m \in RemovedIds(C) PROVE FALSE
        <3>1. PICK x \in Removals(C) : DiffAt(x).map = m
            BY <2>4 DEF RemovedIds
        <3>2. x \in A /\ DiffAt(x).action = "remove" /\ x \in Places(C, AppliedTransactions, "remove")
            BY <1>2, <3>1
        <3>3. ~Later(p, x)
            BY <1>3, <2>1, <2>2, <3>1, <3>2
        <3>4. ~Later(x, p)
            <4>1. Undoes(x, p)
                BY <2>1, <3>1, <3>2 DEF Undoes
            <4> QED
                BY <2>1, <3>2, <4>1
        <3>5. /\ p \in Block \X Nat \X Nat /\ x \in Block \X Nat \X Nat
              /\ p[1] \in C /\ x[1] \in C
            BY <1>1, <2>2, <3>1, PlaceType, PlaceOfItsBlock DEF Updates, Removals
        <3>6. p = x
            BY <1>1, <3>3, <3>4, <3>5, OneIsLater
        <3> QED
            BY <2>1, <3>2, <3>6
    <2> QED
        BY <2>2, <2>3, <2>4 DEF Newest
<1>6. ASSUME NEW r \in Newest(UpdateRows(C)), r.map = m, m \notin RemovedIds(C)
      PROVE  r \in Alive(A, m)
    <2> DEFINE p == r.at
    <2>1. r \in UpdateRows(C) /\ \A q \in UpdateRows(C) : SameEntry(r, q) => ~Later(q.at, p)
        BY DEF Newest
    <2>2. p \in Updates(C) /\ r = ContentRow(p) /\ DiffAt(p).map = m
        BY <1>1, <1>4, <1>6, <2>1, UpdateRow
    <2> HIDE DEF p
    <2>3. p \in A /\ DiffAt(p).action = "update"
        BY <1>2, <2>2
    <2>4. ASSUME NEW q \in A, Undoes(q, p) PROVE ~Later(q, p)
        <3>1. CASE DiffAt(q).action = "update" /\ SameEntry(ContentRow(q), ContentRow(p))
            <4>1. DiffAt(q).map = m
                BY <1>4, <2>2, <3>1 DEF SameEntry
            <4>2. ContentRow(q) \in UpdateRows(C) /\ SameEntry(r, ContentRow(q))
                BY <1>2, <2>2, <2>4, <3>1, <4>1 DEF UpdateRows, SameEntry
            <4> QED
                BY <1>4, <2>1, <4>2
        <3>2. CASE DiffAt(q).action = "remove" /\ DiffAt(q).map = DiffAt(p).map
            <4>1. q \in Removals(C) /\ DiffAt(q).map = m
                BY <1>2, <2>2, <2>4, <3>2
            <4> QED
                BY <1>6, <4>1 DEF RemovedIds
        <3> QED
            BY <2>4, <3>1, <3>2 DEF Undoes
    <2> QED
        BY <2>2, <2>3, <2>4 DEF Alive
<1> QED
    BY <1>5, <1>6 DEF A, C

--------------------------------------------------------------------------
(* The contents of a map on one branch *)

\* There is a block of the highest level.
LEMMA TopBlock ==
    ASSUME blocks \subseteq Block, blocks # {}
    PROVE  \E c \in blocks : Level(c) = MaxIndexed
<1>1. \E l \in {Level(b) : b \in blocks} : \A b \in blocks : Level(b) <= l
    BY HighestLevel
<1>2. MaxIndexed \in {Level(b) : b \in blocks}
    BY <1>1 DEF MaxIndexed
<1> QED
    BY <1>2

\* On one branch what is stored is of the chain that the page comes from.
LEMMA BlocksOfTheTarget ==
    ASSUME PagesInv, PagesTypeInv, PageIsDue, reorgs = 0
    PROVE  \A b \in blocks : Extends(target, b)
<1> SUFFICES ASSUME NEW b \in blocks PROVE Extends(target, b)
    OBVIOUS
<1>1. head \in Block /\ target \in Block /\ b \in Block /\ blocks \subseteq Block
    BY DEF PageIsDue, TargetIsABlock, PagesInv, PagesControl
<1>2. Extends(head, b) /\ Extends(head, target)
    BY <1>1, ChainAssumption DEF PagesTypeInv, OneBranch
<1>3. Level(b) < Level(target)
    <2>1. Level(b) <= MaxIndexed /\ MaxIndexed < Level(target)
        BY <1>1, PagesMaxIndexed DEF PageIsDue
    <2>2. MaxIndexed \in Int /\ Level(b) \in Int /\ Level(target) \in Int
        BY <1>1, PagesMaxIndexed, LevelsAreNumbers
    <2> QED
        BY <2>1, <2>2
<1>4. Level(target) \in 0..Level(head) /\ Level(b) \in 0..Level(target)
    BY <1>1, <1>2, <1>3, LevelsAreNumbers DEF Extends
<1>5. AncestorAt(AncestorAt(head, Level(target)), Level(b)) = AncestorAt(head, Level(b))
    BY <1>1, <1>4, AncestorOfAncestor
<1> QED
    BY <1>2, <1>4, <1>5 DEF Extends

\* The blocks below a page are the ancestors of its blocks.
LEMMA PageIsLinked ==
    ASSUME PagesInv, PagesTypeInv, Linked(blocks), StorePage, reorgs = 0
    PROVE  Linked(blocks')
<1>1. /\ PagesControl /\ PageIsDue /\ target \in Block /\ blocks \subseteq Block
      /\ \A b \in blocks : Extends(target, b)
    BY BlocksOfTheTarget DEF StorePage, PageIsDue, TargetIsABlock, PagesInv, PagesControl
<1>2. PICK hi \in Nat : /\ MaxIndexed + 1 \in Nat /\ MaxIndexed + 1 <= hi /\ hi <= Level(target)
                       /\ Page = Segment(target, MaxIndexed + 1, hi)
    BY <1>1, PageIsSegment
<1>3. /\ Page \subseteq Block
      /\ \A c \in Page : Level(c) \in MaxIndexed + 1 .. hi /\ c = AncestorAt(target, Level(c))
      /\ \A l \in MaxIndexed + 1 .. hi : AncestorAt(target, l) \in Page
    <2> DEFINE lo == MaxIndexed + 1
    <2>1. lo \in Nat
        BY <1>2
    <2> HIDE DEF lo
    <2>2. /\ Segment(target, lo, hi) \subseteq Block
          /\ \A c \in Segment(target, lo, hi) : Level(c) \in lo..hi /\ c = AncestorAt(target, Level(c))
          /\ \A l \in lo..hi : AncestorAt(target, l) \in Segment(target, lo, hi)
        BY <1>1, <1>2, <2>1, SegmentLevels
    <2> QED
        BY <1>2, <2>2 DEF lo
<1>4. MaxIndexed \in Int /\ Level(target) \in Nat
    BY <1>1, PagesMaxIndexed, BlockIsSeq, ChainAssumption
<1>5. ASSUME NEW b \in Page, NEW l \in 0..Level(b)
      PROVE  AncestorAt(b, l) \in blocks \union Page
    <2>1. Level(b) \in 0..Level(target) /\ b = AncestorAt(target, Level(b)) /\ Level(b) <= hi
        BY <1>2, <1>3, <1>4
    <2>2. AncestorAt(b, l) = AncestorAt(target, l)
        BY <1>1, <2>1, AncestorOfAncestor
    <2>3. CASE l > MaxIndexed
        BY <1>2, <1>3, <1>4, <2>1, <2>2, <2>3
    <2>4. CASE l <= MaxIndexed
        <3>1. blocks # {}
            BY <1>4, <2>4 DEF MaxIndexed
        <3>2. PICK c \in blocks : Level(c) = MaxIndexed
            BY <1>1, <3>1, TopBlock
        <3>3. c = AncestorAt(target, Level(c)) /\ Level(c) \in 0..Level(target) /\ l \in 0..Level(c)
            BY <1>1, <1>4, <2>4, <3>2 DEF Extends
        <3>4. AncestorAt(c, l) = AncestorAt(target, l)
            BY <1>1, <3>3, AncestorOfAncestor
        <3>5. AncestorAt(c, l) \in blocks
            BY <3>2, <3>3 DEF Linked
        <3> QED
            BY <2>2, <3>4, <3>5
    <2> QED
        BY <1>4, <2>3, <2>4
<1>6. blocks' = blocks \union Page
    BY DEF StorePage
<1> QED
    BY <1>5, <1>6 DEF Linked

LEMMA LinkedNext == PagesInv /\ PagesTypeInv /\ BlocksAreLinked /\ [Next]_vars => BlocksAreLinked'
<1> SUFFICES ASSUME PagesInv, PagesTypeInv, BlocksAreLinked, [Next]_vars, reorgs' = 0
             PROVE  Linked(blocks')
    BY DEF BlocksAreLinked
<1>1. reorgs = 0
    <2>1. reorgs \in Nat
        BY DEF PagesTypeInv, PagesTypeOK
    <2> QED
        BY <2>1 DEF Next, Loop, Advance, Reorganise, NoFork, ForkDetected, FetchHead, StorePage, PageWaits,
                    PageRefused, ProcessNames, EndIteration, PageFails, NamesFail, Restart,
                    CountFailure, vars, nodeVars
<1>2. Linked(blocks)
    BY <1>1 DEF BlocksAreLinked
<1>3. CASE UNCHANGED blocks
    BY <1>2, <1>3 DEF Linked
<1>4. CASE StorePage
    BY <1>1, <1>2, <1>4, PageIsLinked
<1> QED
    BY <1>1, <1>3, <1>4, NothingOrphaned
    DEF Next, Loop, Advance, Reorganise, NoFork, ForkDetected, FetchHead, PageWaits, PageRefused,
        ProcessNames, EndIteration, PageFails, NamesFail, Restart, CountFailure, vars, tableVars

LEMMA BlocksStayLinked == Spec => []BlocksAreLinked
<1>1. Init => BlocksAreLinked
    BY DEF Init, BlocksAreLinked, Linked
<1> QED
    BY <1>1, PagesInvariant, PagesTypeInvariant, LinkedNext, PTL DEF Spec

\* The blocks are the chain of the highest one.
LEMMA BlocksAreTheChain ==
    ASSUME blocks \subseteq Block, Linked(blocks),
           NEW t \in Block, \A b \in blocks : Extends(t, b),
           NEW b \in blocks, Level(b) = MaxIndexed
    PROVE  blocks = Chain(b)
<1>1. \A c \in blocks : Level(c) <= Level(b)
    BY PagesMaxIndexed
<1>2. \A c \in blocks : c \in Chain(b)
    BY <1>1, LowerIsOfChain
<1>3. \A c \in Chain(b) : c \in blocks
    BY DEF Chain, Segment, Linked
<1> QED
    BY <1>2, <1>3

\* More blocks, more removals.
LEMMA RemovedIdsOfMore ==
    ASSUME NEW S, NEW T
    PROVE  RemovedIds(S \union T) = RemovedIds(S) \union RemovedIds(T)
<1>1. \A p : p \in Removals(S \union T) <=> p \in Removals(S) \/ p \in Removals(T)
    BY DEF Removals, Places
<1> QED
    BY <1>1 DEF RemovedIds

\* A page updates no plain map that the blocks below it removed.
LEMMA RemovedBefore ==
    ASSUME PagesInv, PagesTypeInv, PageIsDue, reorgs = 0,
           NEW m \in PlainMaps, m \in RemovedIds(blocks),
           NEW r \in UpdateRows(Page), r.map = m
    PROVE  FALSE
<1>1. /\ PagesControl /\ target \in Block /\ blocks \in SUBSET Block
      /\ \A b \in blocks : Extends(target, b)
    BY BlocksOfTheTarget DEF PageIsDue, TargetIsABlock, PagesInv, PagesControl
<1>2. PICK x \in Removals(blocks) : DiffAt(x).map = m
    BY DEF RemovedIds
<1>3. x \in Places(blocks, AppliedTransactions, "remove") /\ x[1] \in blocks
    BY <1>1, <1>2, PlainPlaces, PlaceOfItsBlock DEF Removals
<1>4. x[1] \in Chain(target)
    BY <1>1, <1>3, ExtendedIsOfChain
<1>5. x \in Places(Chain(target), AppliedTransactions, "remove")
    BY <1>3, <1>4, PlaceOfItsBlock
<1>6. /\ Page \in SUBSET Block /\ r.at \in Updates(Page) /\ r.at[1] \in Page /\ r = ContentRow(r.at)
    BY <1>1, PageBlocks, UpdateRow
<1>7. r.at \in Updates(Chain(target)) /\ DiffAt(r.at).map = m
    <2>1. r.at \in Updates(Chain(target))
        BY <1>1, <1>6, PlacesOfThePage DEF Updates
    <2>2. ContentRow(r.at).map = DiffAt(r.at).map
        BY DEF ContentRow
    <2> QED
        BY <1>6, <2>1, <2>2
<1>8. Later(r.at, x)
    <2>1. Level(r.at[1]) > MaxIndexed /\ Level(x[1]) <= MaxIndexed /\ MaxIndexed \in Int
          /\ Level(r.at[1]) \in Int /\ Level(x[1]) \in Int
        BY <1>1, <1>3, <1>6, PageBlocks, PagesMaxIndexed, BlockIsSeq, ChainAssumption
    <2> QED
        BY <2>1 DEF Later
<1> QED
    BY <1>1, <1>2, <1>5, <1>7, <1>8, RemovalAssumption

\* The last updates of the blocks with a page on top: those of the page, and those of
\* the blocks that the page has no update of.
LEMMA NewestWithThePage ==
    ASSUME PagesControl, PageIsDue, target \in Block, NEW r, r.fork = Main
    PROVE  r \in Newest(UpdateRows(blocks \union Page)) <=>
              \/ r \in Newest(UpdateRows(Page))
              \/ /\ r \in Newest(UpdateRows(blocks))
                 /\ ~\E q \in Newest(UpdateRows(Page)) : SameEntry(r, q) /\ r.fork = q.fork
<1> DEFINE old == UpdateRows(blocks)
           new == UpdateRows(Page)
<1>1. Page \in SUBSET Block /\ blocks \in SUBSET Block
    BY PageBlocks DEF PagesControl
<1>2. UpdateRows(blocks \union Page) = old \union new
    BY <1>1, UpdateRowsOfMore
<1>3. \A n \in new : \A o \in old : Later(n.at, o.at) /\ ~Later(o.at, n.at)
    BY PageIsLater
<1>4. \A n \in new : \E q \in Newest(new) : SameEntry(n, q) /\ q.fork = Main
    BY <1>1, PageLevelsDiffer, NewestExists
<1>5. \A n \in new : n.fork = Main
    BY <1>1, UpdateRow
<1> HIDE DEF old, new
<1>6. \A o \in Newest(new) : o \in new
    BY DEF Newest
<1>7. ASSUME r \in Newest(new) PROVE r \in Newest(old \union new)
    BY <1>3, <1>7 DEF Newest
<1>8. ASSUME r \in Newest(old), ~\E q \in Newest(new) : SameEntry(r, q) /\ r.fork = q.fork
      PROVE  r \in Newest(old \union new)
    <2>1. ASSUME NEW n \in new, SameEntry(r, n) PROVE FALSE
        <3>1. PICK q \in Newest(new) : SameEntry(n, q) /\ q.fork = Main
            BY <1>4
        <3>2. SameEntry(r, q)
            BY <2>1, <3>1 DEF SameEntry
        <3> QED
            BY <1>8, <3>1, <3>2
    <2> QED
        BY <1>8, <2>1 DEF Newest
<1>9. ASSUME r \in Newest(old \union new), r \notin Newest(new)
      PROVE  r \in Newest(old) /\ ~\E q \in Newest(new) : SameEntry(r, q) /\ r.fork = q.fork
    <2>1. r \in old \/ r \in new
        BY <1>9 DEF Newest
    <2>2. \A q \in old \union new : SameEntry(r, q) => ~Later(q.at, r.at)
        BY <1>9 DEF Newest
    <2>3. r \notin new
        BY <1>9, <2>2 DEF Newest
    <2>4. r \in Newest(old)
        BY <2>1, <2>2, <2>3 DEF Newest
    <2>5. \A q \in Newest(new) : ~SameEntry(r, q)
        BY <1>3, <1>6, <2>1, <2>2, <2>3
    <2> QED
        BY <2>4, <2>5
<1> QED
    BY <1>2, <1>7, <1>8, <1>9 DEF old, new

\* Each step leaves, of a plain map and on one branch, the last updates of its entries.
LEMMA LastOfAMap ==
    ASSUME PagesInv, PagesTypeInv, ContentsAreTheLast, [Next]_vars, reorgs' = 0,
           NEW m \in PlainMaps, NEW r, r.map = m, r.fork = Main
    PROVE  r \in contents' <=> r \in Newest(UpdateRows(blocks')) /\ m \notin RemovedIds(blocks')
<1>1. reorgs = 0
    <2>1. reorgs \in Nat
        BY DEF PagesTypeInv, PagesTypeOK
    <2> QED
        BY <2>1 DEF Next, Loop, Advance, Reorganise, NoFork, ForkDetected, FetchHead, StorePage, PageWaits,
                    PageRefused, ProcessNames, EndIteration, PageFails, NamesFail, Restart,
                    CountFailure, vars, nodeVars
<1>2. r \in contents <=> r \in Newest(UpdateRows(blocks)) /\ m \notin RemovedIds(blocks)
    BY <1>1 DEF ContentsAreTheLast, ValidRows
<1>3. CASE UNCHANGED <<blocks, contents>>
    BY <1>2, <1>3
<1>4. ~ForkDetected
    BY <1>1, NothingOrphaned DEF ForkDetected
<1>5. CASE StorePage
    <2>1. PagesControl /\ PageIsDue /\ target \in Block /\ blocks' = blocks \union Page
        BY <1>5 DEF StorePage, PageIsDue, TargetIsABlock, PagesInv
    <2> DEFINE newest == Newest(UpdateRows(Page))
               fresh == ~\E q \in newest : SameEntry(r, q) /\ r.fork = q.fork
    <2>2. r \in contents' <=> r \in Upserted(contents, newest) /\ m \notin RemovedIds(Page)
        <3>1. PICK t \in EntryTables :
                /\ contents' = Kept(t.contents, RemovedIds(Page))
                /\ SamePlainRows(t.contents, Upserted(contents, newest))
            BY <1>5, EntriesOfThePage DEF PagesTypeInv
        <3> HIDE DEF newest
        <3> QED
            BY <3>1 DEF Kept, SamePlainRows
    <2>3. r \in Upserted(contents, newest) <=> r \in newest \/ (r \in contents /\ fresh)
        BY DEF Upserted
    <2>4. m \in RemovedIds(blocks') <=> m \in RemovedIds(blocks) \/ m \in RemovedIds(Page)
        BY <2>1, RemovedIdsOfMore
    <2>5. r \in Newest(UpdateRows(blocks')) <=>
            r \in newest \/ (r \in Newest(UpdateRows(blocks)) /\ fresh)
        BY <2>1, NewestWithThePage
    <2>6. m \in RemovedIds(blocks) => r \notin newest
        BY <1>1, <2>1, RemovedBefore DEF Newest
    <2> HIDE DEF newest, fresh
    <2> QED
        BY <1>2, <2>2, <2>3, <2>4, <2>5, <2>6
<1> QED
    BY <1>3, <1>4, <1>5
    DEF Next, Loop, Advance, Reorganise, NoFork, FetchHead, PageWaits, PageRefused, ProcessNames,
        EndIteration, PageFails, NamesFail, Restart, CountFailure, vars, tableVars, mapVars

LEMMA LastNext ==
    PagesInv /\ PagesTypeInv /\ ContentsAreTheLast /\ [Next]_vars => ContentsAreTheLast'
<1> SUFFICES ASSUME PagesInv, PagesTypeInv, ContentsAreTheLast, [Next]_vars, reorgs' = 0,
                    NEW m \in PlainMaps
             PROVE  ValidRows(contents', m) =
                        {r \in Newest(UpdateRows(blocks')) : r.map = m /\ m \notin RemovedIds(blocks')}
    BY DEF ContentsAreTheLast, ValidRows
<1>1. \A r : r.map = m /\ r.fork = Main =>
        (r \in contents' <=> r \in Newest(UpdateRows(blocks')) /\ m \notin RemovedIds(blocks'))
    BY LastOfAMap
<1>2. blocks' \in SUBSET Block
    BY PagesInvNext DEF PagesInv, PagesControl
<1>3. \A r \in UpdateRows(blocks') : r.fork = Main
    BY <1>2, UpdateRow
<1>4. \A r \in Newest(UpdateRows(blocks')) : r.fork = Main
    BY <1>3 DEF Newest
<1> QED
    BY <1>1, <1>4 DEF ValidRows

LEMMA LastInvariant == Spec => []ContentsAreTheLast
<1>1. Init => ContentsAreTheLast
    <2> SUFFICES ASSUME Init PROVE ContentsAreTheLast
        OBVIOUS
    <2>1. UpdateRows({}) = {}
        BY DEF UpdateRows, Updates, Places
    <2> QED
        BY <2>1 DEF Init, ContentsAreTheLast, ValidRows, Newest
<1> QED
    BY <1>1, PagesInvariant, PagesTypeInvariant, LastNext, PTL DEF Spec

\* The last updates of the blocks are what is alive at the end of their chain.
LEMMA LastIsReplayed ==
    PagesInv /\ PagesTypeInv /\ BlocksAreLinked /\ ContentsAreTheLast => ContentsFollowTheChain
<1> SUFFICES ASSUME PagesInv, PagesTypeInv, BlocksAreLinked, ContentsAreTheLast, reorgs = 0,
                    NEW b \in blocks, Level(b) = MaxIndexed, NEW m \in PlainMaps
             PROVE  ValidRows(contents, m) = {r \in Replay(b) : r.map = m}
    BY DEF ContentsFollowTheChain
<1>1. /\ head \in Block /\ blocks \subseteq Block
      /\ \A c \in blocks : Extends(head, c)
    BY DEF PagesInv, PagesControl, PagesTypeInv, OneBranch
<1>2. blocks = Chain(b)
    BY <1>1, BlocksAreTheChain DEF BlocksAreLinked
<1>3. ValidRows(contents, m) =
        {r \in Newest(UpdateRows(Chain(b))) : r.map = m /\ m \notin RemovedIds(Chain(b))}
    BY <1>2 DEF ContentsAreTheLast
<1>4. RowsOf(Replay(b), m) = Alive(AllPlaces(Chain(b)), m)
    BY <1>1, ChainIsReplayed
<1>5. Alive(AllPlaces(Chain(b)), m) =
        {r \in Newest(UpdateRows(Chain(b))) : r.map = m /\ m \notin RemovedIds(Chain(b))}
    BY <1>1, AliveAreTheLast
<1> QED
    BY <1>3, <1>4, <1>5 DEF RowsOf

\* On one branch, for any operations on it, any page size and any restarts, the valid rows
\* of big_map_contents are, for a map that nothing is copied into, what applying the
\* differences of the chain one after the other leaves, although a page applies them
\* kind by kind and writes one update of each entry.
THEOREM ContentsAreReplayed == Spec => []ContentsFollowTheChain
    BY PagesInvariant, PagesTypeInvariant, BlocksStayLinked, LastInvariant, LastIsReplayed, PTL

--------------------------------------------------------------------------
(* The maps and names of the registrar *)

\* More blocks, more maps of a contract.
LEMMA MapsOfMore ==
    ASSUME NEW S, NEW T, NEW c
    PROVE  MapsOf(S \union T, c) = MapsOf(S, c) \union MapsOf(T, c)
<1>1. \A p : p \in Allocations(S \union T) <=> p \in Allocations(S) \/ p \in Allocations(T)
    BY DEF Allocations, Places
<1> QED
    BY <1>1 DEF MapsOf

\* On one branch all rows of the registrar's maps are of the main fork.
LEMMA FoundOnOneBranch ==
    ASSUME PagesTypeInv, reorgs = 0, NEW S, NEW found \in FoundTnsMaps(S, maps)
    PROVE  found = MapsOf(S, Registrar)
<1>1. \A r \in maps : r.fork = 0
    BY DEF PagesTypeInv, OneBranch, Main
<1> QED
    BY <1>1 DEF FoundTnsMaps

\* On one branch no page is refused.
LEMMA NothingRefused ==
    ASSUME PagesInv, PagesTypeInv, PageIsDue, reorgs = 0
    PROVE  ~Collides(Page)
<1> SUFFICES ASSUME NEW r \in MapRows(Page), NEW q \in maps, r.map = q.map, q.fork = Main
             PROVE  FALSE
    BY DEF Collides
<1>1. q.at[1] \in blocks /\ ~Extends(target, q.at[1])
    BY PagesDoNotCollide DEF AllocationsAreAccepted
<1> QED
    BY <1>1, BlocksOfTheTarget

LEMMA TnsMapsNext ==
    PagesInv /\ PagesTypeInv /\ TnsMapsAreOfTheBlocks /\ [Next]_vars => TnsMapsAreOfTheBlocks'
<1> SUFFICES ASSUME PagesInv, PagesTypeInv, TnsMapsAreOfTheBlocks, [Next]_vars, reorgs' = 0, failures' = 0
             PROVE  tnsMaps' = MapsOf(blocks', Registrar)
    BY DEF TnsMapsAreOfTheBlocks
<1> DEFINE of(S) == MapsOf(S, Registrar)
<1>1. reorgs \in Nat /\ failures \in Nat
    BY DEF PagesTypeInv, PagesTypeOK
<1>2. ~CountFailure
    BY <1>1 DEF CountFailure
<1>3. reorgs = 0 /\ failures = 0
    BY <1>1, <1>2
    DEF Next, Loop, Advance, Reorganise, NoFork, ForkDetected, FetchHead, StorePage, PageWaits,
        PageRefused, ProcessNames, EndIteration, PageFails, NamesFail, Restart, vars, nodeVars
<1>4. tnsMaps = of(blocks)
    BY <1>3 DEF TnsMapsAreOfTheBlocks
<1>5. CASE UNCHANGED <<blocks, tnsMaps>>
    BY <1>4, <1>5
<1>6. ~ForkDetected
    BY <1>3, NothingOrphaned DEF ForkDetected
<1>7. CASE StorePage
    <2>1. of(blocks') = of(blocks) \union of(Page)
        BY <1>7, MapsOfMore DEF StorePage
    <2>2. PICK found \in FoundTnsMaps(Page, maps) :
            ~Waits(Page, found) /\ tnsMaps' = IdentifiedTnsMaps(found)
        BY <1>7 DEF StorePage
    <2>3. found = of(Page)
        BY <1>3, <2>2, FoundOnOneBranch
    <2>4. of(Page) # {} => of(blocks) = {}
        BY <1>4, <2>2, <2>3 DEF Waits, SecondTnsMaps
    <2>5. tnsMaps' = IF of(Page) # {} THEN of(Page) ELSE tnsMaps
        BY <2>2, <2>3 DEF IdentifiedTnsMaps
    <2> HIDE DEF of
    <2>6. tnsMaps' = of(blocks')
        BY <1>4, <2>1, <2>4, <2>5
    <2> QED
        BY <2>6 DEF of
<1>8. ~PageRefused
    BY <1>3, NothingRefused DEF PageRefused
<1> QED
    BY <1>2, <1>5, <1>6, <1>7, <1>8
    DEF Next, Loop, Advance, Reorganise, NoFork, FetchHead, PageWaits, ProcessNames,
        EndIteration, PageFails, NamesFail, Restart, vars, tableVars

LEMMA TnsMapsInvariant == Spec => []TnsMapsAreOfTheBlocks
<1>1. Init => TnsMapsAreOfTheBlocks
    <2> SUFFICES ASSUME Init PROVE TnsMapsAreOfTheBlocks
        OBVIOUS
    <2>1. MapsOf({}, Registrar) = {}
        BY DEF MapsOf, Allocations, Places
    <2> QED
        BY <2>1 DEF Init, TnsMapsAreOfTheBlocks
<1> QED
    BY <1>1, PagesInvariant, PagesTypeInvariant, TnsMapsNext, PTL DEF Spec

\* The maps of a contract that blocks of a chain give it were all given in one block.
LEMMA MapsOfOneOrigination ==
    ASSUME NEW t \in Block, NEW S, \A b \in S : b \in Chain(t),
           NEW c, NEW T \in SUBSET S, MapsOf(T, c) # {}
    PROVE  MapsOf(S, c) \subseteq MapsOf(T, c)
<1>1. PICK q \in Allocations(T) : OpAt(q).contract = c
    BY DEF MapsOf
<1>2. q[1] \in T /\ q \in Allocations(Chain(t))
    BY <1>1, PlaceOfItsBlock DEF Allocations
<1>3. ASSUME NEW m \in MapsOf(S, c) PROVE m \in MapsOf(T, c)
    <2>1. PICK p \in Allocations(S) : OpAt(p).contract = c /\ m = DiffAt(p).map
        BY DEF MapsOf
    <2>2. p[1] \in S /\ p \in Allocations(Chain(t))
        BY <2>1, PlaceOfItsBlock DEF Allocations
    <2>3. p[1] = q[1]
        BY <1>1, <1>2, <2>1, <2>2, OriginationAssumption
    <2>4. p \in Allocations(T)
        BY <1>2, <2>1, <2>3, PlaceOfItsBlock DEF Allocations
    <2> QED
        BY <2>1, <2>4 DEF MapsOf
<1> QED
    BY <1>3

\* A token with one map on a chain has no second one in a page of it.
LEMMA NoSecondTokenMap ==
    ASSUME OneMapTokens, PagesControl, PageIsDue, target \in Block
    PROVE  ~SecondTokenMap(Page)
<1> SUFFICES ASSUME NEW t \in Token PROVE ~(Cardinality(MapsOf(Page, t)) > 1)
    BY DEF SecondTokenMap
<1>1. ASSUME NEW m \in MapsOf(Page, t) PROVE m \in MapsOf(Chain(target), t)
    <2>1. PICK p \in Allocations(Page) : OpAt(p).contract = t /\ m = DiffAt(p).map
        BY DEF MapsOf
    <2>2. p \in Allocations(Chain(target))
        BY <2>1, PlacesOfThePage DEF Allocations
    <2> QED
        BY <2>1, <2>2 DEF MapsOf
<1>2. \A m, n \in MapsOf(Page, t) : m = n
    BY <1>1 DEF OneMapTokens
<1> DEFINE M == MapsOf(Page, t)
<1> HIDE DEF M
<1>3. \A m, n \in M : m = n
    BY <1>2 DEF M
<1>4. CASE M = {}
    BY <1>4, FS_EmptySet DEF M
<1>5. CASE M # {}
    <2>1. PICK m \in M : M = {m}
        BY <1>3, <1>5
    <2>2. Cardinality({m}) = 1
        BY FS_Singleton
    <2>3. Cardinality(M) = 1
        BY <2>1, <2>2
    <2> QED
        BY <2>3 DEF M
<1> QED
    BY <1>4, <1>5

\* On one branch the registrar is originated in one page, so that no other one waits.
LEMMA NoSecondOrigination ==
    ASSUME PagesInv, PagesTypeInv, TnsMapsAreOfTheBlocks, PageIsDue,
           NEW found \in FoundTnsMaps(Page, maps), SecondTnsMaps(found), reorgs = 0, failures = 0
    PROVE  FALSE
<1>1. /\ PagesControl /\ target \in Block /\ blocks \subseteq Block
      /\ \A b \in blocks : Extends(target, b)
    BY BlocksOfTheTarget DEF PageIsDue, TargetIsABlock, PagesInv, PagesControl
<1>2. MapsOf(blocks, Registrar) # {} /\ MapsOf(Page, Registrar) # {}
    BY FoundOfThePage DEF SecondTnsMaps, TnsMapsAreOfTheBlocks
<1>3. PICK p \in Allocations(blocks) : OpAt(p).contract = Registrar
    BY <1>2 DEF MapsOf
<1>4. PICK q \in Allocations(Page) : OpAt(q).contract = Registrar
    BY <1>2 DEF MapsOf
<1>5. p[1] \in blocks /\ p \in Allocations(Chain(target))
    BY <1>1, <1>3, PlaceOfItsBlock, ExtendedIsOfChain DEF Allocations
<1>6. q[1] \in Page /\ q \in Allocations(Chain(target))
    BY <1>1, <1>4, PlacesOfThePage DEF Allocations
<1>7. p[1] = q[1]
    BY <1>1, <1>3, <1>4, <1>5, <1>6, OriginationAssumption
<1>8. Level(p[1]) <= MaxIndexed /\ Level(q[1]) > MaxIndexed /\ MaxIndexed \in Int /\ Level(p[1]) \in Int
    BY <1>1, <1>5, <1>6, PageBlocks, PagesMaxIndexed, BlockIsSeq, ChainAssumption
<1> QED
    BY <1>7, <1>8

LEMMA WaitsNext ==
    OneMapTokens /\ PagesInv /\ PagesTypeInv /\ TnsMapsAreOfTheBlocks /\ PagesWaitForTheRegistrar
        /\ [Next]_vars => PagesWaitForTheRegistrar'
<1> SUFFICES ASSUME OneMapTokens, PagesInv, PagesTypeInv, TnsMapsAreOfTheBlocks,
                    PagesWaitForTheRegistrar, [Next]_vars, pc' = "waiting"
             PROVE  MapsOf(Page', Registrar) # {} /\ reorgs' + failures' > 0
    BY DEF PagesWaitForTheRegistrar, MapsOf, Allocations, Places
<1>1. reorgs \in Nat /\ failures \in Nat
    BY DEF PagesTypeInv, PagesTypeOK
<1>2. ASSUME UNCHANGED <<blocks, target>> PROVE Page' = Page
    BY <1>2 DEF Page, MaxIndexed
<1>3. CASE PageWaits
    <2>1. PageIsDue /\ UNCHANGED <<blocks, target, reorgs, failures>>
        BY <1>3 DEF PageWaits, tableVars, nodeVars
    <2>2. PagesControl /\ target \in Block
        BY <2>1 DEF PageIsDue, TargetIsABlock, PagesInv
    <2>3. PICK found \in FoundTnsMaps(Page, maps) : Waits(Page, found)
        BY <1>3 DEF PageWaits
    <2>4. SecondTnsMaps(found)
        BY <2>1, <2>2, <2>3, NoSecondTokenMap DEF Waits
    <2>5. ~(reorgs = 0 /\ failures = 0)
        BY <2>1, <2>4, NoSecondOrigination
    <2>6. MapsOf(Page, Registrar) # {}
        BY <2>4, FoundOfThePage DEF SecondTnsMaps
    <2> QED
        BY <1>1, <1>2, <2>1, <2>5, <2>6
<1>4. CASE Advance \/ Reorganise \/ UNCHANGED vars
    <2>1. /\ pc = "waiting" /\ UNCHANGED <<blocks, target>>
          /\ failures' = failures /\ (reorgs' = reorgs \/ reorgs' = reorgs + 1)
        BY <1>4 DEF Advance, Reorganise, vars, tableVars, nodeVars
    <2>2. MapsOf(Page, Registrar) # {} /\ reorgs + failures > 0
        BY <2>1 DEF PagesWaitForTheRegistrar
    <2>3. Page' = Page
        BY <1>2, <2>1
    <2>4. MapsOf(Page', Registrar) # {}
        BY <2>2, <2>3
    <2>5. reorgs' + failures' > 0
        BY <1>1, <2>1, <2>2
    <2> QED
        BY <2>4, <2>5
<1> QED
    BY <1>3, <1>4
    DEF Next, Loop, NoFork, ForkDetected, FetchHead, StorePage, PageRefused, ProcessNames,
        EndIteration, PageFails, NamesFail, Restart, CountFailure

\* Registered tokens that have one map on every chain make no page wait for ever, and the
\* registrar does so only when the node switched branch or a failure was ignored: then
\* the maps that are still in memory are written a second time.
THEOREM OnlyTheRegistrarWaits == OneMapTokens => (Spec => []PagesWaitForTheRegistrar)
<1> SUFFICES ASSUME OneMapTokens PROVE Spec => []PagesWaitForTheRegistrar
    OBVIOUS
<1>1. Init => PagesWaitForTheRegistrar
    BY DEF Init, PagesWaitForTheRegistrar
<1>2. PagesInv /\ PagesTypeInv /\ TnsMapsAreOfTheBlocks /\ PagesWaitForTheRegistrar
        /\ [Next]_vars => PagesWaitForTheRegistrar'
    BY WaitsNext
<1> QED
    BY <1>1, <1>2, PagesInvariant, PagesTypeInvariant, TnsMapsInvariant, PTL DEF Spec

\* While the names of a page are stored, the maps in memory are those that the chain of
\* each of its blocks gave to the registrar, if a name is registered there.
LEMMA RegistrationsAreRead ==
    ASSUME RegistrationsUpdateTheMaps, PagesInv, PagesTypeInv, BlocksAreLinked, TnsMapsAreOfTheBlocks,
           pc = "names", reorgs = 0, failures = 0,
           NEW b \in page, NEW i \in CallsOf(b, Registrar), Operations[b][i].name # NoName
    PROVE  [name |-> Operations[b][i].name, block |-> b] \in NameRows(page)
<1>1. /\ head \in Block /\ blocks \subseteq Block /\ b \in blocks
      /\ \A c \in blocks : Extends(head, c)
    BY DEF PagesTypeInv, PagesTypeOK, OneBranch
<1>2. /\ MapsOf(Chain(b), Registrar) # {}
      /\ MapsOf(Chain(b), Registrar) \subseteq UpdatedBy(Operations[b][i])
    BY <1>1 DEF RegistrationsUpdateTheMaps
<1>3. Chain(b) \in SUBSET blocks
    BY <1>1 DEF BlocksAreLinked, Linked, Chain, Segment
<1>4. MapsOf(blocks, Registrar) = MapsOf(Chain(b), Registrar)
    <2>1. \A c \in blocks : c \in Chain(head)
        BY <1>1, ExtendedIsOfChain
    <2>2. MapsOf(blocks, Registrar) \subseteq MapsOf(Chain(b), Registrar)
        BY <1>1, <1>2, <1>3, <2>1, MapsOfOneOrigination
    <2>3. Chain(b) \union blocks = blocks
        BY <1>3
    <2>4. MapsOf(Chain(b) \union blocks, Registrar) =
            MapsOf(Chain(b), Registrar) \union MapsOf(blocks, Registrar)
        BY MapsOfMore
    <2> QED
        BY <2>2, <2>3, <2>4
<1>5. tnsMaps = MapsOf(Chain(b), Registrar)
    BY <1>4 DEF TnsMapsAreOfTheBlocks
<1>6. i \in Registrations(b)
    BY <1>2, <1>5 DEF Registrations
<1> QED
    BY <1>6 DEF NameRows

\* No registration of a page is of a name that a block below it registered.
LEMMA RegistrationsAreKept ==
    ASSUME NamesAreRegisteredOnce, PagesTypeInv, reorgs = 0,
           NEW b \in blocks \ page, NEW i \in CallsOf(b, Registrar), Operations[b][i].name # NoName,
           NEW r \in NameRows(page)
    PROVE  r.name # Operations[b][i].name
<1>1. /\ head \in Block /\ blocks \subseteq Block /\ page \subseteq blocks
      /\ \A c \in blocks : Extends(head, c)
    BY DEF PagesTypeInv, PagesTypeOK, OneBranch
<1>2. PICK c \in page : r \in {[name |-> Operations[c][j].name, block |-> c] : j \in Registrations(c)}
    BY DEF NameRows
<1>3. PICK j \in Registrations(c) : r = [name |-> Operations[c][j].name, block |-> c]
    BY <1>2
<1>4. r.name = Operations[c][j].name /\ j \in CallsOf(c, Registrar)
    BY <1>3 DEF Registrations
<1>5. b \in Chain(head) /\ c \in Chain(head) /\ b # c
    BY <1>1, <1>2, ExtendedIsOfChain
<1> QED
    BY <1>1, <1>4, <1>5 DEF NamesAreRegisteredOnce

LEMMA RegistrationsNext ==
    RegistrationsUpdateTheMaps /\ NamesAreRegisteredOnce
        /\ PagesInv /\ PagesTypeInv /\ BlocksAreLinked /\ TnsMapsAreOfTheBlocks
        /\ RegistrationsAreStored /\ [Next]_vars => RegistrationsAreStored'
<1> SUFFICES ASSUME RegistrationsUpdateTheMaps, NamesAreRegisteredOnce,
                    PagesInv, PagesTypeInv, BlocksAreLinked, TnsMapsAreOfTheBlocks,
                    RegistrationsAreStored, [Next]_vars, reorgs' = 0, failures' = 0,
                    NEW b \in blocks' \ page', NEW i \in CallsOf(b, Registrar),
                    Operations[b][i].name # NoName
             PROVE  [name |-> Operations[b][i].name, block |-> b] \in names' \union unread'
    BY DEF RegistrationsAreStored
<1> DEFINE row == [name |-> Operations[b][i].name, block |-> b]
<1>1. reorgs \in Nat /\ failures \in Nat
    BY DEF PagesTypeInv, PagesTypeOK
<1>2. ~CountFailure
    BY <1>1 DEF CountFailure
<1>3. reorgs = 0 /\ failures = 0
    BY <1>1, <1>2
    DEF Next, Loop, Advance, Reorganise, NoFork, ForkDetected, FetchHead, StorePage, PageWaits,
        PageRefused, ProcessNames, EndIteration, PageFails, NamesFail, Restart, vars, nodeVars
<1>4. b \in blocks \ page => row \in names \union unread
    BY <1>3 DEF RegistrationsAreStored
<1> HIDE DEF row
<1>5. CASE UNCHANGED <<blocks, page, names, unread>>
    BY <1>4, <1>5 DEF row
<1>6. ~ForkDetected
    BY <1>3, NothingOrphaned DEF ForkDetected
<1>7. CASE StorePage
    <2>1. b \in blocks \ page /\ names' = names /\ unread' = unread
        BY <1>7 DEF StorePage, PageIsDue, PagesTypeInv, NamesAreDue, nodeVars
    <2> QED
        BY <1>4, <2>1 DEF row
<1>8. CASE ProcessNames
    <2>1. pc = "names" /\ b \in blocks
        BY <1>8 DEF ProcessNames
    <2>2. PICK rows \in SUBSET NameRows(page) :
            /\ names' = rows \union {n \in names : ~\E m \in rows : m.name = n.name}
            /\ unread' = unread \union (NameRows(page) \ rows)
        BY <1>8 DEF ProcessNames, SaveNames
    <2>3. CASE b \in page
        <3>1. row \in NameRows(page)
            BY <1>3, <2>1, <2>3, RegistrationsAreRead DEF row
        <3> QED
            BY <2>2, <3>1 DEF row
    <2>4. CASE b \notin page
        <3>1. row \in names \union unread /\ row.name = Operations[b][i].name
            BY <1>4, <2>1, <2>4 DEF row
        <3>2. \A m \in NameRows(page) : m.name # row.name
            BY <1>3, <2>1, <2>4, <3>1, RegistrationsAreKept
        <3> QED
            BY <2>2, <3>1, <3>2 DEF row
    <2> QED
        BY <2>3, <2>4
<1> QED
    BY <1>2, <1>5, <1>6, <1>7, <1>8
    DEF Next, Loop, Advance, Reorganise, NoFork, FetchHead, PageWaits, PageRefused, EndIteration,
        PageFails, NamesFail, Restart, vars, nodeVars, tableVars

\* In one run and on one branch every registration of a block whose names were processed
\* is in tezos_names, whichever page the registrar was originated in, unless its content
\* could not be read, as long as registrations update all the registrar's maps and a chain
\* registers a name in one block.
THEOREM RegistrationsReachTheTable ==
    RegistrationsUpdateTheMaps /\ NamesAreRegisteredOnce => (Spec => []RegistrationsAreStored)
<1> SUFFICES ASSUME RegistrationsUpdateTheMaps, NamesAreRegisteredOnce
             PROVE  Spec => []RegistrationsAreStored
    OBVIOUS
<1>1. Init => RegistrationsAreStored
    BY DEF Init, RegistrationsAreStored
<1>2. PagesInv /\ PagesTypeInv /\ BlocksAreLinked /\ TnsMapsAreOfTheBlocks
        /\ RegistrationsAreStored /\ [Next]_vars => RegistrationsAreStored'
    BY RegistrationsNext
<1> QED
    BY <1>1, <1>2, PagesInvariant, PagesTypeInvariant, BlocksStayLinked, TnsMapsInvariant, PTL DEF Spec
=============================================================================
