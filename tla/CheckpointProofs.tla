-------------------------- MODULE CheckpointProofs --------------------------
(***************************************************************************)
(* For any chain, accounts, delegates, page size and failures.  The         *)
(* accounts checkpoint is type correct, loses no update while the node is   *)
(* on one branch, leaves every account row at a valid block and never puts  *)
(* an account back.  The bakers follow the accounts: no delegate of a       *)
(* stored account is lost while the node is on one branch, every baker      *)
(* refers to a valid block and none is put back.                            *)
(***************************************************************************)
EXTENDS BakersCheckpointProps, BlockchainTheorems

(***************************************************************************)
(* Accounts                                                                *)
(***************************************************************************)

LEMMA AccountsBounds ==
    /\ MaxLevel \in Nat /\ MaxReorgs \in Nat /\ MaxFailures \in Nat
    /\ PageSize \in Nat \ {0} /\ NoBlock \notin Block
    /\ Events \subseteq Nat /\ Touched \in [Block -> SUBSET Account]
BY ChainAssumption, AccountsAssumption

LEMMA LevelType ==
    ASSUME NEW b \in Block
    PROVE  Level(b) \in 0..MaxLevel /\ Level(b) \in Nat
BY BlockIsSeq, AccountsBounds

\* Every block of a page is below the target it was counted from.
LEMMA PageIsBelowTarget ==
    ASSUME AccountsInv, pc = "page", nextLevel <= Level(target)
    PROVE  /\ target \in Block
           /\ LastOfPage \in Nat /\ LastOfPage <= MaxLevel /\ nextLevel <= LastOfPage
           /\ Page \subseteq Block
           /\ \A b \in Page : /\ Extends(target, b)
                              /\ nextLevel <= Level(b) /\ Level(b) < LastOfPage + 1
<1>1. target \in Block /\ nextLevel \in Nat
    BY AccountsBounds DEF AccountsInv, PagesGoAbove, Paging, AccountsTypeOK
<1>2. Level(target) \in 0..MaxLevel /\ Level(target) \in Nat
    BY <1>1, LevelType
<1>3. /\ LastOfPage \in Nat /\ LastOfPage <= Level(target) /\ LastOfPage <= MaxLevel
      /\ nextLevel <= LastOfPage
    BY <1>1, <1>2, AccountsBounds DEF LastOfPage
<1>4. /\ Page \subseteq Block
      /\ \A b \in Page : Level(b) \in nextLevel..LastOfPage /\ b = AncestorAt(target, Level(b))
    BY <1>1, <1>3, SegmentLevels DEF Page
<1>5. \A b \in Page : Extends(target, b)
    BY <1>2, <1>3, <1>4 DEF Extends
<1> QED
    BY <1>1, <1>3, <1>4, <1>5

\* The highest indexed level exists when a block does, and -1 stands for none.
LEMMA TopLevel ==
    ASSUME blocks \subseteq Block
    PROVE  MaxIndexed \in -1..MaxLevel /\ \A b \in blocks : Level(b) <= MaxIndexed
<1>1. CASE blocks = {}
    BY <1>1, AccountsBounds DEF MaxIndexed
<1>2. CASE blocks # {}
    <2>1. \E l \in {Level(b) : b \in blocks} : \A b \in blocks : Level(b) <= l
        BY <1>2, HighestLevel
    <2>2. MaxIndexed \in {Level(b) : b \in blocks} /\ \A b \in blocks : Level(b) <= MaxIndexed
        BY <1>2, <2>1 DEF MaxIndexed
    <2> QED
        BY <2>2, LevelType, AccountsBounds
<1> QED
    BY <1>1, <1>2

--------------------------------------------------------------------------
(* One lemma per group of steps: each keeps AccountsInv *)

LEMMA AccountsInit == Init => AccountsInv
<1> SUFFICES ASSUME Init PROVE AccountsInv
    OBVIOUS
<1>1. \A a \in Account : accounts[a] = NoBlock /\ todo[a] = NoBlock
    BY DEF Init, NoTask
<1>2. AccountsTypeOK
    BY AccountsBounds DEF Init, AccountsTypeOK, Steps, NoTask
<1> QED
    BY <1>1, <1>2
    DEF Init, AccountsInv, RowsReferToValidBlocks, NoUpdateLost, PagesGoAbove, Paging,
        TasksAreNewer, IdsArePending, OneBranch, TaskCoversRows

\* What is unchanged is still so, and a step out of a page only forgets the task.
LEMMA AbandonKeeps ==
    ASSUME AccountsInv, Abandon, failures' \in 0..MaxFailures
    PROVE  AccountsInv'
<1>1. \A a \in Account : todo'[a] = NoBlock
    BY DEF Abandon, NoTask
<1>2. AccountsTypeOK'
    BY AccountsBounds
    DEF AccountsInv, AccountsTypeOK, Abandon, NoTask, Steps, nodeVars, dbVars
<1>3. /\ head' = head /\ reorgs' = reorgs /\ unread' = unread /\ blocks' = blocks
      /\ accounts' = accounts /\ checkpoint' = checkpoint /\ pc' = "loop"
    BY DEF Abandon, nodeVars, dbVars
<1>4. ~Paging' /\ (pc # "process")'
    BY <1>3 DEF Paging
<1>5. RowsReferToValidBlocks' /\ NoUpdateLost'
    BY <1>3 DEF AccountsInv, RowsReferToValidBlocks, NoUpdateLost, StoredFrom, Awaits, Unread
<1>6. PagesGoAbove' /\ TasksAreNewer' /\ IdsArePending' /\ TaskCoversRows'
    BY <1>1, <1>4 DEF PagesGoAbove, TasksAreNewer, IdsArePending, TaskCoversRows
<1>7. OneBranch'
    BY <1>3, <1>4 DEF AccountsInv, OneBranch
<1> QED
    BY <1>2, <1>5, <1>6, <1>7 DEF AccountsInv

LEMMA FailuresKeepAccounts == AccountsInv /\ (WriteRefused \/ Fail) => AccountsInv'
<1>1. ASSUME AccountsInv, WriteRefused \/ Fail
      PROVE  Abandon /\ failures' \in 0..MaxFailures
    BY <1>1, AccountsBounds DEF WriteRefused, Fail, AccountsInv, AccountsTypeOK
<1> QED
    BY <1>1, AbandonKeeps

LEMMA AdvanceKeeps == AccountsInv /\ Advance => AccountsInv'
<1> SUFFICES ASSUME AccountsInv, Advance PROVE AccountsInv'
    OBVIOUS
<1>1. /\ head' \in Block /\ Extends(head', head)
      /\ UNCHANGED <<reorgs, unread, dbVars, loopVars, taskVars, failures>>
    BY DEF Advance
<1>2. \A b \in Block : Extends(head, b) => Extends(head', b)
    BY <1>1, ExtendsIsTransitive DEF AccountsInv, AccountsTypeOK
<1>3. AccountsTypeOK'
    BY <1>1 DEF AccountsInv, AccountsTypeOK, dbVars, loopVars, taskVars
<1>4. OneBranch'
    BY <1>1, <1>2
    DEF AccountsInv, AccountsTypeOK, OneBranch, PagesGoAbove, Paging, Requested, dbVars,
        loopVars, taskVars
<1> QED
    BY <1>1, <1>3, <1>4
    DEF AccountsInv, RowsReferToValidBlocks, NoUpdateLost, StoredFrom, Awaits, Unread, PagesGoAbove,
        Paging, TasksAreNewer, IdsArePending, Pending, TaskCoversRows, dbVars, loopVars, taskVars

LEMMA ReorganiseKeeps == AccountsInv /\ Reorganise => AccountsInv'
<1> SUFFICES ASSUME AccountsInv, Reorganise PROVE AccountsInv'
    OBVIOUS
<1>1. /\ head' \in Block /\ reorgs < MaxReorgs /\ reorgs' = reorgs + 1
      /\ UNCHANGED <<unread, dbVars, loopVars, taskVars, failures>>
    BY DEF Reorganise
<1>2. reorgs' \in 0..MaxReorgs /\ reorgs' # 0
    BY <1>1, AccountsBounds DEF AccountsInv, AccountsTypeOK
<1>3. AccountsTypeOK'
    BY <1>1, <1>2 DEF AccountsInv, AccountsTypeOK, dbVars, loopVars, taskVars
<1>4. NoUpdateLost' /\ OneBranch' /\ TaskCoversRows'
    BY <1>2 DEF NoUpdateLost, OneBranch, TaskCoversRows
<1> QED
    BY <1>1, <1>3, <1>4
    DEF AccountsInv, RowsReferToValidBlocks, PagesGoAbove, Paging, TasksAreNewer,
        IdsArePending, Pending, dbVars, loopVars, taskVars

\* The steps that move the loop and change no table the invariant is about.
LEMMA MovesKeep ==
    AccountsInv /\ (NoFork \/ NothingToReset \/ MarkProcessed \/ EndIteration \/ NothingLeft)
        => AccountsInv'
<1> SUFFICES ASSUME AccountsInv,
                    NoFork \/ NothingToReset \/ MarkProcessed \/ EndIteration \/ NothingLeft
             PROVE  AccountsInv'
    OBVIOUS
<1>1. /\ UNCHANGED <<nodeVars, blocks, accounts, known, checkpoint, taskVars, failures>>
      /\ pc' \in {"resets", "fetchHead", "loop", "page"}
      /\ pc' = "page" => pc = "recover" /\ target' = target /\ nextLevel' = nextLevel
      /\ target' \in {target, NoBlock} /\ nextLevel' \in {nextLevel, 0}
    BY DEF NoFork, NothingToReset, MarkProcessed, EndIteration, NothingLeft, dbVars
<1>2. processed' \subseteq Events
    BY DEF NoFork, NothingToReset, MarkProcessed, EndIteration, NothingLeft, dbVars, Past,
           AccountsInv, AccountsTypeOK
<1>3. AccountsTypeOK'
    BY <1>1, <1>2, AccountsBounds
    DEF AccountsInv, AccountsTypeOK, Steps, nodeVars, taskVars
<1>4. Paging' => Paging /\ target' = target /\ nextLevel' = nextLevel
    BY <1>1 DEF Paging
<1>5. PagesGoAbove' /\ OneBranch'
    BY <1>1, <1>4 DEF AccountsInv, PagesGoAbove, OneBranch, nodeVars
<1> QED
    BY <1>1, <1>3, <1>5
    DEF AccountsInv, RowsReferToValidBlocks, NoUpdateLost, StoredFrom, Awaits, Unread,
        TasksAreNewer, IdsArePending, TaskCoversRows, nodeVars, taskVars

\* An amendment cuts the blocks and the account rows at the same level.
LEMMA ForkKeeps == AccountsInv /\ ForkDetected => AccountsInv'
<1> SUFFICES ASSUME AccountsInv, ForkDetected PROVE AccountsInv'
    OBVIOUS
<1>1. PICK top \in blocks : ~Extends(head, top) /\ AmendFork(Level(top))
    BY DEF ForkDetected, Orphaned
<1>2. /\ pc' = "resets"
      /\ UNCHANGED <<nodeVars, target, nextLevel, taskVars, failures>>
    BY DEF ForkDetected
<1>3. blocks \subseteq Block /\ Level(top) \in Nat
    BY <1>1, LevelType DEF AccountsInv, AccountsTypeOK
<1>4. /\ blocks' = {b \in blocks : Level(b) < Level(top)}
      /\ \A a \in Account : accounts'[a] # NoBlock =>
           accounts'[a] = accounts[a] /\ ~(Level(accounts[a]) >= Level(top))
      /\ accounts' \in [Account -> Block \union {NoBlock}]
      /\ processed' \subseteq Events
      /\ UNCHANGED <<known, checkpoint>>
    BY <1>1 DEF AmendFork, AccountsInv, AccountsTypeOK
<1>5. AccountsTypeOK'
    BY <1>2, <1>4 DEF AccountsInv, AccountsTypeOK, Steps, nodeVars, taskVars
<1>6. RowsReferToValidBlocks'
    <2>1. SUFFICES ASSUME NEW a \in Account, accounts'[a] # NoBlock
                   PROVE  accounts'[a] \in blocks'
        BY DEF RowsReferToValidBlocks
    <2>2. /\ accounts'[a] = accounts[a] /\ ~(Level(accounts[a]) >= Level(top))
          /\ accounts[a] \in blocks
        BY <1>4, <2>1 DEF AccountsInv, RowsReferToValidBlocks
    <2>3. Level(accounts[a]) \in Nat
        BY <1>3, <2>2, LevelType
    <2> QED
        BY <1>3, <1>4, <2>2, <2>3
<1>7. TasksAreNewer'
    BY <1>2, <1>4 DEF AccountsInv, TasksAreNewer, taskVars
<1>8. reorgs' # 0
    BY <1>1, <1>2 DEF AccountsInv, OneBranch, nodeVars
<1> QED
    BY <1>2, <1>5, <1>6, <1>7, <1>8
    DEF AccountsInv, NoUpdateLost, PagesGoAbove, Paging, IdsArePending, OneBranch, TaskCoversRows

\* A refill only adds rows, for an indexed block.
LEMMA RefillKeepsAccounts == AccountsInv /\ Refill => AccountsInv'
<1> SUFFICES ASSUME AccountsInv, Refill PROVE AccountsInv'
    OBVIOUS
<1>1. PICK b \in blocks : checkpoint' = checkpoint \union (known \X {b})
    BY DEF Refill
<1>2. /\ pc' = "mark"
      /\ UNCHANGED <<nodeVars, blocks, accounts, known, processed, target, nextLevel, taskVars,
                     failures>>
    BY DEF Refill
<1>3. \A row \in checkpoint' : row \in checkpoint \/ (row[1] \in known /\ row[2] = b)
    BY <1>1
<1>4. AccountsTypeOK'
    BY <1>1, <1>2 DEF AccountsInv, AccountsTypeOK, Steps, nodeVars, taskVars
<1>5. NoUpdateLost'
    BY <1>1, <1>2 DEF AccountsInv, NoUpdateLost, StoredFrom, Awaits, Unread, nodeVars
<1>6. ~Paging' /\ pc' # "process"
    BY <1>2 DEF Paging
<1>7. OneBranch'
    BY <1>2, <1>3, <1>6 DEF AccountsInv, OneBranch, nodeVars
<1> QED
    BY <1>2, <1>4, <1>5, <1>6, <1>7
    DEF AccountsInv, RowsReferToValidBlocks, PagesGoAbove, TasksAreNewer, IdsArePending,
        TaskCoversRows, taskVars

LEMMA FetchHeadKeeps == AccountsInv /\ FetchHead => AccountsInv'
<1> SUFFICES ASSUME AccountsInv, FetchHead PROVE AccountsInv'
    OBVIOUS
<1>1. /\ pc' = "page" /\ target' = head /\ nextLevel' = MaxIndexed + 1
      /\ UNCHANGED <<nodeVars, dbVars, taskVars, failures>>
    BY DEF FetchHead
<1>2. MaxIndexed \in -1..MaxLevel /\ \A b \in blocks : Level(b) <= MaxIndexed
    BY TopLevel DEF AccountsInv, AccountsTypeOK
<1>3. MaxIndexed + 1 \in 0..MaxLevel + 1
    BY <1>2, AccountsBounds
<1>4. AccountsTypeOK'
    BY <1>1, <1>3 DEF AccountsInv, AccountsTypeOK, Steps, nodeVars, dbVars, taskVars
<1>5. PagesGoAbove'
    <2>1. \A b \in blocks : Level(b) < MaxIndexed + 1
        BY <1>2, LevelType, AccountsBounds DEF AccountsInv, AccountsTypeOK
    <2> QED
        BY <1>1, <2>1 DEF AccountsInv, AccountsTypeOK, PagesGoAbove, dbVars
<1>6. Extends(head, head)
    <2>1. head \in Block
        BY DEF AccountsInv, AccountsTypeOK
    <2> QED
        BY <2>1, OwnAncestor, LevelType DEF Extends
<1>7. OneBranch'
    BY <1>1, <1>6 DEF AccountsInv, OneBranch, nodeVars, dbVars
<1> QED
    BY <1>1, <1>4, <1>5, <1>7
    DEF AccountsInv, RowsReferToValidBlocks, NoUpdateLost, StoredFrom, Awaits, Unread,
        TasksAreNewer, IdsArePending, TaskCoversRows, nodeVars, dbVars, taskVars

\* The choice of the latest row of each account
LEMMA LatestIsThere ==
    ASSUME NEW f, NEW rows, NEW a \in Account, IsLatest(f, rows), rows \subseteq Account \X Block
    PROVE  /\ f[a] # NoBlock => <<a, f[a]>> \in rows
           /\ \A row \in rows :
                row[1] = a => /\ f[a] \in Block /\ f[a] # NoBlock
                              /\ Level(f[a]) >= Level(row[2])
<1>1. CASE \E row \in rows : row[1] = a
    <2>1. <<a, f[a]>> \in rows /\ \A row \in rows : row[1] = a => Level(row[2]) <= Level(f[a])
        BY <1>1 DEF IsLatest
    <2>2. f[a] \in Block
        BY <2>1
    <2>3. \A row \in rows : Level(row[2]) \in Nat
        BY LevelType
    <2> QED
        BY <2>1, <2>2, <2>3, LevelType, AccountsBounds
<1>2. CASE ~\E row \in rows : row[1] = a
    BY <1>2 DEF IsLatest
<1> QED
    BY <1>1, <1>2

\* A page leaves a row for every account it touched; its task is newer than whatever
\* is stored, and than the rows that earlier failures left.
LEMMA StorePageKeepsAccounts == AccountsInv /\ StorePage => AccountsInv'
<1> SUFFICES ASSUME AccountsInv, StorePage PROVE AccountsInv'
    OBVIOUS
<1>1. /\ pc = "page" /\ nextLevel <= Level(target)
      /\ blocks' = blocks \union Page /\ checkpoint' = checkpoint \union PageRows
      /\ source' = "page" /\ ids' = {row[1] : row \in PageRows}
      /\ todo' \in [Account -> Page \union {NoBlock}] /\ IsLatest(todo', PageRows)
      /\ nextLevel' = LastOfPage + 1 /\ pc' = "process"
      /\ UNCHANGED <<nodeVars, accounts, known, processed, target, failures>>
    BY DEF StorePage
<1>2. /\ target \in Block
      /\ LastOfPage \in Nat /\ LastOfPage <= MaxLevel /\ nextLevel <= LastOfPage
      /\ Page \subseteq Block
      /\ \A b \in Page : /\ Extends(target, b)
                         /\ nextLevel <= Level(b) /\ Level(b) < LastOfPage + 1
    BY <1>1, PageIsBelowTarget
<1>3. blocks \subseteq Block /\ nextLevel \in Nat /\ checkpoint \subseteq Account \X Block
    BY AccountsBounds DEF AccountsInv, AccountsTypeOK
<1>4. \A b \in blocks : Level(b) \in Nat /\ Level(b) < nextLevel
    BY <1>1, <1>3, LevelType DEF AccountsInv, PagesGoAbove, Paging
<1>5. PageRows \subseteq Account \X Page /\ PageRows \subseteq Account \X Block
    BY <1>2 DEF PageRows
<1>6. AccountsTypeOK'
    <2>1. LastOfPage + 1 \in 0..MaxLevel + 1
        BY <1>2, AccountsBounds
    <2>2. ids' \subseteq Account
        BY <1>1, <1>5
    <2>3. todo' \in [Account -> Block \union {NoBlock}]
        BY <1>1, <1>2
    <2> QED
        BY <1>1, <1>2, <1>5, <2>1, <2>2, <2>3
        DEF AccountsInv, AccountsTypeOK, Steps, nodeVars
<1>7. RowsReferToValidBlocks'
    BY <1>1 DEF AccountsInv, RowsReferToValidBlocks
<1>8. NoUpdateLost'
    <2>1. SUFFICES ASSUME reorgs = 0, NEW b \in blocks', NEW a \in Touched[b]
                   PROVE  StoredFrom(a, Level(b)) \/ Awaits(a, Level(b))'
                            \/ Unread(a, Level(b))
        BY <1>1 DEF NoUpdateLost, StoredFrom, Unread, nodeVars
    <2>2. CASE b \in blocks
        BY <1>1, <2>1, <2>2 DEF AccountsInv, NoUpdateLost, Awaits
    <2>3. CASE b \in Page
        <3>1. a \in Account /\ Level(b) \in Nat
            BY <1>2, <2>1, <2>3, LevelType, AccountsBounds
        <3>2. <<a, b>> \in checkpoint'
            BY <1>1, <2>1, <2>3, <3>1 DEF PageRows
        <3>3. <<a, b>>[1] = a /\ Level(<<a, b>>[2]) >= Level(b)
            BY <3>1
        <3> QED
            BY <3>2, <3>3 DEF Awaits
    <2> QED
        BY <1>1, <2>2, <2>3
<1>9. PagesGoAbove'
    <2>1. \A b \in blocks' : Level(b) < LastOfPage + 1
        BY <1>1, <1>2, <1>3, <1>4
    <2> QED
        BY <1>1, <1>2, <2>1 DEF PagesGoAbove
<1>10. \A a \in Account : todo'[a] # NoBlock => /\ todo'[a] \in Page
                                                /\ Level(todo'[a]) \in Nat
                                                /\ nextLevel <= Level(todo'[a])
    BY <1>1, <1>2, LevelType
<1>11. TasksAreNewer'
    <2>1. \A a \in Account : accounts[a] # NoBlock => accounts[a] \in blocks
        BY DEF AccountsInv, RowsReferToValidBlocks
    <2> QED
        BY <1>1, <1>3, <1>4, <1>10, <2>1 DEF TasksAreNewer
<1>12. IdsArePending'
    BY <1>1 DEF IdsArePending, Pending
<1>13. OneBranch'
    <2>1. SUFFICES ASSUME reorgs = 0
                   PROVE  /\ \A b \in blocks' : Extends(head, b)
                          /\ Extends(head, target)
                          /\ \A row \in checkpoint' : row[2] \in blocks'
                          /\ Requested' \subseteq blocks'
        BY <1>1 DEF OneBranch, nodeVars
    <2>2. /\ \A b \in blocks : Extends(head, b)
          /\ Extends(head, target)
          /\ \A row \in checkpoint : row[2] \in blocks
        BY <1>1, <2>1 DEF AccountsInv, OneBranch, Paging
    <2>3. \A b \in Page : Extends(head, b)
        BY <1>2, <2>2, ExtendsIsTransitive DEF AccountsInv, AccountsTypeOK
    <2>4. Requested' \subseteq Page
        BY <1>10 DEF Requested
    <2> QED
        BY <1>1, <1>5, <2>2, <2>3, <2>4
<1>14. TaskCoversRows'
    <2>1. SUFFICES ASSUME reorgs = 0, NEW row \in checkpoint', row[1] \in ids'
                   PROVE  todo'[row[1]] # NoBlock /\ Level(todo'[row[1]]) >= Level(row[2])
        BY <1>1 DEF TaskCoversRows, nodeVars
    <2>2. PICK new \in PageRows : new[1] = row[1]
        BY <1>1, <2>1
    <2>3. row[1] \in Account /\ todo'[row[1]] # NoBlock
        BY <1>1, <1>5, <2>2, LatestIsThere
    <2>4. CASE row \in PageRows
        BY <1>1, <1>5, <2>3, <2>4, LatestIsThere
    <2>5. CASE row \in checkpoint
        <3>1. row[2] \in blocks
            BY <2>1, <2>5 DEF AccountsInv, OneBranch
        <3> QED
            BY <1>3, <1>4, <1>10, <2>3, <3>1
    <2> QED
        BY <1>1, <2>1, <2>4, <2>5
<1> QED
    BY <1>6, <1>7, <1>8, <1>9, <1>11, <1>12, <1>13, <1>14 DEF AccountsInv

\* What is written is newer than what was stored, and covers what it is fetched for.
LEMMA WriteKeeps == AccountsInv /\ WriteAccounts => AccountsInv'
<1> SUFFICES ASSUME AccountsInv, WriteAccounts PROVE AccountsInv'
    OBVIOUS
<1>1. PICK group \in SUBSET Requested :
        /\ group \subseteq blocks
        /\ accounts' = [a \in Account |-> IF todo[a] \in group THEN todo[a] ELSE accounts[a]]
        /\ known' = known \union Fetched(group)
        /\ todo' = [a \in Account |-> IF todo[a] \in group THEN NoBlock ELSE todo[a]]
    BY DEF WriteAccounts
<1>2. /\ pc = "process"
      /\ UNCHANGED <<nodeVars, blocks, checkpoint, processed, loopVars, source, ids, failures>>
    BY DEF WriteAccounts
<1>3. /\ blocks \subseteq Block /\ NoBlock \notin blocks /\ checkpoint \subseteq Account \X Block
      /\ accounts \in [Account -> Block \union {NoBlock}]
      /\ todo \in [Account -> Block \union {NoBlock}]
    BY AccountsBounds DEF AccountsInv, AccountsTypeOK
<1>4. AccountsTypeOK'
    <2>1. accounts' \in [Account -> Block \union {NoBlock}]
        BY <1>1, <1>3
    <2>2. todo' \in [Account -> Block \union {NoBlock}]
        BY <1>1, <1>3
    <2> QED
        BY <1>1, <1>2, <2>1, <2>2
        DEF AccountsInv, AccountsTypeOK, Fetched, nodeVars, loopVars
<1>5. RowsReferToValidBlocks'
    BY <1>1, <1>2 DEF AccountsInv, RowsReferToValidBlocks
<1>6. ASSUME NEW a \in Account, NEW l \in Nat, StoredFrom(a, l)
      PROVE  StoredFrom(a, l)'
    <2>1. accounts[a] \in Block /\ Level(accounts[a]) \in Nat /\ Level(accounts[a]) >= l
        BY <1>3, <1>6, LevelType DEF StoredFrom
    <2>2. CASE todo[a] \in group
        <3>1. accounts'[a] = todo[a] /\ todo[a] # NoBlock /\ todo[a] \in Block
            BY <1>1, <1>3, <2>2
        <3>2. Level(todo[a]) >= Level(accounts[a]) /\ Level(todo[a]) \in Nat
            BY <1>6, <3>1, LevelType DEF AccountsInv, TasksAreNewer, StoredFrom
        <3> QED
            BY <2>1, <3>1, <3>2 DEF StoredFrom
    <2>3. CASE todo[a] \notin group
        BY <1>1, <1>6, <2>3 DEF StoredFrom
    <2> QED
        BY <2>2, <2>3
<1>7. NoUpdateLost'
    <2>1. SUFFICES ASSUME reorgs = 0, NEW b \in blocks, NEW a \in Touched[b]
                   PROVE  StoredFrom(a, Level(b))' \/ Awaits(a, Level(b))
                            \/ Unread(a, Level(b))
        BY <1>2 DEF NoUpdateLost, Awaits, Unread, nodeVars
    <2>2. a \in Account /\ Level(b) \in Nat
        BY <1>3, <2>1, LevelType, AccountsBounds
    <2> QED
        BY <1>6, <2>1, <2>2 DEF AccountsInv, NoUpdateLost
<1>8. PagesGoAbove' /\ IdsArePending'
    BY <1>2 DEF AccountsInv, PagesGoAbove, Paging, IdsArePending, Pending, loopVars
<1>9. TasksAreNewer'
    BY <1>1 DEF AccountsInv, TasksAreNewer
<1>10. Requested' \subseteq Requested
    BY <1>1 DEF Requested
<1>11. OneBranch'
    BY <1>2, <1>10 DEF AccountsInv, OneBranch, Paging, nodeVars, loopVars
<1>12. TaskCoversRows'
    <2>1. SUFFICES ASSUME reorgs = 0, NEW row \in checkpoint, row[1] \in ids
                   PROVE  \/ StoredFrom(row[1], Level(row[2]))'
                          \/ todo'[row[1]] # NoBlock /\ Level(todo'[row[1]]) >= Level(row[2])
                          \/ Unread(row[1], Level(row[2]))
        BY <1>2 DEF TaskCoversRows, Unread, nodeVars, loopVars
    <2>2. row[1] \in Account /\ row[2] \in Block /\ Level(row[2]) \in Nat
        BY <1>3, <2>1, LevelType
    <2>3. CASE StoredFrom(row[1], Level(row[2]))
        BY <1>6, <2>2, <2>3
    <2>4. CASE todo[row[1]] # NoBlock /\ Level(todo[row[1]]) >= Level(row[2])
        BY <1>1, <2>2, <2>4 DEF StoredFrom
    <2> QED
        BY <1>2, <2>1, <2>3, <2>4 DEF AccountsInv, TaskCoversRows
<1> QED
    BY <1>4, <1>5, <1>7, <1>8, <1>9, <1>11, <1>12 DEF AccountsInv

\* What is not found is on another branch, or was read in vain: the rows it was to be
\* fetched by may be deleted with it.
LEMMA NotFoundKeeps == AccountsInv /\ NotFound => AccountsInv'
<1> SUFFICES ASSUME AccountsInv, NotFound PROVE AccountsInv'
    OBVIOUS
<1>1. PICK lost \in Account :
        /\ todo[lost] # NoBlock
        /\ todo' = [todo EXCEPT ![lost] = NoBlock]
        /\ \/ ~Extends(head, todo[lost]) /\ unread' = unread
           \/ unread' = unread \union {<<lost, todo[lost]>>}
    BY DEF NotFound
<1>2. pc = "process" /\ UNCHANGED <<head, reorgs, dbVars, loopVars, source, ids, failures>>
    BY DEF NotFound
<1>3. todo \in [Account -> Block \union {NoBlock}] /\ todo[lost] \in Block
    BY <1>1 DEF AccountsInv, AccountsTypeOK
<1>4. \A a \in Account : todo'[a] = IF a = lost THEN NoBlock ELSE todo[a]
    BY <1>1, <1>3
<1>5. AccountsTypeOK'
    BY <1>1, <1>2, <1>3 DEF AccountsInv, AccountsTypeOK, dbVars, loopVars
<1>6. TasksAreNewer' /\ PagesGoAbove' /\ IdsArePending' /\ RowsReferToValidBlocks'
    BY <1>2, <1>4
    DEF AccountsInv, TasksAreNewer, PagesGoAbove, Paging, IdsArePending, Pending,
        RowsReferToValidBlocks, dbVars, loopVars
<1>7. Requested' \subseteq Requested
    BY <1>4 DEF Requested
<1>8. OneBranch'
    BY <1>2, <1>7 DEF AccountsInv, OneBranch, Paging, dbVars, loopVars
<1>9. unread \subseteq unread'
    BY <1>1
<1>10. NoUpdateLost'
    BY <1>2, <1>9 DEF AccountsInv, NoUpdateLost, StoredFrom, Awaits, Unread, dbVars
<1>11. TaskCoversRows'
    <2>1. SUFFICES ASSUME reorgs = 0, NEW row \in checkpoint, row[1] \in ids
                   PROVE  \/ StoredFrom(row[1], Level(row[2]))
                          \/ todo'[row[1]] # NoBlock /\ Level(todo'[row[1]]) >= Level(row[2])
                          \/ \E r \in unread' : r[1] = row[1] /\ Level(r[2]) >= Level(row[2])
        BY <1>2 DEF TaskCoversRows, StoredFrom, Unread, dbVars, loopVars
    <2>2. \/ StoredFrom(row[1], Level(row[2]))
          \/ todo[row[1]] # NoBlock /\ Level(todo[row[1]]) >= Level(row[2])
          \/ Unread(row[1], Level(row[2]))
        BY <1>2, <2>1 DEF AccountsInv, TaskCoversRows
    <2>3. row[1] \in Account
        BY <2>1 DEF AccountsInv, AccountsTypeOK
    <2>4. CASE row[1] # lost
        BY <1>4, <1>9, <2>2, <2>3, <2>4 DEF Unread
    <2>5. CASE row[1] = lost /\ Level(todo[lost]) >= Level(row[2])
        <3>1. Extends(head, todo[lost])
            BY <1>2, <1>3, <2>1, <1>1 DEF AccountsInv, OneBranch, Requested
        <3>2. <<lost, todo[lost]>> \in unread'
            BY <1>1, <3>1
        <3> QED
            BY <2>5, <3>2
    <2> QED
        BY <1>9, <2>2, <2>4, <2>5 DEF Unread
<1> QED
    BY <1>5, <1>6, <1>8, <1>10, <1>11 DEF AccountsInv

\* The clean-up deletes no row of an account that the task was not about: when the
\* ids are as many as all the pending ones, they are all the pending ones.
LEMMA CleanIsExact ==
    ASSUME AccountsInv, pc = "process", Clean
    PROVE  checkpoint' = {row \in checkpoint : row[1] \notin ids}
<1>1. ids \subseteq Pending /\ Pending \subseteq Account
    BY DEF AccountsInv, AccountsTypeOK, IdsArePending, Pending
<1>2. IsFiniteSet(Pending) /\ IsFiniteSet(ids)
    BY <1>1, FS_Subset, AccountsAssumption
<1>3. Cardinality(Pending) \in Nat /\ Cardinality(ids) \in Nat
    BY <1>2, FS_CardinalityType
<1>4. CASE Cardinality(Pending) > Cardinality(ids)
    BY <1>4 DEF Clean
<1>5. CASE ~(Cardinality(Pending) > Cardinality(ids))
    <2>1. ids = Pending
        <3>1. /\ Cardinality(ids) <= Cardinality(Pending)
              /\ Cardinality(Pending) = Cardinality(ids) => Pending = ids
            BY <1>1, <1>2, FS_Subset
        <3> QED
            BY <1>3, <1>5, <3>1
    <2>2. \A row \in checkpoint : row[1] \in ids
        BY <2>1 DEF Pending
    <2> QED
        BY <1>5, <2>2 DEF Clean
<1> QED
    BY <1>4, <1>5

LEMMA ProcessedKeeps == AccountsInv /\ Processed => AccountsInv'
<1> SUFFICES ASSUME AccountsInv, Processed PROVE AccountsInv'
    OBVIOUS
<1>1. /\ pc = "process" /\ Requested = {} /\ pc' \in {"recover", "page"} /\ ids' = {}
      /\ UNCHANGED <<nodeVars, blocks, accounts, known, processed, target, nextLevel, source,
                     todo, failures>>
    BY DEF Processed
<1>2. checkpoint' = {row \in checkpoint : row[1] \notin ids}
    BY <1>1, CleanIsExact DEF Processed
<1>3. AccountsTypeOK'
    BY <1>1, <1>2 DEF AccountsInv, AccountsTypeOK, Steps, nodeVars
<1>4. NoUpdateLost'
    <2>1. SUFFICES ASSUME reorgs = 0, NEW b \in blocks, NEW a \in Touched[b]
                   PROVE  StoredFrom(a, Level(b)) \/ Awaits(a, Level(b))'
                            \/ Unread(a, Level(b))
        BY <1>1 DEF NoUpdateLost, StoredFrom, Unread, nodeVars
    <2>2. /\ a \in Account /\ Level(b) \in Nat
          /\ accounts[a] \in Block \union {NoBlock} /\ checkpoint \subseteq Account \X Block
        BY <2>1, LevelType, AccountsBounds DEF AccountsInv, AccountsTypeOK
    <2>3. CASE StoredFrom(a, Level(b))
        BY <2>3
    <2>4. CASE Awaits(a, Level(b))
        <3>1. PICK row \in checkpoint : row[1] = a /\ Level(row[2]) >= Level(b)
            BY <2>4 DEF Awaits
        <3>2. CASE a \notin ids
            BY <1>2, <3>1, <3>2 DEF Awaits
        <3>3. CASE a \in ids
            <4>1. todo[a] = NoBlock
                BY <1>1, <2>2 DEF Requested
            <4>2. StoredFrom(a, Level(row[2])) \/ Unread(a, Level(row[2]))
                BY <1>1, <2>1, <3>1, <3>3, <4>1 DEF AccountsInv, TaskCoversRows
            <4>3. Level(row[2]) \in Nat
                BY <2>2, <3>1, LevelType
            <4>4. CASE StoredFrom(a, Level(row[2]))
                <5>1. Level(accounts[a]) \in Nat
                    BY <2>2, <4>4, LevelType DEF StoredFrom
                <5> QED
                    BY <2>2, <3>1, <4>3, <4>4, <5>1 DEF StoredFrom
            <4>5. CASE Unread(a, Level(row[2]))
                <5>1. PICK r \in unread : r[1] = a /\ Level(r[2]) >= Level(row[2])
                    BY <4>5 DEF Unread
                <5>2. Level(r[2]) \in Nat
                    BY <5>1, LevelType DEF AccountsInv, AccountsTypeOK
                <5> QED
                    BY <2>2, <3>1, <4>3, <5>1, <5>2 DEF Unread
            <4> QED
                BY <4>2, <4>4, <4>5
        <3> QED
            BY <3>2, <3>3
    <2> QED
        BY <2>1, <2>3, <2>4 DEF AccountsInv, NoUpdateLost
<1>5. PagesGoAbove'
    BY <1>1 DEF AccountsInv, PagesGoAbove, Paging
<1>6. OneBranch'
    BY <1>1, <1>2 DEF AccountsInv, OneBranch, Paging, nodeVars
<1> QED
    BY <1>1, <1>3, <1>4, <1>5, <1>6
    DEF AccountsInv, RowsReferToValidBlocks, TasksAreNewer, IdsArePending, TaskCoversRows

\* A recovery fetches the latest row of every pending account, unless newer data are
\* stored, so its task is never older.
LEMMA RecoverKeeps == AccountsInv /\ Recover => AccountsInv'
<1> SUFFICES ASSUME AccountsInv, Recover PROVE AccountsInv'
    OBVIOUS
<1>1. /\ pc = "recover" /\ pc' = "process" /\ source' = "checkpoint" /\ ids' = Pending
      /\ UNCHANGED <<nodeVars, dbVars, target, nextLevel, failures>>
    BY DEF Recover
<1>2. PICK latest \in [Account -> {row[2] : row \in checkpoint} \union {NoBlock}] :
        IsLatest(latest, checkpoint) /\ todo' = Pruned(latest)
    BY DEF Recover
<1>3. /\ checkpoint \subseteq Account \X Block
      /\ accounts \in [Account -> Block \union {NoBlock}]
    BY DEF AccountsInv, AccountsTypeOK
<1>4. \A a \in Account :
        latest[a] # NoBlock => <<a, latest[a]>> \in checkpoint /\ latest[a] \in Block
    BY <1>2, <1>3, LatestIsThere
<1>5. \A a \in Account :
        /\ todo'[a] \in {latest[a], NoBlock}
        /\ todo'[a] # latest[a] => /\ accounts[a] # NoBlock
                                   /\ Level(accounts[a]) > Level(latest[a])
        /\ todo'[a] # NoBlock /\ accounts[a] # NoBlock =>
             ~(Level(accounts[a]) > Level(latest[a]))
    BY <1>2 DEF Pruned
<1>6. AccountsTypeOK'
    <2>1. todo' \in [Account -> Block \union {NoBlock}]
        BY <1>2, <1>4 DEF Pruned
    <2>2. Pending \subseteq Account
        BY <1>3 DEF Pending
    <2> QED
        BY <1>1, <2>1, <2>2 DEF AccountsInv, AccountsTypeOK, Steps, nodeVars, dbVars
<1>7. PagesGoAbove' /\ IdsArePending'
    BY <1>1 DEF AccountsInv, PagesGoAbove, Paging, IdsArePending, Pending, dbVars
<1>8. TasksAreNewer'
    <2>1. SUFFICES ASSUME NEW a \in Account, todo'[a] # NoBlock, accounts[a] # NoBlock
                   PROVE  Level(todo'[a]) >= Level(accounts[a])
        BY <1>1 DEF TasksAreNewer, dbVars
    <2>2. todo'[a] = latest[a] /\ latest[a] \in Block /\ accounts[a] \in Block
        BY <1>3, <1>4, <1>5, <2>1
    <2>3. ~(Level(accounts[a]) > Level(latest[a]))
        BY <1>5, <2>1
    <2> QED
        BY <2>2, <2>3, LevelType
<1>9. OneBranch'
    <2>1. \A a \in Account : todo'[a] # NoBlock => \E row \in checkpoint : row[2] = todo'[a]
        <3>1. SUFFICES ASSUME NEW a \in Account, todo'[a] # NoBlock
                       PROVE  \E row \in checkpoint : row[2] = todo'[a]
            OBVIOUS
        <3>2. <<a, todo'[a]>> \in checkpoint
            BY <1>4, <1>5, <3>1
        <3> QED
            BY <3>2
    <2> QED
        BY <1>1, <2>1 DEF AccountsInv, OneBranch, Paging, Requested, nodeVars, dbVars
<1>10. TaskCoversRows'
    <2>1. SUFFICES ASSUME NEW row \in checkpoint
                   PROVE  \/ StoredFrom(row[1], Level(row[2]))
                          \/ todo'[row[1]] # NoBlock /\ Level(todo'[row[1]]) >= Level(row[2])
        BY <1>1 DEF TaskCoversRows, StoredFrom, dbVars
    <2> DEFINE a == row[1]
    <2>2. a \in Account /\ row[2] \in Block
        BY <1>3
    <2>3. /\ latest[a] \in Block /\ latest[a] # NoBlock
          /\ Level(latest[a]) >= Level(row[2])
        BY <1>2, <1>3, <2>2, LatestIsThere
    <2>4. CASE todo'[a] = latest[a]
        BY <2>3, <2>4
    <2>5. CASE todo'[a] # latest[a]
        <3>1. accounts[a] # NoBlock /\ Level(accounts[a]) > Level(latest[a])
            BY <1>5, <2>2, <2>5
        <3>2. accounts[a] \in Block
            BY <1>3, <2>2, <3>1
        <3> QED
            BY <2>2, <2>3, <3>1, <3>2, LevelType DEF StoredFrom
    <2> QED
        BY <2>4, <2>5
<1> QED
    BY <1>1, <1>6, <1>7, <1>8, <1>9, <1>10
    DEF AccountsInv, RowsReferToValidBlocks, NoUpdateLost, StoredFrom, Awaits, Unread, nodeVars,
        dbVars

--------------------------------------------------------------------------
(* The theorems *)

LEMMA AccountsStepKeeps == AccountsInv /\ [Next]_vars => AccountsInv'
<1>1. AccountsInv /\ Next => AccountsInv'
    BY AdvanceKeeps, ReorganiseKeeps, MovesKeep, ForkKeeps, RefillKeepsAccounts, FetchHeadKeeps,
       StorePageKeepsAccounts, WriteKeeps, NotFoundKeeps, ProcessedKeeps, RecoverKeeps,
       FailuresKeepAccounts
    DEF Next
<1>2. AccountsInv /\ UNCHANGED vars => AccountsInv'
    BY DEF vars, nodeVars, dbVars, loopVars, taskVars, AccountsInv, AccountsTypeOK,
           RowsReferToValidBlocks, NoUpdateLost, StoredFrom, Awaits, Unread, PagesGoAbove, Paging,
           TasksAreNewer, IdsArePending, Pending, OneBranch, Requested, TaskCoversRows
<1> QED
    BY <1>1, <1>2

LEMMA AccountsInvariant == Spec => []AccountsInv
BY AccountsInit, AccountsStepKeeps, PTL DEF Spec

\* The tables and the tasks of the checkpoint are type correct.
THEOREM AccountsTypeCorrect == Spec => []AccountsTypeOK
<1>1. AccountsInv => AccountsTypeOK
    BY DEF AccountsInv
<1> QED
    BY <1>1, AccountsInvariant, PTL

\* While the node is on one branch no failure makes the accounts table miss a block.
THEOREM UpdatesAreNotLost == Spec => []NoUpdateLost
<1>1. AccountsInv => NoUpdateLost
    BY DEF AccountsInv
<1> QED
    BY <1>1, AccountsInvariant, PTL

\* Account rows and blocks are invalidated together, whatever the forks.
THEOREM RowsStayValid == Spec => []RowsReferToValidBlocks
<1>1. AccountsInv => RowsReferToValidBlocks
    BY DEF AccountsInv
<1> QED
    BY <1>1, AccountsInvariant, PTL

\* Neither a page nor a recovery replaces an account by older data.
THEOREM RowsDoNotRegress == Spec => RowsNeverRegress
<1> DEFINE Grow ==
        \A a \in Account :
            accounts[a] # NoBlock /\ accounts'[a] # NoBlock
              => Level(accounts'[a]) >= Level(accounts[a])
<1>1. AccountsInv /\ [Next]_vars => [Grow]_accounts
    <2> SUFFICES ASSUME AccountsInv, [Next]_vars, accounts' # accounts,
                        NEW a \in Account, accounts[a] # NoBlock, accounts'[a] # NoBlock
                 PROVE  Level(accounts'[a]) >= Level(accounts[a])
        OBVIOUS
    <2>1. accounts[a] \in Block /\ Level(accounts[a]) \in Nat
        BY LevelType DEF AccountsInv, AccountsTypeOK
    <2>2. ForkDetected \/ WriteAccounts
        BY DEF Next, Advance, Reorganise, NoFork, NothingToReset, Refill, MarkProcessed,
               FetchHead, StorePage, EndIteration, NotFound, Processed, NothingLeft, Recover,
               WriteRefused, Fail, Abandon, vars, dbVars
    <2>3. CASE ForkDetected
        BY <2>1, <2>3 DEF ForkDetected, AmendFork
    <2>4. CASE WriteAccounts
        BY <2>1, <2>4 DEF WriteAccounts, AccountsInv, TasksAreNewer
    <2> QED
        BY <2>2, <2>3, <2>4
<1> QED
    BY <1>1, AccountsInvariant, PTL DEF Spec, RowsNeverRegress

(***************************************************************************)
(* Bakers                                                                  *)
(***************************************************************************)

LEMMA BakersBounds ==
    /\ NoBaker \notin Baker /\ NoBlock \notin Block
    /\ Delegate \in [Block -> [Account -> Baker \union {NoBaker}]]
    /\ \A b \in Block : Level(b) \in Nat
BY BakersAssumption, AccountsBounds, LevelType

--------------------------------------------------------------------------
(* What the renamed steps do *)

\* A group of fetched bakers is stored.
LEMMA BakersWritten ==
    ASSUME Bakers!WriteAccounts
    PROVE  /\ bakersPc = "process"
           /\ UNCHANGED <<head, reorgs, bakersUnread, blocks, bakersCheckpoint, processed,
                          bakersPc, target, nextLevel, bakersSource, bakersIds, failures>>
           /\ \E group \in SUBSET blocks :
                /\ bakers' = [d \in Baker |-> IF bakersTodo[d] \in group THEN bakersTodo[d]
                                              ELSE bakers[d]]
                /\ bakersTodo' = [d \in Baker |-> IF bakersTodo[d] \in group THEN NoBlock
                                                  ELSE bakersTodo[d]]
BY DEF Bakers!WriteAccounts, Bakers!nodeVars, Bakers!loopVars

\* A baker is given up, for its block is on another branch or the answer was unreadable.
LEMMA BakersMissing ==
    ASSUME Bakers!NotFound
    PROVE  /\ bakersPc = "process"
           /\ UNCHANGED <<head, reorgs, blocks, bakers, bakersCheckpoint, processed, bakersPc,
                          target, nextLevel, bakersSource, bakersIds, failures>>
           /\ \E d \in Baker :
                /\ bakersTodo[d] # NoBlock
                /\ bakersTodo' = [bakersTodo EXCEPT ![d] = NoBlock]
                /\ \/ ~Extends(head, bakersTodo[d]) /\ bakersUnread' = bakersUnread
                   \/ bakersUnread' = bakersUnread \union {<<d, bakersTodo[d]>>}
BY DEF Bakers!NotFound, Bakers!dbVars, Bakers!loopVars, Bakers!Extends, Extends,
       Bakers!AncestorAt, AncestorAt, Bakers!Level, Level

LEMMA SameCount == \A S : Bakers!Cardinality(S) = Cardinality(S)
BY Zenon DEF Bakers!Cardinality, Cardinality

\* The clean-up deletes no row of a baker that the task was not about.
LEMMA BakersCleaned ==
    ASSUME BakersInv, Bakers!Processed
    PROVE  /\ bakersPc = "process"
           /\ bakersPc' = IF bakersSource = "page" THEN "recover" ELSE "page"
           /\ \A d \in Baker : bakersTodo[d] = NoBlock
           /\ bakersIds' = {}
           /\ bakersCheckpoint' = {row \in bakersCheckpoint : row[1] \notin bakersIds}
           /\ UNCHANGED <<head, reorgs, bakersUnread, blocks, bakers, processed, target, nextLevel,
                          bakersSource, bakersTodo, failures>>
<1>1. /\ bakersPc = "process" /\ Bakers!Requested = {} /\ Bakers!Clean /\ bakersIds' = {}
      /\ bakersPc' = IF bakersSource = "page" THEN "recover" ELSE "page"
      /\ UNCHANGED <<head, reorgs, bakersUnread, blocks, bakers, processed, target, nextLevel,
                     bakersSource, bakersTodo, failures>>
    BY DEF Bakers!Processed, Bakers!nodeVars
<1>2. bakersIds \subseteq Bakers!Pending /\ Bakers!Pending \subseteq Baker
    BY <1>1 DEF BakersInv, BakersTypeOK, BakersIdsArePending, Bakers!Pending
<1>3. IsFiniteSet(Bakers!Pending) /\ IsFiniteSet(bakersIds)
    BY <1>2, FS_Subset, BakersAssumption
<1>4. Cardinality(Bakers!Pending) \in Nat /\ Cardinality(bakersIds) \in Nat
    BY <1>3, FS_CardinalityType
<1>5. CASE Cardinality(Bakers!Pending) > Cardinality(bakersIds)
    BY <1>1, <1>5, SameCount DEF Bakers!Clean, Bakers!Requested
<1>6. CASE ~(Cardinality(Bakers!Pending) > Cardinality(bakersIds))
    <2>1. bakersIds = Bakers!Pending
        <3>1. /\ Cardinality(bakersIds) <= Cardinality(Bakers!Pending)
              /\ Cardinality(Bakers!Pending) = Cardinality(bakersIds)
                   => Bakers!Pending = bakersIds
            BY <1>2, <1>3, FS_Subset
        <3> QED
            BY <1>4, <1>6, <3>1
    <2>2. \A row \in bakersCheckpoint : row[1] \in bakersIds
        BY <2>1 DEF Bakers!Pending
    <2>3. bakersCheckpoint' = {}
        BY <1>1, <1>6, SameCount DEF Bakers!Clean
    <2> QED
        BY <1>1, <2>2, <2>3 DEF Bakers!Requested
<1> QED
    BY <1>5, <1>6

\* The choice of the latest row of each baker
LEMMA LatestBaker ==
    ASSUME NEW f, NEW rows, NEW d \in Baker, Bakers!IsLatest(f, rows),
           rows \subseteq Baker \X Block
    PROVE  /\ f[d] # NoBlock => <<d, f[d]>> \in rows
           /\ \A row \in rows :
                row[1] = d => /\ f[d] \in Block /\ f[d] # NoBlock
                              /\ Level(f[d]) >= Level(row[2])
<1>1. CASE \E row \in rows : row[1] = d
    <2>1. <<d, f[d]>> \in rows /\ \A row \in rows : row[1] = d => Level(row[2]) <= Level(f[d])
        BY <1>1 DEF Bakers!IsLatest, Bakers!Level, Level
    <2>2. f[d] \in Block
        BY <2>1
    <2> QED
        BY <2>1, <2>2, BakersBounds
<1>2. CASE ~\E row \in rows : row[1] = d
    BY <1>2 DEF Bakers!IsLatest
<1> QED
    BY <1>1, <1>2

\* A recovery asks for the latest row of each baker, unless newer data are stored.
LEMMA BakersRecovered ==
    ASSUME BakersInv, Bakers!Recover
    PROVE  /\ bakersPc = "recover" /\ bakersPc' = "process" /\ bakersSource' = "checkpoint"
           /\ bakersIds' = {row[1] : row \in bakersCheckpoint}
           /\ UNCHANGED <<head, reorgs, bakersUnread, blocks, bakers, bakersCheckpoint,
                          processed, target, nextLevel, failures>>
           /\ bakersTodo' \in [Baker -> Block \union {NoBlock}]
           /\ \A d \in Baker :
                /\ bakersTodo'[d] # NoBlock => <<d, bakersTodo'[d]>> \in bakersCheckpoint
                /\ bakersTodo'[d] # NoBlock /\ bakers[d] # NoBlock
                     => ~(Level(bakers[d]) > Level(bakersTodo'[d]))
           /\ \A row \in bakersCheckpoint :
                \/ BakerStoredFrom(row[1], Level(row[2]))
                \/ bakersTodo'[row[1]] # NoBlock /\ Level(bakersTodo'[row[1]]) >= Level(row[2])
<1>1. /\ bakersPc = "recover" /\ bakersPc' = "process" /\ bakersSource' = "checkpoint"
      /\ bakersIds' = {row[1] : row \in bakersCheckpoint}
      /\ UNCHANGED <<head, reorgs, bakersUnread, blocks, bakers, bakersCheckpoint,
                     processed, target, nextLevel, failures>>
    BY DEF Bakers!Recover, Bakers!Pending, Bakers!nodeVars, Bakers!dbVars
<1>2. PICK latest \in [Baker -> {row[2] : row \in bakersCheckpoint} \union {NoBlock}] :
        Bakers!IsLatest(latest, bakersCheckpoint) /\ bakersTodo' = Bakers!Pruned(latest)
    BY DEF Bakers!Recover
<1>3. bakersCheckpoint \subseteq Baker \X Block /\ bakers \in [Baker -> Block \union {NoBlock}]
    BY DEF BakersInv, BakersTypeOK
<1>4. \A d \in Baker : latest[d] # NoBlock =>
        <<d, latest[d]>> \in bakersCheckpoint /\ latest[d] \in Block
    BY <1>2, <1>3, LatestBaker
<1>5. bakersTodo' = [d \in Baker |->
            IF latest[d] # NoBlock /\ bakers[d] # NoBlock /\ Level(bakers[d]) > Level(latest[d])
            THEN NoBlock ELSE latest[d]]
    BY <1>2 DEF Bakers!Pruned, Bakers!Level, Level
<1>6. bakersTodo' \in [Baker -> Block \union {NoBlock}]
    BY <1>4, <1>5
<1>7. \A d \in Baker :
        /\ bakersTodo'[d] # NoBlock => <<d, bakersTodo'[d]>> \in bakersCheckpoint
        /\ bakersTodo'[d] # NoBlock /\ bakers[d] # NoBlock
             => ~(Level(bakers[d]) > Level(bakersTodo'[d]))
    BY <1>4, <1>5
<1>8. ASSUME NEW row \in bakersCheckpoint
      PROVE  \/ BakerStoredFrom(row[1], Level(row[2]))
             \/ bakersTodo'[row[1]] # NoBlock /\ Level(bakersTodo'[row[1]]) >= Level(row[2])
    <2> DEFINE d == row[1]
    <2>1. d \in Baker /\ row[2] \in Block
        BY <1>3
    <2>2. latest[d] \in Block /\ latest[d] # NoBlock /\ Level(latest[d]) >= Level(row[2])
        BY <1>2, <1>3, <2>1, LatestBaker
    <2>3. CASE bakersTodo'[d] = latest[d]
        BY <2>2, <2>3
    <2>4. CASE bakersTodo'[d] # latest[d]
        <3>1. bakers[d] # NoBlock /\ Level(bakers[d]) > Level(latest[d])
            BY <1>5, <2>1, <2>4
        <3>2. bakers[d] \in Block
            BY <1>3, <2>1, <3>1
        <3> QED
            BY <2>1, <2>2, <3>1, <3>2, BakersBounds DEF BakerStoredFrom
    <2> QED
        BY <2>3, <2>4
<1> QED
    BY <1>1, <1>6, <1>7, <1>8

--------------------------------------------------------------------------
(* The steps of the accounts *)

LEMMA BakersStart == BakersInit => BakersInv
<1> SUFFICES ASSUME BakersInit PROVE BakersInv
    OBVIOUS
<1>1. /\ \A d \in Baker : bakers[d] = NoBlock /\ bakersTodo[d] = NoBlock
      /\ \A a \in Account : accounts[a] = NoBlock
      /\ pc = "loop" /\ bakersPc = "page" /\ gathered = {} /\ bakersCheckpoint = {}
    BY DEF BakersInit, Init, NoTask
<1>2. BakersTypeOK
    BY DEF BakersInit, BakersTypeOK
<1>3. PageBlocks = {}
    BY <1>1 DEF PageBlocks
<1> QED
    BY <1>1, <1>2, <1>3
    DEF BakersInv, NoDelegateLost, BakersReferToValidBlocks, Turns, GatheredArePending,
        PageIsNewer, BakersTasksAreNewer, BakersIdsArePending, BakersOnOneBranch,
        BakersTaskCoversRows

\* What is about the bakers' own tables is still so; their turn is what has to be shown.
LEMMA BakersUntouched ==
    ASSUME BakersInv, UNCHANGED <<bakersVars, accounts>>, blocks \subseteq blocks',
           reorgs' = 0 => reorgs = 0,
           Turns', gathered # {} => pc' \in {"process", "recover"}, PageIsNewer'
    PROVE  BakersInv'
<1>1. UNCHANGED <<bakers, bakersCheckpoint, bakersUnread, gathered, bakersPc, bakersSource,
                  bakersIds, bakersTodo, accounts>>
    BY DEF bakersVars, bakersTask
<1>2. BakersTypeOK' /\ GatheredArePending'
    BY <1>1 DEF BakersInv, BakersTypeOK, GatheredArePending
<1>3. NoDelegateLost' /\ BakersReferToValidBlocks'
    BY <1>1
    DEF BakersInv, NoDelegateLost, BakersReferToValidBlocks, BakerStoredFrom, BakerAwaits,
        BakerUnread
<1>4. BakersTasksAreNewer' /\ BakersIdsArePending' /\ BakersOnOneBranch' /\ BakersTaskCoversRows'
    BY <1>1
    DEF BakersInv, BakersTasksAreNewer, BakersIdsArePending, BakersOnOneBranch,
        BakersTaskCoversRows, BakerStoredFrom, BakerUnread
<1> QED
    BY <1>2, <1>3, <1>4 DEF BakersInv

LEMMA SamePage ==
    ASSUME BakersInv, UNCHANGED <<bakers, bakersCheckpoint, gathered>>,
           reorgs' = 0 => reorgs = 0, PageBlocks' \subseteq PageBlocks
    PROVE  PageIsNewer'
BY DEF BakersInv, PageIsNewer

LEMMA NodeStepKeeps == BakersInv /\ NodeStep /\ AccountsInv => BakersInv'
<1> SUFFICES ASSUME BakersInv, AccountsInv, NodeStep PROVE BakersInv'
    OBVIOUS
<1>1. /\ UNCHANGED <<bakersVars, dbVars, loopVars, taskVars>>
      /\ reorgs' = 0 => reorgs = 0
    BY DEF NodeStep, Advance, Reorganise, AccountsInv, AccountsTypeOK
<1>2. UNCHANGED <<bakers, bakersCheckpoint, gathered, bakersPc, bakersSource, accounts, blocks,
                  pc, source, todo>>
    BY <1>1 DEF bakersVars, bakersTask, dbVars, loopVars, taskVars
<1>3. PageIsNewer'
    BY <1>1, <1>2, SamePage DEF PageBlocks, Requested
<1>4. Turns' /\ (gathered # {} => pc' \in {"process", "recover"})
    BY <1>2 DEF BakersInv, Turns, GatheredArePending
<1> QED
    BY <1>1, <1>2, <1>3, <1>4, BakersUntouched

\* Between two pages no delegates are gathered, and it is nobody's turn.
LEMMA LoopStepKeeps == BakersInv /\ (LoopStep \/ (NextPage /\ EndIteration)) => BakersInv'
<1> SUFFICES ASSUME BakersInv, LoopStep \/ (NextPage /\ EndIteration) PROVE BakersInv'
    OBVIOUS
<1>1. /\ UNCHANGED <<bakersVars, head, reorgs, blocks, accounts>>
      /\ pc \notin {"process", "recover"} /\ bakersPc = "page"
      /\ pc' \in {"resets", "mark", "fetchHead", "page", "loop"}
    BY DEF LoopStep, NextPage, NoFork, NothingToReset, Refill, MarkProcessed, FetchHead,
           EndIteration, nodeVars, dbVars, BakersInv, Turns
<1>2. gathered = {} /\ UNCHANGED <<bakers, bakersCheckpoint, gathered, bakersPc, bakersSource>>
    BY <1>1 DEF BakersInv, GatheredArePending, bakersVars, bakersTask
<1>3. PageBlocks' = {}
    BY <1>1, <1>2 DEF PageBlocks
<1>4. Turns' /\ PageIsNewer'
    BY <1>1, <1>2, <1>3 DEF Turns, PageIsNewer
<1> QED
    BY <1>1, <1>2, <1>4, BakersUntouched

\* The blocks of a new page are above every indexed one, hence above every baker.
LEMMA NextPageKeeps ==
    BakersInv /\ AccountsInv /\ NextPage /\ StorePage => BakersInv'
<1> SUFFICES ASSUME BakersInv, AccountsInv, NextPage, StorePage PROVE BakersInv'
    OBVIOUS
<1>1. /\ pc = "page" /\ nextLevel <= Level(target)
      /\ blocks' = blocks \union Page /\ source' = "page" /\ pc' = "process"
      /\ todo' \in [Account -> Page \union {NoBlock}]
      /\ UNCHANGED <<head, reorgs, accounts>> /\ bakersPc = "page" /\ UNCHANGED bakersVars
    BY DEF StorePage, NextPage, nodeVars
<1>2. UNCHANGED <<bakers, bakersCheckpoint, gathered, bakersPc, bakersSource>> /\ gathered = {}
    BY <1>1 DEF bakersVars, bakersTask, BakersInv, GatheredArePending
<1>3. /\ Page \subseteq Block /\ blocks \subseteq Block /\ nextLevel \in Nat
      /\ \A b \in Page : nextLevel <= Level(b)
      /\ \A b \in blocks : Level(b) < nextLevel
    BY <1>1, PageIsBelowTarget, AccountsBounds
    DEF AccountsInv, AccountsTypeOK, PagesGoAbove, Paging
<1>4. PageBlocks' \subseteq Page
    BY <1>1, <1>2 DEF PageBlocks, Requested
<1>5. \A b \in Page, c \in blocks : Level(c) <= Level(b)
    BY <1>3, BakersBounds
<1>6. PageIsNewer'
    <2>1. \A d \in Baker : bakers[d] # NoBlock => bakers[d] \in blocks
        BY DEF BakersInv, BakersReferToValidBlocks
    <2>2. reorgs = 0 => \A row \in bakersCheckpoint : row[2] \in blocks
        BY DEF BakersInv, BakersOnOneBranch
    <2> QED
        BY <1>1, <1>2, <1>4, <1>5, <2>1, <2>2 DEF PageIsNewer
<1>7. Turns'
    BY <1>1, <1>2 DEF Turns
<1> QED
    BY <1>1, <1>2, <1>6, <1>7, BakersUntouched

LEMMA AccountsStepKeepsBakers ==
    BakersInv /\ (AccountsStep \/ RecoverAccounts) => BakersInv'
<1> SUFFICES ASSUME BakersInv, AccountsStep \/ RecoverAccounts PROVE BakersInv'
    OBVIOUS
<1>1. UNCHANGED <<bakersVars, head, reorgs, blocks, accounts>>
    BY DEF AccountsStep, RecoverAccounts, NotFound, Processed, NothingLeft, Recover, nodeVars,
           dbVars
<1>2. UNCHANGED <<bakers, bakersCheckpoint, gathered, bakersPc, bakersSource>>
    BY <1>1 DEF bakersVars, bakersTask
<1>3. CASE NotFound
    <2>1. pc' = pc /\ source' = source /\ Requested' \subseteq Requested
        BY <1>3 DEF NotFound, loopVars, Requested
    <2>2. PageIsNewer'
        BY <1>1, <1>2, <2>1, SamePage DEF PageBlocks
    <2> QED
        BY <1>1, <1>2, <2>1, <2>2, BakersUntouched DEF BakersInv, Turns, GatheredArePending
<1>4. CASE Processed
    <2>1. /\ pc = "process" /\ pc' = IF source = "page" THEN "recover" ELSE "page"
          /\ bakersPc = IF source = "page" THEN "page" ELSE "recover"
        BY <1>4 DEF Processed, BakersInv, Turns
    <2>2. gathered # {} => pc' \in {"process", "recover"}
        BY <2>1 DEF BakersInv, GatheredArePending
    <2>3. PageIsNewer'
        BY <1>1, <1>2, <2>1, SamePage DEF PageBlocks
    <2>4. Turns'
        BY <1>2, <2>1 DEF Turns
    <2> QED
        BY <1>1, <2>2, <2>3, <2>4, BakersUntouched
<1>5. CASE RecoverAccounts
    <2>1. /\ bakersPc = "recover" /\ gathered = {}
          /\ pc' = "page" \/ (pc' = "process" /\ source' = "checkpoint")
        BY <1>5 DEF RecoverAccounts, NothingLeft, Recover, BakersInv, GatheredArePending
    <2>2. PageBlocks' = {}
        BY <1>2, <2>1 DEF PageBlocks
    <2>3. PageIsNewer' /\ Turns'
        BY <1>2, <2>1, <2>2 DEF PageIsNewer, Turns
    <2> QED
        BY <1>1, <2>1, <2>3, BakersUntouched
<1> QED
    BY <1>3, <1>4, <1>5 DEF AccountsStep

\* A fork cuts the bakers where it cuts the blocks.
LEMMA InvalidateKeeps == BakersInv /\ AccountsInv /\ InvalidateRows => BakersInv'
<1> SUFFICES ASSUME BakersInv, AccountsInv, InvalidateRows PROVE BakersInv'
    OBVIOUS
<1>1. PICK cut \in blocks : Bakers!AmendFork(Level(cut))
    BY DEF InvalidateRows
<1>2. /\ pc = "loop" /\ pc' = "resets" /\ reorgs' = reorgs
      /\ UNCHANGED <<gathered, bakersUnread, bakersPc, bakersSource, bakersIds, bakersTodo>>
    BY DEF InvalidateRows, ForkDetected, bakersTask, nodeVars
<1>3. reorgs # 0
    BY DEF InvalidateRows, ForkDetected, Orphaned, AccountsInv, OneBranch
<1>4. /\ blocks' = {b \in blocks : Level(b) < Level(cut)}
      /\ bakers' = [d \in Baker |-> IF bakers[d] # NoBlock /\ Level(bakers[d]) >= Level(cut)
                                    THEN NoBlock ELSE bakers[d]]
      /\ bakersCheckpoint' = bakersCheckpoint
    BY <1>1 DEF Bakers!AmendFork, Bakers!Level, Level
<1>5. blocks \subseteq Block /\ bakersPc = "page" /\ gathered = {}
    BY <1>2 DEF AccountsInv, AccountsTypeOK, BakersInv, Turns, GatheredArePending
<1>6. BakersTypeOK'
    BY <1>2, <1>4 DEF BakersInv, BakersTypeOK
<1>7. BakersReferToValidBlocks'
    BY <1>4, <1>5, BakersBounds DEF BakersInv, BakersReferToValidBlocks
<1>8. PageBlocks' = {}
    BY <1>2, <1>5 DEF PageBlocks
<1>9. Turns' /\ GatheredArePending' /\ PageIsNewer'
    BY <1>2, <1>4, <1>5, <1>8 DEF Turns, GatheredArePending, PageIsNewer
<1>10. BakersTasksAreNewer'
    BY <1>2, <1>4 DEF BakersInv, BakersTasksAreNewer
<1> QED
    BY <1>2, <1>3, <1>5, <1>6, <1>7, <1>9, <1>10
    DEF BakersInv, NoDelegateLost, BakersIdsArePending, BakersOnOneBranch, BakersTaskCoversRows

\* Every delegate of a stored account gets a row, in the same transaction.
LEMMA GatherKeeps == BakersInv /\ AccountsInv /\ WriteAccountsAndDelegates => BakersInv'
<1> SUFFICES ASSUME BakersInv, AccountsInv, WriteAccountsAndDelegates PROVE BakersInv'
    OBVIOUS
<1>1. /\ pc = "process"
      /\ UNCHANGED <<head, reorgs, blocks, pc, source>>
      /\ UNCHANGED <<bakers, bakersUnread, bakersPc, bakersSource, bakersIds, bakersTodo>>
      /\ bakersCheckpoint' = bakersCheckpoint \union StoredDelegates
      /\ gathered' = IF source = "page" THEN gathered \union StoredDelegates ELSE gathered
    BY DEF WriteAccountsAndDelegates, WriteAccounts, Gather, nodeVars, loopVars, bakersTask
<1>2. PICK group \in SUBSET Requested :
        /\ group \subseteq blocks
        /\ accounts' = [a \in Account |-> IF todo[a] \in group THEN todo[a] ELSE accounts[a]]
        /\ todo' = [a \in Account |-> IF todo[a] \in group THEN NoBlock ELSE todo[a]]
    BY DEF WriteAccountsAndDelegates, WriteAccounts
<1>3. /\ blocks \subseteq Block /\ Requested \subseteq Block
      /\ todo \in [Account -> Block \union {NoBlock}]
    BY DEF AccountsInv, AccountsTypeOK, Requested
<1>4. \A row \in StoredDelegates : row \in Baker \X Block /\ row[2] \in group
    <2>1. SUFFICES ASSUME NEW row \in StoredDelegates
                   PROVE  row \in Baker \X Block /\ row[2] \in group
        OBVIOUS
    <2>2. PICK a \in Account : todo[a] = row[2] /\ todo'[a] = NoBlock /\ row \in Baker \X Requested
        BY DEF StoredDelegates
    <2>3. row[2] \in Block /\ row \in Baker \X Block
        BY <1>3, <2>2
    <2> QED
        BY <1>2, <2>2, <2>3, BakersBounds
<1>5. \A a \in Account, d \in Baker :
        todo[a] \in group /\ Delegate[todo[a]][a] = d => <<d, todo[a]>> \in StoredDelegates
    BY <1>2 DEF StoredDelegates
<1>6. bakersPc = IF source = "page" THEN "page" ELSE "recover"
    BY <1>1 DEF BakersInv, Turns
<1>7. BakersTypeOK'
    BY <1>1, <1>4 DEF BakersInv, BakersTypeOK
<1>8. NoDelegateLost'
    <2>1. SUFFICES ASSUME reorgs = 0, NEW a \in Account, NEW d \in Baker,
                          accounts'[a] # NoBlock, Delegate[accounts'[a]][a] = d
                   PROVE  \/ BakerStoredFrom(d, Level(accounts'[a]))
                          \/ \E row \in bakersCheckpoint' :
                               row[1] = d /\ Level(row[2]) >= Level(accounts'[a])
                          \/ BakerUnread(d, Level(accounts'[a]))
        BY <1>1 DEF NoDelegateLost, BakerStoredFrom, BakerAwaits, BakerUnread
    <2>2. CASE todo[a] \in group
        <3>1. accounts'[a] = todo[a] /\ todo[a] \in Block
            BY <1>2, <1>3, <2>2
        <3>2. <<d, todo[a]>> \in bakersCheckpoint'
            BY <1>1, <1>5, <2>1, <2>2, <3>1
        <3>3. Level(todo[a]) >= Level(todo[a])
            BY <3>1, BakersBounds
        <3> QED
            BY <3>1, <3>2, <3>3
    <2>3. CASE todo[a] \notin group
        <3>1. accounts'[a] = accounts[a]
            BY <1>2, <2>3
        <3> QED
            BY <1>1, <2>1, <3>1 DEF BakersInv, NoDelegateLost, BakerAwaits
    <2> QED
        BY <2>2, <2>3
<1>9. BakersReferToValidBlocks' /\ BakersTasksAreNewer'
    BY <1>1 DEF BakersInv, BakersReferToValidBlocks, BakersTasksAreNewer
<1>10. Turns' /\ GatheredArePending'
    BY <1>1, <1>6 DEF BakersInv, Turns, GatheredArePending
<1>11. PageIsNewer'
    <2>1. CASE source = "page"
        <3>1. PageBlocks' \subseteq PageBlocks
            <4>1. Requested' \subseteq Requested
                BY <1>2 DEF Requested
            <4>2. \A row \in gathered' : row[2] \in PageBlocks
                BY <1>1, <1>4, <2>1 DEF PageBlocks
            <4> QED
                BY <1>1, <4>1, <4>2 DEF PageBlocks
        <3>2. bakersCheckpoint' \ gathered' \subseteq bakersCheckpoint \ gathered
            BY <1>1, <2>1
        <3> QED
            BY <1>1, <3>1, <3>2 DEF BakersInv, PageIsNewer
    <2>2. CASE source # "page"
        <3>1. gathered = {}
            BY <1>6, <2>2 DEF BakersInv, GatheredArePending
        <3>2. PageBlocks' = {}
            BY <1>1, <2>2, <3>1 DEF PageBlocks
        <3> QED
            BY <3>2 DEF PageIsNewer
    <2> QED
        BY <2>1, <2>2
<1>12. BakersOnOneBranch'
    BY <1>1, <1>2, <1>4 DEF BakersInv, BakersOnOneBranch
<1>13. bakersPc # "process"
    BY <1>6
<1> QED
    BY <1>1, <1>7, <1>8, <1>9, <1>10, <1>11, <1>12, <1>13
    DEF BakersInv, BakersIdsArePending, BakersTaskCoversRows

--------------------------------------------------------------------------
(* The steps of the bakers *)

\* The task of a page is about the newest row of each of its bakers.
LEMMA PageBakersKeep == BakersInv /\ ProcessPageBakers => BakersInv'
<1> SUFFICES ASSUME BakersInv, ProcessPageBakers PROVE BakersInv'
    OBVIOUS
<1>1. /\ pc = "recover" /\ bakersPc = "page" /\ bakersPc' = "process" /\ bakersSource' = "page"
      /\ bakersIds' = {row[1] : row \in gathered} /\ gathered' = {}
      /\ bakersTodo' \in [Baker -> {row[2] : row \in gathered} \union {NoBlock}]
      /\ Bakers!IsLatest(bakersTodo', gathered)
      /\ UNCHANGED <<head, reorgs, blocks, accounts, pc, source, todo>>
      /\ UNCHANGED <<bakers, bakersCheckpoint, bakersUnread>>
    BY DEF ProcessPageBakers, vars, nodeVars, dbVars, loopVars, taskVars
<1>2. /\ gathered \subseteq Baker \X Block /\ gathered \subseteq bakersCheckpoint
      /\ bakersCheckpoint \subseteq Baker \X Block
      /\ bakers \in [Baker -> Block \union {NoBlock}]
    BY DEF BakersInv, BakersTypeOK, GatheredArePending
<1>3. \A d \in Baker : bakersTodo'[d] # NoBlock =>
        <<d, bakersTodo'[d]>> \in gathered /\ bakersTodo'[d] \in Block
    BY <1>1, <1>2, LatestBaker
<1>4. \A d \in Baker : bakersTodo'[d] # NoBlock => bakersTodo'[d] \in PageBlocks
    <2>1. SUFFICES ASSUME NEW d \in Baker, bakersTodo'[d] # NoBlock
                   PROVE  bakersTodo'[d] \in PageBlocks
        OBVIOUS
    <2>2. <<d, bakersTodo'[d]>> \in gathered
        BY <1>3, <2>1
    <2> QED
        BY <2>2 DEF PageBlocks
<1>5. BakersTypeOK'
    <2>1. bakersTodo' \in [Baker -> Block \union {NoBlock}]
        BY <1>1, <1>3
    <2> QED
        BY <1>1, <1>2, <2>1 DEF BakersInv, BakersTypeOK
<1>6. BakersTasksAreNewer'
    <2>1. SUFFICES ASSUME NEW d \in Baker, bakersTodo'[d] # NoBlock, bakers[d] # NoBlock
                   PROVE  Level(bakersTodo'[d]) >= Level(bakers[d])
        BY <1>1 DEF BakersTasksAreNewer
    <2>2. bakersTodo'[d] \in Block /\ bakers[d] \in Block
        BY <1>2, <1>3, <2>1
    <2>3. Level(bakers[d]) <= Level(bakersTodo'[d])
        BY <1>4, <2>1 DEF BakersInv, PageIsNewer
    <2> QED
        BY <2>2, <2>3, BakersBounds
<1>7. BakersIdsArePending'
    BY <1>1, <1>2 DEF BakersIdsArePending
<1>8. BakersOnOneBranch'
    <2>1. \A d \in Baker : bakersTodo'[d] # NoBlock =>
            \E row \in bakersCheckpoint : row[2] = bakersTodo'[d]
        <3>1. SUFFICES ASSUME NEW d \in Baker, bakersTodo'[d] # NoBlock
                       PROVE  \E row \in bakersCheckpoint : row[2] = bakersTodo'[d]
            OBVIOUS
        <3>2. <<d, bakersTodo'[d]>> \in bakersCheckpoint
            BY <1>2, <1>3, <3>1
        <3> QED
            BY <3>2
    <2> QED
        BY <1>1, <2>1 DEF BakersInv, BakersOnOneBranch
<1>9. BakersTaskCoversRows'
    <2>1. SUFFICES ASSUME reorgs = 0, NEW row \in bakersCheckpoint, row[1] \in bakersIds'
                   PROVE  /\ bakersTodo'[row[1]] # NoBlock
                          /\ Level(bakersTodo'[row[1]]) >= Level(row[2])
        BY <1>1 DEF BakersTaskCoversRows
    <2> DEFINE d == row[1]
    <2>2. d \in Baker /\ row[2] \in Block
        BY <1>2
    <2>3. PICK new \in gathered : new[1] = d
        BY <1>1, <2>1
    <2>4. bakersTodo'[d] # NoBlock /\ bakersTodo'[d] \in Block
        BY <1>1, <1>2, <2>2, <2>3, LatestBaker
    <2>5. CASE row \in gathered
        BY <1>1, <1>2, <2>2, <2>4, <2>5, LatestBaker
    <2>6. CASE row \notin gathered
        <3>1. Level(row[2]) <= Level(bakersTodo'[d])
            BY <1>4, <2>1, <2>2, <2>4, <2>6 DEF BakersInv, PageIsNewer
        <3> QED
            BY <2>2, <2>4, <3>1, BakersBounds
    <2> QED
        BY <2>5, <2>6
<1>10. PageBlocks' = {}
    BY <1>1 DEF PageBlocks
<1>11. Turns' /\ GatheredArePending' /\ PageIsNewer'
    BY <1>1, <1>10 DEF Turns, GatheredArePending, PageIsNewer
<1>12. NoDelegateLost' /\ BakersReferToValidBlocks'
    BY <1>1
    DEF BakersInv, NoDelegateLost, BakersReferToValidBlocks, BakerStoredFrom, BakerAwaits,
        BakerUnread
<1> QED
    BY <1>5, <1>6, <1>7, <1>8, <1>9, <1>11, <1>12 DEF BakersInv

\* What is written is newer than what was stored, and covers what it is fetched for.
LEMMA BakersWriteKeeps ==
    BakersInv /\ AccountsInv /\ BakersStep /\ Bakers!WriteAccounts => BakersInv'
<1> SUFFICES ASSUME BakersInv, AccountsInv, BakersStep, Bakers!WriteAccounts PROVE BakersInv'
    OBVIOUS
<1>1. /\ bakersPc = "process"
      /\ UNCHANGED <<head, reorgs, blocks, bakersCheckpoint, bakersUnread>>
      /\ UNCHANGED <<bakersPc, bakersSource, bakersIds>>
      /\ UNCHANGED <<accounts, pc, source, todo, gathered>>
    BY BakersWritten DEF BakersStep, accountsVars, taskVars
<1>2. PICK group \in SUBSET blocks :
        /\ bakers' = [d \in Baker |-> IF bakersTodo[d] \in group THEN bakersTodo[d]
                                      ELSE bakers[d]]
        /\ bakersTodo' = [d \in Baker |-> IF bakersTodo[d] \in group THEN NoBlock
                                          ELSE bakersTodo[d]]
    BY BakersWritten
<1>3. /\ blocks \subseteq Block /\ NoBlock \notin blocks
      /\ bakers \in [Baker -> Block \union {NoBlock}]
      /\ bakersTodo \in [Baker -> Block \union {NoBlock}]
      /\ bakersCheckpoint \subseteq Baker \X Block
    BY BakersBounds DEF AccountsInv, AccountsTypeOK, BakersInv, BakersTypeOK
<1>4. BakersTypeOK'
    <2>1. bakers' \in [Baker -> Block \union {NoBlock}]
        BY <1>2, <1>3
    <2>2. bakersTodo' \in [Baker -> Block \union {NoBlock}]
        BY <1>2, <1>3
    <2> QED
        BY <1>1, <2>1, <2>2 DEF BakersInv, BakersTypeOK
<1>5. ASSUME NEW d \in Baker, NEW l \in Nat, BakerStoredFrom(d, l)
      PROVE  bakers'[d] # NoBlock /\ Level(bakers'[d]) >= l
    <2>1. bakers[d] # NoBlock /\ bakers[d] \in Block /\ Level(bakers[d]) >= l
        BY <1>3, <1>5 DEF BakerStoredFrom
    <2>2. CASE bakersTodo[d] \in group
        <3>1. bakers'[d] = bakersTodo[d] /\ bakersTodo[d] # NoBlock /\ bakersTodo[d] \in Block
            BY <1>2, <1>3, <2>2
        <3>2. Level(bakersTodo[d]) >= Level(bakers[d])
            BY <2>1, <3>1 DEF BakersInv, BakersTasksAreNewer
        <3> QED
            BY <2>1, <3>1, <3>2, BakersBounds
    <2>3. CASE bakersTodo[d] \notin group
        BY <1>2, <2>1, <2>3
    <2> QED
        BY <2>2, <2>3
<1>6. NoDelegateLost'
    <2>1. SUFFICES ASSUME reorgs = 0, NEW a \in Account, NEW d \in Baker,
                          accounts[a] # NoBlock, Delegate[accounts[a]][a] = d
                   PROVE  \/ bakers'[d] # NoBlock /\ Level(bakers'[d]) >= Level(accounts[a])
                          \/ BakerAwaits(d, Level(accounts[a]))
                          \/ BakerUnread(d, Level(accounts[a]))
        BY <1>1 DEF NoDelegateLost, BakerStoredFrom, BakerAwaits, BakerUnread
    <2>2. Level(accounts[a]) \in Nat
        BY <2>1, BakersBounds DEF AccountsInv, AccountsTypeOK
    <2> QED
        BY <1>5, <2>1, <2>2 DEF BakersInv, NoDelegateLost
<1>7. BakersReferToValidBlocks'
    BY <1>1, <1>2 DEF BakersInv, BakersReferToValidBlocks
<1>8. BakersTasksAreNewer'
    BY <1>2 DEF BakersInv, BakersTasksAreNewer
<1>9. BakersOnOneBranch'
    BY <1>1, <1>2 DEF BakersInv, BakersOnOneBranch
<1>10. BakersTaskCoversRows'
    <2>1. SUFFICES ASSUME reorgs = 0, NEW row \in bakersCheckpoint, row[1] \in bakersIds
                   PROVE  \/ /\ bakers'[row[1]] # NoBlock
                             /\ Level(bakers'[row[1]]) >= Level(row[2])
                          \/ /\ bakersTodo'[row[1]] # NoBlock
                             /\ Level(bakersTodo'[row[1]]) >= Level(row[2])
                          \/ BakerUnread(row[1], Level(row[2]))
        BY <1>1 DEF BakersTaskCoversRows, BakerStoredFrom, BakerUnread
    <2>2. row[1] \in Baker /\ Level(row[2]) \in Nat
        BY <1>3, BakersBounds
    <2>3. CASE BakerStoredFrom(row[1], Level(row[2]))
        BY <1>5, <2>2, <2>3
    <2>4. CASE bakersTodo[row[1]] # NoBlock /\ Level(bakersTodo[row[1]]) >= Level(row[2])
        BY <1>2, <2>2, <2>4
    <2> QED
        BY <1>1, <2>1, <2>3, <2>4 DEF BakersInv, BakersTaskCoversRows
<1>11. Turns' /\ GatheredArePending' /\ BakersIdsArePending'
    BY <1>1 DEF BakersInv, Turns, GatheredArePending, BakersIdsArePending
<1>12. PageIsNewer'
    <2>1. gathered' = {} /\ (pc # "process")'
        BY <1>1 DEF BakersInv, Turns, GatheredArePending
    <2>2. PageBlocks' = {}
        BY <2>1 DEF PageBlocks
    <2> QED
        BY <2>2 DEF PageIsNewer
<1> QED
    BY <1>4, <1>6, <1>7, <1>8, <1>9, <1>10, <1>11, <1>12 DEF BakersInv

\* What is not found is on another branch, or was read in vain.
LEMMA BakersMissingKeeps ==
    BakersInv /\ AccountsInv /\ BakersStep /\ Bakers!NotFound => BakersInv'
<1> SUFFICES ASSUME BakersInv, AccountsInv, BakersStep, Bakers!NotFound PROVE BakersInv'
    OBVIOUS
<1>1. /\ bakersPc = "process"
      /\ UNCHANGED <<head, reorgs, blocks, bakers, bakersCheckpoint, bakersPc, bakersSource,
                     bakersIds>>
      /\ UNCHANGED <<accounts, pc, source, todo, gathered>>
    BY BakersMissing DEF BakersStep, accountsVars, taskVars
<1>2. PICK lost \in Baker :
        /\ bakersTodo[lost] # NoBlock
        /\ bakersTodo' = [bakersTodo EXCEPT ![lost] = NoBlock]
        /\ \/ ~Extends(head, bakersTodo[lost]) /\ bakersUnread' = bakersUnread
           \/ bakersUnread' = bakersUnread \union {<<lost, bakersTodo[lost]>>}
    BY BakersMissing
<1>3. bakersTodo \in [Baker -> Block \union {NoBlock}] /\ bakersTodo[lost] \in Block
    BY <1>2 DEF BakersInv, BakersTypeOK
<1>4. \A d \in Baker : bakersTodo'[d] = IF d = lost THEN NoBlock ELSE bakersTodo[d]
    BY <1>2, <1>3
<1>5. BakersTypeOK'
    BY <1>1, <1>2, <1>3 DEF BakersInv, BakersTypeOK
<1>6. BakersTasksAreNewer' /\ BakersOnOneBranch'
    BY <1>1, <1>4 DEF BakersInv, BakersTasksAreNewer, BakersOnOneBranch
<1>7. Turns' /\ GatheredArePending' /\ BakersIdsArePending' /\ BakersReferToValidBlocks'
    BY <1>1
    DEF BakersInv, Turns, GatheredArePending, BakersIdsArePending, BakersReferToValidBlocks
<1>8. PageIsNewer'
    BY <1>1, SamePage DEF PageBlocks, Requested
<1>9. bakersUnread \subseteq bakersUnread'
    BY <1>2
<1>10. NoDelegateLost'
    BY <1>1, <1>9 DEF BakersInv, NoDelegateLost, BakerStoredFrom, BakerAwaits, BakerUnread
<1>11. BakersTaskCoversRows'
    <2>1. SUFFICES ASSUME reorgs = 0, NEW row \in bakersCheckpoint, row[1] \in bakersIds
                   PROVE  \/ BakerStoredFrom(row[1], Level(row[2]))
                          \/ /\ bakersTodo'[row[1]] # NoBlock
                             /\ Level(bakersTodo'[row[1]]) >= Level(row[2])
                          \/ \E r \in bakersUnread' :
                               r[1] = row[1] /\ Level(r[2]) >= Level(row[2])
        BY <1>1 DEF BakersTaskCoversRows, BakerStoredFrom, BakerUnread
    <2>2. \/ BakerStoredFrom(row[1], Level(row[2]))
          \/ bakersTodo[row[1]] # NoBlock /\ Level(bakersTodo[row[1]]) >= Level(row[2])
          \/ BakerUnread(row[1], Level(row[2]))
        BY <1>1, <2>1 DEF BakersInv, BakersTaskCoversRows
    <2>3. row[1] \in Baker
        BY <2>1 DEF BakersInv, BakersTypeOK
    <2>4. CASE row[1] # lost
        BY <1>4, <1>9, <2>2, <2>3, <2>4 DEF BakerUnread
    <2>5. CASE row[1] = lost /\ Level(bakersTodo[lost]) >= Level(row[2])
        <3>1. Extends(head, bakersTodo[lost])
            BY <1>2, <2>1 DEF BakersInv, BakersOnOneBranch, AccountsInv, OneBranch
        <3>2. <<lost, bakersTodo[lost]>> \in bakersUnread'
            BY <1>2, <3>1
        <3> QED
            BY <2>5, <3>2
    <2> QED
        BY <1>9, <2>2, <2>4, <2>5 DEF BakerUnread
<1> QED
    BY <1>5, <1>6, <1>7, <1>8, <1>10, <1>11 DEF BakersInv

\* The rows deleted at the end of a task are about bakers stored by then.
LEMMA BakersProcessedKeeps ==
    BakersInv /\ AccountsInv /\ BakersStep /\ Bakers!Processed => BakersInv'
<1> SUFFICES ASSUME BakersInv, AccountsInv, BakersStep, Bakers!Processed PROVE BakersInv'
    OBVIOUS
<1>1. /\ bakersPc = "process" /\ bakersPc' = IF bakersSource = "page" THEN "recover" ELSE "page"
      /\ \A d \in Baker : bakersTodo[d] = NoBlock
      /\ bakersIds' = {}
      /\ bakersCheckpoint' = {row \in bakersCheckpoint : row[1] \notin bakersIds}
      /\ UNCHANGED <<head, reorgs, blocks, bakers, bakersUnread, bakersSource, bakersTodo>>
      /\ UNCHANGED <<accounts, pc, source, todo, gathered>>
    BY BakersCleaned DEF BakersStep, accountsVars, taskVars
<1>2. gathered = {} /\ pc = IF bakersSource = "page" THEN "recover" ELSE "page"
    BY <1>1 DEF BakersInv, Turns, GatheredArePending
<1>3. BakersTypeOK'
    BY <1>1 DEF BakersInv, BakersTypeOK
<1>4. NoDelegateLost'
    <2>1. SUFFICES ASSUME reorgs = 0, NEW a \in Account, NEW d \in Baker,
                          accounts[a] # NoBlock, Delegate[accounts[a]][a] = d
                   PROVE  \/ BakerStoredFrom(d, Level(accounts[a]))
                          \/ \E row \in bakersCheckpoint' :
                               row[1] = d /\ Level(row[2]) >= Level(accounts[a])
                          \/ BakerUnread(d, Level(accounts[a]))
        BY <1>1 DEF NoDelegateLost, BakerStoredFrom, BakerAwaits, BakerUnread
    <2>2. /\ accounts[a] \in Block /\ Level(accounts[a]) \in Nat
          /\ bakersCheckpoint \subseteq Baker \X Block
          /\ bakers[d] \in Block \union {NoBlock}
        BY <2>1, BakersBounds DEF AccountsInv, AccountsTypeOK, BakersInv, BakersTypeOK
    <2>3. CASE BakerStoredFrom(d, Level(accounts[a]))
        BY <2>3
    <2>4. CASE BakerAwaits(d, Level(accounts[a]))
        <3>1. PICK row \in bakersCheckpoint : row[1] = d /\ Level(row[2]) >= Level(accounts[a])
            BY <2>4 DEF BakerAwaits
        <3>2. CASE d \notin bakersIds
            BY <1>1, <3>1, <3>2
        <3>3. CASE d \in bakersIds
            <4>1. BakerStoredFrom(d, Level(row[2])) \/ BakerUnread(d, Level(row[2]))
                BY <1>1, <2>1, <3>1, <3>3 DEF BakersInv, BakersTaskCoversRows
            <4>2. Level(row[2]) \in Nat
                BY <2>2, BakersBounds
            <4>3. CASE BakerStoredFrom(d, Level(row[2]))
                <5>1. Level(bakers[d]) \in Nat
                    BY <2>2, <4>3, BakersBounds DEF BakerStoredFrom
                <5> QED
                    BY <2>2, <3>1, <4>2, <4>3, <5>1 DEF BakerStoredFrom
            <4>4. CASE BakerUnread(d, Level(row[2]))
                <5>1. PICK r \in bakersUnread : r[1] = d /\ Level(r[2]) >= Level(row[2])
                    BY <4>4 DEF BakerUnread
                <5>2. Level(r[2]) \in Nat
                    BY <5>1, BakersBounds DEF BakersInv, BakersTypeOK
                <5> QED
                    BY <2>2, <3>1, <4>2, <5>1, <5>2 DEF BakerUnread
            <4> QED
                BY <4>1, <4>3, <4>4
        <3> QED
            BY <3>2, <3>3
    <2> QED
        BY <2>1, <2>3, <2>4 DEF BakersInv, NoDelegateLost
<1>5. BakersReferToValidBlocks' /\ BakersTasksAreNewer'
    BY <1>1 DEF BakersInv, BakersReferToValidBlocks, BakersTasksAreNewer
<1>6. PageBlocks' = {}
    BY <1>1, <1>2 DEF PageBlocks
<1>7. Turns' /\ GatheredArePending' /\ PageIsNewer'
    BY <1>1, <1>2, <1>6 DEF Turns, GatheredArePending, PageIsNewer
<1>8. BakersOnOneBranch'
    BY <1>1 DEF BakersInv, BakersOnOneBranch
<1>9. bakersPc' # "process"
    BY <1>1
<1> QED
    BY <1>3, <1>4, <1>5, <1>7, <1>8, <1>9 DEF BakersInv, BakersIdsArePending, BakersTaskCoversRows

LEMMA RecoverBakersKeeps == BakersInv /\ RecoverBakers => BakersInv'
<1> SUFFICES ASSUME BakersInv, RecoverBakers PROVE BakersInv'
    OBVIOUS
<1>1. pc = "page" /\ UNCHANGED <<accounts, pc, source, todo, gathered>>
    BY DEF RecoverBakers, accountsVars, taskVars
<1>2. gathered = {}
    BY <1>1 DEF BakersInv, GatheredArePending
<1>3. PageBlocks' = {}
    BY <1>1, <1>2 DEF PageBlocks
<1>4. CASE Bakers!NothingLeft
    <2>1. /\ bakersPc' = "page"
          /\ UNCHANGED <<head, reorgs, blocks, bakers, bakersCheckpoint, bakersUnread>>
          /\ UNCHANGED <<bakersSource, bakersIds, bakersTodo>>
        BY <1>4 DEF Bakers!NothingLeft, Bakers!nodeVars, Bakers!dbVars, Bakers!taskVars
    <2>2. BakersTypeOK' /\ NoDelegateLost' /\ BakersReferToValidBlocks'
        BY <1>1, <2>1
        DEF BakersInv, BakersTypeOK, NoDelegateLost, BakersReferToValidBlocks, BakerStoredFrom,
            BakerAwaits, BakerUnread
    <2>3. Turns' /\ GatheredArePending' /\ PageIsNewer'
        BY <1>1, <1>2, <1>3, <2>1 DEF Turns, GatheredArePending, PageIsNewer
    <2>4. BakersTasksAreNewer' /\ BakersIdsArePending' /\ BakersOnOneBranch'
          /\ BakersTaskCoversRows'
        BY <2>1
        DEF BakersInv, BakersTasksAreNewer, BakersIdsArePending, BakersOnOneBranch,
            BakersTaskCoversRows, BakerStoredFrom, BakerUnread
    <2> QED
        BY <2>2, <2>3, <2>4 DEF BakersInv
<1>5. CASE Bakers!Recover
    <2>1. /\ bakersPc' = "process" /\ bakersSource' = "checkpoint"
          /\ bakersIds' = {row[1] : row \in bakersCheckpoint}
          /\ UNCHANGED <<head, reorgs, blocks, bakers, bakersCheckpoint, bakersUnread>>
          /\ bakersTodo' \in [Baker -> Block \union {NoBlock}]
        BY <1>5, BakersRecovered
    <2>2. \A d \in Baker :
            /\ bakersTodo'[d] # NoBlock => <<d, bakersTodo'[d]>> \in bakersCheckpoint
            /\ bakersTodo'[d] # NoBlock /\ bakers[d] # NoBlock
                 => ~(Level(bakers[d]) > Level(bakersTodo'[d]))
        BY <1>5, BakersRecovered
    <2>3. \A row \in bakersCheckpoint :
            \/ BakerStoredFrom(row[1], Level(row[2]))
            \/ bakersTodo'[row[1]] # NoBlock /\ Level(bakersTodo'[row[1]]) >= Level(row[2])
        BY <1>5, BakersRecovered
    <2>4. BakersTypeOK'
        BY <1>1, <2>1 DEF BakersInv, BakersTypeOK
    <2>5. NoDelegateLost' /\ BakersReferToValidBlocks'
        BY <1>1, <2>1
        DEF BakersInv, NoDelegateLost, BakersReferToValidBlocks, BakerStoredFrom, BakerAwaits,
            BakerUnread
    <2>6. Turns' /\ GatheredArePending' /\ PageIsNewer'
        BY <1>1, <1>2, <1>3, <2>1 DEF Turns, GatheredArePending, PageIsNewer
    <2>7. BakersTasksAreNewer'
        <3>1. SUFFICES ASSUME NEW d \in Baker, bakersTodo'[d] # NoBlock, bakers[d] # NoBlock
                       PROVE  Level(bakersTodo'[d]) >= Level(bakers[d])
            BY <2>1 DEF BakersTasksAreNewer
        <3>2. bakersTodo'[d] \in Block /\ bakers[d] \in Block
            BY <2>1, <3>1 DEF BakersInv, BakersTypeOK
        <3>3. ~(Level(bakers[d]) > Level(bakersTodo'[d]))
            BY <2>2, <3>1
        <3>4. Level(bakers[d]) \in Nat /\ Level(bakersTodo'[d]) \in Nat
            BY <3>2, BakersBounds
        <3> QED
            BY <3>3, <3>4
    <2>8. BakersIdsArePending' /\ BakersTaskCoversRows'
        BY <2>1, <2>3 DEF BakersIdsArePending, BakersTaskCoversRows, BakerStoredFrom
    <2>9. BakersOnOneBranch'
        <3>1. \A d \in Baker : bakersTodo'[d] # NoBlock =>
                \E row \in bakersCheckpoint : row[2] = bakersTodo'[d]
            <4>1. SUFFICES ASSUME NEW d \in Baker, bakersTodo'[d] # NoBlock
                           PROVE  \E row \in bakersCheckpoint : row[2] = bakersTodo'[d]
                OBVIOUS
            <4>2. <<d, bakersTodo'[d]>> \in bakersCheckpoint
                BY <2>2, <4>1
            <4> QED
                BY <4>2
        <3> QED
            BY <2>1, <3>1 DEF BakersInv, BakersOnOneBranch
    <2> QED
        BY <2>4, <2>5, <2>6, <2>7, <2>8, <2>9 DEF BakersInv
<1> QED
    BY <1>4, <1>5 DEF RecoverBakers

LEMMA FailuresKeepBakers == BakersInv /\ (Failed \/ BakersRefused) => BakersInv'
<1> SUFFICES ASSUME BakersInv, Failed \/ BakersRefused PROVE BakersInv'
    OBVIOUS
<1>1. Abandon /\ ForgetBakers
    BY DEF Failed, BakersRefused, WriteRefused, Fail
<1>2. /\ UNCHANGED <<head, reorgs, blocks, accounts, bakers, bakersCheckpoint, bakersUnread>>
      /\ pc' = "loop" /\ bakersPc' = "page" /\ gathered' = {} /\ bakersSource' = "page"
      /\ bakersIds' = {} /\ bakersTodo' = [d \in Baker |-> NoBlock]
    BY <1>1 DEF Abandon, ForgetBakers, nodeVars, dbVars
<1>3. BakersTypeOK'
    BY <1>2 DEF BakersInv, BakersTypeOK
<1>4. PageBlocks' = {}
    BY <1>2 DEF PageBlocks
<1>5. NoDelegateLost' /\ BakersReferToValidBlocks'
    BY <1>2
    DEF BakersInv, NoDelegateLost, BakersReferToValidBlocks, BakerStoredFrom, BakerAwaits,
        BakerUnread
<1>6. Turns' /\ GatheredArePending' /\ PageIsNewer' /\ BakersTasksAreNewer'
      /\ BakersIdsArePending' /\ BakersTaskCoversRows' /\ BakersOnOneBranch'
    BY <1>2, <1>4
    DEF BakersInv, Turns, GatheredArePending, PageIsNewer, BakersTasksAreNewer,
        BakersIdsArePending, BakersTaskCoversRows, BakersOnOneBranch
<1> QED
    BY <1>3, <1>5, <1>6 DEF BakersInv

--------------------------------------------------------------------------
(* The theorems *)

\* To the accounts, the steps of the bakers are steps that change nothing, or fail.
LEMMA AccountsKeepTheirs == AccountsInv /\ [BakersNext]_allVars => AccountsInv'
<1> SUFFICES ASSUME AccountsInv, [BakersNext]_allVars PROVE AccountsInv'
    OBVIOUS
<1>1. CASE NodeStep \/ LoopStep \/ InvalidateRows \/ NextPage \/ WriteAccountsAndDelegates
           \/ AccountsStep \/ RecoverAccounts \/ Failed
    <2>1. Next
        BY <1>1
        DEF NodeStep, LoopStep, InvalidateRows, NextPage, WriteAccountsAndDelegates,
            AccountsStep, RecoverAccounts, Failed, Next
    <2> QED
        BY <2>1, AccountsStepKeeps
<1>2. CASE BakersStep \/ RecoverBakers
    <2>1. UNCHANGED <<head, reorgs, blocks, processed, target, nextLevel, failures>>
        BY <1>2, BakersWritten, BakersMissing
        DEF BakersStep, RecoverBakers, Bakers!Processed, Bakers!NothingLeft, Bakers!Recover,
            Bakers!nodeVars, Bakers!dbVars
    <2>2. UNCHANGED vars
        BY <1>2, <2>1
        DEF BakersStep, RecoverBakers, accountsVars, vars, nodeVars, dbVars, loopVars, taskVars
    <2> QED
        BY <2>2, AccountsStepKeeps
<1>3. CASE ProcessPageBakers \/ UNCHANGED allVars
    <2>1. UNCHANGED vars
        BY <1>3 DEF ProcessPageBakers, allVars
    <2> QED
        BY <2>1, AccountsStepKeeps
<1>4. CASE BakersRefused
    <2>1. Abandon /\ failures' \in 0..MaxFailures
        BY <1>4 DEF BakersRefused, AccountsInv, AccountsTypeOK
    <2> QED
        BY <2>1, AbandonKeeps
<1> QED
    BY <1>1, <1>2, <1>3, <1>4 DEF BakersNext

LEMMA BakersKeepTheirs == BakersInv /\ AccountsInv /\ [BakersNext]_allVars => BakersInv'
<1>1. BakersInv /\ AccountsInv /\ BakersNext => BakersInv'
    BY NodeStepKeeps, LoopStepKeeps, NextPageKeeps, AccountsStepKeepsBakers, InvalidateKeeps,
       GatherKeeps, PageBakersKeep, BakersWriteKeeps, BakersMissingKeeps, BakersProcessedKeeps,
       RecoverBakersKeeps, FailuresKeepBakers
    DEF BakersNext, NextPage, BakersStep
<1>2. BakersInv /\ UNCHANGED allVars => BakersInv'
    <2> SUFFICES ASSUME BakersInv, UNCHANGED allVars PROVE BakersInv'
        OBVIOUS
    <2>1. /\ UNCHANGED <<bakersVars, bakers, bakersCheckpoint, gathered, bakersPc, bakersSource>>
          /\ UNCHANGED <<reorgs, blocks, accounts, pc, source, todo>>
        BY DEF allVars, bakersVars, bakersTask, vars, nodeVars, dbVars, loopVars, taskVars
    <2>2. PageIsNewer'
        BY <2>1, SamePage DEF PageBlocks, Requested
    <2>3. Turns' /\ (gathered # {} => pc' \in {"process", "recover"})
        BY <2>1 DEF BakersInv, Turns, GatheredArePending
    <2> QED
        BY <2>1, <2>2, <2>3, BakersUntouched
<1> QED
    BY <1>1, <1>2

LEMMA BothInvariants == BakersSpec => [](AccountsInv /\ BakersInv)
<1>1. BakersInit => AccountsInv /\ BakersInv
    BY AccountsInit, BakersStart DEF BakersInit
<1>2. AccountsInv /\ BakersInv /\ [BakersNext]_allVars => (AccountsInv /\ BakersInv)'
    BY AccountsKeepTheirs, BakersKeepTheirs
<1> QED
    BY <1>1, <1>2, PTL DEF BakersSpec

\* The tables and tasks of the bakers are type correct.
THEOREM BakersTypeCorrect == BakersSpec => []BakersTypeOK
<1>1. BakersInv => BakersTypeOK
    BY DEF BakersInv
<1> QED
    BY <1>1, BothInvariants, PTL

\* While the node is on one branch, no failure makes the bakers table miss a delegate
\* of a stored account.
THEOREM DelegatesAreNotLost == BakersSpec => []NoDelegateLost
<1>1. BakersInv => NoDelegateLost
    BY DEF BakersInv
<1> QED
    BY <1>1, BothInvariants, PTL

\* Bakers and blocks are invalidated together, whatever the forks.
THEOREM BakersStayValid == BakersSpec => []BakersReferToValidBlocks
<1>1. BakersInv => BakersReferToValidBlocks
    BY DEF BakersInv
<1> QED
    BY <1>1, BothInvariants, PTL

\* Taking turns with the bakers costs the accounts nothing: their updates are not lost.
THEOREM UpdatesAreNotLostInTurns == BakersSpec => []NoUpdateLost
<1>1. AccountsInv => NoUpdateLost
    BY DEF AccountsInv
<1> QED
    BY <1>1, BothInvariants, PTL

\* Neither a page nor a recovery replaces a baker by older data.
THEOREM BakersDoNotRegress == BakersSpec => BakersNeverRegress
<1> DEFINE Grow ==
        \A d \in Baker :
            bakers[d] # NoBlock /\ bakers'[d] # NoBlock
              => Level(bakers'[d]) >= Level(bakers[d])
<1>1. BakersInv /\ [BakersNext]_allVars => [Grow]_bakers
    <2> SUFFICES ASSUME BakersInv, [BakersNext]_allVars, bakers' # bakers,
                        NEW d \in Baker, bakers[d] # NoBlock, bakers'[d] # NoBlock
                 PROVE  Level(bakers'[d]) >= Level(bakers[d])
        OBVIOUS
    <2>1. bakers[d] \in Block /\ Level(bakers[d]) \in Nat
        BY BakersBounds DEF BakersInv, BakersTypeOK
    <2>2. InvalidateRows \/ Bakers!WriteAccounts
        BY BakersMissing, BakersCleaned, BakersRecovered
        DEF BakersNext, NodeStep, LoopStep, NextPage, WriteAccountsAndDelegates, AccountsStep,
            RecoverAccounts, ProcessPageBakers, BakersStep, RecoverBakers, Bakers!NothingLeft,
            Bakers!dbVars, Failed, BakersRefused, ForgetBakers, allVars, bakersVars
    <2>3. CASE InvalidateRows
        BY <2>1, <2>3 DEF InvalidateRows, Bakers!AmendFork
    <2>4. CASE Bakers!WriteAccounts
        BY <2>1, <2>4, BakersWritten DEF BakersInv, BakersTasksAreNewer
    <2> QED
        BY <2>2, <2>3, <2>4
<1> QED
    BY <1>1, BothInvariants, PTL DEF BakersSpec, BakersNeverRegress
=============================================================================
