------------------------ MODULE AccountsCheckpoint ------------------------
(***************************************************************************)
(* How Lorre keeps the accounts table up to date.  The transaction that     *)
(* stores a page of blocks leaves the accounts they touched in the          *)
(* checkpoint; their data are then fetched from the node and stored, and    *)
(* the checkpoint is cleaned.  What a failure leaves there is recovered     *)
(* after a later page.  A fork invalidates blocks and account rows, but not *)
(* the checkpoint.  An account reset puts the known accounts in it.         *)
(*                                                                          *)
(* The search for forks is TezosIndexer's matter, and one step here: while  *)
(* the highest block is on the node's chain nothing need be found, and what *)
(* is found is a level whose block is not.  Blocks below it may have left   *)
(* the chain as well: the indexed ones may be of several branches.          *)
(***************************************************************************)
EXTENDS Blockchain, FiniteSets

CONSTANTS
    Account,     \* account ids
    Touched,     \* the accounts involved in the operations of each block
    Events,      \* levels configured as AccountsRefresh chain events
    PageSize,    \* blockPageSize: of the pages, and of the groups of blocks whose
                 \* accounts are stored together
    MaxReorgs,   \* bound: how often the node switches branch
    MaxFailures, \* bound: crashes and failed requests
    MaxUnread    \* bound: answers about blocks of the node's chain that nothing decodes

ASSUME AccountsAssumption ==
    /\ IsFiniteSet(Account)
    /\ Touched \in [Block -> SUBSET Account]
    /\ Events \subseteq Nat
    /\ PageSize \in Nat \ {0}
    /\ MaxReorgs \in Nat
    /\ MaxFailures \in Nat
    /\ MaxUnread \in Nat

VARIABLES
    head,        \* the head of the node's main chain
    reorgs,      \* how often the node switched branch
    unread,      \* only observed: the accounts lost in such answers, and the blocks
    blocks,      \* the valid rows of the blocks table
    accounts,    \* the block that each valid row of the accounts table refers to
    known,       \* accounts with a row, valid or invalidated
    checkpoint,  \* rows of accounts_checkpoint: an account and a block
    processed,   \* rows of processed_chain_events
    pc,          \* the step the loop is at
    target,      \* the head the pages are counted from
    nextLevel,   \* the first level of the next page
    source,      \* what process() was called for, a page or the checkpoint
    ids,         \* the keys of its argument
    todo,        \* the block each account has still to be fetched at
    failures     \* how many failures happened

nodeVars == <<head, reorgs, unread>>
dbVars == <<blocks, accounts, known, checkpoint, processed>>
loopVars == <<pc, target, nextLevel>>
taskVars == <<source, ids, todo>>
vars == <<nodeVars, dbVars, loopVars, taskVars, failures>>

NoTask == [a \in Account |-> NoBlock]

MaxIndexed ==
    IF blocks = {} THEN -1
    ELSE CHOOSE l \in {Level(b) : b \in blocks} : \A b \in blocks : Level(b) <= l

Pending == {row[1] : row \in checkpoint}

--------------------------------------------------------------------------
(* The node, whose head never falls *)

Advance ==
    /\ \E b \in Block : Level(b) > Level(head) /\ Extends(b, head) /\ head' = b
    /\ UNCHANGED <<reorgs, unread, dbVars, loopVars, taskVars, failures>>

Reorganise ==
    /\ reorgs < MaxReorgs
    /\ \E b \in Block :
        /\ ~Extends(b, head)
        /\ Level(b) >= Level(head)
        /\ head' = b
    /\ reorgs' = reorgs + 1
    /\ UNCHANGED <<unread, dbVars, loopVars, taskVars, failures>>

--------------------------------------------------------------------------
(* The start of an iteration *)

NoFork ==
    /\ pc = "loop"
    /\ TopIsOn(blocks, head)
    /\ pc' = "resets"
    /\ UNCHANGED <<nodeVars, dbVars, target, nextLevel, taskVars, failures>>

AmendBlocksOnly(level) ==
    /\ blocks' = {b \in blocks : Level(b) < level}
    /\ processed' = {e \in processed : e < level}
    /\ UNCHANGED <<accounts, known, checkpoint>>

\* amendFork: the accounts last seen at an invalidated block lose their valid row,
\* the checkpoint keeps its rows.
AmendFork(level) ==
    /\ blocks' = {b \in blocks : Level(b) < level}
    /\ accounts' = [a \in Account |->
                      IF accounts[a] # NoBlock /\ Level(accounts[a]) >= level
                      THEN NoBlock ELSE accounts[a]]
    /\ processed' = {e \in processed : e < level}
    /\ UNCHANGED <<known, checkpoint>>

ForkDetected ==
    /\ pc = "loop"
    /\ \E b \in Orphaned(blocks, head) : AmendFork(Level(b))
    /\ pc' = "resets"
    /\ UNCHANGED <<nodeVars, target, nextLevel, taskVars, failures>>

--------------------------------------------------------------------------
(* applyUnhandledAccountsResets *)

AnyPast == 0..MaxIndexed \ processed

\* The configured events not yet processed, at levels indexed by now
Past == {e \in Events \ processed : e <= MaxIndexed}

NothingToReset ==
    /\ pc = "resets"
    /\ Past = {}
    /\ pc' = "fetchHead"
    /\ UNCHANGED <<nodeVars, dbVars, target, nextLevel, taskVars, failures>>

\* refillAccountsCheckpointFromExisting: every account ever stored, at the block
\* of the highest past event
Refill ==
    /\ pc = "resets"
    /\ \E b \in blocks :
        /\ Level(b) \in Past
        /\ \A e \in Past : e <= Level(b)
        /\ checkpoint' = checkpoint \union (known \X {b})
    /\ pc' = "mark"
    /\ UNCHANGED <<nodeVars, blocks, accounts, known, processed, target, nextLevel, taskVars,
                   failures>>

MarkProcessed ==
    /\ pc = "mark"
    /\ processed' = processed \union Past
    /\ pc' = "fetchHead"
    /\ UNCHANGED <<nodeVars, blocks, accounts, known, checkpoint, target, nextLevel, taskVars,
                   failures>>

--------------------------------------------------------------------------
(* The pages of new blocks *)

FetchHead ==
    /\ pc = "fetchHead"
    /\ pc' = "page"
    /\ target' = head
    /\ nextLevel' = MaxIndexed + 1
    /\ UNCHANGED <<nodeVars, dbVars, taskVars, failures>>

LastOfPage ==
    IF nextLevel + PageSize - 1 <= Level(target) THEN nextLevel + PageSize - 1
    ELSE Level(target)

Page == Segment(target, nextLevel, LastOfPage)

\* keepMostRecent: each account of a set of rows with one of its highest blocks
IsLatest(f, rows) ==
    \A a \in Account :
        IF \E row \in rows : row[1] = a
        THEN /\ <<a, f[a]>> \in rows
             /\ \A row \in rows : row[1] = a => Level(row[2]) <= Level(f[a])
        ELSE f[a] = NoBlock

PageRows == {row \in Account \X Page : row[1] \in Touched[row[2]]}

\* writeBlocksAndCheckpointAccounts, one transaction, then processAccountsForBlocks
StorePage ==
    /\ pc = "page"
    /\ nextLevel <= Level(target)
    /\ blocks' = blocks \union Page
    /\ checkpoint' = checkpoint \union PageRows
    /\ source' = "page"
    /\ ids' = {row[1] : row \in PageRows}
    /\ todo' \in [Account -> Page \union {NoBlock}]
    /\ IsLatest(todo', PageRows)
    /\ nextLevel' = LastOfPage + 1
    /\ pc' = "process"
    /\ UNCHANGED <<nodeVars, accounts, known, processed, target, failures>>

EndIteration ==
    /\ pc = "page"
    /\ nextLevel > Level(target)
    /\ pc' = "loop"
    /\ target' = NoBlock
    /\ nextLevel' = 0
    /\ UNCHANGED <<nodeVars, dbVars, taskVars, failures>>

--------------------------------------------------------------------------
(* process: fetch each account at its block, store the results, clean the checkpoint *)

Requested == {todo[a] : a \in Account} \ {NoBlock}

Fetched(group) == {a \in Account : todo[a] \in group}

\* The next PageSize blocks whose accounts were fetched, in no order, stored in one
\* transaction: the rows refer to valid blocks, or the foreign key fails it.
WriteAccounts ==
    /\ pc = "process"
    /\ \E group \in SUBSET Requested :
        /\ group # {} /\ group \subseteq blocks
        /\ Cardinality(group) <= PageSize
        /\ Cardinality(group) = PageSize \/ group = Requested
        /\ accounts' = [a \in Account |-> IF todo[a] \in group THEN todo[a] ELSE accounts[a]]
        /\ known' = known \union Fetched(group)
        /\ todo' = [a \in Account |-> IF todo[a] \in group THEN NoBlock ELSE todo[a]]
    /\ UNCHANGED <<nodeVars, blocks, checkpoint, processed, loopVars, source, ids, failures>>

\* An answer that the fetcher cannot decode stands for an account that was never
\* created, whatever its status was: the state of a block the node orphaned is gone,
\* and any other request may be answered by an error.
NotFound ==
    /\ pc = "process"
    /\ \E a \in Account :
        /\ todo[a] # NoBlock
        /\ todo' = [todo EXCEPT ![a] = NoBlock]
        /\ \/ ~Extends(head, todo[a]) /\ unread' = unread
           \/ Cardinality(unread) < MaxUnread /\ unread' = unread \union {<<a, todo[a]>>}
    /\ UNCHANGED <<head, reorgs, dbVars, loopVars, source, ids, failures>>

CleanTable == checkpoint' = {}

\* cleanCheckpoint with the ids of this task, which may be all there are
Clean ==
    checkpoint' = IF Cardinality(Pending) > Cardinality(ids)
                  THEN {row \in checkpoint : row[1] \notin ids}
                  ELSE {}

\* After a page its leftovers are looked for; after them the next page is due.
Processed ==
    /\ pc = "process"
    /\ Requested = {}
    /\ Clean
    /\ pc' = IF source = "page" THEN "recover" ELSE "page"
    /\ ids' = {}
    /\ UNCHANGED <<nodeVars, blocks, accounts, known, processed, target, nextLevel, source, todo,
                   failures>>

--------------------------------------------------------------------------
(* processTezosAccountsCheckpoint *)

NothingLeft ==
    /\ pc = "recover"
    /\ checkpoint = {}
    /\ pc' = "page"
    /\ UNCHANGED <<nodeVars, dbVars, target, nextLevel, taskVars, failures>>

Unpruned(latest) == latest

\* prunedUpdates: the accounts stored at a higher level are left out.
Pruned(latest) ==
    [a \in Account |->
        IF latest[a] # NoBlock /\ accounts[a] # NoBlock /\ Level(accounts[a]) > Level(latest[a])
        THEN NoBlock ELSE latest[a]]

Recover ==
    /\ pc = "recover"
    /\ checkpoint # {}
    /\ source' = "checkpoint"
    /\ ids' = Pending
    /\ \E latest \in [Account -> {row[2] : row \in checkpoint} \union {NoBlock}] :
        /\ IsLatest(latest, checkpoint)
        /\ todo' = Pruned(latest)
    /\ pc' = "process"
    /\ UNCHANGED <<nodeVars, dbVars, target, nextLevel, failures>>

--------------------------------------------------------------------------
(* Failures.  Stopping and starting again, or going on with the next         *)
(* iteration, leave the same: what is in the database.                       *)

Abandon ==
    /\ pc' = "loop"
    /\ target' = NoBlock
    /\ nextLevel' = 0
    /\ source' = "page"
    /\ ids' = {}
    /\ todo' = NoTask
    /\ UNCHANGED <<nodeVars, dbVars>>

\* A group with an account at an invalidated block breaks the foreign key of the
\* accounts table: AccountsProcessingFailed.
WriteRefused ==
    /\ pc = "process"
    /\ ~(Requested \subseteq blocks)
    /\ Abandon
    /\ UNCHANGED failures

\* A crash or a failed request, at any point
Fail ==
    /\ pc # "loop"
    /\ failures < MaxFailures
    /\ failures' = failures + 1
    /\ Abandon

--------------------------------------------------------------------------

Init ==
    /\ head \in Block
    /\ reorgs = 0
    /\ unread = {}
    /\ blocks = {}
    /\ accounts = NoTask
    /\ known = {}
    /\ checkpoint = {}
    /\ processed = {}
    /\ pc = "loop"
    /\ target = NoBlock
    /\ nextLevel = 0
    /\ source = "page"
    /\ ids = {}
    /\ todo = NoTask
    /\ failures = 0

Next ==
    \/ Advance \/ Reorganise
    \/ NoFork \/ ForkDetected
    \/ NothingToReset \/ Refill \/ MarkProcessed
    \/ FetchHead \/ StorePage \/ EndIteration
    \/ WriteAccounts \/ NotFound \/ Processed
    \/ NothingLeft \/ Recover
    \/ WriteRefused \/ Fail

Spec == Init /\ [][Next]_vars
=============================================================================
