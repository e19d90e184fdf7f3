----------------------- MODULE BakersCheckpointProps -----------------------
(* What the two checkpoints guarantee of the bakers table. *)
EXTENDS BakersCheckpoint, AccountsCheckpointProps

BakersTypeOK ==
    /\ bakers \in [Baker -> Block \union {NoBlock}]
    /\ bakersCheckpoint \subseteq Baker \X Block
    /\ bakersUnread \subseteq Baker \X Block
    /\ gathered \subseteq Baker \X Block
    /\ bakersPc \in {"page", "process", "recover"}
    /\ bakersSource \in {"page", "checkpoint"}
    /\ bakersIds \subseteq Baker
    /\ bakersTodo \in [Baker -> Block \union {NoBlock}]

BakerStoredFrom(d, level) == bakers[d] # NoBlock /\ Level(bakers[d]) >= level

BakerAwaits(d, level) ==
    \E row \in bakersCheckpoint : row[1] = d /\ Level(row[2]) >= level

BakerUnread(d, level) == \E row \in bakersUnread : row[1] = d /\ Level(row[2]) >= level

\* The doc of writeAccountsAndCheckpointBakers: the keys are recorded to later save
\* complete bakers information.  Until the node switches branch, the delegate of
\* every stored account, as of the block it is stored at, is stored at that block or
\* a later one, or has a row of the bakers checkpoint, wherever the process stopped
\* and whichever of the two recoveries came first, or an answer about it could not
\* be decoded, which the fetcher takes for no delegate.
NoDelegateLost ==
    reorgs = 0 =>
        \A a \in Account : \A d \in Baker :
            accounts[a] # NoBlock /\ Delegate[accounts[a]][a] = d
              => \/ BakerStoredFrom(d, Level(accounts[a]))
                 \/ BakerAwaits(d, Level(accounts[a]))
                 \/ BakerUnread(d, Level(accounts[a]))

\* The foreign key of the bakers table: a fork that invalidates a block invalidates
\* the bakers stored at it.
BakersReferToValidBlocks ==
    \A d \in Baker : bakers[d] # NoBlock => bakers[d] \in blocks

\* Neither the bakers of a page, which are not pruned, nor a recovery puts a baker
\* back to data older than those stored.
BakersNeverRegress ==
    [][\A d \in Baker :
          bakers[d] # NoBlock /\ bakers'[d] # NoBlock
            => Level(bakers'[d]) >= Level(bakers[d])]_bakers
--------------------------------------------------------------------------
(* The parts of an inductive invariant *)

\* Accounts and bakers are processed one after the other.
Turns ==
    /\ pc \in {"loop", "resets", "mark", "fetchHead"} => bakersPc = "page"
    /\ pc = "process" => bakersPc = IF source = "page" THEN "page" ELSE "recover"
    /\ bakersPc = "process" => pc = IF bakersSource = "page" THEN "recover" ELSE "page"

\* What the accounts of a page returned is also in the table.
GatheredArePending ==
    /\ gathered \subseteq bakersCheckpoint
    /\ gathered # {} => bakersPc = "page" /\ pc \in {"process", "recover"}

\* The blocks that the bakers of this page are, or will be, taken from
PageBlocks ==
    {row[2] : row \in gathered}
        \union {b \in Requested : pc = "process" /\ source = "page"}

\* They are above those of all other bakers, stored or pending.
PageIsNewer ==
    \A b \in PageBlocks :
        /\ \A d \in Baker : bakers[d] # NoBlock => Level(bakers[d]) <= Level(b)
        /\ reorgs = 0 => \A row \in bakersCheckpoint \ gathered : Level(row[2]) <= Level(b)

BakersTasksAreNewer ==
    \A d \in Baker :
        bakersTodo[d] # NoBlock /\ bakers[d] # NoBlock
            => Level(bakersTodo[d]) >= Level(bakers[d])

BakersIdsArePending ==
    bakersPc = "process" => \A d \in bakersIds : \E row \in bakersCheckpoint : row[1] = d

\* While the node is on one branch the bakers are about indexed blocks.
BakersOnOneBranch ==
    reorgs = 0 =>
        /\ \A row \in bakersCheckpoint : row[2] \in blocks
        /\ \A d \in Baker : bakersTodo[d] # NoBlock => bakersTodo[d] \in blocks

\* The rows to be deleted after the task are about data stored by then, or unread.
BakersTaskCoversRows ==
    reorgs = 0 /\ bakersPc = "process" =>
        \A row \in bakersCheckpoint :
            row[1] \in bakersIds =>
                \/ BakerStoredFrom(row[1], Level(row[2]))
                \/ bakersTodo[row[1]] # NoBlock /\ Level(bakersTodo[row[1]]) >= Level(row[2])
                \/ BakerUnread(row[1], Level(row[2]))

BakersInv ==
    /\ BakersTypeOK /\ NoDelegateLost /\ BakersReferToValidBlocks
    /\ Turns /\ GatheredArePending /\ PageIsNewer
    /\ BakersTasksAreNewer /\ BakersIdsArePending /\ BakersOnOneBranch /\ BakersTaskCoversRows
=============================================================================
