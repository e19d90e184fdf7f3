--------------------- MODULE AccountsCheckpointProps ---------------------
(* What the accounts checkpoint guarantees the accounts table. *)
EXTENDS AccountsCheckpoint

Steps ==
    {"loop", "resets", "mark", "fetchHead", "page", "process", "recover"}

AccountsTypeOK ==
    /\ head \in Block
    /\ reorgs \in 0..MaxReorgs
    /\ unread \subseteq Account \X Block
    /\ blocks \subseteq Block
    /\ accounts \in [Account -> Block \union {NoBlock}]
    /\ known \subseteq Account
    /\ checkpoint \subseteq Account \X Block
    /\ processed \subseteq Events
    /\ pc \in Steps
    /\ target \in Block \union {NoBlock}
    /\ nextLevel \in 0..MaxLevel + 1
    /\ source \in {"page", "checkpoint"}
    /\ ids \subseteq Account
    /\ todo \in [Account -> Block \union {NoBlock}]
    /\ failures \in 0..MaxFailures

\* The account is stored at this level or above, or will be: the row is there.
StoredFrom(a, level) == accounts[a] # NoBlock /\ Level(accounts[a]) >= level

Awaits(a, level) == \E row \in checkpoint : row[1] = a /\ Level(row[2]) >= level

\* It was asked for at this level or above, and the answer could not be decoded.
Unread(a, level) == \E row \in unread : row[1] = a /\ Level(row[2]) >= level

\* The comment of processBlocksPage: should storing the accounts fail, their data
\* are still recovered from the checkpoint.  Until the node switches branch, every
\* account that an indexed block touched is stored at that block or a later one, or
\* has a row of the checkpoint to be fetched by, wherever the process stopped; the
\* fetcher's taking an answer it cannot decode for no account is the one exception.
NoUpdateLost ==
    reorgs = 0 =>
        \A b \in blocks : \A a \in Touched[b] :
            StoredFrom(a, Level(b)) \/ Awaits(a, Level(b)) \/ Unread(a, Level(b))

\* A valid account row refers to a valid block, as the foreign key demands at the
\* end of every transaction: a fork invalidates both, or neither.
RowsReferToValidBlocks ==
    \A a \in Account : accounts[a] # NoBlock => accounts[a] \in blocks

\* A recovery never puts an account back to data older than those stored: what
\* onlyProcessLatest is for.
RowsNeverRegress ==
    [][\A a \in Account :
          accounts[a] # NoBlock /\ accounts'[a] # NoBlock
            => Level(accounts'[a]) >= Level(accounts[a])]_accounts

\* The same comment, under forks: what is recovered from the checkpoint can be
\* stored, being about blocks that are still valid.
RecoveryCanBeStored ==
    pc = "process" /\ source = "checkpoint" => Requested \subseteq blocks

--------------------------------------------------------------------------
(* The parts of an inductive invariant *)

Paging == pc \in {"page", "process", "recover"}

\* The next page is above every block.
PagesGoAbove ==
    Paging => target \in Block /\ \A b \in blocks : Level(b) < nextLevel

\* What is still to be fetched is not older than what is stored.
TasksAreNewer ==
    \A a \in Account :
        todo[a] # NoBlock /\ accounts[a] # NoBlock => Level(todo[a]) >= Level(accounts[a])

\* Only rows that are there are processed.
IdsArePending == pc = "process" => ids \subseteq Pending

\* While the node is on one branch everything is about blocks of that branch.
OneBranch ==
    reorgs = 0 =>
        /\ \A b \in blocks : Extends(head, b)
        /\ Paging => Extends(head, target)
        /\ \A row \in checkpoint : row[2] \in blocks
        /\ pc = "process" => Requested \subseteq blocks

\* The rows to be deleted after the task are about data stored by then, or unread.
TaskCoversRows ==
    reorgs = 0 /\ pc = "process" =>
        \A row \in checkpoint :
            row[1] \in ids =>
                \/ StoredFrom(row[1], Level(row[2]))
                \/ todo[row[1]] # NoBlock /\ Level(todo[row[1]]) >= Level(row[2])
                \/ Unread(row[1], Level(row[2]))

AccountsInv ==
    /\ AccountsTypeOK /\ RowsReferToValidBlocks /\ NoUpdateLost
    /\ PagesGoAbove /\ TasksAreNewer /\ IdsArePending
    /\ OneBranch /\ TaskCoversRows
=============================================================================
