-------------------------- MODULE BakersCheckpoint --------------------------
(***************************************************************************)
(* The bakers table, which lags behind the accounts table.  The transaction *)
(* that stores accounts leaves their delegates in a checkpoint of its own;  *)
(* a page stores the delegates of its accounts, then what is left in the    *)
(* accounts checkpoint is recovered, then what is left in the bakers' one.  *)
(* BakersProcessor is AccountsProcessor over again, for other tables: its   *)
(* steps are those of AccountsCheckpoint, renamed, and AccountsCheckpoint   *)
(* itself takes turns with it.                                              *)
(***************************************************************************)
EXTENDS AccountsCheckpoint

CONSTANTS
    Baker,      \* keys of the delegates
    NoBaker,    \* what an account without a delegate has
    Delegate    \* the delegate of each account, in its state at each block

ASSUME BakersAssumption ==
    /\ IsFiniteSet(Baker)
    /\ NoBaker \notin Baker
    /\ Delegate \in [Block -> [Account -> Baker \union {NoBaker}]]

VARIABLES
    bakers,            \* the block that each valid row of the bakers table refers to
    bakersCheckpoint,  \* rows of bakers_checkpoint: a baker and a block
    bakersUnread,      \* only observed: the bakers lost in unreadable answers
    gathered,          \* the delegates that the accounts of this page had
    bakersPc,          \* "page" until the page's bakers are due, then as pc
    bakersSource,      \* what process() of the bakers was called for
    bakersIds,         \* the keys of its argument
    bakersTodo         \* the block each baker has still to be fetched at

bakersTask == <<bakersPc, bakersSource, bakersIds, bakersTodo>>
bakersVars == <<bakers, bakersCheckpoint, bakersUnread, gathered, bakersTask>>
accountsVars == <<accounts, known, checkpoint, unread, pc, taskVars>>
allVars == <<vars, bakersVars>>

Bakers ==
    INSTANCE AccountsCheckpoint
    WITH Account <- Baker, Touched <- [b \in Block |-> {}], Events <- {},
         accounts <- bakers, known <- Baker, checkpoint <- bakersCheckpoint,
         unread <- bakersUnread,
         pc <- bakersPc, source <- bakersSource, ids <- bakersIds, todo <- bakersTodo

--------------------------------------------------------------------------
(* What AccountsCheckpoint does while no baker is processed *)

NodeStep == (Advance \/ Reorganise) /\ UNCHANGED bakersVars

LoopStep ==
    /\ NoFork \/ NothingToReset \/ Refill \/ MarkProcessed \/ FetchHead
    /\ UNCHANGED bakersVars

InvalidateAccountsOnly == ForkDetected /\ UNCHANGED bakersVars

\* One amendment for all the tables: the levels of both are those that left blocks.
InvalidateRows ==
    /\ ForkDetected
    /\ \E b \in blocks : Bakers!AmendFork(Level(b))
    /\ UNCHANGED <<bakersUnread, gathered, bakersTask>>

NextPage ==
    /\ bakersPc = "page"
    /\ StorePage \/ EndIteration
    /\ UNCHANGED bakersVars

AnyDelegates ==
    {row \in (Baker \union {NoBaker}) \X Requested :
        \E a \in Account : /\ todo[a] = row[2] /\ todo'[a] = NoBlock
                           /\ Delegate[row[2]][a] = row[1]}

\* extractBakersInfo: the delegates of the accounts that this step stores
StoredDelegates ==
    {row \in Baker \X Requested :
        \E a \in Account : /\ todo[a] = row[2] /\ todo'[a] = NoBlock
                           /\ Delegate[row[2]][a] = row[1]}

GatherOfPagesOnly ==
    /\ bakersCheckpoint' = IF source = "page" THEN bakersCheckpoint \union StoredDelegates
                           ELSE bakersCheckpoint
    /\ gathered' = IF source = "page" THEN gathered \union StoredDelegates ELSE gathered

GatherAlways ==
    /\ bakersCheckpoint' = bakersCheckpoint \union StoredDelegates
    /\ gathered' = gathered \union StoredDelegates

\* writeAccountsAndCheckpointBakers; only the call for a page uses what it returns.
Gather ==
    /\ bakersCheckpoint' = bakersCheckpoint \union StoredDelegates
    /\ gathered' = IF source = "page" THEN gathered \union StoredDelegates ELSE gathered

WriteAccountsAndDelegates ==
    /\ WriteAccounts
    /\ Gather
    /\ UNCHANGED <<bakers, bakersUnread, bakersTask>>

AccountsStep == (NotFound \/ Processed) /\ UNCHANGED bakersVars

\* The accounts checkpoint comes after the bakers of the page.
RecoverAccounts ==
    /\ bakersPc = "recover"
    /\ NothingLeft \/ Recover
    /\ UNCHANGED bakersVars

--------------------------------------------------------------------------
(* The bakers *)

\* processBakersForBlocks, of what the accounts of the page returned
ProcessPageBakers ==
    /\ pc = "recover" /\ bakersPc = "page"
    /\ bakersPc' = "process"
    /\ bakersSource' = "page"
    /\ bakersIds' = {row[1] : row \in gathered}
    /\ bakersTodo' \in [Baker -> {row[2] : row \in gathered} \union {NoBlock}]
    /\ Bakers!IsLatest(bakersTodo', gathered)
    /\ gathered' = {}
    /\ UNCHANGED <<vars, bakers, bakersCheckpoint, bakersUnread>>

BakersStep ==
    /\ Bakers!WriteAccounts \/ Bakers!NotFound \/ Bakers!Processed
    /\ UNCHANGED <<accountsVars, gathered>>

\* processTezosBakersCheckpoint, after the same for the accounts
RecoverBakers ==
    /\ pc = "page"
    /\ Bakers!NothingLeft \/ Bakers!Recover
    /\ UNCHANGED <<accountsVars, gathered>>

--------------------------------------------------------------------------
(* Failures end both. *)

ForgetBakers ==
    /\ gathered' = {}
    /\ bakersPc' = "page"
    /\ bakersSource' = "page"
    /\ bakersIds' = {}
    /\ bakersTodo' = [d \in Baker |-> NoBlock]
    /\ UNCHANGED <<bakers, bakersCheckpoint, bakersUnread>>

Failed == (WriteRefused \/ Fail) /\ ForgetBakers

\* BakersProcessingFailed, for a baker at an invalidated block
BakersRefused ==
    /\ bakersPc = "process"
    /\ ~(Bakers!Requested \subseteq blocks)
    /\ Abandon
    /\ ForgetBakers
    /\ UNCHANGED failures

--------------------------------------------------------------------------

BakersInit ==
    /\ Init
    /\ bakers = [d \in Baker |-> NoBlock]
    /\ bakersCheckpoint = {}
    /\ bakersUnread = {}
    /\ gathered = {}
    /\ bakersPc = "page"
    /\ bakersSource = "page"
    /\ bakersIds = {}
    /\ bakersTodo = [d \in Baker |-> NoBlock]

BakersNext ==
    \/ NodeStep \/ LoopStep \/ InvalidateRows
    \/ NextPage \/ WriteAccountsAndDelegates \/ AccountsStep \/ RecoverAccounts
    \/ ProcessPageBakers \/ BakersStep \/ RecoverBakers
    \/ Failed \/ BakersRefused

BakersSpec == BakersInit /\ [][BakersNext]_allVars
=============================================================================
