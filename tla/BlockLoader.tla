---------------------------- MODULE BlockLoader ----------------------------
(***************************************************************************)
(* The indexers of Bitcoin and of Ethereum (and Quorum): loads of a range   *)
(* of levels, one after the other.  The levels already indexed are left     *)
(* out, the others requested in batches, which a JSON-RPC server may answer *)
(* in any order, and each block is stored in a transaction of its own.      *)
(* Neither looks for forks.  An error ends the process.                     *)
(*                                                                          *)
(* Blocks of one batch come in any order, batches in theirs.  The requests  *)
(* of a load run ahead of its writes, so that an answer may be older than   *)
(* the last switch of the node: it is about any head seen since the load    *)
(* started.                                                                 *)
(***************************************************************************)
EXTENDS Blockchain, FiniteSets

CONSTANTS
    Address,     \* accounts and contracts of Ethereum
    NoAddress,   \* stands for a missing contractAddress or destination
    NullAddress, \* the null address, in the transfers that create or burn tokens
    Hash,        \* hashes of transactions
    Content,     \* the transactions and the token transfers of each block
    Registered,  \* addresses in the registered_tokens table
    HashBatch,   \* hashBatchSize
    BlockBatch,  \* blocksBatchSize
    CustomDepth, \* the number of levels of a Custom depth
    MaxReorgs,   \* bound: how often the node switches branch
    MaxFailures  \* bound: crashes and failed requests

Tx == [hash : Hash, from : Address,
       to : Address \union {NoAddress}, creates : Address \union {NoAddress}]

Transfer == [token : Address, from : Address, to : Address]

Hashes(b) == {t.hash : t \in Content[b].txs}

ASSUME LoaderAssumption ==
    /\ NoAddress \notin Address
    /\ Content \in [Block -> [txs : SUBSET Tx, transfers : SUBSET Transfer]]
    \* A transaction is in one block of a chain at most.
    /\ \A b \in Block : \A l \in 0..Level(b) - 1 :
        Hashes(b) \intersect Hashes(AncestorAt(b, l)) = {}
    /\ HashBatch \in Nat \ {0}
    /\ BlockBatch \in Nat \ {0}
    /\ CustomDepth \in Nat \ {0}
    /\ MaxReorgs \in Nat
    /\ MaxFailures \in Nat

VARIABLES
    head,      \* the head of the node's chain
    reorgs,    \* how often the node switched branch
    platform,  \* which indexer runs
    depth,     \* which levels it is configured to load
    blocks,    \* rows of the blocks table
    pc,        \* "idle", "loading", or "down" when the process ended
    range,     \* the levels of the load
    seen,      \* heads of the branches the node was on since the load started
    todo,      \* levels still to be requested
    hashed,    \* Bitcoin: blocks whose hashes a batch answered, not passed on yet
    batch,     \* Bitcoin: blocks gathered for the next batch
    fetched,   \* blocks of the batch answered, not stored yet
    dropped,   \* observer: blocks left out without an error
    failures   \* how many failures happened

nodeVars == <<head, reorgs>>
confVars == <<platform, depth>>
loadVars == <<pc, range, seen, todo, hashed, batch, fetched>>
vars == <<nodeVars, confVars, blocks, loadVars, dropped, failures>>

Levels(S) == {Level(b) : b \in S}

\* Mutant: the stream of requests runs downwards.
Topmost(n, S) == {l \in S : Cardinality({m \in S : m > l}) < n}

\* The n lowest levels of S, in the order of the stream of requests.
Lowest(n, S) == {l \in S : Cardinality({m \in S : m < l}) < n}

--------------------------------------------------------------------------
(* Which levels a load is about *)

Highest ==
    CHOOSE l \in Levels(blocks) : \A b \in blocks : Level(b) <= l

AboveLatest == IF blocks = {} THEN 1 ELSE Highest + 1

\* Mutant: a load of everything continues like the others.
BitcoinContinues == AboveLatest

BitcoinStart ==
    CASE depth = "newest"     -> AboveLatest
      [] depth = "everything" -> 1
      [] depth = "custom"     -> IF Level(head) - CustomDepth > 1
                                 THEN Level(head) - CustomDepth ELSE 1

\* Mutant: a depth beyond the head is not looked at apart.
EthereumUncapped ==
    CASE depth = "newest"     -> AboveLatest
      [] depth = "everything" -> 1
      [] depth = "custom"     -> Level(head) - CustomDepth

EthereumStart ==
    CASE depth = "newest"     -> AboveLatest
      [] depth = "everything" -> 1
      [] depth = "custom"     -> IF CustomDepth > Level(head) THEN AboveLatest
                                 ELSE Level(head) - CustomDepth

Start == IF platform = "bitcoin" THEN BitcoinStart ELSE EthereumStart

--------------------------------------------------------------------------
(* What becomes of an Ethereum block: each stage passes on one chunk of what *)
(* it kept, and a chunk of nothing is no chunk                               *)

Created(b) == {t.creates : t \in Content[b].txs}

ContractsStage(b) ==
    Created(b) \subseteq {NoAddress} \/ Created(b) \intersect Registered # {}

AccountsStage(b) ==
    \/ Content[b].txs = {}
    \/ \E t \in Content[b].txs : {t.from, t.to} \intersect Created(b) = {}

RegisteredTransfers(b) == {t \in Content[b].transfers : t.token \in Registered}

TransfersStage(b) == Content[b].transfers = {} \/ RegisteredTransfers(b) # {}

BalancesStage(b) ==
    \/ RegisteredTransfers(b) = {}
    \/ \E t \in RegisteredTransfers(b) : {t.from, t.to} # {NullAddress}

PassesStages(b) ==
    \/ platform = "bitcoin"
    \/ ContractsStage(b) /\ AccountsStage(b) /\ TransfersStage(b) /\ BalancesStage(b)

\* A transaction of b is stored with another block: Ethereum inserts the row again,
\* it is refused, and the transaction that stores b fails; Bitcoin upserts it.
IsRefused(b) ==
    platform = "ethereum" /\ \E c \in blocks : Hashes(b) \intersect Hashes(c) # {}

--------------------------------------------------------------------------
(* The node, whose head never falls; growing changes no answer *)

Advance ==
    /\ \E b \in Block : Level(b) > Level(head) /\ Extends(b, head) /\ head' = b
    /\ UNCHANGED <<reorgs, confVars, blocks, loadVars, dropped, failures>>

Reorganise ==
    /\ reorgs < MaxReorgs
    /\ \E b \in Block : ~Extends(b, head) /\ Level(b) >= Level(head) /\ head' = b
    /\ seen' = IF pc = "loading" THEN seen \union {head'} ELSE seen
    /\ reorgs' = reorgs + 1
    /\ UNCHANGED <<confVars, blocks, pc, range, todo, hashed, batch, fetched,
                   dropped, failures>>

--------------------------------------------------------------------------
(* A load *)

\* Mutant: the levels already indexed are not left out.
StartLoadAfresh ==
    /\ pc = "idle"
    /\ pc' = "loading"
    /\ range' = Start..Level(head)
    /\ todo' = range'
    /\ seen' = {head}
    /\ UNCHANGED <<nodeVars, confVars, blocks, hashed, batch, fetched, dropped, failures>>

StartLoad ==
    /\ pc = "idle"
    /\ pc' = "loading"
    /\ range' = Start..Level(head)
    /\ todo' = range' \ Levels(blocks)
    /\ seen' = {head}
    /\ UNCHANGED <<nodeVars, confVars, blocks, hashed, batch, fetched, dropped, failures>>

\* The blocks that the node has at some level, or had when it was asked.
Known(l) == {AncestorAt(h, l) : h \in {c \in seen : l <= Level(c)}}

Answers(S) ==
    {answer \in [S -> UNION {Known(l) : l \in S}] : \A l \in S : answer[l] \in Known(l)}

\* Bitcoin: the hashes of the next levels.
RequestHashes ==
    /\ pc = "loading" /\ platform = "bitcoin"
    /\ hashed = {} /\ todo # {}
    /\ LET levels == Lowest(HashBatch, todo) IN
        /\ \E answer \in Answers(levels) : hashed' = {answer[l] : l \in levels}
        /\ todo' = todo \ levels
    /\ UNCHANGED <<nodeVars, confVars, blocks, pc, range, seen, batch, fetched,
                   dropped, failures>>

\* Hashes are passed on in the order of the answer, which is any.
GatherHash ==
    /\ Cardinality(batch) < BlockBatch
    /\ \E b \in hashed :
        /\ batch' = batch \union {b}
        /\ hashed' = hashed \ {b}
    /\ UNCHANGED <<nodeVars, confVars, blocks, pc, range, seen, todo, fetched,
                   dropped, failures>>

BatchIsDue ==
    \/ Cardinality(batch) = BlockBatch
    \/ batch # {} /\ hashed = {} /\ todo = {}

\* Bitcoin: blocks by their hashes, in batches of another size.
RequestBlocks ==
    /\ fetched = {}
    /\ BatchIsDue
    /\ fetched' = batch
    /\ batch' = {}
    /\ UNCHANGED <<nodeVars, confVars, blocks, pc, range, seen, todo, hashed,
                   dropped, failures>>

\* Ethereum: blocks by their levels.
RequestByNumber ==
    /\ pc = "loading" /\ platform = "ethereum"
    /\ fetched = {} /\ todo # {}
    /\ LET levels == Lowest(BlockBatch, todo) IN
        /\ \E answer \in Answers(levels) : fetched' = {answer[l] : l \in levels}
        /\ todo' = todo \ levels
    /\ UNCHANGED <<nodeVars, confVars, blocks, pc, range, seen, hashed, batch,
                   dropped, failures>>

StoreBlock ==
    /\ \E b \in fetched :
        /\ PassesStages(b)
        /\ ~IsRefused(b)
        /\ blocks' = blocks \union {b}
        /\ fetched' = fetched \ {b}
    /\ UNCHANGED <<nodeVars, confVars, pc, range, seen, todo, hashed, batch,
                   dropped, failures>>

DropBlock ==
    /\ \E b \in fetched :
        /\ ~PassesStages(b)
        /\ dropped' = dropped \union {b}
        /\ fetched' = fetched \ {b}
    /\ UNCHANGED <<nodeVars, confVars, blocks, pc, range, seen, todo, hashed, batch,
                   failures>>

\* Mutant: a last batch that is not full is not requested.
FinishLoadEarly ==
    /\ pc = "loading"
    /\ todo = {} /\ hashed = {} /\ fetched = {}
    /\ pc' = "idle"
    /\ seen' = {}
    /\ batch' = {}
    /\ UNCHANGED <<nodeVars, confVars, blocks, range, todo, hashed, fetched,
                   dropped, failures>>

FinishLoad ==
    /\ pc = "loading"
    /\ todo = {} /\ hashed = {} /\ batch = {} /\ fetched = {}
    /\ pc' = "idle"
    /\ seen' = {}
    /\ UNCHANGED <<nodeVars, confVars, blocks, range, todo, hashed, batch, fetched,
                   dropped, failures>>

--------------------------------------------------------------------------
(* The end of the process, and the next one *)

\* What a process had fetched and not stored is lost with it.
End ==
    /\ pc' = "down"
    /\ range' = {}
    /\ seen' = {}
    /\ todo' = {}
    /\ hashed' = {}
    /\ batch' = {}
    /\ fetched' = {}
    /\ UNCHANGED <<nodeVars, confVars, blocks, dropped>>

\* A crash, or a request that failed.
Fail ==
    /\ pc = "loading"
    /\ failures < MaxFailures
    /\ failures' = failures + 1
    /\ End

\* The database refuses a block, and the load ends with the error.
Refuse ==
    /\ \E b \in fetched : PassesStages(b) /\ IsRefused(b)
    /\ End
    /\ UNCHANGED failures

Restart ==
    /\ pc = "down"
    /\ pc' = "idle"
    /\ UNCHANGED <<nodeVars, confVars, blocks, range, seen, todo, hashed, batch, fetched,
                   dropped, failures>>

--------------------------------------------------------------------------

Init ==
    /\ head \in Block
    /\ reorgs = 0
    /\ platform \in {"bitcoin", "ethereum"}
    /\ depth \in {"newest", "everything", "custom"}
    /\ blocks = {}
    /\ pc = "idle"
    /\ range = {}
    /\ seen = {}
    /\ todo = {}
    /\ hashed = {}
    /\ batch = {}
    /\ fetched = {}
    /\ dropped = {}
    /\ failures = 0

Loader ==
    \/ StartLoad
    \/ RequestHashes
    \/ GatherHash
    \/ RequestBlocks
    \/ RequestByNumber
    \/ StoreBlock
    \/ DropBlock
    \/ FinishLoad
    \/ Refuse
    \/ Restart

Next == Advance \/ Reorganise \/ Loader \/ Fail

Spec == Init /\ [][Next]_vars

\* The node answers, the loop has no condition it waits on, and a supervisor
\* starts the process again: what the process can do, it does.
FairSpec == Spec /\ WF_vars(Loader)
=============================================================================
