# A verification of Conseil's indexer

Conseil indexes blockchains into a relational database (the process **Lorre**)
and serves what it indexed over HTTP (the process **Conseil**). The two share
nothing but the Postgres schema `sql/conseil.sql`. This directory holds TLA+
models of the parts of the system where the order of events decides
correctness, the TLC configurations that check them, and proofs that TLAPS
checks for every value of the constants.

Run the checks from this directory: `tlc -config <run>.cfg <module>` for the
runs below, `tlapm <module>.tla` for the proofs.

## Inventory

| Component | State | Operations | Talks to | What is hard | What must hold |
|---|---|---|---|---|---|
| Fork detection: `forks/ForkHandler`, `forks/ForkDetector`, `tezos/forks/ConsistentForkDetector`, `TezosForkSearchEngine` | the cached search anchor; the range of a binary search | compare the head, search, verify, retry | node RPC, `blocks` | the node moves between two requests; the anchor outlives its branch; the constructor's request is answered late | nothing orphaned is kept below the level found, the cut is tight, the search ends |
| Main loop: `tezos/TezosIndexer`, `BacktracingForkProcessor`, `TezosForkInvalidatingAmender`, `AccountsResetHandler` | iteration, pending account resets; `blocks`, `forks`, `processed_chain_events` | detect, amend, backtrack, reload, reset, store pages, fees | all of the indexer | values read before an amendment and used after it; failures between two writes; restarts | readers see one chain without gaps; a reset is marked only when done; the node's chain is reached |
| Pages: `BlocksProcessor`, `TezosNodeOperator`, `TezosNodeFetchers` | none of its own | fetch a page, store it, then its names, accounts, bakers, governance | node RPC, database | a page fetched in parallel comes in any order; one of its writes fails | one transaction for blocks and checkpoint rows |
| Checkpoints: `AccountsProcessor`, `BakersProcessor` | `accounts`, `bakers`, `accounts_checkpoint`, `bakers_checkpoint` | write rows, fetch and upsert, clean, recover | node RPC, database | what is cleaned, what is recovered after a failure, rows that refer to orphaned blocks | no update of an account is lost, no newer row is overwritten by an older one |
| Rights: `BakingAndEndorsingRightsProcessor` | `baking_rights`, `endorsing_rights` | upsert the rights of a page, update the next levels after each iteration, insert those of the coming cycles on a schedule | node RPC, database | futures nobody awaits, runs that overlap, an insertion against an upsert of the same key, the first level of a run | a level has all its rights once it is passed; rights that name a valid block keep it |
| Governance, fees: `TezosGovernanceOperations`, `TezosFeeOperations` | `governance`, `fees` | aggregate the ballots of a page, average fees | database | boundaries of voting periods | counts per level add up over the period |
| Big maps: `bigmaps/BigMapsOperations`, `BigMapsConversions` | `big_maps`, `big_map_contents`, their history, `originated_account_maps` | allocate, update, copy, remove | pages | a page applies its differences by kind; forks and identifiers allocated twice; copies of rows of any age | the contents are those of the chain's differences one by one, nothing stale stays, no allocation is refused but for a block of another branch |
| Tokens and names: `michelson/contracts/TokenContracts`, `TNSContract`, `TezosNamesOperations` | map identifiers in `SyncVar`s, per page and per process; `token_balances`, `tezos_names` | identify the maps, read balances and names by them | pages, node RPC | a write-once variable written twice; what a restart forgets; identifiers of another branch | balances are of their own chain's map, names are stored, no page waits |
| Registered tokens, metadata: `RegisteredTokensFetcher`, `Tzip16MetadataFetcher`, `MetadataProcessor` | `registered_tokens`, `metadata` | periodic refreshes | external documents | two schedules at once | a refresh is repeatable |
| Node interface: `TezosNodeInterface` | connection pools, a shutdown flag | single and batched requests | node RPC | results in any order, a batch that fails in the middle; no status is looked at, so that an error is an answer, which the fetchers drop | every request is answered or fails |
| Lorre process: `Lorre`, `LorreIndexer` | the running indexer | start, stop from two places | everything | stop races the work and itself | every resource is closed once the work stopped |
| Bitcoin: `bitcoin/BitcoinIndexer`, `BitcoinOperations`, `BitcoinPersistence` | `bitcoin.*` | the range of a depth, leave out what is stored, request in batches, store block by block | JSON-RPC | answers out of order, a crash in the middle, a branch switch | a load that ends is complete, an interrupted one leaves bounded gaps, a level is written once |
| Ethereum, Quorum: `ethereum/EthereumIndexer`, `EthereumOperations`, `EthereumPersistence` | `ethereum.*`, `quorum.*` | the same, with logs, receipts and tokens | JSON-RPC | an empty filter result drops a block; a transaction comes back after a switch | as above |
| JSON-RPC client: `rpc/RpcClient` | none | batches, retries with back-off | HTTP | retry of what was answered | every request of a batch is answered |
| API caches: `cache/MetadataCaching`, `GenericPlatformDiscoveryOperations` | entities, attributes and values with time stamps | initialise, serve, refresh in the background, expire | database | refreshes overlap, fail, or lose their updates; the start counts nothing | what is served is current again and again |
| API requests: `RecordingDirectives`, `util/Retry` | the requests in flight | record, answer, time out, retry | HTTP | a read-modify-write of the shared map; a timeout racing an answer | a request recorded is removed once |
| API metadata, data routes, security | configuration | translate, filter, validate | database | none: stateless | results follow the overrides |
| Configuration, logging, schema generation, smoke tests, test kit | none at run time | - | - | - | - |

## Modules

| Module | What it is |
|---|---|
| `Blockchain` | blocks of a chain with forks, the definitions all modules share |
| `ForkDetector` | the fork detection, a step per request |
| `ForkDetectorProps` | its type invariant, safety, action and liveness properties |
| `MC_ForkDetector` | the indexed chains that two rounds of indexing can leave, as its initial states |
| `IndexedChain` | abstract specification: the `blocks` table is a stack of blocks |
| `TezosIndexer` | the main loop, on top of the detection |
| `TezosIndexerProps` | its properties, its inductive invariant, its refinement of `IndexedChain` |
| `BlockchainTheorems` | lemmas about ancestors, segments and gapless sets of blocks; induction and recursion up to a bound |
| `ForkDetectorProofs` | theorems of the detection alone |
| `TezosIndexerProofs` | theorems of the main loop |
| `AccountsCheckpoint` | the accounts table and its checkpoint: pages, resets, recovery, forks, failures |
| `AccountsCheckpointProps` | its properties and its inductive invariant |
| `MC_AccountsCheckpoint` | which blocks touch which accounts |
| `BakersCheckpoint` | the bakers table and its checkpoint, composed with that of the accounts |
| `BakersCheckpointProps` | its properties and its inductive invariant |
| `MC_BakersCheckpoint` | which account delegates to which baker, at which block; the bounds of the exploration |
| `CheckpointProofs` | theorems of the accounts checkpoint, of the bakers checkpoint and of the two together |
| `BlockLoader` | the loads of the Bitcoin and Ethereum indexers: ranges, batches, stages, transactions, failures |
| `WriteOnceIndex` | abstract specification: an entry per level, written at most once |
| `BlockLoaderProps` | properties of the loads, their inductive invariant, their refinement of `WriteOnceIndex` |
| `MC_BlockLoader` | what the blocks carry: which transactions, deployments and token transfers |
| `BlockLoaderProofs` | theorems of the loads, the bound on gaps among them |
| `Rights` | the three writers of the baking and endorsing rights |
| `RightsProps` | their properties and inductive invariant |
| `MC_Rights` | whose rights the node answers for a block; the bounds of the exploration |
| `RightsProofs` | theorems of the rights |
| `MetadataCache` | the API's cache of attributes: initialisation, expiry, refreshes |
| `MetadataCacheProps` | its properties |
| `MetadataCacheProofs` | its type correctness |
| `ContractOperations` | what blocks say of contracts: originations and transactions with the differences of their big maps |
| `BigMaps` | the tables of the big maps: what a page writes and removes, what a fork invalidates |
| `KnownContracts` | the maps of registered tokens and of the name service, the balances and names read by them |
| `ContractPages` | composes the two: the loop that stores pages of blocks with all they say of contracts, forks, failures, restarts |
| `ContractPagesProps` | its properties, with the differences replayed one by one as the reference, its inductive invariants, and what the theorems take contracts to do |
| `MC_ContractPages` | the operations of the blocks; the bounds of the exploration |
| `ContractPagesProofs` | theorems of the contract pages, among them that the pages keep what the replay keeps |

### How the models read the code

*Blocks.* The hash of a Tezos block commits to its whole history, so a block is
its history: the sequence of choices made at every level (`Block`). `hash~n`,
by which the search counts back from its anchor, is a prefix, and the
`predecessor` field is the prefix one shorter. `FinalLevel` bounds the depth of
reorganisations, `MaxLevel` the height of the chain.

*Requests.* Each answer of the node is a step, so that the node may switch
branch (`Reorganise`) or grow (`Advance`) between two of them. The two requests
of `updatedAnchor` and `getFromNode` are one step, since the content of a block
named by its hash does not change. A request for a level above its reference
has a negative offset and fails (`Refused`). The node is assumed to answer for
the ancestors of an anchor also after the anchor was orphaned.

*The search.* `search` is the state of the monadic chain that `handleFork`
builds: `at` names its next request, `low` and `high` are the arguments of
`searchForkLevel`, `attempts` that of `attemptSearch`. `ref` and `steady` only
observe which reference answered; no guard reads them.

*The loop.* `pc` names the next step of `mainLoop`, each flatMap that reads or
writes shared state being one action. A database transaction is atomic
(`AmendFork`, `StorePage`); two `db.run` calls are two steps (`Refill`,
`MarkProcessed`). `Stop` is what a process loses when it ends; `Boot` is what a
new one reads. A failed detection is not among the exceptions that `mainLoop`
recovers from and stops the process; a failed page is, when
`LORRE_FAILURE_IGNORE` asks for it (`PageFailed`), and the next iteration then
starts with the same pending events. `refilled` only observes.

*The accounts.* `AccountsCheckpoint` takes from the loop what it guarantees:
an iteration starts by a search for forks, in one step. While the highest block
is on the node's chain the search may find nothing (`NoFork`), though blocks below
may be of another branch; otherwise, and whenever there are such blocks, it may
find the level of any of them (`ForkDetected`, `TopIsOn`, `Orphaned`). The head is
read after that (`FetchHead`), and pages go on top. It does not compose with
`TezosIndexer`, whose detection may also amend a fork that did not happen,
because the questions here are about the rows whatever level was cut; the head
never falls. A row of `accounts` is the block it refers to, all that its age
and its foreign key depend on; `known` also counts invalidated rows, which a
refill selects too. `process(ids)` is the action that sets `todo`
(`StorePage`, `Recover`), then one `WriteAccounts` per transaction, then
`Processed`: the requests run in parallel and are stored in groups of
`blockPageSize` in the order of the answers, so a group is any set of that many
blocks. `keepMostRecent` and `keepLatestAccountIds` keep any one of the highest
rows of an account. `NotFound` is the `recover` of the fetcher: an answer that is not
an account, of whatever HTTP status, is taken for no account, and the row of the
checkpoint is cleaned with the others. That is so of a block whose state the node
has dropped, at any time, and of any other block for as long as `MaxUnread` allows;
`unread` observes what was lost by the latter. A crash and a failed request
leave the same: the tables.

*The bakers.* `BakersProcessor` is `AccountsProcessor` over again, so the bakers
are an instance of `AccountsCheckpoint` under other names (`Bakers`): the same
`WriteAccounts`, `NotFound`, `Processed`, `Recover` and amendment, of other
tables. `BakersCheckpoint` adds where the two meet. The transaction of
`writeAccountsAndCheckpointBakers` stores accounts and leaves their delegates in
`bakers_checkpoint` (`WriteAccountsAndDelegates`); what it did so for a page is
also returned (`gathered`), and what it did for a recovery is dropped by
`processTezosAccountsCheckpoint`, so only the table remembers it. `bakersPc` and
`pc` give the order of `processTezosBlocks`: accounts of the page, bakers of the
page, accounts left over, bakers left over, next page. A failure of either ends
both (`ForgetBakers`). `Delegate` gives each account any delegate at each block.

*The loads.* Bitcoin and Ethereum share `BlockLoader`: `platform` chooses the
formula of the range (`BitcoinStart`, `EthereumStart`) and the requests. A load
reads the list of stored levels once (`StartLoad`); `RpcClient.stream` keeps
the order between batches and not within one, so a batch is a set. Bitcoin asks
for hashes and then for blocks, in batches of two sizes, with up to one batch
gathered between them (`GatherHash`, `BatchIsDue`); Ethereum asks by number.
Several batches may be under way, which matters only for how old an answer may
be: `seen` holds every branch the node was on since the load started, and an
answer is about any of them. A level counts as requested in order; what runs
ahead of the writes is not stored, so its order is not visible. The stages of
`loadBlocksWithTransactions` for Ethereum each end in `chunkN(Integer.MAX_VALUE)`,
which passes nothing on for an empty stream (`ContractsStage`, `AccountsStage`,
`TransfersStage`, `BalancesStage`): the conditions are those of the code, over
the addresses a block's transactions name. A missing `contractAddress` equals a missing
destination there, hence `NoAddress` is a value of both. `IsRefused` is the
primary key of `ethereum.transactions`; Bitcoin upserts its transactions.
`headHash` is taken for the hash of the head. `dropped` only observes.

*The rights.* `Rights` takes the fork handling as `AccountsCheckpoint` does. All
rights of a level are one row in each of the two tables: they are fetched and
written together. The request of a page names a block and no level, so the level of
the rows is the node's choice: `Ahead` has it be that of the block or the next one,
for each table. An answer that cannot be decoded is an empty list to each of the four
fetchers, and what was to be written is written without it (`ReadInVain`, in
`PageRights`, `Update`, `NextPartition` and `InsertEndorsing`); `unread` observes
the rows it would have been. `RunFails` is a request without an answer. `db.run` in
a tuple that `.void` drops is a write that is pending from then on (`writes`), as is the insertion of the baking rights in a
scheduled run, whose future the block of `mapAsync` discards; the endorsing
rights are its result and hence awaited (`InsertEndorsing`). A run's three reads
are under way together (`ReadHead`, `ReadMax`, in any order) and decide its
range. A plain insertion of a level that has rights is refused as a whole
(`Collides`); an upsert that names a block no longer valid is refused by the
foreign key (`Accepted`). The overlap of two scheduled runs is that of pending
insertions of a run that ended with the next run: `Run` has one slot in the
configuration, any number in the proofs. `CycleSize` minus the cycle position is
taken from the level, with cycles that begin at multiples of the size.

*The contract pages.* `ContractPages` takes the fork handling as
`AccountsCheckpoint` does; since the head is a request of its own, a page of one
branch may come on the blocks of another, and `PageRefused` is the insertion of a
map whose key a valid row has (`Collides`). `Operations` gives each block the sequence that
`extractOperationsSequence` makes of it, internal operations after the one that
made them. A *place* names a block, an operation of it and a difference of that
operation; the differences a page applies are sets of places (`Allocations`,
`Updates`, `Copies`, `Removals`), each with the optics' choice of operations:
internal ones are looked at, and the status matters, for the first two only.

*The big maps.* A row of `contents` is the place of the update it holds, of which
value and level are functions; invalidated rows stay, under the number of their
fork. `SaveBigMaps` composes the steps of `saveBigMaps` in their order:
allocations, updates, copies, removals. `Newest` is the fold over the blocks by
falling level, `Upserted` the upsert by the primary key. The copies run block by
block from the lowest level, each reading what the ones before wrote (`Copied`);
`.result.headOption` without an order is any row (`CopiedRows`). A row of `maps`
stands also for the rows of `originated_account_maps`, which are written,
invalidated and removed with it.

*The known contracts.* Which maps a contract has is told by the allocations of its
origination (`MapsOf`). For the registrar their rows are looked up by the identifier
alone, the first one found is taken, and it has to have the expected types: where a
row of an invalidated map has the same identifier the maps may or may not be found
(`FoundTnsMaps`). A registry of tokens lives for one page, so the tokens'
variables are only visible through the originations of the page; those of the
registrar are `tnsMaps`. `SyncVar.put` on a variable that is set waits:
`PageWaits` is that wait, from which nothing returns but a restart. Whether the
list of `saveBigMaps` has its balances gathered before its originations have run
is left open: both are allowed. Two rows of `names` differ by the block that
registered them, which the table does not store; a fork leaves them. A content
that cannot be read, as an error in JSON, leaves no row and is no failure
(`SaveNames`, `unread`). The
registrar has two maps, as `setMaps` expects, and a registration updates both.

*The cache.* `MetadataCache` keeps what decides whether a count is current: the
entry, whether it has expired, and each refresh in the background between the
read of the old entry and the update with the result (`FindExpired`, `MarkFresh`,
`Count`, `PutCount`). `tryUpdate` gives up when another update comes between,
and its result is ignored (`MarkLost`, `CountLost`). `initAttributesCache` looks
for names of tables among keys of the form `platform.network.table`: it matches
none and counts nothing (`FinishCounting`), so that the zeros of
`preCacheAttributes` are answered until a request finds them expired.

## Runs

| Run | Module, configuration | What it asks |
|---|---|---|
| `fork_search` | `MC_ForkDetector` | is a detection safe, tight, logarithmic and finite, from any indexed chain and any anchor, the node moving meanwhile? |
| `indexer_safety` | `TezosIndexerProps`, `MC_TezosIndexer.cfg` | what do readers of `blocks` and `processed_chain_events` see, across forks, failures and restarts? |
| `indexer_sync` | `TezosIndexerProps`, `MC_TezosIndexerSync.cfg` | does the loop come to hold the node's chain again and again? |
| `mixed_chain` | `MC_MixedChain.cfg` | violation: the consistency claimed for the kept blocks |
| `reset_forgotten` | `MC_ResetForgotten.cfg` | violation: events forgotten by an amendment are reloaded |
| `stale_anchor` | `MC_StaleAnchor.cfg` | violation: a detection amends only when a fork happened |
| `accounts_checkpoint` | `MC_BakersCheckpoint` | is any update of an account, or any delegate of a stored account, put back or left at an invalid block, or lost but by an answer that cannot be decoded, across failures, a reset and a fork? |
| `orphan_checkpoint` | `MC_AccountsCheckpoint`, `MC_OrphanCheckpoint.cfg` | violation: what is left in the checkpoint can be recovered |
| `block_loads` | `MC_BlockLoader` | is a load that ends complete, are the gaps of an interrupted one bounded, is a level ever written twice, does loading everything close every gap? |
| `rights` | `MC_Rights` | does any of the three writers of the rights undo or block another, is a level left without rights, but for an answer that cannot be decoded? |
| `metadata_cache` | `MetadataCacheProps`, `MC_MetadataCache.cfg` | does a cached count become current, however the refreshes overlap and fail? |
| `contract_pages` | `MC_ContractPages` | are the big maps what the differences one by one give, is anything of an abandoned branch taken for valid, which allocations are refused, are balances and names read by the right maps, when does a page wait? |

*Bounds.* Two branches are enough to diverge, and a third would only rename
one. Four or five levels hold a binary search of three probes, a seam between
two pages and a fork below, in and above it. `MaxReorgs` 1 in the safety runs
puts one switch at any point of any iteration; the mixed chains, which need
two, are the initial states of `fork_search` and are reached with `MaxReorgs` 2
in `indexer_sync` and `mixed_chain`. `MaxFailures` 1 puts one crash or one
failed page anywhere. `BacktrackInterval` 2 makes iterations with and without
backtracking. Reorganisations may lower the head, except in `indexer_sync`,
where a head below the indexed chain makes each iteration fail until the chain
has grown, which a bounded chain may never do.

`accounts_checkpoint` has levels 0 to 3 in pages of two, so that leftovers of one
page meet the next one, two accounts touched by different blocks, one of them
only on some branches, an event at the end of the first page, two failures, of which
the second may interrupt the recovery from the first, and one answer that cannot be
decoded. Both accounts delegate to one baker,
who is pending for several accounts and blocks at a time; later one account has
another baker and one has none.

`block_loads` has levels 0 to 4 in batches of two hashes and of three blocks, so
that the two are out of step, hashes of two batches share a batch of blocks, and
the bound on gaps is reached exactly. One switch puts two branches into one load, two failures interrupt a
load and the one that makes up for it. `MC_BlockLoader` gives the blocks one
content for each stage that may drop them and one payment that comes back on
the other branch. All depths and both platforms are initial states of the one
run.

`rights` has few levels because the rights reach far above the head: with a
cycle of four, partitions of one level and updates of the next level a run has
several partitions, overlaps the update and the pages, and a page of two levels
lies across the rights of both. The node answers with the rights to bake the next block
and to endorse the block itself, so that both values of `Ahead` occur. Two answers
may be unreadable: those of one coming level in the two tables, without which no
level is without rights in both. `metadata_cache` needs one table, since tables
share nothing but the lost updates; three refreshes overlap, and the two failures
may hit any of them.

`contract_pages` has branches above level 2 and pages of two blocks, so that a
branch switch falls between and inside pages; two switches lead back to the first
branch, whose rows are then written a second time. Entries of before the fork
are updated on it, and both branches originate the second token and the
registrar, in another order, at other levels and hence with other identifiers of
maps: a page of one branch may meet a map of the other, valid or not. The
blocks have each kind of difference: an update by an internal transaction, one
that was backtracked, two updates of one entry in one block, an update and a
removal of one map in one block, an internal removal, and a copy. Failures and
restarts decide whether an origination and a call of its contract share a page.

Three runs have a constraint, which leaves out what neither needs the other for.
Answers that are dropped matter to what is complete on one branch, and there only few
other troubles can add to them: `accounts_checkpoint` has at most two switches and
failures beside such an answer, `rights` none, `contract_pages` one. `rights` has no
more pending writes than those of a page and one of a run, so that each two of its writers
overlap; `contract_pages` has three switches and failures in all, enough
for a switch there and back and a failure between them.

*Deadlock* is checked except in `fork_search`, where a detection alone ends, in
`metadata_cache`, where an API whose initial queries failed has nothing to do,
and in `contract_pages`, where a page may wait for ever.

*Fairness.* `indexer_sync` assumes weak fairness of the steps of Lorre alone:
its loop has no condition it waits on, its futures are awaited without a limit,
the node answers, and a supervisor starts the process again. `fork_search`
assumes the same of the detection. Neither assumes anything of the node's
branches, of crashes or of the late answer to the constructor. `block_loads`
assumes weak fairness of the loader for the same reasons (`foreverM`, a
supervisor). `metadata_cache` assumes that a refresh under way goes on, that
time passes, and that clients keep asking for a table: the last one is about the
users, without whom nothing is refreshed. It is strong fairness, since a
request finds a table expired only between refreshes.

`indexer_sync` says *again and again* and not *for ever*: while an anchor lies on
an abandoned branch and the node stands still, every iteration cuts good blocks
and fetches them again (`stale_anchor`). Its configuration has the backtracking
look at every iteration at every level that can fork; with the defaults of
`application.conf` (100 levels every 120 iterations, fork handling off) a seam
between two branches can leave the window, and nothing finds it afterwards
while the search anchors agree with the top.

## What is proved

For every set of branches, every chain length and every value of the other
constants, from the named assumptions `ChainAssumption`, `DetectorAssumption`,
`IndexerAssumption`, `AccountsAssumption`, `BakersAssumption`, `LoaderAssumption`,
`RightsAssumption`, `OperationsAssumption`, `AllocationAssumption`,
`OriginationAssumption`, `RemovalAssumption`, `KnownAssumption`, `PagesAssumption`
and `CacheAssumption` alone, of which all but three say no more than what the
constants are. Those three are about the protocol, which the code leaves to the
node: a chain allocates the identifier of a big map once, and not after a block
that updates it (`AllocationAssumption`); an address is that of one origination
(`OriginationAssumption`); a map that an applied transaction removed is updated
by none after it (`RemovalAssumption`). TLC evaluates each of them on the
operations of `MC_ContractPages`.

Two theorems about the known contracts have hypotheses, which are about what a
contract does and not about the code: a registered token has one map
(`OneMapTokens`), registrations update all maps of the registrar, once it has
them (`RegistrationsUpdateTheMaps`), and a chain registers a name in one block
(`NamesAreRegisteredOnce`). `MC_ContractPages` assumes them of its operations
(`ContractsAssumption`), so that TLC finds that they can be met.

* *Detection.* `DetectorInv` (types, `SearchIsNarrowing`, a gapless indexed
  chain) is inductive. A `found` search has verified that the reference's block
  at the level found has the indexed block below it as predecessor; since an
  indexed chain that is linked is determined by its blocks, every block kept is an
  ancestor of the reference (`DetectionIsSafe`). That needs no assumption on
  which branch any single probe was answered from, which is why the anchor may
  move. `SteadyEndsDiverge` carries the tightness (`DetectionIsTight`).
  `ProbesHalve` is arithmetic of `Midpoint`.
  `StepsComeCloser` is what makes a detection end: the searches it may still make
  fall, or else `Left`, the levels it has yet to compare, does.
* *Main loop.* `IndexerInv` adds what each step knows of the steps before it:
  no search is under way outside `processFork`, the top was read when an
  amendment follows, a refill is written when a mark follows (`RefillsBeforeMarks`),
  and the next page starts right above the highest block (`PagesGoOnTop`). The
  last one is the reason the code reads the highest level twice: with the first
  reading, taken before the amendments, it is not invariant and the chain gets
  a gap (the mutant `StaleFirstLevel`).
* *Refinement.* Every step of the loop is a `Push`, a `Cut` or a stutter of
  `IndexedChain` (`IndexerImplementsChain`).
* *Accounts.* `NoUpdateLost` (`UpdatesAreNotLost`) is not inductive: the clean-up
  deletes rows, and what makes that right is known to the task only.
  `TaskCoversRows` says that each row of the accounts being processed is about
  data stored already or still to be stored by this task, which holds for a
  page since leftovers are older than the page (`PagesGoAbove`), and for a
  recovery since what it prunes is stored at a higher level. `IdsArePending`
  makes the comparison of two counts in `cleanCheckpoint` right
  (`CleanIsExact`, by the cardinality of finite sets): equal counts of a subset
  mean the same set. The clean-up also deletes the rows of accounts whose answers
  could not be decoded: these are the rows `Unread` is about, in `TaskCoversRows` as in
  `NoUpdateLost`, and the proof shows that there are no others.
  `OneBranch` is what a single branch gives, and
  `NoUpdateLost` is stated up to the first switch: an amendment invalidates the
  only valid row of an account that the abandoned branch touched last, though
  blocks that stay valid touched it before. `RowsDoNotRegress` follows from
  `TasksAreNewer`; `RowsStayValid` needs neither.
* *Bakers.* To the accounts a step of the bakers is a stutter or a failure, so
  `AccountsInv` carries over (`AccountsKeepTheirs`, `UpdatesAreNotLostInTurns`).
  `BakersInv` follows the same argument one table further (`DelegatesAreNotLost`),
  with one difference: the bakers of a page are stored as they come, and their
  rows are cleaned, on the word of the accounts that were stored before. What
  makes that right is `PageIsNewer`: from the moment a page is stored until its
  bakers are asked for, its blocks are above those of all other bakers, stored or
  pending. It rests on the turns (`Turns`): were the recovery of the accounts
  to hand on its delegates too, older ones would be stored over newer
  (`BakersDoNotRegress`, and its mutant `GatherAlways`).
* *Loads* (`LoaderAssumption`). `LoaderInv` has two parts beside the types.
  `LevelsAreDistinct`: no two blocks stored or under way share a level, which is
  what the list of stored levels, read once, has to guarantee until the end of
  the load though the node changes branch meanwhile. From it follows that a
  `StoreBlock` writes an empty entry of the index, so that the loads refine
  `WriteOnceIndex` (`LoaderWritesOnce`). `NothingIsForgotten`: each level of the
  range is stored, dropped, to be requested or on its way, through both batches,
  which at the end is `CompletedLoadIsComplete` (`LoadsAreComplete`).
  `WindowInv` is about a load of the newest blocks, which runs upwards: batches are
  no longer than their bounds (`BatchesAreBounded`), what is still to be requested is
  above everything, and what a stored block has overtaken is the rest of one batch
  of hashes and of one of blocks. When the load ends or is interrupted, these
  are the gaps, and their number is bounded (`GapsStayBounded`). The proof
  counts: it is about cardinalities of unions of levels.
* *Rights* (`RightsAssumption`). `RightsKeepTheirBlock` looks like a property of
  upserts and is one of levels: an upsert may replace a row, so what keeps a row
  that names a valid block, in a table whose rows are of the level of their block
  (`Ahead` is 0: of the next level, the update and a page may well meet), is that
  whatever else is written to its level is either the same block (`RowsAreOfTheirLevel`, `OneBlockPerLevel`), an insertion,
  which collides, or the update, which writes above the head and hence above
  every indexed block, while no page is stored (`HeadIsHighest`, `NearIsAhead`).
  Together with the types these are inductive (`RightsInv`), for any number of
  scheduled runs. `PassedLevelsGetTheirRights` needs `OneBranch` besides: while
  the node keeps its branch an amendment finds nothing to amend and no upsert of
  a page is refused, so a page's upserts end in its rows, and a row that is there
  stays by the property above. It has the rows whose answer could not be decoded
  for its exception, as have the next two. `NearFutureStaysKnown` needs what the update has
  written so far (`UpdatedTables`), and that nothing takes away rows above the head.
  `NoLevelIsEverPassedOver` needs that whatever has been written, is pending or has
  been asked for by a run or the update leaves no level above the head behind it
  (`NoGapInv`). The exception is a run that has read everything and passed its last
  level: its next one may lie beyond what is covered, but it only ends.
* *Contract pages.* `PagesInv` is inductive: pages are counted from a block
  (`TargetIsABlock`), and valid rows of `big_maps` were allocated by valid blocks
  (`MapsAreOfTheBlocks`), since an amendment invalidates rows and blocks from one level
  on. A chain allocates an identifier once, so that a page that meets the key of a
  valid row meets that of a block its chain does not have
  (`AllocationsMeetOtherBranchesOnly`). There may be such a block, as the search for
  forks and the reading of the head are two requests; on one branch there is none
  (`OneBranch`, `BlocksOfTheTarget`), and no page is refused (`NothingRefused`). What
  a page reads by the maps its own originations bring was updated after their
  allocation, on the chain of the block that is read (`BalancesKeepToTheirChain`).
  The types (`PagesTypeCorrect`) need one fact more: only between a page and its names
  are there blocks whose names are due (`NamesAreDue`).
* *Big maps.* What a page copies is a function over the page's levels, defined by
  recursion. `CopiesOfAPage` says, by an induction over these levels, that it yields
  tables of the right type and leaves the rows of plain maps alone. Then the rest of
  a page is an upsert of the last updates and a removal: `HistoryKeepsToTheChain`
  and `ContentsDoNotGoStale` are inductive with `PagesInv`, since an amendment cuts
  blocks and rows at one level and a page's updates are later than all below it
  (`PageIsLater`), and since of the updates of an entry there is a last one
  (`NewestExists`, as places are bounded).
* *Replay.* `ContentsAreReplayed` is the correctness of all of `saveBigMaps`, page by
  page, against `Replay`, which applies the differences of the chain one after
  the other. Both sides are brought to one form, which mentions no order of
  execution. On the side of the pages `ContentsAreTheLast` is inductive on one
  branch: the valid rows of a plain map are the last updates of its entries,
  none once the map was removed; that a page applies its removals last does no
  harm, as no update follows a removal (`RemovedBefore`, from `RemovalAssumption`).
  On the side of the replay an entry is *alive* after a set of places if none of
  them undoes it later (`Alive`); one step of the replay adds one place to the set
  (`StepKeepsAlive`), and inductions over the differences of an operation, the
  operations of a block and the levels of a chain give `ChainIsReplayed`. The two
  meet in `AliveAreTheLast`, on the blocks stored, which are the chain of the
  highest one (`BlocksAreLinked`, `BlocksAreTheChain`).
* *Registrar.* In one run and on one branch the maps in memory are those that the
  stored blocks gave to the registrar (`TnsMapsAreOfTheBlocks`). As it was originated
  in one block, no second page brings maps of it, so that none waits
  (`OnlyTheRegistrarWaits`), and the maps a registration is read by are those of the
  chain of its block, whichever page had the origination; a row is missing only where
  the content of the name could not be read (`RegistrationsReachTheTable`).
* *Cache.* The types are inductive as they stand (`CacheTypeCorrect`): a refresh keeps
  what it read of an entry that others replace meanwhile.

The theorems of the libraries about induction and recursion take an operator as
parameter, which the provers cannot instantiate. `BoundedInduction` and
`RecursionExists` (in `BlockchainTheorems`) take a set and a function instead, and
are proved from the cardinalities of finite sets; every induction above is one
of theirs. A recursive function of a model is then shown to exist before it is
unfolded (`CopyingExists`, `OperationIsReplayed`).

Model-checked only: what is liveness (`DetectionEnds`, `AlwaysCatchesUp`,
`EverythingIsLoaded`, `CountsCatchUp`), which is out of the reach of TLAPS, and the
violations. Of `DetectionEnds` the decreasing measure is proved (`StepsComeCloser`);
that a running detection always has a step to take is TLC's. Every other property of a passing run is stated by a theorem.

## Where the code departs from its documentation

* `mixed_chain`: `ConsistentForkDetector` promises that the blocks before the
  detected level are linked by predecessor. It compares one pair. Pages stored
  across a branch switch are not linked to one another, and a later search may
  stop above the seam.
* `reset_forgotten`: `mainLoop` prefers the events reloaded after the first
  amendment to those reloaded after the second, so an event that the second one
  deleted is neither processed nor pending until a restart.
* `orphan_checkpoint`: when the accounts of a page fail they are recovered from the
  checkpoint, says `BlocksProcessor`. If the page is orphaned before that, the
  rows name an invalidated block, the foreign key of `accounts` refuses what is
  fetched for them, and the recovery fails after every later page for as long
  as the node still answers for that block. Once it no longer does, the accounts
  count as not found and their rows are cleaned away.
* `stale_anchor`: the anchor is used for as long as it is high enough, also on
  an abandoned branch, so a detection may amend a fork that did not happen.

The models also have, as the code does, and no run refutes:

* *Blocks dropped by Ethereum's stages* (`ContractsStage` to `BalancesStage`). A block
  that deploys contracts none of which is a registered token, or whose token
  transfers are all of unregistered tokens, or whose transactions are all
  filtered by the accounts' stage, is not saved, and nothing is logged; the
  depth `Newest` never asks for it again. `CompletedLoadIsComplete` and
  `EverythingIsLoaded` name them as their exception.
* *Transactions that come back* on another branch bar their block from Ethereum's
  tables (`IsBarred`).
* *Answers that cannot be decoded.* The node interface looks at no HTTP status, and the
  fetchers recover from what they cannot decode. So an error that the node answers once
  has an account or a delegate of a valid block dropped from its checkpoint
  (`NotFound`), a level left without rights, by a page, an update or a partition that
  then goes on to the next one (`ReadInVain`), or a name not stored (`SaveNames`),
  without a failure and with nothing that would ask again. `NoUpdateLost`, `NoDelegateLost`,
  `PassedLevelsHaveTheirRights`, `NearFutureIsKnown`, `NoLevelIsPassedOver` and
  `RegistrationsAreStored` name these as their exception.
* *Pages across a switch.* A page of one branch that is fetched after the search for
  forks found nothing may allocate a map that a block of the other has allocated, and is
  refused (`PageRefused`). The next iteration looks for forks again and finds the blocks
  of the other branch, unless they lie below a highest block that is on the node's chain:
  then each page with that map is refused until the backtracking looks that far, if it does.
* *Copies of big maps* take one row of their source (`CopiedRows`), which keeps the level
  of the row it was read from, so that a fork above that level does not
  invalidate it (`Invalidated`). Copies and removals of internal transactions are
  overlooked, those of backtracked ones are not (`OwnTransactions`). `PlainMaps`
  are the maps that neither concerns.
* *Removals* delete the rows of every fork and are not undone when their block is
  orphaned: `ContentsAreNeverStale` forbids wrong entries after a fork, not missing ones.
* *Maps of tokens* are known to the page that stores their origination only
  (`MapsOf`), so a call of a token that an earlier page originated leaves no balance.
  A token with two maps has its page wait for ever (`Waits`).
* *Maps of the registrar* are known to the process that stored its origination only
  (`tnsMaps`): after a restart registrations are dropped, after a branch switch
  its origination on the other branch makes the page wait. They are
  looked up by identifier alone, among the rows of all forks (`FoundTnsMaps`).

## Not modelled, and why

* `Depth` values other than `Newest` in the Tezos loop, which ends after one iteration.
* Fork handling switched off: there is nothing to detect.
* In the accounts and bakers: the history tables, the activated accounts, the flags
  of accounts that are bakers, the balances of bakers copied at the start of a cycle
  (`updateBakersBalances`, which keeps their blocks), the switch that turns bakers
  off, and the data of an account or baker beyond the block they were read at.
  `writeBakers` stores the rows and then the history, in two transactions, of which
  the model has the first.
* The lock-up of the `SyncVar` when two updates of the anchor interleave.
* In the loads: transactions, receipts, logs, balances and tokens beyond whether a
  stage keeps something of them; inputs and outputs of Bitcoin, which are
  inserted again when a transaction comes back; the retries of the HTTP client.
* In the rights: the delegates of a level, their priorities and slots, and the
  bakers that read the rights of a page before they are stored. Which level the node's
  answer for a block is about is not in the source: it is a constant (`Ahead`).
* In the caches: entities (which the attributes only read) and attribute values,
  refreshed in the same way as the attributes; hints and types that exempt a
  column from being counted.
* Governance and fees: sums that a query reads back from tables stored by the
  page; what failures leave out of them is listed under the hazards.
* In the big maps: keys, values and types beyond their identity; formats of before
  protocol 5, which the code filters out. The properties leave out the destinations of
  copies, as a page's copies come after its updates (a comment in
  `TezosDatabaseOperations` says so).
* In the known contracts: balances as numbers, the content that is fetched for a name
  beyond whether it can be read, which of the registrar's two maps is which.
* Registered tokens, metadata: external documents, fetched and upserted by contract.
* Recording of requests and the retry at the start of the API: what depends on
  them is a log line and the moment of the start.
* Conversions, JSON and Michelson parsing, SQL generation, configuration,
  logging: no state, and no order of events to get wrong.
* The pages under `resources/web/swagger-ui`, the only JavaScript of the
  repository: bundles of a third party, minified, that show the API's description.
  The program itself is written in Scala and SQL.

## Plan

In this order, each with its module, one run, its mutants and, where marked
(P), theorems:

1. fork detection (P) and main loop (P): done;
2. accounts checkpoint (P) and the bakers checkpoint on top of it (P): done; their
   histories are left;
3. rights (P): done;
4. Bitcoin and Ethereum loads (P): done;
5. cache of the attributes (P): done; entities and attribute values are left;
6. big maps, against the differences one by one, and the contracts known by address,
   composed in the contract pages (P): done; the destinations of copies are left;
7. governance and metadata refreshes: left.
