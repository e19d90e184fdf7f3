-------------------------- MODULE ContractPagesProps --------------------------
(* What the tables tell of the contracts on the chain.                          *)
EXTENDS ContractPages

Row == [map : MapId, at : Block \X Nat \X Nat, fork : Nat]

EntryRow == [map : MapId, key : Key, at : Block \X Nat \X Nat, fork : Nat]

PagesTypeOK ==
    /\ head \in Block /\ target \in Block \union {NoBlock}
    /\ reorgs \in 0..MaxReorgs /\ forks \in Nat /\ failures \in 0..MaxFailures
    /\ blocks \subseteq Block /\ page \subseteq blocks
    /\ maps \subseteq Row
    /\ contents \subseteq EntryRow /\ history \subseteq EntryRow
    /\ balances \subseteq [token : Token, account : Key, block : Block]
    /\ names \subseteq [name : Name, block : Block]
    /\ unread \subseteq [name : Name, block : Block]
    /\ tnsMaps \subseteq MapId
    /\ pc \in {"loop", "fetchHead", "page", "names", "waiting"}

--------------------------------------------------------------------------
(* The reference: the differences of a chain, one by one *)

\* What an applied operation does to the entries: an update takes the place of the
\* entry, and a removal takes all of the map.
Step(table, p) ==
    CASE DiffAt(p).action = "update" ->
            {ContentRow(p)} \union {r \in table : ~SameEntry(r, ContentRow(p))}
      [] DiffAt(p).action = "remove" -> {r \in table : r.map # DiffAt(p).map}
      [] OTHER -> table

ReplayOperation(table, b, i) ==
    LET after[j \in 0..Len(Operations[b][i].diffs)] ==
            IF j = 0 THEN table ELSE Step(after[j - 1], <<b, i, j>>)
    IN  IF Operations[b][i].applied THEN after[Len(Operations[b][i].diffs)] ELSE table

ReplayBlock(table, b) ==
    LET after[i \in 0..Len(Operations[b])] ==
            IF i = 0 THEN table ELSE ReplayOperation(after[i - 1], b, i)
    IN  after[Len(Operations[b])]

Replay(b) ==
    LET after[l \in -1..Level(b)] ==
            IF l = -1 THEN {} ELSE ReplayBlock(after[l - 1], AncestorAt(b, l))
    IN  after[Level(b)]

\* The maps that nothing is copied into, whose updates are all by transactions, and
\* whose removals are all taken from applied transactions of the blocks themselves.
PlainMaps ==
    {m \in MapId :
        LET of(action) ==
                {OpAt(p) : p \in {p \in Places(Block, Operation, action) : DiffAt(p).map = m}}
        IN  /\ of("copy") = {}
            /\ \A o \in of("update") : o.kind = "transaction"
            /\ of("remove") \subseteq OwnTransactions \intersect AppliedTransactions}

ValidRows(table, m) == {r \in table : r.map = m /\ r.fork = Main}

--------------------------------------------------------------------------

\* On one branch the contents of a map are what replaying the differences of the
\* chain one by one gives, though a page applies all its updates before its removals,
\* and only one update of each entry.
ContentsFollowTheChain ==
    reorgs = 0 =>
        \A b \in blocks : Level(b) = MaxIndexed =>
            LET replayed == Replay(b) IN
            \A m \in PlainMaps : ValidRows(contents, m) = {r \in replayed : r.map = m}

\* Whatever branches were left, a valid entry is of a valid block, and no valid block
\* has a later update of it.
ContentsAreNeverStale ==
    LET updates == UpdateRows(blocks) IN
    \A m \in PlainMaps : \A r \in ValidRows(contents, m) :
        r \in updates /\ \A q \in updates : SameEntry(q, r) => ~Later(q.at, r.at)

\* Whatever branches were left, the valid rows of the history of a map are all the
\* updates of the valid blocks, removed maps included.
HistoryIsOfTheChain ==
    LET updates == UpdateRows(blocks) IN
    \A m \in PlainMaps : ValidRows(history, m) = {r \in updates : r.map = m}

\* A page is refused only because of a map that a valid block of another branch has
\* allocated: never one that was invalidated, nor one of the page's own chain.
AllocationsAreAccepted ==
    PageIsDue =>
        \A r \in MapRows(Page), q \in maps :
            r.map = q.map /\ q.fork = Main
                => q.at[1] \in blocks /\ ~Extends(target, q.at[1])

--------------------------------------------------------------------------

\* Whatever branches were left, a valid balance is of a valid block, and of an entry
\* that the block updated in a map which its own chain gave to the token.
BalancesAreOfTheChain ==
    \A r \in balances :
        /\ r.block \in blocks
        /\ \E p \in Updates({r.block}) :
            /\ OpAt(p).contract = r.token /\ DiffAt(p).key = r.account
            /\ DiffAt(p).map \in MapsOf(Chain(r.block), r.token)

\* In one run of the process and on one branch each registration of a block whose
\* names were processed is stored, in whichever page the registrar was originated, or
\* its content could not be read.
RegistrationsAreStored ==
    reorgs = 0 /\ failures = 0 =>
        \A b \in blocks \ page : \A i \in CallsOf(b, Registrar) :
            Operations[b][i].name # NoName =>
                [name |-> Operations[b][i].name, block |-> b] \in names \union unread

\* Tokens with one map never make a page wait, even when a branch switch has them
\* originated again; the registrar does only after a branch switch or a failure.
PagesWaitForTheRegistrar ==
    pc = "waiting" => MapsOf(Page, Registrar) # {} /\ reorgs + failures > 0

--------------------------------------------------------------------------
(* What makes AllocationsAreAccepted and BalancesAreOfTheChain inductive *)

PagesControl ==
    /\ head \in Block /\ target \in Block \union {NoBlock}
    /\ blocks \subseteq Block /\ forks \in Nat
    /\ maps \subseteq [map : MapId, at : Block \X Nat \X Nat, fork : Nat]

\* The pages come from a block.
TargetIsABlock == pc \in {"page", "names"} => target \in Block

\* A valid map was allocated by a valid block.
MapsAreOfTheBlocks ==
    \A r \in maps : r.fork = Main => r.at \in Allocations(blocks) /\ r.map = DiffAt(r.at).map

PagesInv ==
    PagesControl /\ TargetIsABlock /\ MapsAreOfTheBlocks /\ BalancesAreOfTheChain

--------------------------------------------------------------------------
(* What makes the other invariants inductive, together with PagesInv *)

\* On one branch all that is stored, and all that the pages come from, is of the node's
\* chain, and nothing was invalidated.
OneBranch ==
    reorgs = 0 =>
        /\ \A b \in blocks : Extends(head, b)
        /\ target # NoBlock => Extends(head, target)
        /\ \A r \in maps : r.fork = Main

\* Only between a page and its names are there blocks whose names are to be stored.
NamesAreDue == pc # "names" => page = {}

PagesTypeInv == PagesTypeOK /\ OneBranch /\ NamesAreDue

\* On one branch what is stored of a chain is stored from its first block on.
BlocksAreLinked == reorgs = 0 => Linked(blocks)

\* The entries of a map are the last update of each, and none once it was removed.
ContentsAreTheLast ==
    reorgs = 0 =>
        \A m \in PlainMaps :
            ValidRows(contents, m) =
                {r \in Newest(UpdateRows(blocks)) : r.map = m /\ m \notin RemovedIds(blocks)}

\* In one run of the process and on one branch, the maps held in memory are those that
\* the stored blocks gave to the registrar.
TnsMapsAreOfTheBlocks ==
    reorgs = 0 /\ failures = 0 => tnsMaps = MapsOf(blocks, Registrar)

--------------------------------------------------------------------------
(* What the contracts are taken to do in the theorems about them *)

\* A registered token has one map on a chain.
OneMapTokens ==
    \A b \in Block : \A t \in Token : \A m, n \in MapsOf(Chain(b), t) : m = n

\* Names are registered once the registrar has its maps, and a registration updates all.
RegistrationsUpdateTheMaps ==
    \A b \in Block : \A i \in CallsOf(b, Registrar) :
        Operations[b][i].name # NoName =>
            /\ MapsOf(Chain(b), Registrar) # {}
            /\ MapsOf(Chain(b), Registrar) \subseteq UpdatedBy(Operations[b][i])

\* A chain registers a name in one block.
NamesAreRegisteredOnce ==
    \A t \in Block : \A b, c \in Chain(t) :
        \A i \in CallsOf(b, Registrar), j \in CallsOf(c, Registrar) :
            Operations[b][i].name = Operations[c][j].name /\ Operations[b][i].name # NoName => b = c
=============================================================================
