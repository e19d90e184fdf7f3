------------------------ MODULE ContractOperations ------------------------
(***************************************************************************)
(* What the blocks say of contracts: the originations and transactions of   *)
(* a block in the order in which they were applied, an internal one after    *)
(* the operation that made it, each with the differences of big maps that   *)
(* its result reports.                                                      *)
(***************************************************************************)
EXTENDS Blockchain

CONSTANTS
    MapId,       \* identifiers of big maps
    Key,         \* keys of their entries
    Contract,    \* addresses of contracts
    Name,        \* names that the name service registers
    NoName,      \* the operation registers no name
    Operations   \* the operations of each block

\* source is the map that is copied; key is the entry that is updated.
Diff == [action : {"alloc", "update", "copy", "remove"},
         map : MapId, key : Key, source : MapId]

\* contract is the one originated or called; an operation may have been backtracked.
Operation == [kind : {"origination", "transaction"}, internal : BOOLEAN, applied : BOOLEAN,
              contract : Contract, name : Name \union {NoName}, diffs : Seq(Diff)]

ASSUME OperationsAssumption ==
    /\ NoName \notin Name
    /\ Operations \in [Block -> Seq(Operation)]

--------------------------------------------------------------------------
(* A place is a block, an operation of it and a difference of that operation *)

OpAt(p) == Operations[p[1]][p[2]]

DiffAt(p) == OpAt(p).diffs[p[3]]

DiffsOf(o, action) == {j \in DOMAIN o.diffs : o.diffs[j].action = action}

OpsOf(b, Ops) == {i \in DOMAIN Operations[b] : Operations[b][i] \in Ops}

Places(S, Ops, action) ==
    UNION {UNION {{<<b, i, j>> : j \in DiffsOf(Operations[b][i], action)} :
                      i \in OpsOf(b, Ops)} : b \in S}

AppliedOriginations == {o \in Operation : o.kind = "origination" /\ o.applied}

AppliedTransactions == {o \in Operation : o.kind = "transaction" /\ o.applied}

\* The optics of copies and removals look at the operations of the block itself,
\* whatever came of them.
OwnTransactions == {o \in Operation : o.kind = "transaction" /\ ~o.internal}

Allocations(S) == Places(S, AppliedOriginations, "alloc")
Updates(S) == Places(S, AppliedTransactions, "update")
Copies(S) == Places(S, OwnTransactions, "copy")
Removals(S) == Places(S, OwnTransactions, "remove")

Chain(b) == Segment(b, 0, Level(b))

\* Of two places the later one, by level and then by the order of application.
Later(p, q) ==
    \/ Level(p[1]) > Level(q[1])
    \/ Level(p[1]) = Level(q[1]) /\ p[2] > q[2]
    \/ Level(p[1]) = Level(q[1]) /\ p[2] = q[2] /\ p[3] > q[3]

\* The protocol numbers the maps of a chain as it allocates them, and no block updates a
\* map that a later one allocates.
ASSUME AllocationAssumption ==
    \A b \in Block : \A p \in Allocations(Chain(b)) :
        /\ \A q \in Allocations(Chain(b)) : DiffAt(p).map = DiffAt(q).map => p = q
        /\ \A q \in Updates(Chain(b)) : DiffAt(p).map = DiffAt(q).map => Level(p[1]) <= Level(q[1])

\* An address is that of one origination.
ASSUME OriginationAssumption ==
    \A b \in Block : \A p, q \in Allocations(Chain(b)) :
        OpAt(p).contract = OpAt(q).contract => p[1] = q[1] /\ p[2] = q[2]

\* A map that an applied transaction removed is gone: no later one updates it.
ASSUME RemovalAssumption ==
    \A b \in Block : \A p \in Places(Chain(b), AppliedTransactions, "remove") :
        \A q \in Updates(Chain(b)) : DiffAt(p).map = DiffAt(q).map => ~Later(q, p)
=============================================================================
