--------------------------- MODULE KnownContracts ---------------------------
(***************************************************************************)
(* The contracts that Lorre knows by address: the registered tokens, whose  *)
(* balances it reads from the updates of one of their big maps, and the     *)
(* registrar of the name service, which has two.  Which maps these are is   *)
(* told by the origination of the contract and held in memory, in variables *)
(* that are written once: a second write waits for ever.  The tokens' are   *)
(* made anew for each page, the registrar's live as long as the process.    *)
(***************************************************************************)
EXTENDS ContractOperations, FiniteSets

CONSTANTS
    Token,      \* addresses of the registered tokens
    Registrar,  \* address of the name service's contract
    MaxUnread   \* bound: contents of names that cannot be read

ASSUME KnownAssumption ==
    /\ Token \subseteq Contract
    /\ Registrar \in Contract \ Token
    /\ MaxUnread \in Nat

VARIABLES
    balances,  \* valid rows of token_balances, by the block of their call
    names,     \* rows of tezos_names, by the block of their registration
    unread,    \* only observed: the rows that such contents would have been
    tnsMaps    \* the registrar's maps, none while they are not identified

--------------------------------------------------------------------------
(* Which maps a page identifies *)

\* The references to the maps of contract c that the originations of S bring.
MapsOf(S, c) == {DiffAt(p).map : p \in {p \in Allocations(S) : OpAt(p).contract = c}}

\* Mutant: the variable that is written is the same for all tokens.
SecondTokenMapOfAny(S) == Cardinality(UNION {MapsOf(S, t) : t \in Token}) > 1

\* setMapId, of a variable that the page has written before.
SecondTokenMap(S) == \E t \in Token : Cardinality(MapsOf(S, t)) > 1

\* The registrar's maps are known by the types of their rows.  The rows are looked up
\* among those of the table by the identifier alone, and one of an invalidated map, which
\* any contract may have had, need not have the right types.
FoundTnsMaps(S, rows) ==
    LET ids == MapsOf(S, Registrar)
    IN  {ids} \union {{} : r \in {r \in rows : r.map \in ids /\ r.fork # 0}}

\* setMapIds, of variables that the process has written before.
SecondTnsMaps(found) == found # {} /\ tnsMaps # {}

\* The thread of the transaction waits for somebody to take the map that is there.
Waits(S, found) == SecondTnsMaps(found) \/ SecondTokenMap(S)

\* Mutant: the maps of the registrar are made anew for each page too.
ForgottenTnsMaps(found) == found

IdentifiedTnsMaps(found) == IF found # {} THEN found ELSE tnsMaps

--------------------------------------------------------------------------
(* What is read by them *)

CallsOf(b, c) == {i \in OpsOf(b, AppliedTransactions) : Operations[b][i].contract = c}

LastCallsOf(b, t) == {i \in CallsOf(b, t) : \A k \in CallsOf(b, t) : k <= i}

\* Of the calls of a token in a block the last one only is looked at, and of its
\* updates those of the token's map, if that is known.
BalanceRows(S) ==
    {[token |-> OpAt(p).contract, account |-> DiffAt(p).key, block |-> p[1]] :
        p \in {p \in Updates(S) :
            /\ OpAt(p).contract \in Token
            /\ p[2] \in LastCallsOf(p[1], OpAt(p).contract)
            /\ DiffAt(p).map \in MapsOf(S, OpAt(p).contract)}}

UpdatedBy(o) == {o.diffs[j].map : j \in DiffsOf(o, "update")}

\* A registration is read once both maps of the registrar are known and it updates them.
Registrations(b) ==
    {i \in CallsOf(b, Registrar) :
        /\ Operations[b][i].name # NoName
        /\ tnsMaps # {} /\ tnsMaps \subseteq UpdatedBy(Operations[b][i])}

NameRows(S) ==
    UNION {{[name |-> Operations[b][i].name, block |-> b] : i \in Registrations(b)} : b \in S}

\* The balances are gathered when the list of the big maps' actions is traversed, the
\* maps identified when the transaction runs: which is first is left open, so that the
\* originations of a page may be too late for the calls of the same page.
SaveBalances(S) == \E rows \in {BalanceRows(S), {}} : balances' = balances \union rows

\* The row of a name is made of the content that the node has of it, and there is none
\* when the answer cannot be parsed.
SaveNames(S) ==
    \E rows \in SUBSET NameRows(S) :
        /\ names' = rows \union {n \in names : ~\E m \in rows : m.name = n.name}
        /\ unread' = unread \union (NameRows(S) \ rows)
        /\ Cardinality(unread') <= MaxUnread

\* Mutant: the balances are not invalidated.
LeaveBalances(level) == UNCHANGED balances

\* The names have no level, and stay.
InvalidateBalances(level) == balances' = {r \in balances : Level(r.block) < level}
=============================================================================
