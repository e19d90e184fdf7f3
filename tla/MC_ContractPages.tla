-------------------------- MODULE MC_ContractPages --------------------------
(***************************************************************************)
(* The operations of the blocks.  Level 1 originates the token "first" with *)
(* the map 1 and another contract with the map 2.  Level 2 originates a     *)
(* token that nobody calls, and calls the first one, from an internal       *)
(* transaction and from one that was backtracked too.                       *)
(* Level 3 originates the registrar, on one branch after the token "second", *)
(* which the other originates at level 4 only: their maps are numbered      *)
(* differently.  Level 3 of the first calls the second token, copies the    *)
(* first one's map and registers a name, of the other it calls the first    *)
(* token.  Level 4 calls both tokens, registers a name, and has an internal *)
(* transaction remove the map 2, or it removes the map of the second token  *)
(* after a last update.                                                     *)
(***************************************************************************)
EXTENDS ContractPagesProps

MCDiff(action, m, k, source) == [action |-> action, map |-> m, key |-> k, source |-> source]

MCOperation(kind, contract, name, diffs) ==
    [kind |-> kind, internal |-> FALSE, applied |-> TRUE,
     contract |-> contract, name |-> name, diffs |-> diffs]

Originate(c, ids) ==
    MCOperation("origination", c, NoName, [i \in DOMAIN ids |-> MCDiff("alloc", ids[i], "k1", ids[i])])

Transfer(c, m, keys) ==
    MCOperation("transaction", c, NoName, [i \in DOMAIN keys |-> MCDiff("update", m, keys[i], m)])

Register(name, ids) ==
    MCOperation("transaction", "tns", name, [i \in DOMAIN ids |-> MCDiff("update", ids[i], "k1", ids[i])])

Copy(source, m) == MCOperation("transaction", "other", NoName, <<MCDiff("copy", m, "k1", source)>>)

Remove(m) == MCOperation("transaction", "other", NoName, <<MCDiff("remove", m, "k1", m)>>)

Internal(o) == [o EXCEPT !.internal = TRUE]
Backtracked(o) == [o EXCEPT !.applied = FALSE]

\* The maps of the second token and of the registrar, on the chain of a block.
SecondMap(b) == IF b[3] = "a" THEN 3 ELSE 5
TnsMaps(b) == IF b[3] = "a" THEN <<4, 5>> ELSE <<3, 4>>

SecondAtLast(b) == IF b[3] = "a" THEN <<>> ELSE <<Originate("second", <<SecondMap(b)>>)>>

MCOperations ==
    [b \in Block |->
        CASE Level(b) = 1 -> <<Originate("first", <<1>>), Originate("other", <<2>>)>>
          [] Level(b) = 2 -> <<Originate("third", <<7>>), Transfer("first", 1, <<"k1">>),
                               Internal(Transfer("first", 1, <<"k2">>)),
                               Backtracked(Transfer("first", 1, <<"k1">>))>>
          [] Level(b) = 3 /\ b[3] = "a" ->
                <<Originate("second", <<3>>), Originate("tns", <<4, 5>>),
                  Transfer("second", 3, <<"k1", "k2">>), Transfer("second", 3, <<"k1">>),
                  Copy(1, 6), Register("one", <<4, 5>>)>>
          [] Level(b) = 3 /\ b[3] = "b" ->
                <<Transfer("first", 1, <<"k1">>), Originate("tns", <<3, 4>>)>>
          [] Level(b) = 4 /\ b[4] = "a" ->
                SecondAtLast(b) \o
                <<Internal(Transfer("first", 1, <<"k1">>)), Transfer("second", SecondMap(b), <<"k2">>),
                  Register("two", TnsMaps(b)), Internal(Remove(2))>>
          [] Level(b) = 4 /\ b[4] = "b" ->
                SecondAtLast(b) \o
                <<Transfer("second", SecondMap(b), <<"k1">>), Remove(SecondMap(b))>>
          [] OTHER -> <<>>]

\* The contracts do what the theorems about them take them to do.
ASSUME ContractsAssumption ==
    OneMapTokens /\ RegistrationsUpdateTheMaps /\ NamesAreRegisteredOnce

\* Bound: few switches and failures together, and at most one of them beside a content
\* of a name that cannot be read.
FewTroubles == reorgs + failures <= (IF unread = {} THEN 3 ELSE 1)
=============================================================================
