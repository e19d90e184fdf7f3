---------------------------- MODULE ContractPages ----------------------------
(***************************************************************************)
(* The pages of blocks with all they say of contracts: the big maps and     *)
(* the contracts known by address, stored together.  One transaction stores *)
(* the blocks of a page, their big maps and the balances of tokens; the     *)
(* names follow.                                                            *)
(*                                                                          *)
(* The search for forks is TezosIndexer's matter, and one step here: while  *)
(* the highest block is on the node's chain nothing need be found, and what *)
(* is found is a level whose block is not.  What is stored from there on is *)
(* given the identifier of a fork, and rows of the main fork are the valid  *)
(* ones.  The head is read after that, and may be of another branch.        *)
(***************************************************************************)
EXTENDS BigMaps, KnownContracts

CONSTANTS
    PageSize,    \* blocks of a page
    MaxReorgs,   \* bound: how often the node switches branch
    MaxFailures  \* bound: restarts, and failures that are ignored

ASSUME PagesAssumption ==
    /\ PageSize \in Nat \ {0}
    /\ MaxReorgs \in Nat
    /\ MaxFailures \in Nat

VARIABLES
    head,      \* the head of the node's chain
    reorgs,    \* how often the node switched branch
    blocks,    \* valid rows of the blocks table
    forks,     \* how many forks were recorded
    pc,        \* the step the loop is at
    target,    \* the head the pages are counted from
    page,      \* the blocks of the page whose names are still to be stored
    failures   \* how many failures happened

nodeVars == <<head, reorgs, unread>>
tableVars == <<blocks, forks, maps, contents, history, balances, names>>
vars == <<nodeVars, tableVars, tnsMaps, pc, target, page, failures>>

Smaller(a, b) == IF a < b THEN a ELSE b

MaxIndexed ==
    IF blocks = {} THEN -1
    ELSE CHOOSE l \in {Level(b) : b \in blocks} : \A b \in blocks : Level(b) <= l

--------------------------------------------------------------------------
(* The node, whose head never falls *)

Advance ==
    /\ \E b \in Block : Level(b) > Level(head) /\ Extends(b, head) /\ head' = b
    /\ UNCHANGED <<reorgs, unread, tableVars, tnsMaps, pc, target, page, failures>>

Reorganise ==
    /\ reorgs < MaxReorgs
    /\ \E b \in Block : ~Extends(b, head) /\ Level(b) >= Level(head) /\ head' = b
    /\ reorgs' = reorgs + 1
    /\ UNCHANGED <<unread, tableVars, tnsMaps, pc, target, page, failures>>

--------------------------------------------------------------------------
(* The loop *)

NoFork ==
    /\ pc = "loop"
    /\ TopIsOn(blocks, head)
    /\ pc' = "fetchHead"
    /\ UNCHANGED <<nodeVars, tableVars, tnsMaps, target, page, failures>>

AmendFork(level) ==
    /\ blocks' = {b \in blocks : Level(b) < level}
    /\ forks' = forks + 1
    /\ InvalidateBigMaps(level, forks + 1)
    /\ InvalidateBalances(level)
    /\ UNCHANGED names

ForkDetected ==
    /\ pc = "loop"
    /\ \E b \in Orphaned(blocks, head) : AmendFork(Level(b))
    /\ pc' = "fetchHead"
    /\ UNCHANGED <<nodeVars, tnsMaps, target, page, failures>>

FetchHead ==
    /\ pc = "fetchHead"
    /\ target' = head
    /\ pc' = "page"
    /\ UNCHANGED <<nodeVars, tableVars, tnsMaps, page, failures>>

Page == Segment(target, MaxIndexed + 1, Smaller(MaxIndexed + PageSize, Level(target)))

PageIsDue == pc = "page" /\ MaxIndexed < Level(target)

StorePage ==
    /\ PageIsDue
    /\ ~Collides(Page)
    /\ blocks' = blocks \union Page
    /\ SaveBigMaps(Page)
    /\ \E found \in FoundTnsMaps(Page, maps) :
        ~Waits(Page, found) /\ tnsMaps' = IdentifiedTnsMaps(found)
    /\ SaveBalances(Page)
    /\ page' = Page
    /\ pc' = "names"
    /\ UNCHANGED <<nodeVars, forks, names, target, failures>>

PageWaits ==
    /\ PageIsDue
    /\ ~Collides(Page)
    /\ \E found \in FoundTnsMaps(Page, maps) : Waits(Page, found)
    /\ pc' = "waiting"
    /\ UNCHANGED <<nodeVars, tableVars, tnsMaps, target, page, failures>>

\* An allocation meets the key of a valid map, and the transaction fails: the process
\* goes on if failures are ignored, or is restarted.
PageRefused ==
    /\ PageIsDue
    /\ Collides(Page)
    /\ tnsMaps' \in {tnsMaps, {}}
    /\ pc' = "loop"
    /\ target' = NoBlock
    /\ UNCHANGED <<nodeVars, tableVars, page, failures>>

\* Mutant: the page stays marked as one whose names are still to be stored.
ProcessNamesKeepingPage ==
    /\ pc = "names"
    /\ SaveNames(page)
    /\ pc' = "page"
    /\ UNCHANGED <<head, reorgs, blocks, forks, mapVars, balances, tnsMaps, target, page, failures>>

ProcessNames ==
    /\ pc = "names"
    /\ SaveNames(page)
    /\ page' = {}
    /\ pc' = "page"
    /\ UNCHANGED <<head, reorgs, blocks, forks, mapVars, balances, tnsMaps, target, failures>>

EndIteration ==
    /\ pc = "page"
    /\ MaxIndexed >= Level(target)
    /\ pc' = "loop"
    /\ target' = NoBlock
    /\ UNCHANGED <<nodeVars, tableVars, tnsMaps, page, failures>>

--------------------------------------------------------------------------
(* Failures: the process goes on if failures are ignored, or is restarted *)

CountFailure ==
    /\ failures < MaxFailures
    /\ failures' = failures + 1
    /\ pc' = "loop"
    /\ target' = NoBlock
    /\ page' = {}
    /\ UNCHANGED <<nodeVars, tableVars>>

\* The transaction fails, before or after the maps of the registrar are identified.
PageFails ==
    /\ PageIsDue
    /\ CountFailure
    /\ \/ UNCHANGED tnsMaps
       \/ /\ ~Collides(Page)
          /\ \E found \in FoundTnsMaps(Page, maps) :
                ~Waits(Page, found) /\ tnsMaps' = IdentifiedTnsMaps(found)

\* The contents of the registered names are not answered.
NamesFail ==
    /\ pc = "names"
    /\ CountFailure
    /\ UNCHANGED tnsMaps

Restart ==
    /\ CountFailure
    /\ tnsMaps' = {}

--------------------------------------------------------------------------

Init ==
    /\ head \in {b \in Block : Level(b) = FinalLevel}
    /\ reorgs = 0
    /\ blocks = {} /\ forks = 0
    /\ maps = {} /\ contents = {} /\ history = {}
    /\ balances = {} /\ names = {} /\ unread = {} /\ tnsMaps = {}
    /\ pc = "loop" /\ target = NoBlock /\ page = {}
    /\ failures = 0

Loop ==
    \/ NoFork \/ ForkDetected \/ FetchHead
    \/ StorePage \/ PageWaits \/ PageRefused \/ ProcessNames \/ EndIteration

Next ==
    \/ Advance \/ Reorganise
    \/ Loop
    \/ PageFails \/ NamesFail \/ Restart

Spec == Init /\ [][Next]_vars
=============================================================================
