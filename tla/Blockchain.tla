---------------------------- MODULE Blockchain ----------------------------
(***************************************************************************)
(* The blocks of a Tezos chain, as Lorre sees them through the node's RPC.  *)
(* A block hash commits to the whole history of the block, so a block is    *)
(* modelled by that history: the sequence of choices made at each level     *)
(* since genesis.  Two chains fork where their sequences first differ, the  *)
(* level of a block is the length of its sequence, and "hash~offset" is a   *)
(* prefix.  Chains agree up to FinalLevel: reorganisations are above it.    *)
(***************************************************************************)
EXTENDS Integers, Sequences

CONSTANTS
    Branch,      \* the alternatives a level may be decided for
    Trunk,       \* the alternative of every final level
    FinalLevel,  \* no reorganisation replaces a block up to this level
    MaxLevel,    \* bound: the highest level the chain reaches
    NoBlock      \* stands for an absent block or hash

Block ==
    {b \in UNION {[1..n -> Branch] : n \in 0..MaxLevel} :
        \A i \in DOMAIN b : i <= FinalLevel => b[i] = Trunk}

ASSUME ChainAssumption ==
    /\ Trunk \in Branch
    /\ FinalLevel \in Nat
    /\ MaxLevel \in Nat
    /\ FinalLevel <= MaxLevel
    /\ NoBlock \notin Block

Level(b) == Len(b)

\* blocks/hash~offset, offset being Level(b) - l: the ancestor of b at level l.
AncestorAt(b, l) == SubSeq(b, 1, l)

\* header.predecessor
Predecessor(b) == AncestorAt(b, Level(b) - 1)

Extends(b, c) == Level(b) >= Level(c) /\ AncestorAt(b, Level(c)) = c

\* The ancestors of b at the levels from lo to hi, as one page of blocks fetched.
Segment(b, lo, hi) == {AncestorAt(b, l) : l \in lo..hi}

\* The blocks of S that are not on the chain of head.
Orphaned(S, head) == {b \in S : ~Extends(head, b)}

\* What handleFork looks at first: the highest block of S is on the chain of head.
TopIsOn(S, head) ==
    \A b \in S : (\A c \in S : Level(c) <= Level(b)) => Extends(head, b)

\* A set of blocks closed under ancestors: the blocks of one chain when there is
\* one of each level.
Linked(S) == \A b \in S : \A l \in 0..Level(b) : AncestorAt(b, l) \in S

\* One block of every level up to the highest.
Gapless(S) ==
    /\ \A b, c \in S : Level(b) = Level(c) => b = c
    /\ \A b \in S : \A l \in 0..Level(b) : \E c \in S : Level(c) = l
=============================================================================
