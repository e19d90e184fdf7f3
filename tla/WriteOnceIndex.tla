-------------------------- MODULE WriteOnceIndex --------------------------
(***************************************************************************)
(* What the indexers of Bitcoin and Ethereum promise the readers of their   *)
(* blocks tables, with no word of batches: an entry for each level, written *)
(* at most once, with a block of that level, and never changed after.  It   *)
(* says nothing about the order of the levels.                              *)
(***************************************************************************)
EXTENDS Blockchain

VARIABLE index   \* the block of each level, or NoBlock

Init == index = [l \in 0..MaxLevel |-> NoBlock]

Write ==
    \E l \in 0..MaxLevel :
        /\ index[l] = NoBlock
        /\ \E b \in {c \in Block : Level(c) = l} : index' = [index EXCEPT ![l] = b]

Spec == Init /\ [][Write]_index
=============================================================================
