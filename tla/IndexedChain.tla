--------------------------- MODULE IndexedChain ---------------------------
(***************************************************************************)
(* What Lorre promises the readers of the blocks table, with no word of how *)
(* forks are detected: the valid blocks are a stack.  It grows at the top   *)
(* by consecutive blocks of one chain and shrinks by losing every block     *)
(* from some level on; nothing else ever happens to it.                     *)
(***************************************************************************)
EXTENDS Blockchain

VARIABLE blocks

Init == blocks = {}

\* A page of consecutive blocks of the chain of tip, starting above every block.
Push ==
    \E lo \in 0..MaxLevel :
        /\ lo = 0 \/ \E b \in blocks : Level(b) = lo - 1
        /\ \A b \in blocks : Level(b) < lo
        /\ \E tip \in Block : \E hi \in lo..Level(tip) :
            blocks' = blocks \union Segment(tip, lo, hi)

\* Every valid block from some level on is invalidated; genesis never is.
Cut ==
    \E level \in 1..MaxLevel :
        blocks' = {b \in blocks : Level(b) < level}

Next == Push \/ Cut

Spec == Init /\ [][Next]_blocks

\* Readers find one block of every level up to the top.
IsGapless == Gapless(blocks)
=============================================================================
