----------------------- MODULE MC_BakersCheckpoint -----------------------
(***************************************************************************)
(* The accounts of MC_AccountsCheckpoint.  Both delegate to the same baker, *)
(* until the last levels, where one has moved to another and the other has  *)
(* none: a baker is pending for several accounts at several blocks.         *)
(***************************************************************************)
EXTENDS BakersCheckpointProps, MC_AccountsCheckpoint

MCBaker == {"d", "e"}

MCDelegate ==
    [b \in Block |->
        [a \in MCAccount |->
            IF Level(b) <= 2 THEN "d" ELSE IF a = "x" THEN "e" ELSE NoBaker]]

\* Bound of the exploration: at most two switches and failures beside an unreadable answer.
FewTroubles == unread \union bakersUnread # {} => reorgs + failures <= 2
=============================================================================
