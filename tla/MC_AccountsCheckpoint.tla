---------------------- MODULE MC_AccountsCheckpoint ----------------------
(***************************************************************************)
(* Two accounts: one touched by every block of an odd level, on any branch, *)
(* one by the last block only of some branches, so that an account may be   *)
(* last touched on a branch that is abandoned, or on the trunk below it.    *)
(***************************************************************************)
EXTENDS AccountsCheckpointProps

MCAccount == {"x", "y"}

MCTouched ==
    [b \in Block |->
        {a \in MCAccount :
            IF a = "x" THEN Level(b) % 2 = 1
            ELSE Level(b) = 2 \/ (Level(b) > 0 /\ b[Level(b)] # Trunk)}]
=============================================================================
