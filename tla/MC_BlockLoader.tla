-------------------------- MODULE MC_BlockLoader --------------------------
(***************************************************************************)
(* What the blocks carry.  The block of level 2 deploys a contract that is  *)
(* no registered token.  A payment is in the block of level 3 on one branch *)
(* and comes back at level 4 on the other, whose block of level 3 has a     *)
(* transfer of an unregistered token.  After the payment, level 4 deploys a *)
(* registered token and calls it, or has a transfer of it.                  *)
(***************************************************************************)
EXTENDS BlockLoaderProps

MCAddress == {"alice", "token", "other", "null"}

MCTx(hash, to, creates) == [hash |-> hash, from |-> "alice", to |-> to, creates |-> creates]

MCTransfer(token) == [token |-> token, from |-> "null", to |-> "alice"]

Payment == MCTx("payment", "other", NoAddress)

Deploy(hash, contract) == MCTx(hash, NoAddress, contract)

Call(hash) == MCTx(hash, "token", NoAddress)

Txs(b) ==
    CASE Level(b) = 2 -> {Deploy("deploy", "other")}
      [] Level(b) = 3 -> {IF b[3] = "a" THEN Payment ELSE Call("call")}
      [] Level(b) = 4 /\ b[3] = "b" -> {Payment}
      [] Level(b) = 4 /\ b[3] = "a" /\ b[4] = "a" -> {Deploy("new", "token"), Call("use")}
      [] Level(b) = 4 /\ b[3] = "a" /\ b[4] = "b" -> {Call("call")}
      [] OTHER -> {}

Transfers(b) ==
    CASE Level(b) = 3 /\ b[3] = "b" -> {MCTransfer("other")}
      [] Level(b) = 4 /\ b[3] = "a" /\ b[4] = "b" -> {MCTransfer("token")}
      [] OTHER -> {}

MCContent == [b \in Block |-> [txs |-> Txs(b), transfers |-> Transfers(b)]]
=============================================================================
