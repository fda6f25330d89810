----------------------------- MODULE MCGitStore -----------------------------
(* GitStore on a small instance: transactions are interchangeable.         *)
EXTENDS GitStore, TLC

TxSymmetry == Permutations(Txs)
=============================================================================
