----------------------------- MODULE MCAccounts -----------------------------
(* Accounts on a small instance: handlers, users and keys are               *)
(* interchangeable.                                                         *)
EXTENDS Accounts, TLC

MCSymmetry ==
    {p @@ q @@ s : p \in Permutations(Reqs), q \in Permutations(Users),
                   s \in Permutations(Keys)}
=============================================================================
