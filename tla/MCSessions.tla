----------------------------- MODULE MCSessions -----------------------------
(* Sessions on a small instance: handlers, browsers and IDs are             *)
(* interchangeable.                                                         *)
EXTENDS Sessions, TLC

MCSymmetry ==
    {p @@ q @@ s : p \in Permutations(Reqs), q \in Permutations(Browsers),
                   s \in Permutations(Ids)}
=============================================================================
