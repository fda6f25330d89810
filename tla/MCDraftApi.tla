----------------------------- MODULE MCDraftApi -----------------------------
(* DraftApi on small instances: captures, pages and documents are           *)
(* interchangeable.                                                         *)
EXTENDS DraftApi, TLC

MCSymmetry ==
    {p @@ q @@ r : p \in Permutations(Captures), q \in Permutations(Keys),
                   r \in Permutations(Docs)}
=============================================================================
