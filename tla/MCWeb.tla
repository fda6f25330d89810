------------------------------- MODULE MCWeb -------------------------------
(* Web on a small instance, with two documents of which one has an ID that  *)
(* begins with 0.                                                           *)
EXTENDS Web, TLC

CONSTANTS plain, zero

MCDocs == {plain, zero}
MCDigits == [d \in MCDocs |-> IF d = plain THEN <<1, 0>> ELSE <<0, 1>>]
MCSymmetry == Permutations(Tabs)
=============================================================================
