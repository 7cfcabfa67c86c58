--------------------------- MODULE MCUserAccount ---------------------------
(***************************************************************************)
(* UserAccount for TLC: a store whose prices a few pixels and grants can   *)
(* pay, half price as the discount, and levels at two and three pixels, so *)
(* that one paint can reach two at once.                                   *)
(***************************************************************************)
EXTENDS UserAccount, TLC

MCPrice == [i \in Items |-> IF i \in {"max", "charges"} THEN 1 ELSE 2]
MCLevelAt == {2, 3}
MCGrants == {-1, 2}

RequestSymmetry == Permutations(Requests)

=============================================================================
