----------------------------- MODULE MCAlliance -----------------------------
(***************************************************************************)
(* Alliance for TLC.  Users and requests are interchangeable.              *)
(***************************************************************************)
EXTENDS Alliance, TLC

Symmetry == Permutations(Users) \cup Permutations(Requests)

=============================================================================
