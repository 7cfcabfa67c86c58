-------------------------------- MODULE Sums --------------------------------
(***************************************************************************)
(* The sum of natural numbers over a finite set, counted out in units: a   *)
(* sum that proofs can take apart without induction.                       *)
(***************************************************************************)
EXTENDS Naturals, FiniteSets

Units(f, S) == UNION {{x} \X (1..f[x]) : x \in S}
SumOf(f, S) == Cardinality(Units(f, S))

=============================================================================
