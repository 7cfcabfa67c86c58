---------------------------- MODULE MCBackground ----------------------------
(***************************************************************************)
(* Background for TLC.                                                     *)
(***************************************************************************)
EXTENDS Background

\* Three kinds: one that is never let in, and two of which the paint has the
\* shorter window and is not refunded.
MCLimit == [login |-> 3, reset |-> 0, paint |-> 2]
MCWindow == [login |-> 2, reset |-> 3, paint |-> 1]

MCCityOf == [k1 |-> 1, k2 |-> 2]
MCCountryOf == [e \in {1, 2} |-> 2]

=============================================================================
