---------------------------- MODULE MCTileEngine ----------------------------
(***************************************************************************)
(* TileEngine for TLC.  Requests in flight are interchangeable; six entry  *)
(* names are more than the map and the tasks of these instances can hold   *)
(* at once, so Fresh is never empty.                                       *)
(***************************************************************************)
EXTENDS TileEngine, TLC

MCIds == 1..6

RequestSymmetry == Permutations(Painters)

=============================================================================
