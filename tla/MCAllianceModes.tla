-------------------------- MODULE MCAllianceModes --------------------------
(***************************************************************************)
(* AllianceModes for TLC.  Users and requests are interchangeable.         *)
(***************************************************************************)
EXTENDS AllianceModes, MCAlliance
=============================================================================
