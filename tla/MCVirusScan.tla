---------------------------- MODULE MCVirusScan ----------------------------
(***************************************************************************)
(* Small instances of VirusScan.                                           *)
(***************************************************************************)
EXTENDS VirusScan, TLC

Symmetry == Permutations(Jobs)
=============================================================================
