------------------------------ MODULE MCSignIn ------------------------------
(***************************************************************************)
(* Small instances of SignIn.                                              *)
(***************************************************************************)
EXTENDS SignIn, TLC

Symmetry == Permutations(Users) \cup Permutations(Browsers) \cup Permutations(Codes)
=============================================================================
