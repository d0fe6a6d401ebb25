----------------------------- MODULE MCTenancy -----------------------------
(***************************************************************************)
(* Small instances of Tenancy.                                             *)
(***************************************************************************)
EXTENDS Tenancy, TLC

Symmetry == Permutations(Users)

TwoRoles == {"admin", "member"}
=============================================================================
