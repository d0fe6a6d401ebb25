------------------------ MODULE MCMembershipRequests ------------------------
(***************************************************************************)
(* Small instances of MembershipRequests.                                  *)
(***************************************************************************)
EXTENDS MembershipRequests, TLC

Symmetry == Permutations(Users) \cup Permutations(Threads)

TwoRoles == {"admin", "member"}
=============================================================================
