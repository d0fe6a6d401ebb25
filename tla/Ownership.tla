----------------------------- MODULE Ownership -----------------------------
(***************************************************************************)
(* What one organization promises about its owner, whatever the road by    *)
(* which people come and go: from the day it is founded until the day it   *)
(* is dissolved it has exactly one owner, the owner is one of its active   *)
(* members and holds the admin role, and nobody can take either away from  *)
(* an owner who has not handed the organization over.                      *)
(*                                                                         *)
(* This is the contract of the "owner/admin invariants" of the README and  *)
(* of the Membership section of docs/architecture.md.  Tenancy and         *)
(* MembershipRequests are checked against it.                              *)
(***************************************************************************)

CONSTANTS
  Users,      \* the accounts of the platform
  Nobody      \* the owner of an organization that does not exist

VARIABLES
  owner,      \* the owner, or Nobody
  members,    \* the accounts with an active membership
  admins      \* those of them whose role is admin

vars == <<owner, members, admins>>

Init ==
  /\ owner = Nobody
  /\ members = {}
  /\ admins = {}

(***************************************************************************)
(* The founder is the owner and the first admin.                           *)
(***************************************************************************)
Found(u) ==
  /\ owner = Nobody
  /\ owner' = u
  /\ members' = {u}
  /\ admins' = {u}

Admit(u) ==
  /\ owner # Nobody
  /\ u \notin members
  /\ members' = members \cup {u}
  /\ admins' \in {admins, admins \cup {u}}
  /\ UNCHANGED owner

(***************************************************************************)
(* Anybody may go, or be made to go, and may change role: except the owner.*)
(***************************************************************************)
Leave(u) ==
  /\ u \in members \ {owner}
  /\ members' = members \ {u}
  /\ admins' = admins \ {u}
  /\ UNCHANGED owner

ChangeRole(u) ==
  /\ u \in members \ {owner}
  /\ admins' \in {admins \cup {u}, admins \ {u}}
  /\ UNCHANGED <<owner, members>>

(***************************************************************************)
(* Only an active member can receive the organization; the new owner       *)
(* becomes an admin in the same step and the old one stays an admin.  The  *)
(* contract does not say who hands over.                                   *)
(***************************************************************************)
HandOver(u) ==
  /\ u \in members \ {owner}
  /\ owner' = u
  /\ admins' = admins \cup {u}
  /\ UNCHANGED members

Dissolve ==
  /\ owner # Nobody
  /\ owner' = Nobody
  /\ members' = {}
  /\ admins' = {}

Next ==
  \/ \E u \in Users :
       Found(u) \/ Admit(u) \/ Leave(u) \/ ChangeRole(u) \/ HandOver(u)
  \/ Dissolve

Spec == Init /\ [][Next]_vars

=============================================================================
