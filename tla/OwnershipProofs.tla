-------------------------- MODULE OwnershipProofs --------------------------
(***************************************************************************)
(* What keeping the contract of Ownership amounts to.  The contract says   *)
(* step by step what may happen to one organization; these theorems say    *)
(* what follows for its whole life.  Tenancy keeps the contract in every   *)
(* step (TenancyProofs!KeepsContract), MembershipRequests in every step    *)
(* but those it names.                                                     *)
(***************************************************************************)
EXTENDS Ownership, TLAPS

(***************************************************************************)
(* An organization is empty exactly when it has no owner; otherwise the    *)
(* owner is one of the admins, who are all members, who are all accounts.  *)
(***************************************************************************)
OwnerLeads ==
  /\ owner = Nobody <=> members = {}
  /\ owner # Nobody => owner \in admins
  /\ admins \subseteq members
  /\ members \subseteq Users

LEMMA StepKeepsOwnerLeads ==
  ASSUME Nobody \notin Users, OwnerLeads, [Next]_vars
  PROVE  OwnerLeads'
<1> USE DEF OwnerLeads
<1>1. ASSUME NEW u \in Users, Found(u) PROVE OwnerLeads'
  BY <1>1 DEF Found
<1>2. ASSUME NEW u \in Users, Admit(u) PROVE OwnerLeads'
  BY <1>2 DEF Admit
<1>3. ASSUME NEW u \in Users, Leave(u) PROVE OwnerLeads'
  <2>1. owner \in admins' /\ owner' = owner
    BY <1>3 DEF Leave
  <2>2. admins' \subseteq members' /\ members' \subseteq Users
    BY <1>3 DEF Leave
  <2> QED
    BY <2>1, <2>2
<1>4. ASSUME NEW u \in Users, ChangeRole(u) PROVE OwnerLeads'
  BY <1>4 DEF ChangeRole
<1>5. ASSUME NEW u \in Users, HandOver(u) PROVE OwnerLeads'
  BY <1>5 DEF HandOver
<1>6. CASE Dissolve
  BY <1>6 DEF Dissolve
<1>7. CASE UNCHANGED vars
  BY <1>7 DEF vars
<1> QED
  BY <1>1, <1>2, <1>3, <1>4, <1>5, <1>6, <1>7 DEF Next

(***************************************************************************)
(* The owner is an admin and a member from the day the organization is     *)
(* founded until the day it is dissolved ("owner/admin invariants" of the  *)
(* README), for any set of accounts.                                       *)
(***************************************************************************)
THEOREM OwnerAlwaysLeads ==
  ASSUME Nobody \notin Users
  PROVE  Spec => []OwnerLeads
<1>1. Init => OwnerLeads
  BY DEF Init, OwnerLeads
<1>2. OwnerLeads /\ [Next]_vars => OwnerLeads'
  BY StepKeepsOwnerLeads
<1> QED
  BY <1>1, <1>2, PTL DEF Spec

(***************************************************************************)
(* Nobody takes an organization from its owner, who stays owner and admin, *)
(* or hands it to another member and stays an admin (Organization::        *)
(* Transfer), or it is dissolved with everybody in it.                     *)
(***************************************************************************)
OwnerGoesByHandOver ==
  [][owner # Nobody =>
       \/ owner' = owner /\ owner \in admins'
       \/ owner' \in members \ {owner} /\ {owner, owner'} \subseteq admins'
       \/ owner' = Nobody /\ members' = {}]_vars

THEOREM OwnerNeverOusted ==
  ASSUME Nobody \notin Users
  PROVE  Spec => OwnerGoesByHandOver
<1> DEFINE Kept ==
             owner # Nobody =>
               \/ owner' = owner /\ owner \in admins'
               \/ owner' \in members \ {owner} /\ {owner, owner'} \subseteq admins'
               \/ owner' = Nobody /\ members' = {}
<1>1. ASSUME OwnerLeads, Next, owner # Nobody PROVE Kept
  <2>1. ASSUME NEW u \in Users, Found(u) \/ Admit(u) \/ Leave(u) \/ ChangeRole(u)
        PROVE  Kept
    BY <1>1, <2>1 DEF Found, Admit, Leave, ChangeRole, OwnerLeads
  <2>2. ASSUME NEW u \in Users, HandOver(u) PROVE Kept
    BY <1>1, <2>2 DEF HandOver, OwnerLeads
  <2>3. CASE Dissolve
    BY <2>3 DEF Dissolve
  <2> QED
    BY <1>1, <2>1, <2>2, <2>3 DEF Next
<1>2. OwnerLeads /\ [Next]_vars => [Kept]_vars
  BY <1>1
<1> QED
  BY <1>2, OwnerAlwaysLeads, PTL DEF OwnerGoesByHandOver, Spec
=============================================================================
