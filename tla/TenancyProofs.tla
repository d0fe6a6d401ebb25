--------------------------- MODULE TenancyProofs ---------------------------
(***************************************************************************)
(* Proofs about Tenancy, for any sets of accounts, organizations and roles *)
(* and any bounds on invitations and requests.                             *)
(***************************************************************************)
EXTENDS Tenancy, TLAPS

(***************************************************************************)
(* Every handler writes well-typed rows.                                   *)
(***************************************************************************)
LEMMA NextTypeOK == TypeOK /\ [Next]_vars => TypeOK'
<1> SUFFICES ASSUME TypeOK, [Next]_vars PROVE TypeOK'
  OBVIOUS
<1> USE TenancyAssumption DEF TypeOK, accountVars, orgVars, membershipVars,
        invitationVars, Enroll, SetStanding, DropInvitation, OfferInvitation,
        ForgetInvitations, ForgetUser
<1>1. ASSUME NEW u \in Users, AccountStep(u) PROVE TypeOK'
  <2>1. CASE SignUp(u)
    BY <2>1 DEF SignUp
  <2>2. CASE RedactUser(u)
    BY <2>2 DEF RedactUser
  <2>3. CASE DestroyUser(u)
    BY <2>3 DEF DestroyUser
  <2>4. CASE PurgeRedactedUser(u)
    BY <2>4 DEF PurgeRedactedUser
  <2> QED
    BY <1>1, <2>1, <2>2, <2>3, <2>4 DEF AccountStep
<1>2. ASSUME NEW o \in Orgs, OrganizationStep(o) PROVE TypeOK'
  <2>1. CASE PurgeOrganization(o)
    BY <2>1 DEF PurgeOrganization
  <2>2. CASE SubscriptionChanges(o)
    BY <2>2 DEF SubscriptionChanges
  <2> QED
    BY <1>2, <2>1, <2>2 DEF OrganizationStep
<1>3. ASSUME NEW o \in Orgs, NEW u \in Users, UserStep(o, u) PROVE TypeOK'
  <2>1. CASE CreateOrganization(o, u)
    BY <2>1 DEF CreateOrganization
  <2>2. CASE EraseOrganization(o, u)
    BY <2>2 DEF EraseOrganization
  <2>3. ASSUME NEW v \in Users, TransferOwnership(o, u, v) PROVE TypeOK'
    BY <2>3 DEF TransferOwnership
  <2>4. CASE InvitationExpires(o, u)
    BY <2>4 DEF InvitationExpires
  <2>5. CASE PurgeExpiredInvitation(o, u)
    BY <2>5 DEF PurgeExpiredInvitation
  <2>6. CASE AcceptInvitation(o, u)
    BY <2>6 DEF AcceptInvitation
  <2>7. CASE DeclineInvitation(o, u)
    BY <2>7 DEF DeclineInvitation
  <2>8. CASE JoinPublic(o, u)
    BY <2>8 DEF JoinPublic
  <2>9. CASE RequestAccess(o, u)
    BY <2>9 DEF RequestAccess
  <2>10. CASE CancelRequest(o, u)
    BY <2>10 DEF CancelRequest
  <2> QED
    BY <1>3, <2>1, <2>2, <2>3, <2>4, <2>5, <2>6, <2>7, <2>8, <2>9, <2>10
    DEF UserStep
<1>4. ASSUME NEW o \in Orgs, NEW a \in Users, AdminStep(o, a) PROVE TypeOK'
  <2>1. ASSUME NEW p \in {"private", "restricted", "public"},
               UpdatePrivacy(o, a, p)
        PROVE TypeOK'
    BY <2>1 DEF UpdatePrivacy
  <2>2. ASSUME NEW u \in Users, NEW r \in Roles, UpdateRole(o, a, u, r)
        PROVE TypeOK'
    BY <2>2 DEF UpdateRole
  <2>3. ASSUME NEW u \in Users, NEW r \in Roles, Invite(o, a, u, r)
        PROVE TypeOK'
    BY <2>3 DEF Invite
  <2>4. ASSUME NEW u \in Users, DeactivateMember(o, a, u) PROVE TypeOK'
    BY <2>4 DEF DeactivateMember
  <2>5. ASSUME NEW u \in Users, ReactivateMember(o, a, u) PROVE TypeOK'
    BY <2>5 DEF ReactivateMember
  <2>6. ASSUME NEW u \in Users, RevokeInvitation(o, a, u) PROVE TypeOK'
    BY <2>6 DEF RevokeInvitation
  <2>7. ASSUME NEW u \in Users, ApproveRequest(o, a, u) PROVE TypeOK'
    BY <2>7 DEF ApproveRequest
  <2>8. ASSUME NEW u \in Users, RejectRequest(o, a, u) PROVE TypeOK'
    BY <2>8 DEF RejectRequest
  <2> QED
    BY <1>4, <2>1, <2>2, <2>3, <2>4, <2>5, <2>6, <2>7, <2>8 DEF AdminStep
<1>5. ASSUME NEW o \in Orgs, NEW u \in Users, DirectoryStep(o, u) PROVE TypeOK'
  <2>1. ASSUME NEW r \in Roles, NEW s \in {"active", "deactivated"},
               ScimProvision(o, u, r, s)
        PROVE TypeOK'
    BY <2>1 DEF ScimProvision
  <2>2. ASSUME NEW r \in Roles, ScimAskConsent(o, u, r) PROVE TypeOK'
    BY <2>2 DEF ScimAskConsent
  <2>3. ASSUME NEW r \in Roles, SsoProvision(o, u, r) PROVE TypeOK'
    BY <2>3 DEF SsoProvision
  <2>4. CASE ScimActivate(o, u)
    BY <2>4 DEF ScimActivate
  <2>5. CASE ScimDeactivate(o, u)
    BY <2>5 DEF ScimDeactivate
  <2>6. CASE SsoReactivate(o, u)
    BY <2>6 DEF SsoReactivate
  <2> QED
    BY <1>5, <2>1, <2>2, <2>3, <2>4, <2>5, <2>6 DEF DirectoryStep
<1>6. CASE UNCHANGED vars
  BY <1>6 DEF vars
<1> QED
  BY <1>1, <1>2, <1>3, <1>4, <1>5, <1>6 DEF Next

(***************************************************************************)
(* Type correctness of the whole of Tenancy.                               *)
(***************************************************************************)
THEOREM TypeCorrect == Spec => []TypeOK
<1>1. Init => TypeOK
  BY TenancyAssumption DEF Init, TypeOK
<1> QED
  BY <1>1, NextTypeOK, PTL DEF Spec

-----------------------------------------------------------------------------
(***************************************************************************)
(* Invitations are sent by kept organizations only and go with them.       *)
(***************************************************************************)
LEMMA NextInvitations ==
  TypeOK /\ InvitationsAreForKeptOrganizations /\ [Next]_vars
    => InvitationsAreForKeptOrganizations'
<1> SUFFICES ASSUME TypeOK, InvitationsAreForKeptOrganizations, [Next]_vars
             PROVE  InvitationsAreForKeptOrganizations'
  OBVIOUS
<1> USE DEF TypeOK, InvitationsAreForKeptOrganizations, accountVars, orgVars,
        membershipVars, invitationVars, MayEnter, MayAdminister, HasConnection,
        DropInvitation, OfferInvitation, ForgetInvitations, ForgetUser
<1>1. ASSUME NEW u \in Users, AccountStep(u)
      PROVE  InvitationsAreForKeptOrganizations'
  BY <1>1 DEF AccountStep, SignUp, RedactUser, DestroyUser, PurgeRedactedUser
<1>2. ASSUME NEW o \in Orgs, OrganizationStep(o)
      PROVE  InvitationsAreForKeptOrganizations'
  BY <1>2 DEF OrganizationStep, PurgeOrganization, SubscriptionChanges
<1>3. ASSUME NEW o \in Orgs, NEW u \in Users, UserStep(o, u)
      PROVE  InvitationsAreForKeptOrganizations'
  <2>1. CASE CreateOrganization(o, u)
    BY <2>1 DEF CreateOrganization
  <2>2. CASE EraseOrganization(o, u)
    BY <2>2 DEF EraseOrganization
  <2>3. CASE InvitationExpires(o, u)
    BY <2>3 DEF InvitationExpires
  <2>4. CASE PurgeExpiredInvitation(o, u)
    BY <2>4 DEF PurgeExpiredInvitation
  <2>6. CASE AcceptInvitation(o, u)
    BY <2>6 DEF AcceptInvitation
  <2>7. CASE DeclineInvitation(o, u)
    BY <2>7 DEF DeclineInvitation
  <2>5. CASE \/ \E v \in Users : TransferOwnership(o, u, v)
             \/ JoinPublic(o, u) \/ RequestAccess(o, u) \/ CancelRequest(o, u)
    BY <2>5 DEF TransferOwnership, JoinPublic, RequestAccess, CancelRequest
  <2> QED
    BY <1>3, <2>1, <2>2, <2>3, <2>4, <2>5, <2>6, <2>7 DEF UserStep
<1>4. ASSUME NEW o \in Orgs, NEW a \in Users, AdminStep(o, a)
      PROVE  InvitationsAreForKeptOrganizations'
  <2>1. ASSUME NEW u \in Users, NEW r \in Roles, Invite(o, a, u, r)
        PROVE  InvitationsAreForKeptOrganizations'
    BY <2>1 DEF Invite
  <2>2. ASSUME NEW u \in Users, RevokeInvitation(o, a, u)
        PROVE  InvitationsAreForKeptOrganizations'
    BY <2>2 DEF RevokeInvitation
  <2>3. ASSUME NEW p \in {"private", "restricted", "public"},
               UpdatePrivacy(o, a, p)
        PROVE  InvitationsAreForKeptOrganizations'
    BY <2>3 DEF UpdatePrivacy
  <2>4. ASSUME NEW u \in Users, NEW r \in Roles,
               \/ UpdateRole(o, a, u, r) \/ DeactivateMember(o, a, u)
               \/ ReactivateMember(o, a, u) \/ ApproveRequest(o, a, u)
               \/ RejectRequest(o, a, u)
        PROVE  InvitationsAreForKeptOrganizations'
    BY <2>4 DEF UpdateRole, DeactivateMember, ReactivateMember, ApproveRequest,
                RejectRequest
  <2> QED
    BY <1>4, <2>1, <2>2, <2>3, <2>4 DEF AdminStep
<1>5. ASSUME NEW o \in Orgs, NEW u \in Users, DirectoryStep(o, u)
      PROVE  InvitationsAreForKeptOrganizations'
  <2>1. ASSUME NEW r \in Roles, ScimAskConsent(o, u, r)
        PROVE  InvitationsAreForKeptOrganizations'
    BY <2>1 DEF ScimAskConsent
  <2>2. ASSUME NEW r \in Roles, NEW s \in {"active", "deactivated"},
               \/ ScimProvision(o, u, r, s) \/ SsoProvision(o, u, r)
               \/ ScimActivate(o, u) \/ ScimDeactivate(o, u)
               \/ SsoReactivate(o, u)
        PROVE  InvitationsAreForKeptOrganizations'
    BY <2>2 DEF ScimProvision, SsoProvision, ScimActivate, ScimDeactivate,
                SsoReactivate
  <2> QED
    BY <1>5, <2>1, <2>2 DEF DirectoryStep
<1>6. CASE UNCHANGED vars
  BY <1>6 DEF vars
<1> QED
  BY <1>1, <1>2, <1>3, <1>4, <1>5, <1>6 DEF Next

-----------------------------------------------------------------------------
(***************************************************************************)
(* A step creates rows only for accounts and organizations that exist, and *)
(* destroys an account or an organization only with its rows.              *)
(***************************************************************************)
LEMMA NextRowsHaveParents ==
  TypeOK /\ InvitationsAreForKeptOrganizations /\ RowsHaveParents /\ [Next]_vars
    => RowsHaveParents'
<1> SUFFICES ASSUME TypeOK, InvitationsAreForKeptOrganizations,
                    RowsHaveParents, [Next]_vars
             PROVE  RowsHaveParents'
  OBVIOUS
<1> USE DEF TypeOK, RowsHaveParents, IsActive, accountVars, orgVars,
        membershipVars, HasConnection, MayEnter, MayAdminister, Enroll, SetStanding
<1>1. ASSUME NEW u \in Users, AccountStep(u) PROVE RowsHaveParents'
  <2>1. CASE SignUp(u)
    BY <2>1 DEF SignUp
  <2>2. CASE RedactUser(u)
    BY <2>2 DEF RedactUser
  <2>3. CASE DestroyUser(u)
    BY <2>3 DEF DestroyUser, ForgetUser
  <2>4. CASE PurgeRedactedUser(u)
    BY <2>4 DEF PurgeRedactedUser, ForgetUser
  <2> QED
    BY <1>1, <2>1, <2>2, <2>3, <2>4 DEF AccountStep
<1>2. ASSUME NEW o \in Orgs, OrganizationStep(o) PROVE RowsHaveParents'
  <2>1. CASE PurgeOrganization(o)
    BY <2>1 DEF PurgeOrganization
  <2>2. CASE SubscriptionChanges(o)
    BY <2>2 DEF SubscriptionChanges
  <2> QED
    BY <1>2, <2>1, <2>2 DEF OrganizationStep
<1>3. ASSUME NEW o \in Orgs, NEW u \in Users, UserStep(o, u)
      PROVE  RowsHaveParents'
  <2>1. CASE CreateOrganization(o, u)
    BY <2>1 DEF CreateOrganization
  <2>2. CASE AcceptInvitation(o, u)
    <3>1. status[o] = "kept"
      BY <2>2 DEF AcceptInvitation, InvitationsAreForKeptOrganizations
    <3> QED
      BY <2>2, <3>1 DEF AcceptInvitation
  <2>3. CASE JoinPublic(o, u)
    BY <2>3 DEF JoinPublic
  <2>4. CASE RequestAccess(o, u)
    BY <2>4 DEF RequestAccess
  <2>5. CASE CancelRequest(o, u)
    BY <2>5 DEF CancelRequest
  <2>6. CASE \/ EraseOrganization(o, u) \/ InvitationExpires(o, u)
             \/ PurgeExpiredInvitation(o, u) \/ DeclineInvitation(o, u)
             \/ \E v \in Users : TransferOwnership(o, u, v)
    BY <2>6 DEF EraseOrganization, InvitationExpires, PurgeExpiredInvitation,
                DeclineInvitation, TransferOwnership
  <2> QED
    BY <1>3, <2>1, <2>2, <2>3, <2>4, <2>5, <2>6 DEF UserStep
<1>4. ASSUME NEW o \in Orgs, NEW a \in Users, AdminStep(o, a)
      PROVE  RowsHaveParents'
  <2>1. ASSUME NEW u \in Users, DeactivateMember(o, a, u)
        PROVE  RowsHaveParents'
    BY <2>1 DEF DeactivateMember
  <2>2. ASSUME NEW u \in Users, ReactivateMember(o, a, u)
        PROVE  RowsHaveParents'
    BY <2>2 DEF ReactivateMember
  <2>3. ASSUME NEW u \in Users, ApproveRequest(o, a, u)
        PROVE  RowsHaveParents'
    BY <2>3 DEF ApproveRequest
  <2>4. ASSUME NEW u \in Users, RejectRequest(o, a, u)
        PROVE  RowsHaveParents'
    BY <2>4 DEF RejectRequest
  <2>5. ASSUME NEW p \in {"private", "restricted", "public"},
               NEW u \in Users, NEW r \in Roles,
               \/ UpdatePrivacy(o, a, p) \/ UpdateRole(o, a, u, r)
               \/ Invite(o, a, u, r) \/ RevokeInvitation(o, a, u)
        PROVE  RowsHaveParents'
    BY <2>5 DEF UpdatePrivacy, UpdateRole, Invite, RevokeInvitation
  <2> QED
    BY <1>4, <2>1, <2>2, <2>3, <2>4, <2>5 DEF AdminStep
<1>5. ASSUME NEW o \in Orgs, NEW u \in Users, DirectoryStep(o, u)
      PROVE  RowsHaveParents'
  <2>1. ASSUME NEW r \in Roles, NEW s \in {"active", "deactivated"},
               ScimProvision(o, u, r, s)
        PROVE  RowsHaveParents'
    BY <2>1 DEF ScimProvision
  <2>2. ASSUME NEW r \in Roles, SsoProvision(o, u, r)
        PROVE  RowsHaveParents'
    BY <2>2 DEF SsoProvision
  <2>3. ASSUME NEW r \in Roles, ScimAskConsent(o, u, r)
        PROVE  RowsHaveParents'
    BY <2>3 DEF ScimAskConsent
  <2>4. CASE ScimActivate(o, u)
    BY <2>4 DEF ScimActivate
  <2>5. CASE ScimDeactivate(o, u)
    BY <2>5 DEF ScimDeactivate
  <2>6. CASE SsoReactivate(o, u)
    BY <2>6 DEF SsoReactivate
  <2> QED
    BY <1>5, <2>1, <2>2, <2>3, <2>4, <2>5, <2>6 DEF DirectoryStep
<1>6. CASE UNCHANGED vars
  BY <1>6 DEF vars
<1> QED
  BY <1>1, <1>2, <1>3, <1>4, <1>5, <1>6 DEF Next

-----------------------------------------------------------------------------
(***************************************************************************)
(* Roles, standings, transfers and purges leave every organization an      *)
(* owner who is an active admin.  RowsHaveParents is needed where the     *)
(* directory provisions an account it believes to be new.                  *)
(***************************************************************************)
LEMMA NextOwnerIsActiveAdmin ==
  TypeOK /\ RowsHaveParents /\ OwnerIsActiveAdmin /\ [Next]_vars
    => OwnerIsActiveAdmin'
<1> SUFFICES ASSUME TypeOK, RowsHaveParents, OwnerIsActiveAdmin, [Next]_vars
             PROVE  OwnerIsActiveAdmin'
  OBVIOUS
<1> USE TenancyAssumption DEF TypeOK, OwnerIsActiveAdmin, IsActiveAdmin, IsActive,
        accountVars, orgVars, membershipVars, MayEnter, MayAdminister,
        Enroll, SetStanding
<1>1. ASSUME NEW u \in Users, AccountStep(u) PROVE OwnerIsActiveAdmin'
  <2>1. CASE SignUp(u)
    BY <2>1 DEF SignUp
  <2>2. CASE RedactUser(u)
    BY <2>2 DEF RedactUser, MayClose
  <2>3. CASE DestroyUser(u)
    BY <2>3 DEF DestroyUser, MayClose, ForgetUser
  <2>4. CASE PurgeRedactedUser(u)
    BY <2>4 DEF PurgeRedactedUser, ForgetUser
  <2> QED
    BY <1>1, <2>1, <2>2, <2>3, <2>4 DEF AccountStep
<1>2. ASSUME NEW o \in Orgs, OrganizationStep(o) PROVE OwnerIsActiveAdmin'
  <2>1. CASE PurgeOrganization(o)
    BY <2>1 DEF PurgeOrganization
  <2>2. CASE SubscriptionChanges(o)
    BY <2>2 DEF SubscriptionChanges
  <2> QED
    BY <1>2, <2>1, <2>2 DEF OrganizationStep
<1>3. ASSUME NEW o \in Orgs, NEW u \in Users, UserStep(o, u)
      PROVE  OwnerIsActiveAdmin'
  <2>1. CASE CreateOrganization(o, u)
    BY <2>1 DEF CreateOrganization
  <2>2. CASE EraseOrganization(o, u)
    BY <2>2 DEF EraseOrganization
  <2>3. ASSUME NEW v \in Users, TransferOwnership(o, u, v)
        PROVE  OwnerIsActiveAdmin'
    BY <2>3 DEF TransferOwnership
  <2>4. CASE AcceptInvitation(o, u)
    BY <2>4 DEF AcceptInvitation
  <2>5. CASE JoinPublic(o, u)
    BY <2>5 DEF JoinPublic
  <2>6. CASE \/ InvitationExpires(o, u) \/ PurgeExpiredInvitation(o, u)
             \/ DeclineInvitation(o, u) \/ RequestAccess(o, u)
             \/ CancelRequest(o, u)
    BY <2>6 DEF InvitationExpires, PurgeExpiredInvitation, DeclineInvitation,
                RequestAccess, CancelRequest
  <2> QED
    BY <1>3, <2>1, <2>2, <2>3, <2>4, <2>5, <2>6 DEF UserStep
<1>4. ASSUME NEW o \in Orgs, NEW a \in Users, AdminStep(o, a)
      PROVE  OwnerIsActiveAdmin'
  <2>1. ASSUME NEW u \in Users, NEW r \in Roles, UpdateRole(o, a, u, r)
        PROVE  OwnerIsActiveAdmin'
    BY <2>1 DEF UpdateRole
  <2>2. ASSUME NEW u \in Users, DeactivateMember(o, a, u)
        PROVE  OwnerIsActiveAdmin'
    BY <2>2 DEF DeactivateMember, MayDeactivate
  <2>3. ASSUME NEW u \in Users, ReactivateMember(o, a, u)
        PROVE  OwnerIsActiveAdmin'
    BY <2>3 DEF ReactivateMember
  <2>6. ASSUME NEW u \in Users, ApproveRequest(o, a, u)
        PROVE  OwnerIsActiveAdmin'
    BY <2>6 DEF ApproveRequest
  <2>4. ASSUME NEW p \in {"private", "restricted", "public"},
               UpdatePrivacy(o, a, p)
        PROVE  OwnerIsActiveAdmin'
    BY <2>4 DEF UpdatePrivacy
  <2>5. ASSUME NEW u \in Users, NEW r \in Roles,
               Invite(o, a, u, r) \/ RevokeInvitation(o, a, u) \/ RejectRequest(o, a, u)
        PROVE  OwnerIsActiveAdmin'
    BY <2>5 DEF Invite, RevokeInvitation, RejectRequest
  <2> QED
    BY <1>4, <2>1, <2>2, <2>3, <2>4, <2>5, <2>6 DEF AdminStep
<1>5. ASSUME NEW o \in Orgs, NEW u \in Users, DirectoryStep(o, u)
      PROVE  OwnerIsActiveAdmin'
  <2>1. ASSUME NEW r \in Roles, NEW s \in {"active", "deactivated"},
               ScimProvision(o, u, r, s)
        PROVE  OwnerIsActiveAdmin'
    BY <2>1 DEF ScimProvision, RowsHaveParents
  <2>2. ASSUME NEW r \in Roles, SsoProvision(o, u, r)
        PROVE  OwnerIsActiveAdmin'
    BY <2>2 DEF SsoProvision, RowsHaveParents
  <2>3. CASE ScimDeactivate(o, u)
    BY <2>3 DEF ScimDeactivate, MayDeactivate
  <2>4. CASE ScimActivate(o, u)
    BY <2>4 DEF ScimActivate
  <2>6. CASE SsoReactivate(o, u)
    BY <2>6 DEF SsoReactivate
  <2>5. ASSUME NEW r \in Roles, ScimAskConsent(o, u, r)
        PROVE  OwnerIsActiveAdmin'
    BY <2>5 DEF ScimAskConsent
  <2> QED
    BY <1>5, <2>1, <2>2, <2>3, <2>4, <2>5, <2>6 DEF DirectoryStep
<1>6. CASE UNCHANGED vars
  BY <1>6 DEF vars
<1> QED
  BY <1>1, <1>2, <1>3, <1>4, <1>5, <1>6 DEF Next

(***************************************************************************)
(* The inductive invariant.                                                *)
(***************************************************************************)
IInv ==
  /\ TypeOK
  /\ InvitationsAreForKeptOrganizations
  /\ RowsHaveParents
  /\ OwnerIsActiveAdmin

THEOREM Invariance == Spec => []IInv
<1>1. Init => IInv
  BY TenancyAssumption
  DEF Init, IInv, TypeOK, InvitationsAreForKeptOrganizations, RowsHaveParents,
      OwnerIsActiveAdmin
<1>2. IInv /\ [Next]_vars => IInv'
  BY NextTypeOK, NextInvitations, NextRowsHaveParents, NextOwnerIsActiveAdmin
  DEF IInv
<1> QED
  BY <1>1, <1>2, PTL DEF Spec

(***************************************************************************)
(* In every reachable state every organization has an owner who is one of  *)
(* its active admins.                                                      *)
(***************************************************************************)
THEOREM OwnerAlwaysActiveAdmin == Spec => []OwnerIsActiveAdmin
<1>1. IInv => OwnerIsActiveAdmin
  BY DEF IInv
<1> QED
  BY <1>1, Invariance, PTL

(***************************************************************************)
(* In every reachable state a membership or a join request belongs to an   *)
(* account and an organization that exist.                                 *)
(***************************************************************************)
THEOREM RowsAlwaysHaveParents == Spec => []RowsHaveParents
<1>1. IInv => RowsHaveParents
  BY DEF IInv
<1> QED
  BY <1>1, Invariance, PTL

(***************************************************************************)
(* In every reachable state only kept organizations have invitations.      *)
(***************************************************************************)
THEOREM InvitationsAlwaysForKept == Spec => []InvitationsAreForKeptOrganizations
<1>1. IInv => InvitationsAreForKeptOrganizations
  BY DEF IInv
<1> QED
  BY <1>1, Invariance, PTL

-----------------------------------------------------------------------------
(***************************************************************************)
(* Refinement of Ownership.  A step that writes one membership row of an   *)
(* existing organization, not its owner's, admits the member, lets him go, *)
(* changes his role, or changes nothing the contract can see.              *)
(***************************************************************************)
SameElsewhere(o, u) ==
  /\ owner'[o] = owner[o]
  /\ \A v \in Users \ {u} : /\ standing'[o][v] = standing[o][v]
                            /\ role'[o][v] = role[o][v]

LEMMA OneRowStep ==
  ASSUME NEW o \in Orgs, NEW u \in Users, TypeOK, TypeOK',
         owner[o] # Nobody, u # owner[o], SameElsewhere(o, u)
  PROVE  [Contract(o)!Next]_(Contract(o)!vars)
<1> USE DEF SameElsewhere, ActiveMembers, ActiveAdmins, IsActiveAdmin, IsActive
<1>1. CASE ~IsActive(o, u) /\ standing'[o][u] = "active"
  <2>1. ActiveMembers(o)' = ActiveMembers(o) \cup {u}
    BY <1>1
  <2>2. CASE role'[o][u] = "admin"
    <3>1. ActiveAdmins(o)' = ActiveAdmins(o) \cup {u}
      BY <1>1, <2>2
    <3> QED
      BY <1>1, <2>1, <3>1 DEF Contract!Next, Contract!Admit
  <2>3. CASE role'[o][u] # "admin"
    <3>1. ActiveAdmins(o)' = ActiveAdmins(o)
      BY <1>1, <2>3
    <3> QED
      BY <1>1, <2>1, <3>1 DEF Contract!Next, Contract!Admit
  <2> QED
    BY <2>2, <2>3
<1>2. CASE IsActive(o, u) /\ standing'[o][u] # "active"
  <2>1. ActiveMembers(o)' = ActiveMembers(o) \ {u}
    BY <1>2
  <2>2. ActiveAdmins(o)' = ActiveAdmins(o) \ {u}
    BY <1>2
  <2> QED
    BY <1>2, <2>1, <2>2 DEF Contract!Next, Contract!Leave
<1>3. CASE IsActive(o, u) /\ standing'[o][u] = "active"
  <2>1. ActiveMembers(o)' = ActiveMembers(o)
    BY <1>3
  <2>2. CASE role'[o][u] = "admin"
    <3>1. ActiveAdmins(o)' = ActiveAdmins(o) \cup {u}
      BY <1>3, <2>2
    <3> QED
      BY <1>3, <2>1, <3>1 DEF Contract!Next, Contract!ChangeRole
  <2>3. CASE role'[o][u] # "admin"
    <3>1. ActiveAdmins(o)' = ActiveAdmins(o) \ {u}
      BY <1>3, <2>3
    <3> QED
      BY <1>3, <2>1, <3>1 DEF Contract!Next, Contract!ChangeRole
  <2> QED
    BY <2>2, <2>3
<1>4. CASE ~IsActive(o, u) /\ standing'[o][u] # "active"
  <2>1. ActiveMembers(o)' = ActiveMembers(o) /\ ActiveAdmins(o)' = ActiveAdmins(o)
    BY <1>4
  <2> QED
    BY <2>1 DEF Contract!vars
<1> QED
  BY <1>1, <1>2, <1>3, <1>4

(***************************************************************************)
(* A step that writes no membership row and no owner of the organization   *)
(* is a stuttering step of its contract.                                   *)
(***************************************************************************)
LEMMA StillStep ==
  ASSUME NEW o \in Orgs, owner'[o] = owner[o],
         standing'[o] = standing[o], role'[o] = role[o]
  PROVE  [Contract(o)!Next]_(Contract(o)!vars)
<1>1. ActiveMembers(o)' = ActiveMembers(o) /\ ActiveAdmins(o)' = ActiveAdmins(o)
  BY DEF ActiveMembers, ActiveAdmins, IsActiveAdmin, IsActive
<1> QED
  BY <1>1 DEF Contract!vars

(***************************************************************************)
(* Every step of Tenancy is a step of every organization's contract, or    *)
(* leaves what the contract can see unchanged.                             *)
(***************************************************************************)
LEMMA ContractStep ==
  ASSUME IInv, [Next]_vars, NEW q \in Orgs
  PROVE  [Contract(q)!Next]_(Contract(q)!vars)
<1> DEFINE Goal == [Contract(q)!Next]_(Contract(q)!vars)
           OnlyRow(o, u) ==
             /\ owner' = owner
             /\ \A p \in Orgs \ {o} : standing'[p] = standing[p] /\ role'[p] = role[p]
             /\ SameElsewhere(o, u)
<1>0. TypeOK /\ TypeOK'
  BY NextTypeOK DEF IInv
<1>q. status[q] = "absent" => owner[q] = Nobody /\ \A u \in Users : standing[q][u] = "none"
  BY DEF IInv, OwnerIsActiveAdmin, RowsHaveParents
<1>r. ASSUME NEW o \in Orgs, NEW u \in Users, OnlyRow(o, u),
             owner[o] # Nobody, u # owner[o]
      PROVE  Goal
  BY <1>0, <1>r, OneRowStep, StillStep
<1>s. ASSUME UNCHANGED <<owner, standing, role>> PROVE Goal
  BY <1>s, StillStep
<1>t. ASSUME NEW u \in Users, owner' = owner, SameElsewhere(q, u), u # owner[q],
             status[q] = "absent" => standing'[q] = standing[q] /\ role'[q] = role[q]
      PROVE  Goal
  BY <1>0, <1>t, OneRowStep, StillStep DEF IInv, OwnerIsActiveAdmin
<1>k. \A o \in Orgs : status[o] # "absent" => owner[o] # Nobody /\ IsActiveAdmin(o, owner[o])
  BY DEF IInv, OwnerIsActiveAdmin
<1>i. \A o \in Orgs, u \in Users :
        /\ invitation[o][u] # "none" => status[o] = "kept"
        /\ standing[o][u] # "none" \/ request[o][u] # "none"
             => account[u] # "absent" /\ status[o] # "absent"
  BY DEF IInv, InvitationsAreForKeptOrganizations, RowsHaveParents
<1> HIDE DEF Goal
<1> USE DEF accountVars, orgVars, membershipVars, MayEnter, MayAdminister,
        SameElsewhere, IsActive, Enroll, SetStanding, IsActiveAdmin, HasConnection
<1>1. ASSUME NEW u \in Users, AccountStep(u) PROVE Goal
  <2>1. CASE SignUp(u)
    BY <1>s, <2>1 DEF SignUp
  <2>2. CASE RedactUser(u)
    <3>1. owner' = owner /\ u # owner[q] /\ SameElsewhere(q, u)
      BY <1>0, <2>2 DEF RedactUser, MayClose, TypeOK
    <3>2. status[q] = "absent" => standing'[q] = standing[q] /\ role'[q] = role[q]
      BY <1>0, <1>q, <2>2 DEF RedactUser, TypeOK
    <3> QED
      BY <1>t, <3>1, <3>2
  <2>3. CASE DestroyUser(u) \/ PurgeRedactedUser(u)
    <3>1. owner' = owner /\ u # owner[q] /\ SameElsewhere(q, u)
      BY <1>0, <2>3 DEF DestroyUser, PurgeRedactedUser, ForgetUser, MayClose, TypeOK
    <3>2. ActiveMembers(q)' = ActiveMembers(q) /\ ActiveAdmins(q)' = ActiveAdmins(q)
      BY <1>0, <2>3
      DEF DestroyUser, PurgeRedactedUser, ForgetUser, TypeOK, ActiveMembers,
          ActiveAdmins
    <3> QED
      BY <3>1, <3>2 DEF Goal, Contract!vars
  <2> QED
    BY <1>1, <2>1, <2>2, <2>3 DEF AccountStep
<1>2. ASSUME NEW o \in Orgs, OrganizationStep(o) PROVE Goal
  <2>1. CASE PurgeOrganization(o)
    <3>1. CASE o = q
      <4>1. owner[q] # Nobody /\ owner'[q] = Nobody
        BY <1>0, <1>k, <2>1, <3>1 DEF PurgeOrganization, TypeOK
      <4>2. ActiveMembers(q)' = {} /\ ActiveAdmins(q)' = {}
        BY <1>0, <2>1, <3>1 DEF PurgeOrganization, TypeOK, ActiveMembers, ActiveAdmins
      <4> QED
        BY <4>1, <4>2 DEF Goal, Contract!Next, Contract!Dissolve
    <3>2. CASE o # q
      BY <1>0, <2>1, <3>2, StillStep DEF PurgeOrganization, TypeOK, Goal
    <3> QED
      BY <3>1, <3>2
  <2>2. CASE SubscriptionChanges(o)
    BY <1>s, <2>2 DEF SubscriptionChanges
  <2> QED
    BY <1>2, <2>1, <2>2 DEF OrganizationStep
<1>3. ASSUME NEW o \in Orgs, NEW u \in Users, UserStep(o, u) PROVE Goal
  <2>1. CASE CreateOrganization(o, u)
    <3>1. CASE o = q
      <4>1. owner[q] = Nobody /\ owner'[q] = u
        BY <1>0, <1>q, <2>1, <3>1 DEF CreateOrganization, TypeOK
      <4>2. ActiveMembers(q)' = {u} /\ ActiveAdmins(q)' = {u}
        BY <1>0, <1>q, <2>1, <3>1
        DEF CreateOrganization, TypeOK, ActiveMembers, ActiveAdmins
      <4> QED
        BY <4>1, <4>2 DEF Goal, Contract!Next, Contract!Found
    <3>2. CASE o # q
      BY <1>0, <2>1, <3>2, StillStep DEF CreateOrganization, TypeOK, Goal
    <3> QED
      BY <3>1, <3>2
  <2>2. ASSUME NEW v \in Users, TransferOwnership(o, u, v) PROVE Goal
    <3>1. CASE o = q
      <4>1. owner'[q] = v /\ v \in ActiveMembers(q) \ {owner[q]}
        BY <1>0, <2>2, <3>1 DEF TransferOwnership, TypeOK, ActiveMembers
      <4>2. /\ ActiveMembers(q)' = ActiveMembers(q)
            /\ ActiveAdmins(q)' = ActiveAdmins(q) \cup {v}
        BY <1>0, <2>2, <3>1
        DEF TransferOwnership, TypeOK, ActiveMembers, ActiveAdmins
      <4> QED
        BY <4>1, <4>2 DEF Goal, Contract!Next, Contract!HandOver
    <3>2. CASE o # q
      BY <1>0, <2>2, <3>2, StillStep DEF TransferOwnership, TypeOK, Goal
    <3> QED
      BY <3>1, <3>2
  <2>3. CASE AcceptInvitation(o, u)
    <3>1. owner[o] # Nobody /\ u # owner[o]
      BY <1>k, <1>i, <2>3 DEF AcceptInvitation
    <3>2. OnlyRow(o, u)
      BY <1>0, <2>3 DEF AcceptInvitation, TypeOK
    <3> QED
      BY <1>r, <3>1, <3>2
  <2>4. CASE JoinPublic(o, u)
    <3>1. owner[o] # Nobody /\ u # owner[o]
      BY <1>k, <2>4 DEF JoinPublic
    <3>2. OnlyRow(o, u)
      BY <1>0, <2>4 DEF JoinPublic, TypeOK
    <3> QED
      BY <1>r, <3>1, <3>2
  <2>5. CASE \/ EraseOrganization(o, u) \/ InvitationExpires(o, u)
             \/ PurgeExpiredInvitation(o, u) \/ DeclineInvitation(o, u)
             \/ RequestAccess(o, u) \/ CancelRequest(o, u)
    BY <1>s, <2>5 DEF EraseOrganization, InvitationExpires, PurgeExpiredInvitation,
                      DeclineInvitation, RequestAccess, CancelRequest
  <2> QED
    BY <1>3, <2>1, <2>2, <2>3, <2>4, <2>5 DEF UserStep
<1>4. ASSUME NEW o \in Orgs, NEW a \in Users, AdminStep(o, a) PROVE Goal
  <2>1. ASSUME NEW u \in Users, NEW r \in Roles, UpdateRole(o, a, u, r)
        PROVE  Goal
    <3>1. owner[o] # Nobody /\ u # owner[o]
      BY <1>k, <2>1 DEF UpdateRole
    <3>2. OnlyRow(o, u)
      BY <1>0, <2>1 DEF UpdateRole, TypeOK
    <3> QED
      BY <1>r, <3>1, <3>2
  <2>2. ASSUME NEW u \in Users, DeactivateMember(o, a, u) PROVE Goal
    <3>1. owner[o] # Nobody /\ u # owner[o]
      BY <1>k, <2>2 DEF DeactivateMember, MayDeactivate
    <3>2. OnlyRow(o, u)
      BY <1>0, <2>2 DEF DeactivateMember, TypeOK
    <3> QED
      BY <1>r, <3>1, <3>2
  <2>3. ASSUME NEW u \in Users, ReactivateMember(o, a, u) PROVE Goal
    <3>1. owner[o] # Nobody /\ u # owner[o]
      BY <1>k, <2>3 DEF ReactivateMember
    <3>2. OnlyRow(o, u)
      BY <1>0, <2>3 DEF ReactivateMember, TypeOK
    <3> QED
      BY <1>r, <3>1, <3>2
  <2>4. ASSUME NEW u \in Users, ApproveRequest(o, a, u) PROVE Goal
    <3>1. CASE u = owner[o]
      <4>1. UNCHANGED <<owner, standing, role>>
        BY <1>0, <1>k, <2>4, <3>1 DEF ApproveRequest, TypeOK
      <4> QED
        BY <1>s, <4>1
    <3>2. CASE u # owner[o]
      <4>1. owner[o] # Nobody
        BY <1>k, <2>4 DEF ApproveRequest
      <4>2. OnlyRow(o, u)
        BY <1>0, <2>4, <3>2 DEF ApproveRequest, TypeOK
      <4> QED
        BY <1>r, <3>2, <4>1, <4>2
    <3> QED
      BY <3>1, <3>2
  <2>5. ASSUME NEW p \in {"private", "restricted", "public"},
               UpdatePrivacy(o, a, p)
        PROVE  Goal
    BY <1>s, <2>5 DEF UpdatePrivacy
  <2>6. ASSUME NEW u \in Users, NEW r \in Roles, Invite(o, a, u, r)
        PROVE  Goal
    BY <1>s, <2>6 DEF Invite
  <2>7. ASSUME NEW u \in Users, RevokeInvitation(o, a, u) \/ RejectRequest(o, a, u)
        PROVE  Goal
    BY <1>s, <2>7 DEF RevokeInvitation, RejectRequest
  <2> QED
    BY <1>4, <2>1, <2>2, <2>3, <2>4, <2>5, <2>6, <2>7 DEF AdminStep
<1>5. ASSUME NEW o \in Orgs, NEW u \in Users, DirectoryStep(o, u) PROVE Goal
  <2>1. ASSUME NEW r \in Roles, NEW s \in {"active", "deactivated"},
               ScimProvision(o, u, r, s)
        PROVE  Goal
    <3>1. owner[o] # Nobody /\ u # owner[o]
      BY <1>k, <1>i, <2>1 DEF ScimProvision
    <3>2. OnlyRow(o, u)
      BY <1>0, <2>1 DEF ScimProvision, TypeOK
    <3> QED
      BY <1>r, <3>1, <3>2
  <2>2. ASSUME NEW r \in Roles, SsoProvision(o, u, r) PROVE Goal
    <3>1. owner[o] # Nobody /\ u # owner[o]
      BY <1>k, <1>i, <2>2 DEF SsoProvision
    <3>2. OnlyRow(o, u)
      BY <1>0, <2>2 DEF SsoProvision, TypeOK
    <3> QED
      BY <1>r, <3>1, <3>2
  <2>3. CASE ScimDeactivate(o, u)
    <3>1. owner[o] # Nobody /\ u # owner[o]
      BY <1>k, <2>3 DEF ScimDeactivate, MayDeactivate
    <3>2. OnlyRow(o, u)
      BY <1>0, <2>3 DEF ScimDeactivate, TypeOK
    <3> QED
      BY <1>r, <3>1, <3>2
  <2>4. CASE ScimActivate(o, u)
    <3>1. owner[o] # Nobody /\ u # owner[o]
      BY <1>k, <2>4 DEF ScimActivate
    <3>2. OnlyRow(o, u)
      BY <1>0, <2>4 DEF ScimActivate, TypeOK
    <3> QED
      BY <1>r, <3>1, <3>2
  <2>5. CASE SsoReactivate(o, u)
    <3>1. owner[o] # Nobody /\ u # owner[o]
      BY <1>k, <2>5 DEF SsoReactivate
    <3>2. OnlyRow(o, u)
      BY <1>0, <2>5 DEF SsoReactivate, TypeOK
    <3> QED
      BY <1>r, <3>1, <3>2
  <2>6. ASSUME NEW r \in Roles, ScimAskConsent(o, u, r) PROVE Goal
    BY <1>s, <2>6 DEF ScimAskConsent
  <2> QED
    BY <1>5, <2>1, <2>2, <2>3, <2>4, <2>5, <2>6 DEF DirectoryStep
<1>6. ASSUME UNCHANGED vars PROVE Goal
  BY <1>s, <1>6 DEF vars
<1>7. Goal
  BY <1>1, <1>2, <1>3, <1>4, <1>5, <1>6 DEF Next
<1> QED
  BY <1>7 DEF Goal

(***************************************************************************)
(* Every organization keeps the contract of Ownership: the refinement      *)
(* checked by TLC, for every instance.                                     *)
(***************************************************************************)
THEOREM KeepsContract == Spec => OwnershipKept
<1>1. Init => \A o \in Orgs : Contract(o)!Init
  BY DEF Init, Contract!Init, ActiveMembers, ActiveAdmins, IsActiveAdmin, IsActive
<1>2. IInv /\ [Next]_vars
        => [\A o \in Orgs : [Contract(o)!Next]_(Contract(o)!vars)]_vars
  BY ContractStep
<1> QED
  BY <1>1, <1>2, Invariance, PTL DEF Spec, OwnershipKept
-----------------------------------------------------------------------------
(***************************************************************************)
(* Every handler that can change the standing of u in o.                   *)
(***************************************************************************)
WritesStanding(o, u) ==
  \/ RedactUser(u) \/ DestroyUser(u) \/ PurgeRedactedUser(u)
  \/ PurgeOrganization(o)
  \/ CreateOrganization(o, u) \/ AcceptInvitation(o, u) \/ JoinPublic(o, u)
  \/ \E a \in Users : \/ DeactivateMember(o, a, u)
                      \/ ReactivateMember(o, a, u)
                      \/ ApproveRequest(o, a, u)
  \/ \E r \in Roles : \/ \E s \in {"active", "deactivated"} : ScimProvision(o, u, r, s)
                      \/ SsoProvision(o, u, r)
  \/ ScimActivate(o, u) \/ ScimDeactivate(o, u) \/ SsoReactivate(o, u)

LEMMA StandingWriters ==
  ASSUME TypeOK, [Next]_vars, NEW o \in Orgs, NEW u \in Users,
         standing'[o][u] # standing[o][u]
  PROVE  WritesStanding(o, u)
<1> USE DEF TypeOK, Enroll, SetStanding
<1>1. ASSUME NEW v \in Users, AccountStep(v) PROVE WritesStanding(o, u)
  <2>1. ~ SignUp(v)
    BY DEF SignUp, membershipVars
  <2>2. CASE RedactUser(v)
    <3>1. v = u
      BY <2>2 DEF RedactUser
    <3> QED
      BY <2>2, <3>1 DEF WritesStanding
  <2>3. CASE DestroyUser(v)
    <3>1. v = u
      BY <2>3 DEF DestroyUser, ForgetUser
    <3> QED
      BY <2>3, <3>1 DEF WritesStanding
  <2>4. CASE PurgeRedactedUser(v)
    <3>1. v = u
      BY <2>4 DEF PurgeRedactedUser, ForgetUser
    <3> QED
      BY <2>4, <3>1 DEF WritesStanding
  <2> QED
    BY <1>1, <2>1, <2>2, <2>3, <2>4 DEF AccountStep
<1>2. ASSUME NEW p \in Orgs, OrganizationStep(p) PROVE WritesStanding(o, u)
  <2>1. ~ SubscriptionChanges(p)
    BY DEF SubscriptionChanges, membershipVars
  <2>2. p = o /\ PurgeOrganization(p)
    BY <1>2, <2>1 DEF OrganizationStep, PurgeOrganization
  <2> QED
    BY <2>2 DEF WritesStanding
<1>3. ASSUME NEW p \in Orgs, NEW v \in Users, UserStep(p, v)
      PROVE  WritesStanding(o, u)
  <2>1. ~ \/ EraseOrganization(p, v)
          \/ \E w \in Users : TransferOwnership(p, v, w)
          \/ InvitationExpires(p, v) \/ PurgeExpiredInvitation(p, v)
          \/ DeclineInvitation(p, v) \/ RequestAccess(p, v) \/ CancelRequest(p, v)
    BY DEF EraseOrganization, TransferOwnership, InvitationExpires,
           PurgeExpiredInvitation, DeclineInvitation, RequestAccess,
           CancelRequest, membershipVars
  <2>2. CASE CreateOrganization(p, v)
    <3>1. p = o /\ v = u
      BY <2>2 DEF CreateOrganization
    <3> QED
      BY <2>2, <3>1 DEF WritesStanding
  <2>3. CASE AcceptInvitation(p, v)
    <3>1. p = o /\ v = u
      BY <2>3 DEF AcceptInvitation
    <3> QED
      BY <2>3, <3>1 DEF WritesStanding
  <2>4. CASE JoinPublic(p, v)
    <3>1. p = o /\ v = u
      BY <2>4 DEF JoinPublic
    <3> QED
      BY <2>4, <3>1 DEF WritesStanding
  <2> QED
    BY <1>3, <2>1, <2>2, <2>3, <2>4 DEF UserStep
<1>4. ASSUME NEW p \in Orgs, NEW a \in Users, AdminStep(p, a)
      PROVE  WritesStanding(o, u)
  <2>1. ~ \E s \in {"private", "restricted", "public"} : UpdatePrivacy(p, a, s)
    BY DEF UpdatePrivacy, membershipVars
  <2>2. PICK v \in Users :
          \/ \E r \in Roles : UpdateRole(p, a, v, r) \/ Invite(p, a, v, r)
          \/ DeactivateMember(p, a, v) \/ ReactivateMember(p, a, v)
          \/ RevokeInvitation(p, a, v) \/ ApproveRequest(p, a, v)
          \/ RejectRequest(p, a, v)
    BY <1>4, <2>1 DEF AdminStep
  <2>3. ~ \/ \E r \in Roles : UpdateRole(p, a, v, r) \/ Invite(p, a, v, r)
          \/ RevokeInvitation(p, a, v) \/ RejectRequest(p, a, v)
    BY DEF UpdateRole, Invite, RevokeInvitation, RejectRequest, membershipVars
  <2>4. CASE DeactivateMember(p, a, v)
    <3>1. p = o /\ v = u
      BY <2>4 DEF DeactivateMember
    <3> QED
      BY <2>4, <3>1 DEF WritesStanding
  <2>5. CASE ReactivateMember(p, a, v)
    <3>1. p = o /\ v = u
      BY <2>5 DEF ReactivateMember
    <3> QED
      BY <2>5, <3>1 DEF WritesStanding
  <2>6. CASE ApproveRequest(p, a, v)
    <3>1. p = o /\ v = u
      BY <2>6 DEF ApproveRequest
    <3> QED
      BY <2>6, <3>1 DEF WritesStanding
  <2> QED
    BY <2>2, <2>3, <2>4, <2>5, <2>6
<1>5. ASSUME NEW p \in Orgs, NEW v \in Users, DirectoryStep(p, v)
      PROVE  WritesStanding(o, u)
  <2>1. ~ \E r \in Roles : ScimAskConsent(p, v, r)
    BY DEF ScimAskConsent, membershipVars
  <2>2. ASSUME NEW r \in Roles, NEW s \in {"active", "deactivated"},
               ScimProvision(p, v, r, s)
        PROVE  WritesStanding(o, u)
    <3>1. p = o /\ v = u
      BY <2>2 DEF ScimProvision
    <3> QED
      BY <2>2, <3>1 DEF WritesStanding
  <2>3. ASSUME NEW r \in Roles, SsoProvision(p, v, r)
        PROVE  WritesStanding(o, u)
    <3>1. p = o /\ v = u
      BY <2>3 DEF SsoProvision
    <3> QED
      BY <2>3, <3>1 DEF WritesStanding
  <2>4. CASE ScimActivate(p, v)
    <3>1. p = o /\ v = u
      BY <2>4 DEF ScimActivate
    <3> QED
      BY <2>4, <3>1 DEF WritesStanding
  <2>5. CASE ScimDeactivate(p, v)
    <3>1. p = o /\ v = u
      BY <2>5 DEF ScimDeactivate
    <3> QED
      BY <2>5, <3>1 DEF WritesStanding
  <2>6. CASE SsoReactivate(p, v)
    <3>1. p = o /\ v = u
      BY <2>6 DEF SsoReactivate
    <3> QED
      BY <2>6, <3>1 DEF WritesStanding
  <2> QED
    BY <1>5, <2>1, <2>2, <2>3, <2>4, <2>5, <2>6 DEF DirectoryStep
<1>6. ~ UNCHANGED vars
  BY DEF vars
<1> QED
  BY <1>1, <1>2, <1>3, <1>4, <1>5, <1>6 DEF Next

(***************************************************************************)
(* A membership that the closure of its account deactivated is never       *)
(* revived.                                                                *)
(***************************************************************************)
THEOREM ClosedMembershipsNeverRevived == Spec => ClosedMembershipStaysClosed
<1>1. ASSUME IInv, [Next]_vars, NEW o \in Orgs, NEW u \in Users,
             account[u] = "redacted", standing[o][u] = "deactivated",
             standing'[o][u] = "active"
      PROVE  FALSE
  <2> USE <1>1 DEF IInv, TypeOK, RowsHaveParents
  <2>1. WritesStanding(o, u)
    BY StandingWriters
  <2>2. ~ (RedactUser(u) \/ DestroyUser(u) \/ PurgeRedactedUser(u))
    BY DEF RedactUser, DestroyUser, PurgeRedactedUser, MayClose
  <2>3. ~ PurgeOrganization(o)
    BY DEF PurgeOrganization
  <2>4. ~ (CreateOrganization(o, u) \/ AcceptInvitation(o, u) \/ JoinPublic(o, u))
    BY DEF CreateOrganization, AcceptInvitation, JoinPublic
  <2>5. ~ \E a \in Users : \/ DeactivateMember(o, a, u)
                           \/ ReactivateMember(o, a, u)
                           \/ ApproveRequest(o, a, u)
    BY DEF DeactivateMember, ReactivateMember, ApproveRequest, IsActive
  <2>6. ~ \E r \in Roles :
            \/ \E s \in {"active", "deactivated"} : ScimProvision(o, u, r, s)
            \/ SsoProvision(o, u, r)
    BY DEF ScimProvision, SsoProvision
  <2>7. ~ (ScimActivate(o, u) \/ ScimDeactivate(o, u) \/ SsoReactivate(o, u))
    BY DEF ScimActivate, ScimDeactivate, SsoReactivate, IsActive
  <2> QED
    BY <2>1, <2>2, <2>3, <2>4, <2>5, <2>6, <2>7 DEF WritesStanding
<1>2. IInv /\ [Next]_vars =>
        [\A o \in Orgs, u \in Users :
           account[u] = "redacted" /\ standing[o][u] = "deactivated"
             => standing'[o][u] # "active"]_vars
  BY <1>1
<1> QED
  BY <1>2, Invariance, PTL DEF ClosedMembershipStaysClosed, Spec

(***************************************************************************)
(* A membership row goes only with its whole organization, or with an      *)
(* account that holds no active membership and owns nothing.               *)
(***************************************************************************)
THEOREM HistoryAlwaysRetained == Spec => HistoryRetained
<1>1. ASSUME IInv, [Next]_vars, NEW o \in Orgs, NEW u \in Users,
             standing[o][u] # "none", standing'[o][u] = "none"
      PROVE  \/ status[o] = "deleted" /\ status'[o] = "absent"
             \/ /\ account'[u] = "absent"
                /\ \A p \in Orgs : ~IsActive(p, u) /\ owner[p] # u
  <2> USE <1>1 DEF IInv, TypeOK, Enroll, SetStanding
  <2>1. WritesStanding(o, u)
    BY StandingWriters
  <2>2. ~ (RedactUser(u) \/ PurgeRedactedUser(u))
    BY DEF RedactUser, PurgeRedactedUser
  <2>3. CASE PurgeOrganization(o)
    BY <2>3 DEF PurgeOrganization
  <2>4. CASE DestroyUser(u)
    BY <2>4 DEF DestroyUser, MayClose, ForgetUser
  <2>5. ~ (CreateOrganization(o, u) \/ AcceptInvitation(o, u) \/ JoinPublic(o, u))
    BY DEF CreateOrganization, AcceptInvitation, JoinPublic
  <2>6. ~ \E a \in Users : \/ DeactivateMember(o, a, u)
                           \/ ReactivateMember(o, a, u)
                           \/ ApproveRequest(o, a, u)
    BY DEF DeactivateMember, ReactivateMember, ApproveRequest
  <2>7. ~ \E r \in Roles :
            \/ \E s \in {"active", "deactivated"} : ScimProvision(o, u, r, s)
            \/ SsoProvision(o, u, r)
    BY DEF ScimProvision, SsoProvision
  <2>8. ~ (ScimActivate(o, u) \/ ScimDeactivate(o, u) \/ SsoReactivate(o, u))
    BY DEF ScimActivate, ScimDeactivate, SsoReactivate
  <2> QED
    BY <2>1, <2>2, <2>3, <2>4, <2>5, <2>6, <2>7, <2>8 DEF WritesStanding
<1>2. IInv /\ [Next]_vars =>
        [\A o \in Orgs, u \in Users :
           standing[o][u] # "none" /\ standing'[o][u] = "none"
             => \/ status[o] = "deleted" /\ status'[o] = "absent"
                \/ /\ account'[u] = "absent"
                   /\ \A p \in Orgs : ~IsActive(p, u) /\ owner[p] # u]_vars
  BY <1>1
<1> QED
  BY <1>2, Invariance, PTL DEF HistoryRetained, Spec

(***************************************************************************)
(* Where there is no membership there is neither a role to inherit nor an  *)
(* approval to use again: whoever comes first comes as a member.           *)
(***************************************************************************)
NothingInherited ==
  \A o \in Orgs, u \in Users :
    standing[o][u] = "none" => role[o][u] = "member" /\ request[o][u] # "approved"

LEMMA NextNothingInherited ==
  TypeOK /\ NothingInherited /\ [Next]_vars => NothingInherited'
<1> SUFFICES ASSUME TypeOK, NothingInherited, [Next]_vars PROVE NothingInherited'
  OBVIOUS
<1> USE TenancyAssumption DEF TypeOK, NothingInherited, membershipVars, Enroll,
        SetStanding
<1>1. ASSUME NEW u \in Users, AccountStep(u) PROVE NothingInherited'
  <2>1. CASE SignUp(u)
    BY <2>1 DEF SignUp
  <2>2. CASE RedactUser(u)
    BY <2>2 DEF RedactUser
  <2>3. CASE DestroyUser(u)
    BY <2>3 DEF DestroyUser, ForgetUser
  <2>4. CASE PurgeRedactedUser(u)
    BY <2>4 DEF PurgeRedactedUser, ForgetUser
  <2> QED
    BY <1>1, <2>1, <2>2, <2>3, <2>4 DEF AccountStep
<1>2. ASSUME NEW o \in Orgs, OrganizationStep(o) PROVE NothingInherited'
  BY <1>2 DEF OrganizationStep, PurgeOrganization, SubscriptionChanges
<1>3. ASSUME NEW o \in Orgs, NEW u \in Users, UserStep(o, u)
      PROVE  NothingInherited'
  <2>1. CASE CreateOrganization(o, u)
    BY <2>1 DEF CreateOrganization
  <2>2. ASSUME NEW v \in Users, TransferOwnership(o, u, v)
        PROVE  NothingInherited'
    BY <2>2 DEF TransferOwnership, IsActive
  <2>3. CASE AcceptInvitation(o, u)
    BY <2>3 DEF AcceptInvitation
  <2>4. CASE JoinPublic(o, u)
    BY <2>4 DEF JoinPublic
  <2>5. CASE RequestAccess(o, u)
    BY <2>5 DEF RequestAccess
  <2>6. CASE CancelRequest(o, u)
    BY <2>6 DEF CancelRequest
  <2>7. CASE \/ EraseOrganization(o, u) \/ InvitationExpires(o, u)
             \/ PurgeExpiredInvitation(o, u) \/ DeclineInvitation(o, u)
    BY <2>7 DEF EraseOrganization, InvitationExpires, PurgeExpiredInvitation,
                DeclineInvitation
  <2> QED
    BY <1>3, <2>1, <2>2, <2>3, <2>4, <2>5, <2>6, <2>7 DEF UserStep
<1>4. ASSUME NEW o \in Orgs, NEW a \in Users, AdminStep(o, a)
      PROVE  NothingInherited'
  <2>1. ASSUME NEW u \in Users, NEW r \in Roles, UpdateRole(o, a, u, r)
        PROVE  NothingInherited'
    BY <2>1 DEF UpdateRole
  <2>2. ASSUME NEW u \in Users, DeactivateMember(o, a, u)
        PROVE  NothingInherited'
    BY <2>2 DEF DeactivateMember
  <2>3. ASSUME NEW u \in Users, ReactivateMember(o, a, u)
        PROVE  NothingInherited'
    BY <2>3 DEF ReactivateMember
  <2>4. ASSUME NEW u \in Users, ApproveRequest(o, a, u)
        PROVE  NothingInherited'
    BY <2>4 DEF ApproveRequest
  <2>5. ASSUME NEW u \in Users, RejectRequest(o, a, u)
        PROVE  NothingInherited'
    BY <2>5 DEF RejectRequest
  <2>6. ASSUME NEW p \in {"private", "restricted", "public"},
               NEW u \in Users, NEW r \in Roles,
               \/ UpdatePrivacy(o, a, p) \/ Invite(o, a, u, r)
               \/ RevokeInvitation(o, a, u)
        PROVE  NothingInherited'
    BY <2>6 DEF UpdatePrivacy, Invite, RevokeInvitation
  <2> QED
    BY <1>4, <2>1, <2>2, <2>3, <2>4, <2>5, <2>6 DEF AdminStep
<1>5. ASSUME NEW o \in Orgs, NEW u \in Users, DirectoryStep(o, u)
      PROVE  NothingInherited'
  <2>1. ASSUME NEW r \in Roles, NEW s \in {"active", "deactivated"},
               ScimProvision(o, u, r, s)
        PROVE  NothingInherited'
    BY <2>1 DEF ScimProvision
  <2>2. ASSUME NEW r \in Roles, SsoProvision(o, u, r)
        PROVE  NothingInherited'
    BY <2>2 DEF SsoProvision
  <2>3. ASSUME NEW r \in Roles, ScimAskConsent(o, u, r)
        PROVE  NothingInherited'
    BY <2>3 DEF ScimAskConsent
  <2>4. CASE ScimActivate(o, u)
    BY <2>4 DEF ScimActivate
  <2>5. CASE ScimDeactivate(o, u)
    BY <2>5 DEF ScimDeactivate
  <2>6. CASE SsoReactivate(o, u)
    BY <2>6 DEF SsoReactivate
  <2> QED
    BY <1>5, <2>1, <2>2, <2>3, <2>4, <2>5, <2>6 DEF DirectoryStep
<1>6. CASE UNCHANGED vars
  BY <1>6 DEF vars
<1> QED
  BY <1>1, <1>2, <1>3, <1>4, <1>5, <1>6 DEF Next

(***************************************************************************)
(* Nobody enters an organization for the first time unless he founds it,   *)
(* it is public, an admin invited or approved him, or the directory made   *)
(* his account; and with no more rights than that gives.                   *)
(***************************************************************************)
THEOREM NobodyWalksIn == Spec => NobodyEntersUninvited
<1>1. Init => NothingInherited
  BY DEF Init, NothingInherited
<1>2. ASSUME IInv, NothingInherited, [Next]_vars,
             NEW o \in Orgs, NEW u \in Users,
             standing[o][u] = "none", standing'[o][u] # "none"
      PROVE  \/ status[o] = "absent" /\ owner'[o] = u
             \/ o \in Connected /\ account[u] = "absent"
             \/ /\ privacy[o] = "public" \/ request[o][u] = "pending"
                /\ role'[o][u] = "member"
             \/ invitation[o][u] = "pending" /\ role'[o][u] = offered[o][u]
  <2> USE <1>2 DEF IInv, TypeOK, Enroll, SetStanding
  <2>1. WritesStanding(o, u)
    BY StandingWriters
  <2>2. ~ (RedactUser(u) \/ DestroyUser(u) \/ PurgeRedactedUser(u))
    BY DEF RedactUser, DestroyUser, PurgeRedactedUser, ForgetUser
  <2>3. ~ PurgeOrganization(o)
    BY DEF PurgeOrganization
  <2>4. CASE CreateOrganization(o, u)
    BY <2>4 DEF CreateOrganization
  <2>5. CASE AcceptInvitation(o, u)
    BY <2>5 DEF AcceptInvitation
  <2>6. CASE JoinPublic(o, u)
    BY <2>6 DEF JoinPublic, NothingInherited
  <2>7. ASSUME NEW a \in Users, ApproveRequest(o, a, u)
        PROVE  request[o][u] = "pending" /\ role'[o][u] = "member"
    BY <2>7 DEF ApproveRequest, NothingInherited
  <2>8. ~ \E a \in Users : DeactivateMember(o, a, u) \/ ReactivateMember(o, a, u)
    BY DEF DeactivateMember, ReactivateMember, IsActive
  <2>9. ASSUME NEW r \in Roles, NEW s \in {"active", "deactivated"},
               ScimProvision(o, u, r, s) \/ SsoProvision(o, u, r)
        PROVE  o \in Connected /\ account[u] = "absent"
    BY <2>9 DEF ScimProvision, SsoProvision, HasConnection
  <2>10. ~ (ScimActivate(o, u) \/ ScimDeactivate(o, u) \/ SsoReactivate(o, u))
    BY DEF ScimActivate, ScimDeactivate, SsoReactivate, IsActive
  <2> QED
    BY <2>1, <2>2, <2>3, <2>4, <2>5, <2>6, <2>7, <2>8, <2>9, <2>10
    DEF WritesStanding
<1>3. IInv /\ NothingInherited /\ [Next]_vars => NothingInherited'
  BY NextNothingInherited DEF IInv
<1>4. IInv /\ NothingInherited /\ [Next]_vars =>
        [\A o \in Orgs, u \in Users :
           standing[o][u] = "none" /\ standing'[o][u] # "none"
             => \/ status[o] = "absent" /\ owner'[o] = u
                \/ o \in Connected /\ account[u] = "absent"
                \/ /\ privacy[o] = "public" \/ request[o][u] = "pending"
                   /\ role'[o][u] = "member"
                \/ invitation[o][u] = "pending" /\ role'[o][u] = offered[o][u]]_vars
  BY <1>2
<1> QED
  BY <1>1, <1>3, <1>4, Invariance, PTL DEF NobodyEntersUninvited, Spec

(***************************************************************************)
(* An account that is closed has no invitation, and is sent none.          *)
(***************************************************************************)
ClosedNotInvited ==
  \A o \in Orgs, u \in Users : account[u] = "redacted" => invitation[o][u] = "none"

LEMMA NextClosedNotInvited ==
  ASSUME TypeOK, ClosedNotInvited, [Next]_vars
  PROVE  \A o \in Orgs, u \in Users :
           account[u] = "redacted" \/ account'[u] = "redacted"
             => invitation'[o][u] = "none"
<1> DEFINE StillNotInvited ==
             \A o \in Orgs, u \in Users :
               account[u] = "redacted" \/ account'[u] = "redacted"
                 => invitation'[o][u] = "none"
<1> USE DEF TypeOK, ClosedNotInvited, invitationVars, accountVars, OfferInvitation,
            DropInvitation
<1>1. ASSUME NEW u \in Users, AccountStep(u) PROVE StillNotInvited
  <2>1. CASE SignUp(u)
    BY <2>1 DEF SignUp
  <2>2. CASE RedactUser(u)
    BY <2>2 DEF RedactUser, ForgetInvitations
  <2>3. CASE DestroyUser(u) \/ PurgeRedactedUser(u)
    BY <2>3 DEF DestroyUser, PurgeRedactedUser, ForgetUser, ForgetInvitations
  <2> QED
    BY <1>1, <2>1, <2>2, <2>3 DEF AccountStep
<1>2. ASSUME NEW o \in Orgs, OrganizationStep(o) PROVE StillNotInvited
  <2>1. account' = account
    BY <1>2 DEF OrganizationStep, PurgeOrganization, SubscriptionChanges
  <2>2. CASE PurgeOrganization(o)
    <3>1. invitation' = [invitation EXCEPT ![o] = [u \in Users |-> "none"]]
      BY <2>2 DEF PurgeOrganization
    <3>2. \A p \in Orgs, u \in Users :
            invitation'[p][u] = IF p = o THEN "none" ELSE invitation[p][u]
      BY <3>1
    <3> QED
      BY <2>1, <3>2
  <2>3. CASE SubscriptionChanges(o)
    BY <2>1, <2>3 DEF SubscriptionChanges
  <2> QED
    BY <1>2, <2>2, <2>3 DEF OrganizationStep
<1>3. ASSUME NEW o \in Orgs, NEW u \in Users, UserStep(o, u)
      PROVE  StillNotInvited
  <2>1. CASE EraseOrganization(o, u)
    BY <2>1 DEF EraseOrganization
  <2>2. CASE InvitationExpires(o, u)
    BY <2>2 DEF InvitationExpires
  <2>3. CASE \/ PurgeExpiredInvitation(o, u) \/ AcceptInvitation(o, u)
             \/ DeclineInvitation(o, u)
    <3>1. /\ account' = account
          /\ invitation' = [invitation EXCEPT ![o][u] = "none"]
      BY <2>3 DEF PurgeExpiredInvitation, AcceptInvitation, DeclineInvitation
    <3>2. \A p \in Orgs, v \in Users :
            invitation'[p][v] = "none" \/ invitation'[p][v] = invitation[p][v]
      BY <3>1
    <3> QED
      BY <3>1, <3>2
  <2>4. CASE \/ CreateOrganization(o, u) \/ JoinPublic(o, u)
             \/ RequestAccess(o, u) \/ CancelRequest(o, u)
             \/ \E v \in Users : TransferOwnership(o, u, v)
    BY <2>4 DEF CreateOrganization, JoinPublic, RequestAccess, CancelRequest,
                TransferOwnership
  <2> QED
    BY <1>3, <2>1, <2>2, <2>3, <2>4 DEF UserStep
<1>4. ASSUME NEW o \in Orgs, NEW a \in Users, AdminStep(o, a)
      PROVE  StillNotInvited
  <2>1. ASSUME NEW u \in Users, NEW r \in Roles, Invite(o, a, u, r)
        PROVE  StillNotInvited
    BY <2>1 DEF Invite
  <2>2. ASSUME NEW u \in Users, RevokeInvitation(o, a, u)
        PROVE  StillNotInvited
    BY <2>2 DEF RevokeInvitation
  <2>3. ASSUME NEW u \in Users, NEW r \in Roles,
               NEW p \in {"private", "restricted", "public"},
               \/ UpdatePrivacy(o, a, p) \/ UpdateRole(o, a, u, r)
               \/ DeactivateMember(o, a, u) \/ ReactivateMember(o, a, u)
               \/ ApproveRequest(o, a, u) \/ RejectRequest(o, a, u)
        PROVE  StillNotInvited
    BY <2>3 DEF UpdatePrivacy, UpdateRole, DeactivateMember, ReactivateMember,
                ApproveRequest, RejectRequest
  <2> QED
    BY <1>4, <2>1, <2>2, <2>3, TenancyAssumption DEF AdminStep
<1>5. ASSUME NEW o \in Orgs, NEW u \in Users, DirectoryStep(o, u)
      PROVE  StillNotInvited
  <2>1. ASSUME NEW r \in Roles, ScimAskConsent(o, u, r) PROVE StillNotInvited
    BY <2>1 DEF ScimAskConsent
  <2>2. ASSUME NEW r \in Roles, NEW s \in {"active", "deactivated"},
               ScimProvision(o, u, r, s) \/ SsoProvision(o, u, r)
        PROVE  StillNotInvited
    BY <2>2 DEF ScimProvision, SsoProvision
  <2>3. CASE ScimActivate(o, u) \/ ScimDeactivate(o, u) \/ SsoReactivate(o, u)
    BY <2>3 DEF ScimActivate, ScimDeactivate, SsoReactivate
  <2> QED
    BY <1>5, <2>1, <2>2, <2>3 DEF DirectoryStep
<1>6. CASE UNCHANGED vars
  BY <1>6 DEF vars
<1> QED
  BY <1>1, <1>2, <1>3, <1>4, <1>5, <1>6 DEF Next

(* A request becomes pending only when an open account asks.               *)
LEMMA RequestWriters ==
  ASSUME TypeOK, [Next]_vars, NEW o \in Orgs, NEW u \in Users,
         request[o][u] # "pending", request'[o][u] = "pending"
  PROVE  account[u] = "active"
<1> USE DEF TypeOK
<1>1. ASSUME NEW v \in Users, AccountStep(v) PROVE FALSE
  BY <1>1 DEF AccountStep, SignUp, RedactUser, DestroyUser, PurgeRedactedUser, ForgetUser
<1>2. ASSUME NEW p \in Orgs, OrganizationStep(p) PROVE FALSE
  BY <1>2 DEF OrganizationStep, PurgeOrganization, SubscriptionChanges
<1>3. ASSUME NEW p \in Orgs, NEW v \in Users, UserStep(p, v)
      PROVE  account[u] = "active"
  <2>1. CASE RequestAccess(p, v)
    BY <2>1 DEF RequestAccess
  <2>2. ~ CancelRequest(p, v)
    <3>1. SUFFICES ASSUME CancelRequest(p, v) PROVE FALSE
      OBVIOUS
    <3>2. request' = [request EXCEPT ![p][v] = "none"]
      BY <3>1 DEF CancelRequest
    <3>3. request'[o][u] = "none" \/ request'[o][u] = request[o][u]
      BY <3>2
    <3> QED
      BY <3>3
  <2>3. ~ \/ CreateOrganization(p, v) \/ EraseOrganization(p, v)
          \/ (\E w \in Users : TransferOwnership(p, v, w))
          \/ InvitationExpires(p, v) \/ PurgeExpiredInvitation(p, v)
          \/ AcceptInvitation(p, v) \/ DeclineInvitation(p, v) \/ JoinPublic(p, v)
    BY DEF CreateOrganization, EraseOrganization, TransferOwnership, InvitationExpires,
           PurgeExpiredInvitation, AcceptInvitation, DeclineInvitation, JoinPublic
  <2> QED
    BY <1>3, <2>1, <2>2, <2>3 DEF UserStep
<1>4. ASSUME NEW p \in Orgs, NEW a \in Users, AdminStep(p, a) PROVE FALSE
  <2>1. ~ \E s \in {"private", "restricted", "public"} : UpdatePrivacy(p, a, s)
    BY DEF UpdatePrivacy
  <2>2. ASSUME NEW v \in Users, ApproveRequest(p, a, v) \/ RejectRequest(p, a, v)
        PROVE  FALSE
    <3>1. CASE request' = [request EXCEPT ![p][v] = "approved"]
      <4>1. request'[o][u] = "approved" \/ request'[o][u] = request[o][u]
        BY <3>1
      <4> QED
        BY <4>1
    <3>2. CASE request' = [request EXCEPT ![p][v] = "none"]
      <4>1. request'[o][u] = "none" \/ request'[o][u] = request[o][u]
        BY <3>2
      <4> QED
        BY <4>1
    <3> QED
      BY <2>2, <3>1, <3>2 DEF ApproveRequest, RejectRequest
  <2>3. ~ \E v \in Users :
          \/ \E r \in Roles : UpdateRole(p, a, v, r) \/ Invite(p, a, v, r)
          \/ DeactivateMember(p, a, v) \/ ReactivateMember(p, a, v)
          \/ RevokeInvitation(p, a, v)
    BY DEF UpdateRole, Invite, DeactivateMember, ReactivateMember, RevokeInvitation
  <2> QED
    BY <1>4, <2>1, <2>2, <2>3 DEF AdminStep
<1>5. ASSUME NEW p \in Orgs, NEW v \in Users, DirectoryStep(p, v) PROVE FALSE
  BY <1>5 DEF DirectoryStep, ScimProvision, ScimAskConsent, SsoProvision,
              ScimActivate, ScimDeactivate, SsoReactivate
<1>6. ~ UNCHANGED vars
  BY DEF vars
<1> QED
  BY <1>1, <1>2, <1>3, <1>4, <1>5, <1>6 DEF Next

(***************************************************************************)
(* A closed account gets a membership only by the approval of a request    *)
(* that it left behind, where it had none; and nothing else.               *)
(***************************************************************************)
THEOREM ClosedEnterOneWay == Spec => ClosedEnterByOldRequestOnly
<1>1. Init => NothingInherited /\ ClosedNotInvited
  BY DEF Init, NothingInherited, ClosedNotInvited
<1>2. IInv /\ NothingInherited /\ ClosedNotInvited /\ [Next]_vars
        => NothingInherited' /\ ClosedNotInvited'
  BY NextNothingInherited, NextClosedNotInvited DEF IInv, ClosedNotInvited
<1>3. ASSUME IInv, NothingInherited, [Next]_vars, NEW o \in Orgs, NEW u \in Users,
             account[u] = "redacted", ~IsActive(o, u), standing'[o][u] = "active"
      PROVE  standing[o][u] = "none" /\ request[o][u] = "pending"
  <2> USE <1>3 DEF IInv, TypeOK, IsActive
  <2>1. WritesStanding(o, u)
    BY StandingWriters
  <2>2. ~ (RedactUser(u) \/ DestroyUser(u) \/ PurgeRedactedUser(u))
    BY DEF RedactUser, DestroyUser, PurgeRedactedUser, MayClose, ForgetUser
  <2>3. ~ PurgeOrganization(o)
    BY DEF PurgeOrganization
  <2>4. ~ (CreateOrganization(o, u) \/ AcceptInvitation(o, u) \/ JoinPublic(o, u))
    BY DEF CreateOrganization, AcceptInvitation, JoinPublic
  <2>5. ~ \E a \in Users : DeactivateMember(o, a, u) \/ ReactivateMember(o, a, u)
    BY DEF DeactivateMember, ReactivateMember
  <2>6. ASSUME NEW a \in Users, ApproveRequest(o, a, u)
        PROVE  standing[o][u] = "none" /\ request[o][u] # "none"
    BY <2>6 DEF ApproveRequest
  <2>7. ~ \E r \in Roles :
            \/ \E s \in {"active", "deactivated"} : ScimProvision(o, u, r, s)
            \/ SsoProvision(o, u, r)
    BY DEF ScimProvision, SsoProvision
  <2>8. ~ (ScimActivate(o, u) \/ ScimDeactivate(o, u) \/ SsoReactivate(o, u))
    BY DEF ScimActivate, ScimDeactivate, SsoReactivate
  <2> QED
    BY <2>1, <2>2, <2>3, <2>4, <2>5, <2>6, <2>7, <2>8
       DEF WritesStanding, NothingInherited
<1>4. IInv /\ NothingInherited /\ ClosedNotInvited /\ [Next]_vars =>
        [\A o \in Orgs, u \in Users : account[u] = "redacted" =>
           /\ ~IsActive(o, u) /\ standing'[o][u] = "active"
                => standing[o][u] = "none" /\ request[o][u] = "pending"
           /\ request'[o][u] = "pending" => request[o][u] = "pending"
           /\ invitation'[o][u] = "none"]_vars
  <2> SUFFICES ASSUME IInv, NothingInherited, ClosedNotInvited, [Next]_vars,
                      NEW o \in Orgs, NEW u \in Users, account[u] = "redacted"
               PROVE  /\ ~IsActive(o, u) /\ standing'[o][u] = "active"
                           => standing[o][u] = "none" /\ request[o][u] = "pending"
                      /\ request'[o][u] = "pending" => request[o][u] = "pending"
                      /\ invitation'[o][u] = "none"
    OBVIOUS
  <2>1. request'[o][u] = "pending" => request[o][u] = "pending"
    BY RequestWriters DEF IInv
  <2>2. invitation'[o][u] = "none"
    BY NextClosedNotInvited DEF IInv
  <2> QED
    BY <1>3, <2>1, <2>2
<1> QED
  BY <1>1, <1>2, <1>4, Invariance, PTL DEF ClosedEnterByOldRequestOnly, Spec

(***************************************************************************)
(* The owner of an organization that is not deleted can administer it, as  *)
(* long as no closed account has come back: the owner is an active admin   *)
(* of an account that exists, and a closed one would have to be back.      *)
(***************************************************************************)
THEOREM OwnerAlwaysCanAdminister == Spec => []OwnerCanAdminister
<1>1. ASSUME IInv, ClosedAccountStaysOut, NEW o \in Orgs, status[o] = "kept"
      PROVE  MayAdminister(o, owner[o])
  <2>1. owner[o] \in Users /\ IsActiveAdmin(o, owner[o])
    BY <1>1 DEF IInv, TypeOK, OwnerIsActiveAdmin
  <2>2. account[owner[o]] # "absent"
    BY <1>1, <2>1 DEF IInv, RowsHaveParents, IsActiveAdmin, IsActive
  <2>3. account[owner[o]] # "redacted"
    BY <1>1, <2>1 DEF ClosedAccountStaysOut, IsActiveAdmin
  <2>4. account[owner[o]] = "active"
    BY <1>1, <2>1, <2>2, <2>3 DEF IInv, TypeOK
  <2> QED
    BY <1>1, <2>1, <2>4 DEF MayAdminister, MayEnter, IsActiveAdmin
<1>2. IInv => OwnerCanAdminister
  BY <1>1 DEF OwnerCanAdminister
<1> QED
  BY <1>2, Invariance, PTL
=============================================================================
