------------------------------ MODULE Tenancy ------------------------------
(***************************************************************************)
(* Accounts, organizations and the rows that tie them together: one        *)
(* membership, at most one invitation and at most one join request for     *)
(* each organization and account (the unique indexes of db/schema.rb).     *)
(*                                                                         *)
(* Every action is one controller action, job iteration or directory call, *)
(* executed without interruption; MembershipRequests models what happens   *)
(* when two of them overlap.  An action that the code refuses (a policy, a *)
(* validation, an early return) is not enabled.                            *)
(*                                                                         *)
(* An account and its e-mail address are one thing here: an invitation is  *)
(* addressed to an element of Users whether or not the account exists yet. *)
(* Closing an account frees the address; signing up again with it creates  *)
(* another account, another element of Users.  Names, logos, onboarding,   *)
(* agreements, mail and notifications are left out, and so is the platform *)
(* administration, which can edit any record, owners included.             *)
(***************************************************************************)
EXTENDS Naturals, FiniteSets

CONSTANTS
  Users,           \* accounts, and the addresses invitations are sent to
  Orgs,            \* organizations
  Connected,       \* the organizations with a SCIM and a JIT SSO connection
  Roles,           \* the roles of a membership
  Nobody,          \* the owner of an organization that does not exist
  MaxInvitations,  \* bound: invitations outstanding at one time
  MaxRequests      \* bound: join requests outstanding at one time

ASSUME TenancyAssumption ==
  /\ Connected \subseteq Orgs
  /\ {"admin", "member"} \subseteq Roles
  /\ Nobody \notin Users
  /\ MaxInvitations \in Nat
  /\ MaxRequests \in Nat

VARIABLES
  account,     \* users: absent, active, or redacted (closed but retained)
  status,      \* organizations: absent, kept, or (soft-)deleted
  privacy,     \* organizations.privacy_setting
  subscribed,  \* does the organization have an active subscription?
  owner,       \* organizations.owner_id
  standing,    \* memberships: no row, active, or deactivated
  role,        \* memberships.role ("member" where there is no row)
  invitation,  \* invitations: no row, pending, or expired
  offered,     \* invitations.role ("member" where there is no row)
  request      \* access_requests: no row, pending, or approved

accountVars    == <<account>>
orgVars        == <<status, privacy, subscribed>>
membershipVars == <<standing, role>>
invitationVars == <<invitation, offered>>
vars == <<account, status, privacy, subscribed, owner, standing, role,
          invitation, offered, request>>

TypeOK ==
  /\ account \in [Users -> {"absent", "active", "redacted"}]
  /\ status \in [Orgs -> {"absent", "kept", "deleted"}]
  /\ privacy \in [Orgs -> {"private", "restricted", "public"}]
  /\ subscribed \in [Orgs -> BOOLEAN]
  /\ owner \in [Orgs -> Users \cup {Nobody}]
  /\ standing \in [Orgs -> [Users -> {"none", "active", "deactivated"}]]
  /\ role \in [Orgs -> [Users -> Roles]]
  /\ invitation \in [Orgs -> [Users -> {"none", "pending", "expired"}]]
  /\ offered \in [Orgs -> [Users -> Roles]]
  /\ request \in [Orgs -> [Users -> {"none", "pending", "approved"}]]

Init ==
  /\ account = [u \in Users |-> "absent"]
  /\ status = [o \in Orgs |-> "absent"]
  /\ privacy = [o \in Orgs |-> "private"]
  /\ subscribed = [o \in Orgs |-> FALSE]
  /\ owner = [o \in Orgs |-> Nobody]
  /\ standing = [o \in Orgs |-> [u \in Users |-> "none"]]
  /\ role = [o \in Orgs |-> [u \in Users |-> "member"]]
  /\ invitation = [o \in Orgs |-> [u \in Users |-> "none"]]
  /\ offered = [o \in Orgs |-> [u \in Users |-> "member"]]
  /\ request = [o \in Orgs |-> [u \in Users |-> "none"]]

-----------------------------------------------------------------------------
(* Questions the handlers ask.                                             *)

IsActive(o, u) == standing[o][u] = "active"

IsActiveAdmin(o, u) == IsActive(o, u) /\ role[o][u] = "admin"

(***************************************************************************)
(* Who may act in an organization: a signed-in account with an active      *)
(* membership, and only while the organization is kept.                    *)
(***************************************************************************)
MayEnter(o, u) ==
  /\ account[u] = "active"
  /\ status[o] = "kept"
  /\ IsActive(o, u)

MayAdminister(o, u) == MayEnter(o, u) /\ role[o][u] = "admin"

(***************************************************************************)
(* No other active admin: the row of u itself may be deactivated.          *)
(***************************************************************************)
SoleActiveAdmin(o, u) ==
  /\ role[o][u] = "admin"
  /\ \A v \in Users \ {u} : ~IsActiveAdmin(o, v)

(* Mutant: the owner may leave.                                            *)
MayDeactivateAnyone(o, u) == ~SoleActiveAdmin(o, u)

MayDeactivate(o, u) == u # owner[o] /\ ~SoleActiveAdmin(o, u)

(* Bounds of the model, not limits of the code.                            *)
InvitationRoom ==
  Cardinality({p \in Orgs \X Users : invitation[p[1]][p[2]] # "none"})
    < MaxInvitations

RequestRoom ==
  Cardinality({p \in Orgs \X Users : request[p[1]][p[2]] # "none"})
    < MaxRequests

(* Writing one membership row, one invitation.                             *)

Enroll(o, u, r) ==
  /\ standing' = [standing EXCEPT ![o][u] = "active"]
  /\ role' = [role EXCEPT ![o][u] = r]

SetStanding(o, u, s) ==
  /\ standing' = [standing EXCEPT ![o][u] = s]
  /\ UNCHANGED role

DropInvitation(o, u) ==
  /\ invitation' = [invitation EXCEPT ![o][u] = "none"]
  /\ offered' = [offered EXCEPT ![o][u] = "member"]

OfferInvitation(o, u, r) ==
  /\ invitation' = [invitation EXCEPT ![o][u] = "pending"]
  /\ offered' = [offered EXCEPT ![o][u] = r]

-----------------------------------------------------------------------------
(* Accounts and organizations come into being.                             *)

SignUp(u) ==
  /\ account[u] = "absent"
  /\ account' = [account EXCEPT ![u] = "active"]
  /\ UNCHANGED <<orgVars, owner, membershipVars, invitationVars, request>>

CreateOrganization(o, u) ==
  /\ account[u] = "active"
  /\ status[o] = "absent"
  /\ status' = [status EXCEPT ![o] = "kept"]
  /\ owner' = [owner EXCEPT ![o] = u]
  /\ Enroll(o, u, "admin")
  /\ UNCHANGED <<accountVars, privacy, subscribed, invitationVars, request>>

UpdatePrivacy(o, a, p) ==
  /\ MayAdminister(o, a)
  /\ p # privacy[o]
  /\ privacy' = [privacy EXCEPT ![o] = p]
  /\ UNCHANGED <<accountVars, status, subscribed, owner, membershipVars,
                 invitationVars, request>>

(***************************************************************************)
(* The payment processor's webhooks start and end subscriptions; they do   *)
(* not look at deleted_at.                                                 *)
(***************************************************************************)
SubscriptionChanges(o) ==
  /\ status[o] # "absent"
  /\ subscribed' = [subscribed EXCEPT ![o] = ~@]
  /\ UNCHANGED <<accountVars, status, privacy, owner, membershipVars,
                 invitationVars, request>>

-----------------------------------------------------------------------------
(* Memberships and ownership.                                              *)

(***************************************************************************)
(* An admin edits the role of a member, himself included, of a deactivated *)
(* member too; never the owner's (policy and validation), and never away   *)
(* from admin when no other active admin is left (validation).             *)
(***************************************************************************)
UpdateRole(o, a, u, r) ==
  /\ MayAdminister(o, a)
  /\ standing[o][u] # "none"
  /\ u # owner[o]
  /\ r # role[o][u]
  /\ ~SoleActiveAdmin(o, u)
  /\ role' = [role EXCEPT ![o][u] = r]
  /\ UNCHANGED <<accountVars, orgVars, owner, standing, invitationVars, request>>

(***************************************************************************)
(* A member leaves, or an admin removes an active member.                  *)
(***************************************************************************)
DeactivateMember(o, a, u) ==
  /\ MayEnter(o, a)
  /\ a = u \/ role[o][a] = "admin"
  /\ IsActive(o, u)
  /\ MayDeactivate(o, u)
  /\ SetStanding(o, u, "deactivated")
  /\ UNCHANGED <<accountVars, orgVars, owner, invitationVars, request>>

(* Mutant: nobody looks whether the account is closed.                     *)
ReactivateClosed(o, a, u) ==
  /\ MayAdminister(o, a)
  /\ standing[o][u] = "deactivated"
  /\ SetStanding(o, u, "active")
  /\ UNCHANGED <<accountVars, orgVars, owner, invitationVars, request>>

ReactivateMember(o, a, u) ==
  /\ MayAdminister(o, a)
  /\ standing[o][u] = "deactivated"
  /\ account[u] # "redacted"
  /\ SetStanding(o, u, "active")
  /\ UNCHANGED <<accountVars, orgVars, owner, invitationVars, request>>

(* Mutant: the new owner keeps the role of a member.                       *)
TransferTitleOnly(o, a, u) ==
  /\ MayEnter(o, a)
  /\ owner[o] = a
  /\ IsActive(o, u)
  /\ u # owner[o]
  /\ owner' = [owner EXCEPT ![o] = u]
  /\ UNCHANGED <<accountVars, orgVars, membershipVars, invitationVars, request>>

(***************************************************************************)
(* The owner hands over to an active member, who becomes an admin in the   *)
(* same transaction.  The old owner keeps membership and role.             *)
(***************************************************************************)
TransferOwnership(o, a, u) ==
  /\ MayEnter(o, a)
  /\ owner[o] = a
  /\ IsActive(o, u)
  /\ u # owner[o]
  /\ role' = [role EXCEPT ![o][u] = "admin"]
  /\ owner' = [owner EXCEPT ![o] = u]
  /\ UNCHANGED <<accountVars, orgVars, standing, invitationVars, request>>

-----------------------------------------------------------------------------
(* Invitations.                                                            *)

(***************************************************************************)
(* Refused for an active member and while a pending invitation exists; an  *)
(* expired one for the same address is deleted first.                      *)
(***************************************************************************)
Invite(o, a, u, r) ==
  /\ MayAdminister(o, a)
  /\ account[u] # "redacted"
  /\ ~IsActive(o, u)
  /\ invitation[o][u] # "pending"
  /\ InvitationRoom
  /\ OfferInvitation(o, u, r)
  /\ UNCHANGED <<accountVars, orgVars, owner, membershipVars, request>>

InvitationExpires(o, u) ==
  /\ invitation[o][u] = "pending"
  /\ invitation' = [invitation EXCEPT ![o][u] = "expired"]
  /\ UNCHANGED <<accountVars, orgVars, owner, membershipVars, offered, request>>

PurgeExpiredInvitation(o, u) ==
  /\ invitation[o][u] = "expired"
  /\ DropInvitation(o, u)
  /\ UNCHANGED <<accountVars, orgVars, owner, membershipVars, request>>

(***************************************************************************)
(* Accepting revives a deactivated membership with the offered role, or    *)
(* creates one; an account that became an active member by another road in *)
(* the meantime is refused, and its invitation stays.                      *)
(***************************************************************************)
AcceptInvitation(o, u) ==
  /\ account[u] = "active"
  /\ invitation[o][u] = "pending"
  /\ ~IsActive(o, u)
  /\ standing[o][u] = "deactivated" /\ offered[o][u] # role[o][u]
       => ~SoleActiveAdmin(o, u)
  /\ DropInvitation(o, u)
  /\ Enroll(o, u, offered[o][u])
  /\ UNCHANGED <<accountVars, orgVars, owner, request>>

DeclineInvitation(o, u) ==
  /\ account[u] = "active"
  /\ invitation[o][u] = "pending"
  /\ DropInvitation(o, u)
  /\ UNCHANGED <<accountVars, orgVars, owner, membershipVars, request>>

RevokeInvitation(o, a, u) ==
  /\ MayAdminister(o, a)
  /\ invitation[o][u] = "pending"
  /\ DropInvitation(o, u)
  /\ UNCHANGED <<accountVars, orgVars, owner, membershipVars, request>>

-----------------------------------------------------------------------------
(* Join requests.  An organization is found by its privacy setting alone:  *)
(* one that is soft-deleted can still be joined or asked.                  *)

(* Mutant: whatever is not private is open.                                *)
JoinUnlessPrivate(o, u) ==
  /\ account[u] = "active"
  /\ status[o] # "absent"
  /\ privacy[o] # "private"
  /\ ~IsActive(o, u)
  /\ SetStanding(o, u, "active")
  /\ UNCHANGED <<accountVars, orgVars, owner, invitationVars, request>>

JoinPublic(o, u) ==
  /\ account[u] = "active"
  /\ status[o] # "absent"
  /\ privacy[o] = "public"
  /\ ~IsActive(o, u)
  /\ SetStanding(o, u, "active")
  /\ UNCHANGED <<accountVars, orgVars, owner, invitationVars, request>>

(***************************************************************************)
(* Any earlier request, the approved one of a former member included,      *)
(* stands in the way of a new one.                                         *)
(***************************************************************************)
RequestAccess(o, u) ==
  /\ account[u] = "active"
  /\ status[o] # "absent"
  /\ privacy[o] = "restricted"
  /\ ~IsActive(o, u)
  /\ request[o][u] = "none"
  /\ RequestRoom
  /\ request' = [request EXCEPT ![o][u] = "pending"]
  /\ UNCHANGED <<accountVars, orgVars, owner, membershipVars, invitationVars>>

CancelRequest(o, u) ==
  /\ account[u] = "active"
  /\ request[o][u] = "pending"
  /\ request' = [request EXCEPT ![o][u] = "none"]
  /\ UNCHANGED <<accountVars, orgVars, owner, membershipVars, invitationVars>>

(***************************************************************************)
(* An admin approves a request, pending or already approved: the row is    *)
(* found by id, not by status.  A deactivated membership keeps its role, a *)
(* new one has the column default.  Only the revival of a deactivated row  *)
(* looks at whether the account is closed.                                 *)
(***************************************************************************)
ApproveRequest(o, a, u) ==
  /\ MayAdminister(o, a)
  /\ request[o][u] # "none"
  /\ standing[o][u] = "deactivated" => account[u] # "redacted"
  /\ request' = [request EXCEPT ![o][u] = "approved"]
  /\ SetStanding(o, u, "active")
  /\ UNCHANGED <<accountVars, orgVars, owner, invitationVars>>

(* Mutant: the row is kept, with the status that is declared but not used. *)
RejectAndKeep(o, a, u) ==
  /\ MayAdminister(o, a)
  /\ request[o][u] # "none"
  /\ request' = [request EXCEPT ![o][u] = "rejected"]
  /\ UNCHANGED <<accountVars, orgVars, owner, membershipVars, invitationVars>>

RejectRequest(o, a, u) ==
  /\ MayAdminister(o, a)
  /\ request[o][u] # "none"
  /\ request' = [request EXCEPT ![o][u] = "none"]
  /\ UNCHANGED <<accountVars, orgVars, owner, membershipVars, invitationVars>>

-----------------------------------------------------------------------------
(* The organization's directory: SCIM calls and SSO sign-ins.  Both        *)
(* connections are destroyed when the organization is erased.              *)

HasConnection(o) == o \in Connected /\ status[o] = "kept"

(***************************************************************************)
(* A new account comes with its membership, which the directory may create *)
(* inactive.                                                               *)
(***************************************************************************)
ScimProvision(o, u, r, s) ==
  /\ HasConnection(o)
  /\ account[u] = "absent"
  /\ account' = [account EXCEPT ![u] = "active"]
  /\ standing' = [standing EXCEPT ![o][u] = s]
  /\ role' = [role EXCEPT ![o][u] = r]
  /\ UNCHANGED <<orgVars, owner, invitationVars, request>>

(***************************************************************************)
(* An existing account without a membership is not provisioned: it is sent *)
(* an invitation, unless it has one, and the call answers 409.             *)
(***************************************************************************)
ScimAskConsent(o, u, r) ==
  /\ HasConnection(o)
  /\ account[u] = "active"
  /\ standing[o][u] = "none"
  /\ invitation[o][u] # "pending"
  /\ InvitationRoom
  /\ OfferInvitation(o, u, r)
  /\ UNCHANGED <<accountVars, orgVars, owner, membershipVars, request>>

(* POST for a deactivated member, PUT or PATCH with active: true.          *)
ScimActivate(o, u) ==
  /\ HasConnection(o)
  /\ standing[o][u] = "deactivated"
  /\ account[u] # "redacted"
  /\ SetStanding(o, u, "active")
  /\ UNCHANGED <<accountVars, orgVars, owner, invitationVars, request>>

(* DELETE, PUT or PATCH with active: false.                                *)
ScimDeactivate(o, u) ==
  /\ HasConnection(o)
  /\ IsActive(o, u)
  /\ MayDeactivate(o, u)
  /\ SetStanding(o, u, "deactivated")
  /\ UNCHANGED <<accountVars, orgVars, owner, invitationVars, request>>

(***************************************************************************)
(* A sign-in through the identity provider creates an unknown account with *)
(* its membership or revives a deactivated member; an account without a    *)
(* membership is denied.                                                   *)
(***************************************************************************)
SsoProvision(o, u, r) ==
  /\ HasConnection(o)
  /\ account[u] = "absent"
  /\ account' = [account EXCEPT ![u] = "active"]
  /\ Enroll(o, u, r)
  /\ UNCHANGED <<orgVars, owner, invitationVars, request>>

SsoReactivate(o, u) ==
  /\ HasConnection(o)
  /\ account[u] = "active"
  /\ standing[o][u] = "deactivated"
  /\ SetStanding(o, u, "active")
  /\ UNCHANGED <<accountVars, orgVars, owner, invitationVars, request>>

-----------------------------------------------------------------------------
(* Closing accounts and organizations.                                     *)

(* Mutant: an owner with company may go.                                   *)
MayCloseWithCompany(u) ==
  /\ account[u] = "active"
  /\ \A o \in Orgs : IsActive(o, u) => ~SoleActiveAdmin(o, u)

MayClose(u) ==
  /\ account[u] = "active"
  /\ \A o \in Orgs : owner[o] # u
  /\ \A o \in Orgs : IsActive(o, u) => ~SoleActiveAdmin(o, u)

(* Mutant: the invitations sent to a closed account stay.                  *)
KeepInvitations(u) == UNCHANGED invitationVars

ForgetInvitations(u) ==
  /\ invitation' = [o \in Orgs |-> [invitation[o] EXCEPT ![u] = "none"]]
  /\ offered' = [o \in Orgs |-> [offered[o] EXCEPT ![u] = "member"]]

(***************************************************************************)
(* Signing out, the first thing closing does, writes an audit event in the *)
(* name of every active membership, so an account with one is always       *)
(* retained.  One whose memberships are all deactivated is retained if any *)
(* of them ever acted or owns a project.  The join requests stay.          *)
(***************************************************************************)
RedactUser(u) ==
  /\ MayClose(u)
  /\ \E o \in Orgs : standing[o][u] # "none"
  /\ account' = [account EXCEPT ![u] = "redacted"]
  /\ standing' = [o \in Orgs |-> [standing[o] EXCEPT
                    ![u] = IF @ = "active" THEN "deactivated" ELSE @]]
  /\ ForgetInvitations(u)
  /\ UNCHANGED <<orgVars, owner, role, request>>

(* Mutant: the join requests of a destroyed account are left behind.       *)
ForgetMemberships(u) ==
  /\ account' = [account EXCEPT ![u] = "absent"]
  /\ standing' = [o \in Orgs |-> [standing[o] EXCEPT ![u] = "none"]]
  /\ role' = [o \in Orgs |-> [role[o] EXCEPT ![u] = "member"]]
  /\ ForgetInvitations(u)
  /\ UNCHANGED request

ForgetUser(u) ==
  /\ account' = [account EXCEPT ![u] = "absent"]
  /\ standing' = [o \in Orgs |-> [standing[o] EXCEPT ![u] = "none"]]
  /\ role' = [o \in Orgs |-> [role[o] EXCEPT ![u] = "member"]]
  /\ ForgetInvitations(u)
  /\ request' = [o \in Orgs |-> [request[o] EXCEPT ![u] = "none"]]

(* Mutant: an account with an active membership is destroyed too.          *)
DestroyMember(u) ==
  /\ MayClose(u)
  /\ ForgetUser(u)
  /\ UNCHANGED <<orgVars, owner>>

DestroyUser(u) ==
  /\ MayClose(u)
  /\ \A o \in Orgs : ~IsActive(o, u)
  /\ ForgetUser(u)
  /\ UNCHANGED <<orgVars, owner>>

(* Mutant: the invitations outlive the organization.                       *)
EraseButKeepInvitations(o, a) ==
  /\ MayEnter(o, a)
  /\ owner[o] = a
  /\ ~subscribed[o]
  /\ status' = [status EXCEPT ![o] = "deleted"]
  /\ UNCHANGED <<accountVars, privacy, subscribed, owner, membershipVars,
                 invitationVars, request>>

(***************************************************************************)
(* The owner soft-deletes the organization: invitations and connections    *)
(* go, memberships and join requests stay.                                 *)
(***************************************************************************)
EraseOrganization(o, a) ==
  /\ MayEnter(o, a)
  /\ owner[o] = a
  /\ ~subscribed[o]
  /\ status' = [status EXCEPT ![o] = "deleted"]
  /\ invitation' = [invitation EXCEPT ![o] = [u \in Users |-> "none"]]
  /\ offered' = [offered EXCEPT ![o] = [u \in Users |-> "member"]]
  /\ UNCHANGED <<accountVars, privacy, subscribed, owner, membershipVars, request>>

(***************************************************************************)
(* The two steps of Organization::PurgeJob, one record at a time: each     *)
(* destroy! is a transaction of its own.                                   *)
(***************************************************************************)
PurgeOrganization(o) ==
  /\ status[o] = "deleted"
  /\ ~subscribed[o]
  /\ status' = [status EXCEPT ![o] = "absent"]
  /\ privacy' = [privacy EXCEPT ![o] = "private"]
  /\ owner' = [owner EXCEPT ![o] = Nobody]
  /\ standing' = [standing EXCEPT ![o] = [u \in Users |-> "none"]]
  /\ role' = [role EXCEPT ![o] = [u \in Users |-> "member"]]
  /\ invitation' = [invitation EXCEPT ![o] = [u \in Users |-> "none"]]
  /\ offered' = [offered EXCEPT ![o] = [u \in Users |-> "member"]]
  /\ request' = [request EXCEPT ![o] = [u \in Users |-> "none"]]
  /\ UNCHANGED <<accountVars, subscribed>>

PurgeRedactedUser(u) ==
  /\ account[u] = "redacted"
  /\ \A o \in Orgs : standing[o][u] = "none" /\ owner[o] # u
  /\ ForgetUser(u)
  /\ UNCHANGED <<orgVars, owner>>

-----------------------------------------------------------------------------
AccountStep(u) ==
  SignUp(u) \/ RedactUser(u) \/ DestroyUser(u) \/ PurgeRedactedUser(u)

OrganizationStep(o) == PurgeOrganization(o) \/ SubscriptionChanges(o)

UserStep(o, u) ==
  \/ CreateOrganization(o, u)
  \/ EraseOrganization(o, u)
  \/ \E v \in Users : TransferOwnership(o, u, v)
  \/ InvitationExpires(o, u)
  \/ PurgeExpiredInvitation(o, u)
  \/ AcceptInvitation(o, u)
  \/ DeclineInvitation(o, u)
  \/ JoinPublic(o, u)
  \/ RequestAccess(o, u)
  \/ CancelRequest(o, u)

AdminStep(o, a) ==
  \/ \E p \in {"private", "restricted", "public"} : UpdatePrivacy(o, a, p)
  \/ \E u \in Users :
       \/ \E r \in Roles : UpdateRole(o, a, u, r) \/ Invite(o, a, u, r)
       \/ DeactivateMember(o, a, u)
       \/ ReactivateMember(o, a, u)
       \/ RevokeInvitation(o, a, u)
       \/ ApproveRequest(o, a, u)
       \/ RejectRequest(o, a, u)

DirectoryStep(o, u) ==
  \/ \E r \in Roles :
       \/ \E s \in {"active", "deactivated"} : ScimProvision(o, u, r, s)
       \/ ScimAskConsent(o, u, r)
       \/ SsoProvision(o, u, r)
  \/ ScimActivate(o, u)
  \/ ScimDeactivate(o, u)
  \/ SsoReactivate(o, u)

Next ==
  \/ \E u \in Users : AccountStep(u)
  \/ \E o \in Orgs : OrganizationStep(o)
  \/ \E o \in Orgs, u \in Users :
       UserStep(o, u) \/ AdminStep(o, u) \/ DirectoryStep(o, u)

Spec == Init /\ [][Next]_vars

-----------------------------------------------------------------------------
(* Properties.                                                             *)

(***************************************************************************)
(* An organization exists exactly when it has an owner, and its owner is   *)
(* an active admin of it: no sequence of role changes, departures, account *)
(* closures, directory calls and transfers leaves it without one           *)
(* (Membership's validations, Organization::Transfer, User#erase!).        *)
(***************************************************************************)
OwnerIsActiveAdmin ==
  \A o \in Orgs :
    /\ status[o] = "absent" <=> owner[o] = Nobody
    /\ status[o] # "absent" => IsActiveAdmin(o, owner[o])

(***************************************************************************)
(* A membership or a join request belongs to an account and an             *)
(* organization that exist: either is destroyed only together with all of  *)
(* them.  Without this the directory could provision the address of an     *)
(* owner as a new account.                                                 *)
(***************************************************************************)
RowsHaveParents ==
  \A o \in Orgs, u \in Users :
    standing[o][u] # "none" \/ request[o][u] # "none"
      => account[u] # "absent" /\ status[o] # "absent"

(***************************************************************************)
(* A closed account holds no active membership: what redaction removes     *)
(* stays removed.                                                          *)
(***************************************************************************)
ClosedAccountStaysOut ==
  \A o \in Orgs, u \in Users : account[u] = "redacted" => ~IsActive(o, u)

(***************************************************************************)
(* A membership that its account's closure deactivated is never revived,   *)
(* by an admin, a join request, SCIM or SSO ("A closed account cannot be   *)
(* reactivated", cannot_reactivate_redacted_user).                         *)
(***************************************************************************)
ClosedMembershipStaysClosed ==
  [][\A o \in Orgs, u \in Users :
       account[u] = "redacted" /\ standing[o][u] = "deactivated"
         => standing'[o][u] # "active"]_vars

(***************************************************************************)
(* The one way back for a closed account: the approval of a request it     *)
(* left behind, to an organization it never was in.  It gets no request,   *)
(* no invitation and no other membership after its closure.                *)
(***************************************************************************)
ClosedEnterByOldRequestOnly ==
  [][\A o \in Orgs, u \in Users : account[u] = "redacted" =>
       /\ ~IsActive(o, u) /\ standing'[o][u] = "active"
            => standing[o][u] = "none" /\ request[o][u] = "pending"
       /\ request'[o][u] = "pending" => request[o][u] = "pending"
       /\ invitation'[o][u] = "none"]_vars

(***************************************************************************)
(* Every organization that is not deleted can be entered and administered  *)
(* by its owner: no closure of an account, removal or directory call takes *)
(* that away, as long as no closed account has come back.                  *)
(***************************************************************************)
OwnerCanAdminister ==
  ClosedAccountStaysOut =>
    \A o \in Orgs : status[o] = "kept" => MayAdminister(o, owner[o])

(***************************************************************************)
(* A membership row is history: it goes only with the whole organization,  *)
(* or with an account that holds no active membership anywhere             *)
(* (docs/architecture.md: "Retains deactivated members").                  *)
(***************************************************************************)
HistoryRetained ==
  [][\A o \in Orgs, u \in Users :
       standing[o][u] # "none" /\ standing'[o][u] = "none"
         => \/ status[o] = "deleted" /\ status'[o] = "absent"
            \/ /\ account'[u] = "absent"
               /\ \A p \in Orgs : ~IsActive(p, u) /\ owner[p] # u]_vars

(***************************************************************************)
(* An organization that is deleted or gone has no invitation: erase!       *)
(* destroys them and nothing sends another.                                *)
(***************************************************************************)
InvitationsAreForKeptOrganizations ==
  \A o \in Orgs, u \in Users : invitation[o][u] # "none" => status[o] = "kept"

(***************************************************************************)
(* Nobody enters an organization for the first time unless he founds it,   *)
(* it is public, or one of its admins, or its directory, invited the       *)
(* address (and the invitation has not run out), or an admin approved a    *)
(* request; only an account that did not exist before is enrolled by the   *)
(* directory itself.  And nobody but the founder, those invited as more    *)
(* and those the directory creates comes as more than a member.            *)
(***************************************************************************)
NobodyEntersUninvited ==
  [][\A o \in Orgs, u \in Users :
       standing[o][u] = "none" /\ standing'[o][u] # "none"
         => \/ status[o] = "absent" /\ owner'[o] = u
            \/ o \in Connected /\ account[u] = "absent"
            \/ /\ privacy[o] = "public" \/ request[o][u] = "pending"
               /\ role'[o][u] = "member"
            \/ invitation[o][u] = "pending" /\ role'[o][u] = offered[o][u]]_vars

(***************************************************************************)
(* The contract of one organization, and the refinement mapping to it.     *)
(***************************************************************************)
ActiveMembers(o) == {u \in Users : IsActive(o, u)}
ActiveAdmins(o)  == {u \in Users : IsActiveAdmin(o, u)}

Contract(o) == INSTANCE Ownership WITH
  owner <- owner[o], members <- ActiveMembers(o), admins <- ActiveAdmins(o)

(***************************************************************************)
(* Every organization keeps the contract of Ownership, step by step: the   *)
(* owner leaves, changes role or hands over only as it allows.             *)
(***************************************************************************)
OwnershipKept ==
  /\ \A o \in Orgs : Contract(o)!Init
  /\ [][\A o \in Orgs : [Contract(o)!Next]_(Contract(o)!vars)]_vars
=============================================================================
