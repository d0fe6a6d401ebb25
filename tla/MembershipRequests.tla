------------------------- MODULE MembershipRequests -------------------------
(***************************************************************************)
(* The membership and ownership handlers of one kept organization, run by  *)
(* several Puma threads at once.                                           *)
(*                                                                         *)
(* A handler loads the organization, the actor's membership and the target *)
(* membership, authorizes on what it loaded, validates (partly on what it  *)
(* loaded, partly by asking the database again), and then writes the       *)
(* columns it changed by primary key.  No row is locked, and the database  *)
(* runs at READ COMMITTED, so other handlers may commit in between.  The   *)
(* loads are one step here, and so is a validation with its query: commits *)
(* that fall inside one of them are left out.                              *)
(*                                                                         *)
(* Every account of Users already has a membership row, active or not; how *)
(* rows come to be is Tenancy's subject.                                   *)
(***************************************************************************)
EXTENDS Naturals, FiniteSets

CONSTANTS
  Users,     \* the accounts with a membership in the organization
  Threads,   \* the threads that serve requests
  Kinds,     \* the handlers they run
  Roles,     \* the roles of a membership
  Nobody     \* no owner: never the case here

AllKinds == {"update", "deactivate", "reactivate", "transfer"}

ASSUME RequestsAssumption ==
  /\ Kinds \subseteq AllKinds
  /\ {"admin", "member"} \subseteq Roles
  /\ Nobody \notin Users

VARIABLES
  owner,     \* organizations.owner_id
  standing,  \* is the membership active or deactivated?
  role,      \* memberships.role
  thread     \* what each thread is doing

vars == <<owner, standing, role, thread>>

(***************************************************************************)
(* A request in flight: what it is asked to do, how far it is, and the     *)
(* owner and the role of the target it loaded.                             *)
(***************************************************************************)
Request ==
  [kind : AllKinds, at : {"loaded", "validated"}, target : Users, to : Roles,
   seenOwner : Users, seenRole : Roles]

Idle == [kind |-> "none"]

TypeOK ==
  /\ owner \in Users
  /\ standing \in [Users -> {"active", "deactivated"}]
  /\ role \in [Users -> Roles]
  /\ thread \in [Threads -> Request \cup {Idle}]

IsActiveAdmin(u) == standing[u] = "active" /\ role[u] = "admin"

(* Mutant: a membership's own id is compared with the owner's user id.     *)
IsOwnerByRowId(u, o) == FALSE

(***************************************************************************)
(* Membership#owner?, where o is the owner of the organization as loaded.  *)
(***************************************************************************)
IsOwner(u, o) == u = o

(***************************************************************************)
(* An organization whose owner is an active admin: any such state is       *)
(* reached by Tenancy's handlers.                                          *)
(***************************************************************************)
Init ==
  /\ owner \in Users
  /\ standing \in [Users -> {"active", "deactivated"}]
  /\ role \in [Users -> Roles]
  /\ IsActiveAdmin(owner)
  /\ thread = [t \in Threads |-> Idle]

-----------------------------------------------------------------------------
(* Loading and authorizing.                                                *)

Load(t, kind, u, to) ==
  /\ kind \in Kinds
  /\ thread[t] = Idle
  /\ thread' = [thread EXCEPT ![t] =
       [kind |-> kind, at |-> "loaded", target |-> u, to |-> to,
        seenOwner |-> owner, seenRole |-> role[u]]]
  /\ UNCHANGED <<owner, standing, role>>

(* MembershipPolicy#update?                                                *)
LoadUpdate(t, a, u, r) ==
  /\ IsActiveAdmin(a)
  /\ ~IsOwner(u, owner)
  /\ r # role[u]
  /\ Load(t, "update", u, r)

(* MembershipPolicy#destroy?                                               *)
LoadDeactivate(t, a, u) ==
  /\ standing[a] = "active"
  /\ ~IsOwner(u, owner)
  /\ a = u \/ (role[a] = "admin" /\ standing[u] = "active")
  /\ Load(t, "deactivate", u, role[u])

(* MembershipPolicy#reactivate?                                            *)
LoadReactivate(t, a, u) ==
  /\ IsActiveAdmin(a)
  /\ standing[u] = "deactivated"
  /\ Load(t, "reactivate", u, role[u])

(***************************************************************************)
(* authorize_organization_owner!, then the candidate: an active member     *)
(* other than the owner that was loaded.                                   *)
(***************************************************************************)
LoadTransfer(t, u) ==
  /\ standing[owner] = "active"
  /\ standing[u] = "active"
  /\ u # owner
  /\ Load(t, "transfer", u, "admin")

-----------------------------------------------------------------------------
(* Validating.  The owner is the loaded one; the other active admins are   *)
(* counted in the database.                                                *)

NoOtherActiveAdmin(u) == \A v \in Users \ {u} : ~IsActiveAdmin(v)

Valid(q) ==
  CASE q.kind = "update" ->
         q.seenRole = "admin"
           => ~IsOwner(q.target, q.seenOwner) /\ ~NoOtherActiveAdmin(q.target)
    [] q.kind = "deactivate" ->
         /\ ~IsOwner(q.target, q.seenOwner)
         /\ q.seenRole = "admin" => ~NoOtherActiveAdmin(q.target)
    [] OTHER -> TRUE

Validate(t) ==
  /\ thread[t] # Idle
  /\ thread[t].at = "loaded"
  /\ thread' = [thread EXCEPT ![t] =
                  IF Valid(thread[t]) THEN [thread[t] EXCEPT !.at = "validated"]
                                      ELSE Idle]
  /\ UNCHANGED <<owner, standing, role>>

-----------------------------------------------------------------------------
(* Writing and committing.                                                 *)

(* Mutant: a served request is not let go of.                              *)
CommitAndKeep(t, kind) ==
  /\ thread[t] # Idle
  /\ thread[t].kind = kind
  /\ thread[t].at = "validated"
  /\ thread' = [thread EXCEPT ![t].at = "saved"]

Commit(t, kind) ==
  /\ thread[t] # Idle
  /\ thread[t].kind = kind
  /\ thread[t].at = "validated"
  /\ thread' = [thread EXCEPT ![t] = Idle]

SaveUpdate(t) ==
  /\ Commit(t, "update")
  /\ role' = [role EXCEPT ![thread[t].target] = thread[t].to]
  /\ UNCHANGED <<owner, standing>>

SaveDeactivate(t) ==
  /\ Commit(t, "deactivate")
  /\ standing' = [standing EXCEPT ![thread[t].target] = "deactivated"]
  /\ UNCHANGED <<owner, role>>

SaveReactivate(t) ==
  /\ Commit(t, "reactivate")
  /\ standing' = [standing EXCEPT ![thread[t].target] = "active"]
  /\ UNCHANGED <<owner, role>>

(***************************************************************************)
(* One transaction.  A candidate that was loaded as an admin has no dirty  *)
(* column, so its membership is not written at all.                        *)
(***************************************************************************)
SaveTransfer(t) ==
  /\ Commit(t, "transfer")
  /\ role' = IF thread[t].seenRole = "admin" THEN role
             ELSE [role EXCEPT ![thread[t].target] = "admin"]
  /\ owner' = thread[t].target
  /\ UNCHANGED standing

-----------------------------------------------------------------------------
Serve(t) ==
  \/ \E a, u \in Users :
       \/ \E r \in Roles : LoadUpdate(t, a, u, r)
       \/ LoadDeactivate(t, a, u)
       \/ LoadReactivate(t, a, u)
  \/ \E u \in Users : LoadTransfer(t, u)
  \/ Validate(t)
  \/ SaveUpdate(t)
  \/ SaveDeactivate(t)
  \/ SaveReactivate(t)
  \/ SaveTransfer(t)

Next == \E t \in Threads : Serve(t)

Spec == Init /\ [][Next]_vars

-----------------------------------------------------------------------------
(* Properties.                                                             *)

(***************************************************************************)
(* "Cannot remove last admin or owner" (docs/architecture.md): whatever    *)
(* the interleaving of the handlers, the owner is an active admin.         *)
(***************************************************************************)
OwnerIsActiveAdmin == IsActiveAdmin(owner)

Contract == INSTANCE Ownership WITH
  members <- {u \in Users : standing[u] = "active"},
  admins  <- {u \in Users : IsActiveAdmin(u)}

(***************************************************************************)
(* The commit of t is a removal or demotion of somebody who became the     *)
(* owner after t loaded the organization, or a transfer to somebody who    *)
(* was removed or demoted after t loaded the candidate.                    *)
(***************************************************************************)
Overtaken(t) ==
  LET q == thread[t]
  IN  /\ q # Idle /\ q.at = "validated"
      /\ \/ /\ q.kind \in {"update", "deactivate"}
            /\ q.target = owner /\ q.seenOwner # owner
         \/ /\ q.kind = "transfer"
            /\ \/ standing[q.target] = "deactivated"
               \/ q.seenRole = "admin" /\ role[q.target] # "admin"

(***************************************************************************)
(* The only overlap that can hurt is that of a transfer with the removal   *)
(* or the demotion of its candidate: every other commit, on any number of  *)
(* threads, is a step the contract of Ownership allows.                    *)
(***************************************************************************)
OnlyTransfersRace ==
  [][\/ [Contract!Next]_(Contract!vars)
     \/ ~OwnerIsActiveAdmin
     \/ \E t \in Threads : Overtaken(t) /\ thread'[t] = Idle]_vars
=============================================================================
