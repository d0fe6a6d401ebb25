---------------------- MODULE MembershipRequestsProofs ----------------------
(***************************************************************************)
(* The handlers that do not move ownership are safe together: with any     *)
(* number of threads, accounts and roles, no overlap of role changes,      *)
(* deactivations and reactivations takes the owner's membership or role.   *)
(* With transfers, TLC shows an overlap of one transfer and one role       *)
(* change that does; OnlyTransfersRaceTheorem shows that such an overlap   *)
(* is the only way.                                                        *)
(***************************************************************************)
EXTENDS MembershipRequests, TLAPS

(***************************************************************************)
(* Every request in flight that can demote or deactivate is aimed at       *)
(* somebody else than the owner; without transfers that stays true.        *)
(***************************************************************************)
IInv ==
  /\ owner \in Users
  /\ standing \in [Users -> {"active", "deactivated"}]
  /\ role \in [Users -> Roles]
  /\ DOMAIN thread = Threads
  /\ IsActiveAdmin(owner)
  /\ \A t \in Threads :
       /\ thread[t].kind # "transfer"
       /\ thread[t].kind \in {"update", "deactivate"} => thread[t].target # owner
       /\ thread[t].kind = "update" => thread[t].to \in Roles

LEMMA InitIInv == Init => IInv
BY DEF Init, IInv, Idle

LEMMA NextIInv == "transfer" \notin Kinds /\ IInv /\ [Next]_vars => IInv'
<1> SUFFICES ASSUME "transfer" \notin Kinds, IInv, [Next]_vars PROVE IInv'
  OBVIOUS
<1> USE RequestsAssumption DEF IInv, IsActiveAdmin, IsOwner, Load, Commit, Idle
<1>1. ASSUME NEW t \in Threads, Serve(t) PROVE IInv'
  <2>1. ASSUME NEW a \in Users, NEW u \in Users, NEW r \in Roles,
               LoadUpdate(t, a, u, r)
        PROVE  IInv'
    BY <2>1 DEF LoadUpdate
  <2>2. ASSUME NEW a \in Users, NEW u \in Users, LoadDeactivate(t, a, u)
        PROVE  IInv'
    BY <2>2 DEF LoadDeactivate
  <2>3. ASSUME NEW a \in Users, NEW u \in Users, LoadReactivate(t, a, u)
        PROVE  IInv'
    BY <2>3 DEF LoadReactivate
  <2>4. ASSUME NEW u \in Users, LoadTransfer(t, u) PROVE IInv'
    BY <2>4 DEF LoadTransfer
  <2>5. CASE Validate(t)
    <3>1. CASE Valid(thread[t])
      <4>1. thread' = [thread EXCEPT ![t] = [thread[t] EXCEPT !.at = "validated"]]
        BY <2>5, <3>1 DEF Validate
      <4>2. /\ thread'[t].kind = thread[t].kind
            /\ thread'[t].target = thread[t].target
            /\ thread'[t].to = thread[t].to
        BY <4>1
      <4> QED
        BY <2>5, <4>1, <4>2 DEF Validate
    <3>2. CASE ~Valid(thread[t])
      BY <2>5, <3>2 DEF Validate
    <3> QED
      BY <3>1, <3>2
  <2>6. CASE SaveUpdate(t)
    BY <2>6 DEF SaveUpdate
  <2>7. CASE SaveDeactivate(t)
    BY <2>7 DEF SaveDeactivate
  <2>8. CASE SaveReactivate(t)
    BY <2>8 DEF SaveReactivate
  <2>9. CASE SaveTransfer(t)
    BY <2>9 DEF SaveTransfer
  <2> QED
    BY <1>1, <2>1, <2>2, <2>3, <2>4, <2>5, <2>6, <2>7, <2>8, <2>9 DEF Serve
<1>2. CASE UNCHANGED vars
  BY <1>2 DEF vars
<1> QED
  BY <1>1, <1>2 DEF Next

(***************************************************************************)
(* As long as no transfer is served, the owner is an active admin whatever *)
(* the overlap of the other handlers.                                      *)
(***************************************************************************)
THEOREM OwnerSafeWithoutTransfers ==
  ASSUME "transfer" \notin Kinds
  PROVE  Spec => []OwnerIsActiveAdmin
<1>1. IInv => OwnerIsActiveAdmin
  BY DEF IInv, OwnerIsActiveAdmin
<1>2. IInv /\ [Next]_vars => IInv'
  BY NextIInv
<1> QED
  BY <1>1, <1>2, InitIInv, PTL DEF Spec
-----------------------------------------------------------------------------
(* All handlers, transfers included.                                       *)

(***************************************************************************)
(* What a handler that writes was authorized on: its target was not the    *)
(* owner when the organization was loaded.                                 *)
(***************************************************************************)
AimedElsewhere(q) ==
  q.kind \in {"update", "deactivate"} => q.target # q.seenOwner

TInv ==
  /\ TypeOK
  /\ \A t \in Threads : thread[t] # Idle => AimedElsewhere(thread[t])

LEMMA InitTInv == Init => TInv
BY DEF Init, TInv, TypeOK

(* A load puts one well-formed request in the hands of one thread.         *)
LEMMA LoadKeepsTInv ==
  ASSUME TInv, NEW t \in Threads, NEW kind \in AllKinds, NEW u \in Users,
         NEW to \in Roles, Load(t, kind, u, to),
         kind \in {"update", "deactivate"} => u # owner
  PROVE  TInv'
<1> DEFINE q == [kind |-> kind, at |-> "loaded", target |-> u, to |-> to,
                 seenOwner |-> owner, seenRole |-> role[u]]
<1>1. q \in Request /\ AimedElsewhere(q)
  BY DEF TInv, TypeOK, Request, AimedElsewhere
<1>2. thread' = [thread EXCEPT ![t] = q] /\ UNCHANGED <<owner, standing, role>>
  BY DEF Load
<1> HIDE DEF q
<1> QED
  BY <1>1, <1>2 DEF TInv, TypeOK

(* A commit lets go of one request.                                        *)
LEMMA CommitKeepsTInv ==
  ASSUME TInv, NEW t \in Threads, NEW kind, Commit(t, kind),
         owner' \in Users, standing' \in [Users -> {"active", "deactivated"}],
         role' \in [Users -> Roles]
  PROVE  TInv'
BY DEF TInv, TypeOK, Commit

LEMMA NextTInv == TInv /\ [Next]_vars => TInv'
<1> SUFFICES ASSUME TInv, [Next]_vars PROVE TInv'
  OBVIOUS
<1> USE RequestsAssumption DEF AllKinds
<1>1. ASSUME NEW t \in Threads, Serve(t) PROVE TInv'
  <2> DEFINE q == thread[t]
  <2>0. q # Idle => q \in Request
    BY DEF TInv, TypeOK
  <2>1. ASSUME NEW a \in Users, NEW u \in Users, NEW r \in Roles,
               LoadUpdate(t, a, u, r)
        PROVE  TInv'
    BY <2>1, LoadKeepsTInv DEF LoadUpdate, IsOwner
  <2>2. ASSUME NEW a \in Users, NEW u \in Users, LoadDeactivate(t, a, u)
        PROVE  TInv'
    BY <2>2, LoadKeepsTInv DEF LoadDeactivate, IsOwner, TInv, TypeOK
  <2>3. ASSUME NEW a \in Users, NEW u \in Users, LoadReactivate(t, a, u)
        PROVE  TInv'
    BY <2>3, LoadKeepsTInv DEF LoadReactivate, TInv, TypeOK
  <2>4. ASSUME NEW u \in Users, LoadTransfer(t, u) PROVE TInv'
    BY <2>4, LoadKeepsTInv DEF LoadTransfer
  <2>5. CASE Validate(t)
    <3>1. q \in Request /\ AimedElsewhere(q)
      BY <2>5, <2>0 DEF Validate, TInv
    <3>2. [q EXCEPT !.at = "validated"] \in Request
      BY <3>1 DEF Request
    <3>3. AimedElsewhere([q EXCEPT !.at = "validated"])
      BY <3>1 DEF Request, AimedElsewhere
    <3>4. \/ thread' = [thread EXCEPT ![t] = [q EXCEPT !.at = "validated"]]
          \/ thread' = [thread EXCEPT ![t] = Idle]
      BY <2>5 DEF Validate
    <3>5. UNCHANGED <<owner, standing, role>>
      BY <2>5 DEF Validate
    <3> HIDE DEF q
    <3> QED
      BY <3>2, <3>3, <3>4, <3>5 DEF TInv, TypeOK
  <2>6. CASE SaveUpdate(t)
    <3>1. q \in Request /\ UNCHANGED <<owner, standing>>
          /\ role' = [role EXCEPT ![q.target] = q.to]
      BY <2>6, <2>0 DEF SaveUpdate, Commit
    <3> QED
      BY <2>6, <3>1, CommitKeepsTInv DEF SaveUpdate, TInv, TypeOK, Request
  <2>7. CASE SaveDeactivate(t)
    BY <2>7, CommitKeepsTInv DEF SaveDeactivate, TInv, TypeOK
  <2>8. CASE SaveReactivate(t)
    BY <2>8, CommitKeepsTInv DEF SaveReactivate, TInv, TypeOK
  <2>9. CASE SaveTransfer(t)
    <3>1. q \in Request /\ q.target \in Users
      BY <2>9, <2>0 DEF SaveTransfer, Commit, Request
    <3> QED
      BY <2>9, <3>1, CommitKeepsTInv DEF SaveTransfer, TInv, TypeOK
  <2> QED
    BY <1>1, <2>1, <2>2, <2>3, <2>4, <2>5, <2>6, <2>7, <2>8, <2>9 DEF Serve
<1>2. CASE UNCHANGED vars
  BY <1>2 DEF vars, TInv, TypeOK
<1> QED
  BY <1>1, <1>2 DEF Next

(* Every variable keeps its type, whatever the overlap.                    *)
THEOREM TypeCorrect == Spec => []TypeOK
<1>1. TInv => TypeOK
  BY DEF TInv
<1> QED
  BY <1>1, InitTInv, NextTInv, PTL DEF Spec

(***************************************************************************)
(* A commit that was not overtaken is a step of the contract.              *)
(***************************************************************************)
Allowed == Contract!Next \/ UNCHANGED Contract!vars

LEMMA CommitAllowed ==
  ASSUME TInv, OwnerIsActiveAdmin, NEW t \in Threads, ~Overtaken(t),
         SaveUpdate(t) \/ SaveDeactivate(t) \/ SaveReactivate(t) \/ SaveTransfer(t)
  PROVE  Allowed
<1> DEFINE q == thread[t]
           u == q.target
           members == {v \in Users : standing[v] = "active"}
           admins  == {v \in Users : IsActiveAdmin(v)}
<1>1. q \in Request /\ q # Idle /\ q.at = "validated" /\ AimedElsewhere(q)
  BY DEF SaveUpdate, SaveDeactivate, SaveReactivate, SaveTransfer, Commit,
         TInv, TypeOK
<1>2. u \in Users /\ owner \in members /\ owner \in admins
  BY <1>1 DEF Request, OwnerIsActiveAdmin, IsActiveAdmin, TInv, TypeOK
<1>3. CASE SaveUpdate(t)
  <2>1. u # owner
    BY <1>1, <1>3 DEF SaveUpdate, Commit, Overtaken, AimedElsewhere
  <2>2. UNCHANGED <<owner, members>>
    BY <1>3 DEF SaveUpdate
  <2>3. CASE u \in members
    <3>1. admins' \in {admins \cup {u}, admins \ {u}}
      BY <1>3, <1>2, <2>3 DEF SaveUpdate, IsActiveAdmin, TInv, TypeOK
    <3> QED
      BY <3>1, <2>1, <2>2, <2>3, <1>2
      DEF Allowed, Contract!Next, Contract!ChangeRole
  <2>4. CASE u \notin members
    <3>1. admins' = admins
      BY <1>3, <1>2, <2>4 DEF SaveUpdate, IsActiveAdmin, TInv, TypeOK
    <3> QED
      BY <3>1, <2>2 DEF Allowed, Contract!vars
  <2> QED
    BY <2>3, <2>4
<1>4. CASE SaveDeactivate(t)
  <2>1. u # owner
    BY <1>1, <1>4 DEF SaveDeactivate, Commit, Overtaken, AimedElsewhere
  <2>2. members' = members \ {u} /\ admins' = admins \ {u} /\ owner' = owner
    BY <1>4, <1>2 DEF SaveDeactivate, IsActiveAdmin, TInv, TypeOK
  <2>3. CASE u \in members
    BY <2>1, <2>2, <2>3, <1>2 DEF Allowed, Contract!Next, Contract!Leave
  <2>4. CASE u \notin members
    <3>1. members' = members /\ admins' = admins
      BY <2>2, <2>4 DEF IsActiveAdmin
    <3> QED
      BY <3>1, <2>2 DEF Allowed, Contract!vars
  <2> QED
    BY <2>3, <2>4
<1>5. CASE SaveReactivate(t)
  <2>1. /\ members' = members \cup {u} /\ owner' = owner
        /\ admins' \in {admins, admins \cup {u}}
    BY <1>5, <1>2 DEF SaveReactivate, IsActiveAdmin, TInv, TypeOK
  <2>2. CASE u \in members
    <3>1. members' = members /\ admins' = admins
      BY <1>5, <1>2, <2>2 DEF SaveReactivate, IsActiveAdmin, TInv, TypeOK
    <3> QED
      BY <3>1, <2>1 DEF Allowed, Contract!vars
  <2>3. CASE u \notin members
    <3>1. owner # Nobody
      BY <1>2, RequestsAssumption
    <3> QED
      BY <2>1, <2>3, <3>1, <1>2 DEF Allowed, Contract!Next, Contract!Admit
  <2> QED
    BY <2>2, <2>3
<1>6. CASE SaveTransfer(t)
  <2>1. u \in members /\ (q.seenRole = "admin" => role[u] = "admin")
    BY <1>1, <1>2, <1>6 DEF SaveTransfer, Commit, Overtaken, TInv, TypeOK
  <2>2. owner' = u /\ members' = members
    BY <1>6 DEF SaveTransfer
  <2>3. admins' = admins \cup {u}
    BY <1>6, <1>2, <2>1 DEF SaveTransfer, IsActiveAdmin, TInv, TypeOK
  <2>4. CASE u = owner
    BY <2>2, <2>3, <2>4, <1>2 DEF Allowed, Contract!vars
  <2>5. CASE u # owner
    BY <2>1, <2>2, <2>3, <2>5, <1>2 DEF Allowed, Contract!Next, Contract!HandOver
  <2> QED
    BY <2>4, <2>5
<1> QED
  BY <1>3, <1>4, <1>5, <1>6

(***************************************************************************)
(* For any number of threads, accounts and roles: the owner is taken away  *)
(* only by the commit of a removal or demotion that a transfer overtook,   *)
(* or of a transfer that a removal or demotion overtook.                   *)
(***************************************************************************)
THEOREM OnlyTransfersRaceTheorem == Spec => OnlyTransfersRace
<1> DEFINE Step == \/ [Contract!Next]_(Contract!vars)
                   \/ ~OwnerIsActiveAdmin
                   \/ \E t \in Threads : Overtaken(t) /\ thread'[t] = Idle
<1>1. TInv /\ [Next]_vars => [Step]_vars
  <2> SUFFICES ASSUME TInv, OwnerIsActiveAdmin, NEW t \in Threads, Serve(t) PROVE Step
    BY DEF Next
  <2>1. CASE UNCHANGED <<owner, standing, role>>
    <3>1. Allowed
      BY <2>1 DEF Allowed, Contract!vars, IsActiveAdmin
    <3> QED
      BY <3>1 DEF Allowed
  <2>2. CASE SaveUpdate(t) \/ SaveDeactivate(t) \/ SaveReactivate(t) \/ SaveTransfer(t)
    <3>1. CASE Overtaken(t)
      <4>1. thread'[t] = Idle
        BY <2>2 DEF SaveUpdate, SaveDeactivate, SaveReactivate, SaveTransfer,
                    Commit, TInv, TypeOK
      <4> QED
        BY <3>1, <4>1
    <3>2. CASE ~Overtaken(t)
      <4>1. Allowed
        BY <2>2, <3>2, CommitAllowed
      <4> QED
        BY <4>1 DEF Allowed
    <3> QED
      BY <3>1, <3>2
  <2> QED
    BY <2>1, <2>2 DEF Serve, LoadUpdate, LoadDeactivate, LoadReactivate,
                      LoadTransfer, Load, Validate
<1> QED
  BY <1>1, InitTInv, NextTInv, PTL DEF Spec, OnlyTransfersRace
=============================================================================
