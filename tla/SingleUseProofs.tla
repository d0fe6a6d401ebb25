-------------------------- MODULE SingleUseProofs --------------------------
(***************************************************************************)
(* Proofs about SingleUse, for any number of items and threads and any     *)
(* limit.                                                                  *)
(*                                                                         *)
(* The invariant says what a transaction may rely on between its steps:    *)
(* which rows it holds at which statement and which are still ahead of it, *)
(* that what it read under the lock of the account is still true, and that *)
(* the item it is about to create is nobody else's.  Every step is shown   *)
(* to respect what the other threads rely on (Respects), so that only the  *)
(* thread that moves is left to look at.                                   *)
(***************************************************************************)
EXTENDS SingleUse, FiniteSetTheorems, TLAPS

Creates(t) == thread[t].op \in {"send", "invite", "start"}

(* The rows that the statement of t has not been through yet.              *)
Ahead(t) == ({thread[t].next} \ {NoItem}) \cup thread[t].todo

(* A request is at a statement of its kind, about an item of its kind.     *)
ItemFits(t) ==
  /\ thread[t].op \in {"consume", "refuse"} => thread[t].at = "item"
  /\ thread[t].op = "accept" => thread[t].at \in {"item", "user"}
  /\ thread[t].op = "resend" => thread[t].at = "row"
  /\ thread[t].op = "send" => thread[t].at \in {"user", "links"}
  /\ thread[t].op = "backup" => thread[t].at \in {"user", "write"}
  /\ thread[t].op = "close" => thread[t].at \in {"invitations", "links", "user"}
  /\ thread[t].op = "erase" => thread[t].at = "invitations"
  /\ thread[t].op \in {"invite", "cleanup"} => thread[t].at = "stale"
  /\ thread[t].op = "start" => thread[t].at \in {"item", "stale", "write"}
  /\ thread[t].op \in {"send", "consume"} => thread[t].item \in Links
  /\ thread[t].op = "backup" => thread[t].item \in Backups
  /\ thread[t].op \in {"accept", "refuse", "resend"} => thread[t].item \in Invitations
  /\ thread[t].op = "invite" => thread[t].item \in Sent
  /\ thread[t].op = "start" => thread[t].item \in SamlRequests

TInv == TypeOK /\ \A t \in Threads : ItemFits(t)

(* Only rows that exist are held, and no backup codes, which have no row.  *)
HeldRowsLive == \A i \in Items : lock[i] # Free => i \in live \ Backups

(* A statement about one row waits for it before anything is held.         *)
OneRow(t) ==
  \/ At(t, {"consume", "accept", "refuse", "start"}, "item")
  \/ At(t, {"resend"}, "row")
  \/ At(t, {"send", "backup"}, "user")
  \/ At(t, {"invite"}, "stale")

NothingHeld(t) == HeldBy(t) = {} /\ lock[UserRow] # t

(* Which rows are held, and which are ahead, at which statement.           *)
RowsFit(t) ==
  /\ thread[t].op = "none" => NothingHeld(t)
  /\ thread[t].next = NoItem => thread[t].todo = {}
  /\ thread[t].next \notin thread[t].todo
  /\ Ahead(t) \cap Backups = {}
  /\ OneRow(t) => thread[t].todo = {} /\ (thread[t].next # NoItem => NothingHeld(t))
  /\ thread[t].op \in {"consume", "accept", "refuse", "resend"} =>
       HeldBy(t) \subseteq {thread[t].item}
  /\ At(t, {"send", "backup"}, "user") => HeldBy(t) = {}
  /\ thread[t].at \in {"item", "row"} /\ thread[t].op # "start" =>
       Ahead(t) \subseteq {thread[t].item} /\ lock[UserRow] # t
  /\ thread[t].at = "user" =>
       /\ Ahead(t) \subseteq {UserRow}
       /\ (lock[UserRow] = t) <=> (thread[t].next = NoItem)
  /\ At(t, {"close"}, "invitations") => HeldBy(t) \cup Ahead(t) \subseteq Invitations
  /\ At(t, {"close"}, "links") => Ahead(t) \subseteq Links
  /\ thread[t].op = "close" => HeldBy(t) \subseteq Invitations \cup Links
  /\ thread[t].at \in {"stale", "invitations"} \/ At(t, {"close"}, "links") =>
       lock[UserRow] # t /\ Ahead(t) \subseteq Items
  /\ thread[t].op = "erase" => HeldBy(t) \cup Ahead(t) \subseteq Invitations
  /\ thread[t].op = "start" =>
       HeldBy(t) \cup Ahead(t) \subseteq SamlRequests /\ lock[UserRow] # t
  /\ thread[t].op = "cleanup" =>
       \E rows \in {Links, SamlRequests, Invitations} :
         HeldBy(t) \cup Ahead(t) \subseteq rows

(* What a transaction relies on while it holds the account.                *)
Claims(t) ==
  /\ RowsFit(t)
  /\ At(t, {"send"}, "links") =>
       /\ lock[UserRow] = t
       /\ live \cap Slot(thread[t].item) \subseteq HeldBy(t) \cup Ahead(t)
       /\ Ahead(t) \subseteq Links
       /\ thread[t].todo = {} /\ (thread[t].next # NoItem => HeldBy(t) = {})
  /\ At(t, {"backup"}, "write") =>
       /\ lock[UserRow] = t /\ thread[t].seen = live \cap Backups
       /\ thread[t].next = NoItem
  /\ thread[t].op = "close" => thread[t].seen \subseteq Backups

(* The item that is going to be created is new, and nobody else's.         *)
NewItem(t) ==
  Creates(t) =>
    /\ thread[t].item \notin issued
    /\ \A s \in Threads \ {t} : Creates(s) => thread[s].item # thread[t].item

OneLink == \A i, j \in live \cap Links : kind[i] = kind[j] => i = j

(* What was not there yet, and what is there still, was not used.          *)
UsedIsGone ==
  \A i \in Items : uses[i] <= 1 /\ (i \in live \/ i \notin issued => uses[i] = 0)

IInv ==
  /\ TInv
  /\ expired \cap Backups = {}
  /\ HeldRowsLive
  /\ \A t \in Threads : Claims(t)
  /\ \A t \in Threads : NewItem(t)
  /\ OneLink
  /\ UsedIsGone

-----------------------------------------------------------------------------
(* Requests and locks.                                                     *)

(* A thread that is at a step serves a request.                            *)
LEMMA AtIsRequest ==
  ASSUME TypeOK, NEW t \in Threads, thread[t].op \in Ops
  PROVE  /\ thread[t] \in Request /\ thread[t] # Idle
         /\ thread[t].at \in Stages
         /\ thread[t].item \in Items \cup {NoItem}
         /\ thread[t].next \in Rows \cup {NoItem}
         /\ thread[t].todo \in SUBSET Rows
         /\ thread[t].seen \in SUBSET Items
<1>1. thread[t] \in Request \cup {Idle}
  BY DEF TypeOK
<1>2. thread[t] # Idle
  BY DEF Idle, Ops
<1> QED
  BY <1>1, <1>2 DEF Request

(* What the thread that moves does to itself, and only to itself.          *)
Moved(t, op, item, at, rows, seen) ==
  /\ thread' \in [Threads -> Request \cup {Idle}]
  /\ \A u \in Threads \ {t} : thread'[u] = thread[u]
  /\ thread'[t].op = op /\ thread'[t].item = item
  /\ thread'[t].at = at /\ thread'[t].seen = seen
  /\ thread'[t].next = NoItem <=> rows = {}
  /\ thread'[t].todo = rows \ {thread'[t].next}
  /\ rows = {} => thread'[t].todo = {}
  /\ \A r \in rows : rows = {r} => thread'[t].next = r /\ thread'[t].todo = {}
  /\ ({thread'[t].next} \ {NoItem}) \cup thread'[t].todo = rows

LEMMA StepEffect ==
  ASSUME TypeOK, NEW t \in Threads, NEW op \in Ops, NEW i \in Items \cup {NoItem},
         NEW at \in Stages, NEW rows \in SUBSET Rows, NEW seen \in SUBSET Items,
         \E r \in First(rows) :
           thread' = [thread EXCEPT ![t] =
             [op |-> op, item |-> i, at |-> at,
              next |-> r, todo |-> rows \ {r}, seen |-> seen]]
  PROVE  Moved(t, op, i, at, rows, seen)
<1>1. PICK r \in First(rows) :
        thread' = [thread EXCEPT ![t] =
          [op |-> op, item |-> i, at |-> at,
           next |-> r, todo |-> rows \ {r}, seen |-> seen]]
  OBVIOUS
<1> DEFINE new == [op |-> op, item |-> i, at |-> at,
                   next |-> r, todo |-> rows \ {r}, seen |-> seen]
<1>2. /\ r \in Rows \cup {NoItem} /\ NoItem \notin rows
      /\ r = NoItem <=> rows = {}
      /\ rows # {} => r \in rows
  BY SingleUseAssumption DEF First, Rows
<1>3. new \in Request
  BY <1>2 DEF Request
<1>4. thread'[t] = new
  BY <1>1 DEF TypeOK
<1>5. thread' \in [Threads -> Request \cup {Idle}]
  BY <1>1, <1>3 DEF TypeOK
<1>6. \A u \in Threads \ {t} : thread'[u] = thread[u]
  BY <1>1 DEF TypeOK
<1>7. /\ thread'[t].op = op /\ thread'[t].item = i /\ thread'[t].at = at
      /\ thread'[t].seen = seen /\ thread'[t].next = r
      /\ thread'[t].todo = rows \ {r}
  BY <1>4
<1>8. ({r} \ {NoItem}) \cup (rows \ {r}) = rows
  BY <1>2
<1>9. ASSUME NEW q \in rows, rows = {q}
      PROVE  r = q /\ rows \ {r} = {}
  <2>1. r \in rows
    BY <1>2, <1>9
  <2>2. r \in {q}
    BY <2>1, <1>9
  <2>3. r = q
    BY <2>2
  <2>4. {q} \ {q} = {}
    OBVIOUS
  <2> QED
    BY <2>3, <2>4, <1>9
<1> HIDE DEF new
<1>10. /\ thread'[t].next = NoItem <=> rows = {}
       /\ thread'[t].todo = rows \ {thread'[t].next}
       /\ rows = {} => thread'[t].todo = {}
  BY <1>2, <1>7
<1>11. \A q \in rows : rows = {q} => thread'[t].next = q /\ thread'[t].todo = {}
  BY <1>7, <1>9
<1>12. ({thread'[t].next} \ {NoItem}) \cup thread'[t].todo = rows
  BY <1>7, <1>8
<1> QED
  BY <1>5, <1>6, <1>7, <1>10, <1>11, <1>12 DEF Moved

LEMMA ScanEffect ==
  ASSUME TypeOK, NEW t \in Threads, thread[t].op \in Ops,
         NEW at \in Stages, NEW rows \in SUBSET Rows, NEW seen \in SUBSET Items,
         Scan(t, at, rows, seen)
  PROVE  Moved(t, thread[t].op, thread[t].item, at, rows, seen)
<1>1. thread[t].item \in Items \cup {NoItem}
  BY AtIsRequest
<1>2. \E r \in First(rows) :
        thread' = [thread EXCEPT ![t] =
          [op |-> thread[t].op, item |-> thread[t].item, at |-> at,
           next |-> r, todo |-> rows \ {r}, seen |-> seen]]
  BY DEF Scan
<1> QED
  BY <1>1, <1>2, StepEffect

LEMMA ReleaseEffect ==
  ASSUME TypeOK, NEW t \in Threads, Release(t)
  PROVE  /\ lock' \in [Rows -> Threads \cup {Free}]
         /\ \A r \in Rows : lock'[r] = IF lock[r] = t THEN Free ELSE lock[r]
BY DEF Release, TypeOK

LEMMA FinishEffect ==
  ASSUME TypeOK, NEW t \in Threads, Finish(t)
  PROVE  /\ lock' \in [Rows -> Threads \cup {Free}]
         /\ \A r \in Rows : lock'[r] = IF lock[r] = t THEN Free ELSE lock[r]
         /\ thread' \in [Threads -> Request \cup {Idle}]
         /\ \A u \in Threads \ {t} : thread'[u] = thread[u]
         /\ thread'[t] = Idle
BY ReleaseEffect DEF Finish, TypeOK

-----------------------------------------------------------------------------
(* What a step owes to the rest of the system.                             *)

(* A thread that does not move finds its locks and what it read in place.  *)
Respects(u) ==
  /\ thread'[u] = thread[u]
  /\ \A r \in Rows : lock[r] = u <=> lock'[r] = u
  /\ lock[UserRow] = u =>
       /\ live' \cap Backups = live \cap Backups
       /\ live' \cap Links \subseteq live
  /\ Creates(u) /\ thread[u].item \notin issued => thread[u].item \notin issued'

(* Items come to be and end once, and a use ends the item.                 *)
LiveStep ==
  /\ issued' = issued \cup live'
  /\ live' \cap issued \subseteq live
  /\ \/ uses' = uses
     \/ \E i \in live \ live' : uses' = [uses EXCEPT ![i] = @ + 1]

(* A step of the threads in T, which is one thread or none.                *)
StepGood(T) ==
  /\ TypeOK' /\ kind' = kind
  /\ \A u \in Threads \ T : Respects(u)
  /\ \A t \in T : ItemFits(t)' /\ Claims(t)' /\ NewItem(t)'
  /\ expired' \cap Backups = {}
  /\ HeldRowsLive'
  /\ OneLink'
  /\ LiveStep

LEMMA KindsStay ==
  ASSUME kind' = kind
  PROVE  /\ Links' = Links /\ Backups' = Backups /\ SamlRequests' = SamlRequests
         /\ Sent' = Sent /\ Received' = Received /\ Invitations' = Invitations
         /\ \A i : Slot(i)' = Slot(i)
         /\ \A kinds : OfKind(kinds)' = OfKind(kinds)
BY DEF Links, Backups, SamlRequests, Sent, Received, Invitations, Slot, OfKind

LEMMA RespectKeepsClaims ==
  ASSUME IInv, NEW u \in Threads, kind' = kind, Respects(u)
  PROVE  ItemFits(u)' /\ Claims(u)'
<1>1. /\ thread'[u] = thread[u]
      /\ Links' = Links /\ Backups' = Backups /\ SamlRequests' = SamlRequests
      /\ Sent' = Sent /\ Received' = Received /\ Invitations' = Invitations
      /\ \A i : Slot(i)' = Slot(i)
  BY KindsStay DEF Respects
<1>2. ItemFits(u) /\ Claims(u)
  BY DEF IInv, TInv
<1>3. ItemFits(u)'
  BY <1>1, <1>2 DEF ItemFits
<1>4. /\ HeldBy(u)' = HeldBy(u) /\ Ahead(u)' = Ahead(u)
      /\ (lock[UserRow] = u) <=> (lock[UserRow] = u)'
  BY <1>1 DEF Respects, HeldBy, Ahead, Rows
<1>5. RowsFit(u)'
  BY <1>1, <1>2, <1>4 DEF Claims, RowsFit, OneRow, NothingHeld, At
<1>6. /\ At(u, {"send"}, "links") =>
           Slot(thread[u].item) \subseteq Links
      /\ lock[UserRow] = u => live' \cap Backups = live \cap Backups
      /\ lock[UserRow] = u => live' \cap Links \subseteq live
  BY <1>2 DEF Respects, ItemFits, At, Slot, Links, OfKind
<1> QED
  BY <1>1, <1>2, <1>3, <1>4, <1>5, <1>6 DEF Claims, At

LEMMA LiveStepKeepsUses ==
  ASSUME IInv, TypeOK', LiveStep
  PROVE  UsedIsGone'
<1> SUFFICES ASSUME NEW i \in Items
             PROVE  uses'[i] <= 1 /\ (i \in live' \/ i \notin issued' => uses'[i] = 0)
  BY DEF UsedIsGone
<1>1. uses[i] \in Nat /\ uses[i] <= 1 /\ (i \in live \/ i \notin issued => uses[i] = 0)
  BY DEF IInv, UsedIsGone, TInv, TypeOK
<1>2. i \in live' \/ i \notin issued' => i \in live \/ i \notin issued
  BY DEF LiveStep
<1>3. CASE uses' = uses
  BY <1>1, <1>2, <1>3
<1>4. CASE \E j \in live \ live' : uses' = [uses EXCEPT ![j] = @ + 1]
  <2>1. PICK j \in live \ live' : uses' = [uses EXCEPT ![j] = @ + 1]
    BY <1>4
  <2>2. j \in issued
    BY DEF IInv, TInv, TypeOK
  <2>3. j \in issued'
    BY <2>2 DEF LiveStep
  <2>4. i # j => uses'[i] = uses[i]
    BY <2>1 DEF IInv, TInv, TypeOK
  <2>5. i = j => uses'[i] = uses[i] + 1 /\ uses[i] = 0
    BY <2>1, <1>1 DEF IInv, TInv, TypeOK
  <2> QED
    BY <1>1, <1>2, <2>1, <2>3, <2>4, <2>5
<1> QED
  BY <1>3, <1>4 DEF LiveStep

LEMMA GoodStep ==
  ASSUME IInv, NEW T \in SUBSET Threads, StepGood(T)
  PROVE  IInv'
<1>1. \A u \in Threads : ItemFits(u)' /\ Claims(u)'
  BY RespectKeepsClaims DEF StepGood
<1>2. \A u \in Threads : NewItem(u)'
  <2> SUFFICES ASSUME NEW u \in Threads \ T
               PROVE  NewItem(u)'
    BY DEF StepGood
  <2>1. /\ thread'[u] = thread[u] /\ NewItem(u)
        /\ Creates(u) /\ thread[u].item \notin issued => thread[u].item \notin issued'
    BY DEF IInv, StepGood, Respects
  <2>2. ASSUME NEW s \in Threads \ {u}, Creates(u)', Creates(s)'
        PROVE  thread'[s].item # thread'[u].item
    <3>1. CASE s \in T
      BY <2>2, <3>1 DEF StepGood, NewItem
    <3>2. CASE s \notin T
      <4>1. thread'[s] = thread[s]
        BY <3>2 DEF StepGood, Respects
      <4> QED
        BY <2>1, <2>2, <4>1 DEF NewItem, Creates
    <3> QED
      BY <3>1, <3>2
  <2> QED
    BY <2>1, <2>2 DEF NewItem, Creates
<1>3. expired' \cap Backups' = {}
  BY KindsStay DEF StepGood
<1>4. UsedIsGone'
  BY LiveStepKeepsUses DEF StepGood
<1> QED
  BY <1>1, <1>2, <1>3, <1>4 DEF IInv, TInv, StepGood

-----------------------------------------------------------------------------
(* The shapes of a step.                                                   *)

(* The items change as a step may change them.                             *)
ItemsGood(mayEnd, new, backupsMayChange, linksMayCome) ==
  /\ kind' = kind
  /\ enrolled' \in BOOLEAN /\ erased' \in BOOLEAN /\ closed' \in BOOLEAN
  /\ issued' \subseteq Items /\ live' \subseteq issued'
  /\ expired' \subseteq live' /\ recent' \subseteq live'
  /\ uses' \in [Items -> Nat]
  /\ expired' \cap Backups = {}
  /\ LiveStep
  /\ live \ live' \subseteq mayEnd
  /\ issued' \ issued \subseteq new
  /\ backupsMayChange \/ live' \cap Backups = live \cap Backups
  /\ linksMayCome \/ live' \cap Links \subseteq live
  /\ OneLink'

LEMMA NothingHappens ==
  ASSUME IInv, UNCHANGED <<kind, itemVars>>,
         enrolled' \in BOOLEAN, erased' \in BOOLEAN, closed' \in BOOLEAN
  PROVE  ItemsGood({}, {}, FALSE, FALSE)
BY DEF ItemsGood, IInv, TInv, TypeOK, itemVars, LiveStep, OneLink, Links, OfKind

(* What ends, and what is left of the rest, in a step that creates nothing.*)
LEMMA EndingGood ==
  ASSUME IInv, NEW end \in SUBSET live, Replace(end, {}), kind' = kind,
         enrolled' \in BOOLEAN, erased' \in BOOLEAN, closed' \in BOOLEAN,
         uses' = uses \/ \E i \in end : UsedBy(i)
  PROVE  ItemsGood(end, {}, end \cap Backups # {}, FALSE)
<1> USE DEF IInv, TInv, TypeOK
<1>1. /\ live' = live \ end /\ issued' = issued
      /\ expired' = expired \ end /\ recent' = recent \ end
  BY DEF Replace
<1>2. uses' \in [Items -> Nat]
  BY DEF UsedBy
<1>3. LiveStep
  BY <1>1 DEF LiveStep, UsedBy
<1>4. OneLink'
  BY <1>1, KindsStay DEF OneLink
<1> QED
  BY <1>1, <1>2, <1>3, <1>4 DEF ItemsGood

LEMMA BeginGood ==
  ASSUME IInv, NEW t \in Threads, NEW op \in Ops, NEW i \in Items \cup {NoItem},
         NEW at \in Stages, NEW rows \in SUBSET Rows, NEW seen \in SUBSET Items,
         Begin(t, op, i, at, rows, seen),
         op \in {"send", "invite", "start"} => Fresh(i),
         NothingHeld(t)' => ItemFits(t)' /\ Claims(t)'
  PROVE  StepGood({t})
<1> USE DEF IInv, TInv
<1>1. UNCHANGED <<kind, itemVars, lock, flags>> /\ thread[t] = Idle
  BY DEF Begin
<1>2. Moved(t, op, i, at, rows, seen)
  BY StepEffect DEF Begin
<1>3. TypeOK'
  BY <1>1, <1>2 DEF TypeOK, itemVars, flags, Rows, Moved
<1>4. \A u \in Threads \ {t} : Respects(u)
  BY <1>1, <1>2 DEF Respects, itemVars, Moved
<1>5. NothingHeld(t)'
  <2>1. RowsFit(t) /\ thread[t].op = "none"
    BY <1>1 DEF Claims, Idle
  <2> QED
    BY <1>1, <2>1 DEF RowsFit, NothingHeld, HeldBy
<1>6. NewItem(t)'
  BY <1>1, <1>2 DEF NewItem, Creates, Fresh, Unused, itemVars, Moved
<1>7. expired' \cap Backups = {} /\ HeldRowsLive' /\ OneLink' /\ LiveStep
  <2>1. Links' = Links /\ Backups' = Backups
    BY <1>1, KindsStay
  <2> QED
    BY <1>1, <2>1 DEF HeldRowsLive, OneLink, LiveStep, itemVars, TypeOK
<1> QED
  BY <1>1, <1>3, <1>4, <1>5, <1>6, <1>7 DEF StepGood

(* A request goes on to another statement, or takes a row for this one.    *)
LEMMA ScanGood ==
  ASSUME IInv, NEW t \in Threads, thread[t].op \in Ops,
         NEW at \in Stages, NEW rows \in SUBSET Rows, NEW seen \in SUBSET Items,
         Scan(t, at, rows, seen),
         UNCHANGED <<kind, itemVars, flags>>,
         lock' \in [Rows -> Threads \cup {Free}],
         \A r \in Rows : lock'[r] = lock[r] \/ {lock[r], lock'[r]} \subseteq {Free, t},
         \A r \in Items : lock'[r] = t => r \in live \ Backups,
         ItemFits(t)' /\ Claims(t)'
  PROVE  StepGood({t})
<1> USE DEF IInv, TInv
<1>1. Moved(t, thread[t].op, thread[t].item, at, rows, seen)
  BY ScanEffect
<1>2. TypeOK'
  BY <1>1 DEF TypeOK, itemVars, flags, Moved
<1>3. \A u \in Threads \ {t} : Respects(u)
  BY <1>1, SingleUseAssumption DEF Respects, itemVars, Moved
<1>4. NewItem(t)'
  BY <1>1 DEF NewItem, Creates, itemVars, Moved
<1>5. Links' = Links /\ Backups' = Backups
  BY KindsStay
<1>6. HeldRowsLive'
  BY <1>5 DEF HeldRowsLive, itemVars, Rows
<1>7. expired' \cap Backups = {} /\ OneLink' /\ LiveStep
  BY <1>5 DEF OneLink, LiveStep, itemVars, TypeOK
<1> QED
  BY <1>2, <1>3, <1>4, <1>6, <1>7 DEF StepGood

(* The thread is done, and what it changed was its own or nobody's.        *)
LEMMA FinishGood ==
  ASSUME IInv, NEW t \in Threads, Finish(t),
         ItemsGood({i \in Items : lock[i] \in {Free, t}},
                   IF Creates(t) THEN {thread[t].item} ELSE {},
                   lock[UserRow] = t, lock[UserRow] = t)
  PROVE  StepGood({t})
<1> USE DEF IInv, TInv
<1>1. /\ lock' \in [Rows -> Threads \cup {Free}]
      /\ thread' \in [Threads -> Request \cup {Idle}]
      /\ \A r \in Rows : lock'[r] = IF lock[r] = t THEN Free ELSE lock[r]
      /\ \A u \in Threads \ {t} : thread'[u] = thread[u]
      /\ thread'[t] = Idle
  BY FinishEffect
<1>2. TypeOK'
  BY <1>1 DEF TypeOK, ItemsGood
<1>3. ASSUME NEW u \in Threads \ {t}
      PROVE  Respects(u)
  <2>1. \A r \in Rows : lock[r] = u <=> lock'[r] = u
    BY <1>1, SingleUseAssumption
  <2>2. Creates(u) /\ thread[u].item \notin issued => thread[u].item \notin issued'
    BY DEF ItemsGood, NewItem
  <2> QED
    BY <1>1, <2>1, <2>2 DEF Respects, ItemsGood
<1>4. ItemFits(t)' /\ Claims(t)' /\ NewItem(t)'
  <2>1. NothingHeld(t)'
    BY <1>1, SingleUseAssumption DEF NothingHeld, HeldBy, Rows
  <2>2. Ahead(t)' = {}
    BY <1>1 DEF Ahead, Idle
  <2> QED
    BY <1>1, <2>1, <2>2
       DEF Idle, ItemFits, Claims, RowsFit, OneRow, NothingHeld, NewItem, Creates, At
<1>5. HeldRowsLive'
  <2> SUFFICES ASSUME NEW i \in Items, lock'[i] # Free
               PROVE  i \in live' \ Backups'
    BY DEF HeldRowsLive
  <2>1. lock[i] \notin {Free, t}
    BY <1>1, SingleUseAssumption DEF Rows
  <2>2. i \in live \ Backups
    BY <2>1 DEF HeldRowsLive
  <2> QED
    BY <2>1, <2>2, KindsStay DEF ItemsGood
<1> QED
  BY <1>2, <1>3, <1>4, <1>5 DEF StepGood, ItemsGood

(* A single statement that meets no lock.                                  *)
LEMMA StatementGood ==
  ASSUME IInv, UNCHANGED <<lock, thread>>,
         ItemsGood({i \in Items : lock[i] = Free},
                   {i \in Items : Unused(i)}, lock[UserRow] = Free, FALSE)
  PROVE  StepGood({})
<1> USE DEF IInv, TInv
<1>1. TypeOK'
  BY DEF TypeOK, ItemsGood
<1>2. ASSUME NEW u \in Threads
      PROVE  Respects(u)
  <2>1. lock[UserRow] = u => lock[UserRow] # Free
    BY SingleUseAssumption
  <2>2. Creates(u) /\ thread[u].item \notin issued => thread[u].item \notin issued'
    BY DEF ItemsGood, Unused
  <2> QED
    BY <2>1, <2>2 DEF Respects, ItemsGood
<1>3. HeldRowsLive'
  BY KindsStay DEF HeldRowsLive, ItemsGood
<1> QED
  BY <1>1, <1>2, <1>3 DEF StepGood, ItemsGood

-----------------------------------------------------------------------------
(* Requests that arrive.                                                   *)

(* What is known of the thread that moved, and of the sets that stay.      *)
LEMMA MovedFacts ==
  ASSUME NEW t \in Threads, NEW op, NEW i, NEW at, NEW rows, NEW seen,
         Moved(t, op, i, at, rows, seen), kind' = kind
  PROVE  /\ thread'[t].op = op /\ thread'[t].item = i
         /\ thread'[t].at = at /\ thread'[t].seen = seen
         /\ thread'[t].next = NoItem <=> rows = {}
         /\ rows = {} => thread'[t].todo = {}
         /\ thread'[t].next \notin thread'[t].todo
         /\ \A r \in rows : rows = {r} => thread'[t].todo = {}
         /\ Ahead(t)' = rows
         /\ Links' = Links /\ Backups' = Backups /\ SamlRequests' = SamlRequests
         /\ Sent' = Sent /\ Received' = Received /\ Invitations' = Invitations
         /\ \A j : Slot(j)' = Slot(j)
BY KindsStay DEF Moved, Ahead

(* No item is of two kinds that are told apart.                            *)
LEMMA KindsApart ==
  /\ Links \cap Backups = {} /\ Links \cap SamlRequests = {}
  /\ Links \cap Invitations = {} /\ Backups \cap SamlRequests = {}
  /\ Backups \cap Invitations = {} /\ SamlRequests \cap Invitations = {}
  /\ Links \cup Backups \cup SamlRequests \cup Invitations \subseteq Items
  /\ Sent \subseteq Invitations /\ Received \subseteq Invitations
  /\ UserRow \notin Items /\ NoItem \notin Items /\ NoItem # UserRow
  /\ Items \subseteq Rows /\ UserRow \in Rows
BY SingleUseAssumption
   DEF Links, Backups, SamlRequests, Sent, Received, Invitations, OfKind, Rows

(* The statement of a request that has just begun fits the request.        *)
LEMMA BeginFits ==
  ASSUME IInv, NEW t \in Threads, NEW op \in Ops, NEW i \in Items \cup {NoItem},
         NEW at \in Stages, NEW rows \in SUBSET Rows, NEW seen \in SUBSET Items,
         Begin(t, op, i, at, rows, seen), NothingHeld(t)',
         \/ /\ op = "consume" /\ i \in Links /\ at = "item" /\ rows = {i}
         \/ /\ op \in {"accept", "refuse"} /\ i \in Invitations /\ at = "item" /\ rows = {i}
         \/ /\ op = "resend" /\ i \in Invitations /\ at = "row" /\ rows = {i}
         \/ /\ op = "send" /\ i \in Links /\ at = "user" /\ rows = {UserRow}
         \/ /\ op = "backup" /\ i \in Backups /\ at = "user" /\ rows = {UserRow}
         \/ /\ op = "close" /\ at = "invitations" /\ rows \subseteq Invitations
            /\ seen \subseteq Backups
         \/ /\ op = "invite" /\ i \in Sent /\ at = "stale"
            /\ rows = {} \/ \E j \in Invitations : rows = {j}
         \/ /\ op = "erase" /\ at = "invitations" /\ rows \subseteq Invitations
         \/ /\ op = "start" /\ i \in SamlRequests /\ at = "item"
            /\ rows = {} \/ \E j \in SamlRequests : rows = {j}
         \/ /\ op = "cleanup" /\ at = "stale"
            /\ \E those \in {Links, SamlRequests, Invitations} : rows \subseteq those
  PROVE  ItemFits(t)' /\ Claims(t)'
<1>1. Moved(t, op, i, at, rows, seen) /\ kind' = kind
  BY StepEffect DEF Begin, IInv, TInv
<1>2. /\ thread'[t].op = op /\ thread'[t].item = i
      /\ thread'[t].at = at /\ thread'[t].seen = seen
      /\ thread'[t].next = NoItem <=> rows = {}
      /\ rows = {} => thread'[t].todo = {}
      /\ thread'[t].next \notin thread'[t].todo
      /\ \A r \in rows : rows = {r} => thread'[t].todo = {}
      /\ Ahead(t)' = rows
      /\ Links' = Links /\ Backups' = Backups /\ SamlRequests' = SamlRequests
      /\ Sent' = Sent /\ Invitations' = Invitations
  BY <1>1, MovedFacts
<1>3. ItemFits(t)'
  BY <1>2 DEF ItemFits
<1>4. HeldBy(t)' = {} /\ lock'[UserRow] # t
  BY DEF NothingHeld
<1>5. RowsFit(t)'
  BY <1>2, <1>4, KindsApart DEF RowsFit, OneRow, NothingHeld, At
<1>6. Claims(t)'
  BY <1>2, <1>5 DEF Claims, At
<1> QED
  BY <1>3, <1>6

LEMMA ArriveGood ==
  ASSUME IInv, NEW t \in Threads, Arrive(t)
  PROVE  StepGood({t})
<1> USE KindsApart
<1>1. CASE BeginErase(t)
  <2>1. live \cap Sent \in SUBSET Rows /\ live \cap Sent \subseteq Invitations
    OBVIOUS
  <2> QED
    BY <1>1, <2>1, BeginFits, BeginGood DEF BeginErase, Ops, Stages
<1>2. CASE BeginClose(t)
  <2> DEFINE seen == IF enrolled THEN Backups ELSE {}
  <2>1. /\ live \cap Received \in SUBSET Rows /\ live \cap Received \subseteq Invitations
        /\ seen \in SUBSET Items /\ seen \subseteq Backups
    OBVIOUS
  <2>2. Begin(t, "close", NoItem, "invitations", live \cap Received, seen)
    BY <1>2 DEF BeginClose
  <2> HIDE DEF seen
  <2> QED
    BY <2>1, <2>2, BeginFits, BeginGood DEF Ops, Stages
<1>3. ASSUME NEW rows \in SUBSET Items, BeginCleanUp(t, rows)
      PROVE  StepGood({t})
  <2>1. /\ rows \in SUBSET Rows
        /\ \E those \in {Links, SamlRequests, Invitations} : rows \subseteq those
    BY <1>3 DEF BeginCleanUp
  <2> QED
    BY <1>3, <2>1, BeginFits, BeginGood DEF BeginCleanUp, Ops, Stages
<1>4. ASSUME NEW i \in Items,
             \/ BeginConsume(t, i) \/ BeginResend(t, i)
             \/ \E op \in Ops : BeginTransition(t, op, i)
      PROVE  StepGood({t})
  <2>1. PICK op \in {"consume", "resend", "accept", "refuse"}, at \in {"item", "row"} :
          /\ Begin(t, op, i, at, {i}, {})
          /\ \/ op = "consume" /\ i \in Links /\ at = "item"
             \/ op \in {"accept", "refuse"} /\ i \in Invitations /\ at = "item"
             \/ op = "resend" /\ i \in Invitations /\ at = "row"
    BY <1>4 DEF BeginConsume, BeginResend, BeginTransition
  <2>2. op \in Ops /\ at \in Stages /\ {i} \in SUBSET Rows
    BY DEF Ops, Stages
  <2> QED
    BY <2>1, <2>2, BeginFits, BeginGood
<1>5. ASSUME NEW i \in Items, BeginSend(t, i) \/ BeginBackup(t, i)
      PROVE  StepGood({t})
  <2>1. PICK op \in {"send", "backup"} :
          /\ Begin(t, op, i, "user", {UserRow}, {})
          /\ \/ op = "send" /\ i \in Links /\ Fresh(i)
             \/ op = "backup" /\ i \in Backups
    BY <1>5 DEF BeginSend, BeginBackup
  <2>2. op \in Ops /\ "user" \in Stages /\ {UserRow} \in SUBSET Rows
    BY DEF Ops, Stages
  <2> QED
    BY <2>1, <2>2, BeginFits, BeginGood
<1>6. ASSUME NEW rows, Cardinality(rows) <= 1, rows \subseteq Items
      PROVE  rows = {} \/ \E j \in Items : rows = {j}
  <2>1. IsFiniteSet(rows) /\ Cardinality(rows) \in Nat
    BY <1>6, SingleUseAssumption, FS_Subset, FS_CardinalityType
  <2>2. Cardinality(rows) = 0 \/ Cardinality(rows) = 1
    BY <1>6, <2>1
  <2> QED
    BY <1>6, <2>1, <2>2, FS_EmptySet, FS_Singleton
<1>7. ASSUME NEW i \in Items, NEW rows \in SUBSET Items,
             BeginInvite(t, i, rows) \/ BeginProvision(t, i, rows)
      PROVE  StepGood({t})
  <2>1. /\ i \in Sent /\ Fresh(i) /\ rows \subseteq Slot(i) /\ Cardinality(rows) <= 1
        /\ Begin(t, "invite", i, "stale", rows, {})
    BY <1>7 DEF BeginInvite, BeginProvision, Duplicate, Sent, OfKind
  <2>2. Slot(i) \subseteq Invitations
    BY <2>1 DEF Slot, Sent, Received, Invitations, OfKind
  <2>3. rows = {} \/ \E j \in Invitations : rows = {j}
    BY <1>6, <2>1, <2>2
  <2>4. "invite" \in Ops /\ "stale" \in Stages /\ rows \in SUBSET Rows
    BY DEF Ops, Stages
  <2> QED
    BY <2>1, <2>3, <2>4, BeginFits, BeginGood
<1>8. ASSUME NEW i \in Items, NEW rows \in SUBSET Items, BeginSaml(t, i, rows)
      PROVE  StepGood({t})
  <2>1. /\ i \in SamlRequests /\ Fresh(i)
        /\ rows \subseteq SamlRequests /\ Cardinality(rows) <= 1
        /\ Begin(t, "start", i, "item", rows, {})
    BY <1>8 DEF BeginSaml
  <2>2. rows = {} \/ \E j \in SamlRequests : rows = {j}
    BY <1>6, <2>1
  <2>3. "start" \in Ops /\ "item" \in Stages /\ rows \in SUBSET Rows
    BY DEF Ops, Stages
  <2> QED
    BY <2>1, <2>2, <2>3, BeginFits, BeginGood
<1> QED
  BY <1>1, <1>2, <1>3, <1>4, <1>5, <1>7, <1>8 DEF Arrive

LEMMA InitGood ==
  ASSUME Init
  PROVE  IInv
<1> USE DEF Init
<1>1. TypeOK
  BY SingleUseAssumption DEF TypeOK, Rows
<1>2. \A t \in Threads : ItemFits(t) /\ Ahead(t) = {} /\ NothingHeld(t)
  BY SingleUseAssumption DEF ItemFits, Idle, Ahead, NothingHeld, HeldBy, Rows
<1>3. \A t \in Threads : Claims(t)
  BY <1>2 DEF Claims, RowsFit, OneRow, NothingHeld, Idle, At
<1>4. \A t \in Threads : NewItem(t)
  BY DEF NewItem, Creates, Idle
<1> QED
  BY <1>1, <1>2, <1>3, <1>4 DEF IInv, TInv, HeldRowsLive, OneLink, UsedIsGone, Rows

-----------------------------------------------------------------------------
(* Requests that are served.                                               *)

(* What the thread at a step is.                                           *)
LEMMA AtStep ==
  ASSUME IInv, NEW t \in Threads
  PROVE  /\ thread[t].next # NoItem => thread[t].op \in Ops
         /\ \A ops \in SUBSET Ops : \A at : At(t, ops, at) => thread[t].op \in Ops
         /\ thread[t].op \in Ops =>
              /\ thread[t].next \in Rows \cup {NoItem} /\ thread[t].todo \in SUBSET Rows
              /\ thread[t].seen \in SUBSET Items /\ thread[t].at \in Stages
              /\ thread[t].item \in Items \cup {NoItem}
              /\ ItemFits(t) /\ RowsFit(t) /\ Claims(t) /\ NewItem(t)
              /\ HeldBy(t) \subseteq live \ Backups /\ HeldBy(t) \subseteq Items
<1>1. thread[t] \in Request \cup {Idle}
  BY DEF IInv, TInv, TypeOK
<1>2. thread[t].next # NoItem => thread[t].op \in Ops
  BY <1>1 DEF Request, Idle
<1>3. \A i \in HeldBy(t) : lock[i] # Free
  BY SingleUseAssumption DEF HeldBy
<1> QED
  BY <1>2, <1>3, AtIsRequest
     DEF IInv, TInv, Claims, At, HeldBy, HeldRowsLive

LEMMA TakeGood ==
  ASSUME IInv, NEW t \in Threads, Take(t)
  PROVE  StepGood({t})
<1> DEFINE n == thread[t].next
           rest == thread[t].todo
<1> USE KindsApart
<1>1. /\ thread[t].op \in Ops /\ n \in Rows /\ rest \in SUBSET Rows
      /\ ItemFits(t) /\ RowsFit(t) /\ Claims(t)
      /\ thread[t].at \in Stages /\ thread[t].seen \in SUBSET Items
      /\ thread[t].item \in Items \cup {NoItem}
  BY AtStep DEF Take
<1>2. UNCHANGED <<kind, itemVars, flags>> /\ lock[n] = Free
      /\ Scan(t, thread[t].at, rest, thread[t].seen)
  BY DEF Take
<1>3. /\ lock' \in [Rows -> Threads \cup {Free}]
      /\ \A r \in Rows \ {n} : lock'[r] = lock[r]
      /\ lock'[n] = IF Matches(t) THEN t ELSE Free
  BY <1>1 DEF Take, IInv, TInv, TypeOK
<1>4. Moved(t, thread[t].op, thread[t].item, thread[t].at, rest, thread[t].seen)
  BY <1>1, <1>2, ScanEffect DEF IInv, TInv
<1>5. /\ thread'[t].op = thread[t].op /\ thread'[t].item = thread[t].item
      /\ thread'[t].at = thread[t].at /\ thread'[t].seen = thread[t].seen
      /\ thread'[t].next = NoItem <=> rest = {}
      /\ rest = {} => thread'[t].todo = {}
      /\ thread'[t].next \notin thread'[t].todo
      /\ \A r \in rest : rest = {r} => thread'[t].todo = {}
      /\ Ahead(t)' = rest
      /\ Links' = Links /\ Backups' = Backups /\ SamlRequests' = SamlRequests
      /\ Sent' = Sent /\ Received' = Received /\ Invitations' = Invitations
      /\ \A j : Slot(j)' = Slot(j)
  BY <1>2, <1>4, MovedFacts
<1>6. n # NoItem /\ n \notin rest /\ Ahead(t) = {n} \cup rest /\ n \notin Backups
  BY <1>1 DEF Take, RowsFit, Ahead
<1> HIDE DEF n, rest
<1>7. /\ HeldBy(t)' \subseteq HeldBy(t) \cup ({n} \cap Items)
      /\ lock'[UserRow] = t <=> lock[UserRow] = t \/ n = UserRow
      /\ lock[UserRow] = t => n # UserRow
      /\ \A i \in HeldBy(t) : i \in HeldBy(t)'
      /\ n \in Items /\ Matches(t) => n \in HeldBy(t)'
  BY <1>2, <1>3, SingleUseAssumption DEF HeldBy, Matches, n, Rows
<1>8. ItemFits(t)'
  BY <1>1, <1>5 DEF ItemFits
<1>9. RowsFit(t)'
  <2>1. HeldBy(t)' \cup Ahead(t)' \subseteq HeldBy(t) \cup Ahead(t)
    BY <1>5, <1>6, <1>7
  <2>2. OneRow(t)' => rest = {} /\ OneRow(t) /\ thread'[t].next = NoItem
    BY <1>1, <1>5, <1>6 DEF RowsFit, OneRow, At, rest
  <2>3. /\ thread'[t].op \in {"consume", "accept", "refuse", "resend"} =>
             HeldBy(t)' \subseteq {thread'[t].item}
        /\ At(t, {"send", "backup"}, "user")' => HeldBy(t)' = {}
    BY <1>1, <1>5, <1>6, <1>7 DEF RowsFit, ItemFits, OneRow, NothingHeld, At, n
  <2>4. thread'[t].at \in {"item", "row"} /\ thread'[t].op # "start" =>
          Ahead(t)' \subseteq {thread'[t].item} /\ lock'[UserRow] # t
    BY <1>1, <1>5, <1>6, <1>7 DEF RowsFit
  <2>5. thread'[t].at = "user" =>
          /\ Ahead(t)' \subseteq {UserRow}
          /\ (lock'[UserRow] = t) <=> (thread'[t].next = NoItem)
    BY <1>1, <1>5, <1>6, <1>7 DEF RowsFit
  <2>6. /\ At(t, {"close"}, "invitations")' => HeldBy(t)' \cup Ahead(t)' \subseteq Invitations
        /\ At(t, {"close"}, "links")' => Ahead(t)' \subseteq Links
        /\ thread'[t].op = "close" => HeldBy(t)' \subseteq Invitations \cup Links
    BY <1>1, <1>5, <1>6, <1>7, <2>1 DEF RowsFit, ItemFits, At
  <2>7. /\ thread'[t].at \in {"stale", "invitations"} \/ At(t, {"close"}, "links")' =>
             lock'[UserRow] # t /\ Ahead(t)' \subseteq Items
        /\ thread'[t].op = "erase" => HeldBy(t)' \cup Ahead(t)' \subseteq Invitations
        /\ thread'[t].op = "start" =>
             HeldBy(t)' \cup Ahead(t)' \subseteq SamlRequests /\ lock'[UserRow] # t
        /\ thread'[t].op = "cleanup" =>
             \E rows \in {Links, SamlRequests, Invitations} :
               HeldBy(t)' \cup Ahead(t)' \subseteq rows
    BY <1>1, <1>5, <1>6, <1>7, <2>1 DEF RowsFit, At
  <2> QED
    BY <1>1, <1>5, <1>6, <2>2, <2>3, <2>4, <2>5, <2>6, <2>7 DEF RowsFit, Ops
<1>10. Claims(t)'
  <2>1. ASSUME At(t, {"send"}, "links")
        PROVE  /\ lock'[UserRow] = t
               /\ live \cap Slot(thread[t].item) \subseteq HeldBy(t)' \cup rest
               /\ rest \subseteq Links
               /\ rest = {}
    <3>1. n \in Items => (n \in live => Matches(t))
      BY <2>1 DEF Matches, At, n
    <3> QED
      BY <1>1, <1>6, <1>7, <2>1, <3>1 DEF Claims, At, n, rest
  <2> QED
    BY <1>1, <1>2, <1>5, <1>6, <1>9, <2>1 DEF Claims, At, itemVars, n, rest
<1>11. \A r \in Items : lock'[r] = t => r \in live \ Backups
  <2> SUFFICES ASSUME NEW r \in Items, lock'[r] = t
               PROVE  r \in live \ Backups
    OBVIOUS
  <2>1. CASE r = n
    BY <1>3, <1>6, <2>1, SingleUseAssumption DEF Matches, n
  <2>2. CASE r # n
    <3>1. r \in HeldBy(t)
      BY <1>3, <2>2 DEF HeldBy
    <3> QED
      BY <1>1, <3>1, AtStep
  <2> QED
    BY <2>1, <2>2
<1>12. \A r \in Rows : lock'[r] = lock[r] \/ {lock[r], lock'[r]} \subseteq {Free, t}
  BY <1>2, <1>3
<1> QED
  BY <1>1, <1>2, <1>3, <1>8, <1>10, <1>11, <1>12, ScanGood DEF rest

(* A request that fails, or finds nothing, changes nothing.                *)
LEMMA GivingUpGood ==
  ASSUME IInv, NEW t \in Threads, Finish(t), UNCHANGED <<kind, itemVars, flags>>
  PROVE  StepGood({t})
<1>1. ItemsGood({}, {}, FALSE, FALSE)
  BY NothingHappens DEF flags, IInv, TInv, TypeOK
<1>2. ItemsGood({i \in Items : lock[i] \in {Free, t}},
                IF Creates(t) THEN {thread[t].item} ELSE {},
                lock[UserRow] = t, lock[UserRow] = t)
  BY <1>1 DEF ItemsGood
<1> QED
  BY <1>2, FinishGood

(* What a request has locked ends, and so does the request.                *)
LEMMA DeletingGood ==
  ASSUME IInv, NEW t \in Threads, thread[t].op \in Ops,
         DeleteHeld(t, {}), Finish(t), kind' = kind,
         enrolled' \in BOOLEAN, erased' \in BOOLEAN, closed' \in BOOLEAN,
         uses' = uses \/ \E i \in HeldBy(t) : UsedBy(i)
  PROVE  StepGood({t})
<1>1. HeldBy(t) \in SUBSET live /\ ~(HeldBy(t) \cap Backups # {})
  BY AtStep
<1>2. ItemsGood(HeldBy(t), {}, HeldBy(t) \cap Backups # {}, FALSE)
  BY <1>1, EndingGood DEF DeleteHeld
<1>3. ItemsGood({i \in Items : lock[i] \in {Free, t}},
                IF Creates(t) THEN {thread[t].item} ELSE {},
                lock[UserRow] = t, lock[UserRow] = t)
  BY <1>1, <1>2 DEF ItemsGood, HeldBy
<1> QED
  BY <1>3, FinishGood

(* What a request has locked ends, and the request goes on.                *)
LEMMA DroppingGood ==
  ASSUME IInv, NEW t \in Threads, thread[t].op = "start",
         DeleteHeld(t, {}), Release(t), UNCHANGED <<kind, uses, flags>>,
         NEW at \in {"stale", "write"}, NEW rows \in SUBSET SamlRequests,
         Scan(t, at, rows, {})
  PROVE  StepGood({t})
<1> USE KindsApart
<1>1. thread[t].op \in Ops /\ at \in Stages /\ rows \in SUBSET Rows
  BY DEF Ops, Stages
<1>2. /\ HeldBy(t) \in SUBSET live /\ ~(HeldBy(t) \cap Backups # {})
      /\ ItemFits(t) /\ NewItem(t)
  BY <1>1, AtStep
<1>3. ItemsGood(HeldBy(t), {}, HeldBy(t) \cap Backups # {}, FALSE)
  BY <1>2, EndingGood DEF DeleteHeld, flags, IInv, TInv, TypeOK
<1>4. Moved(t, "start", thread[t].item, at, rows, {})
  BY <1>1, ScanEffect DEF IInv, TInv
<1>5. /\ thread'[t].op = "start" /\ thread'[t].item = thread[t].item
      /\ thread'[t].at = at
      /\ thread'[t].next = NoItem <=> rows = {}
      /\ rows = {} => thread'[t].todo = {}
      /\ thread'[t].next \notin thread'[t].todo
      /\ Ahead(t)' = rows
      /\ Backups' = Backups /\ SamlRequests' = SamlRequests
  BY <1>4, MovedFacts
<1>6. /\ lock' \in [Rows -> Threads \cup {Free}]
      /\ \A r \in Rows : lock'[r] = IF lock[r] = t THEN Free ELSE lock[r]
  BY ReleaseEffect DEF IInv, TInv
<1>7. TypeOK'
  BY <1>3, <1>4, <1>6 DEF TypeOK, ItemsGood, Moved, IInv, TInv
<1>8. ASSUME NEW u \in Threads \ {t}
      PROVE  Respects(u)
  <2>1. \A r \in Rows : lock[r] = u <=> lock'[r] = u
    BY <1>6, SingleUseAssumption
  <2> QED
    BY <1>2, <1>3, <1>4, <2>1 DEF Respects, ItemsGood, Moved
<1>9. HeldBy(t)' = {} /\ lock'[UserRow] # t
  BY <1>6, SingleUseAssumption DEF HeldBy
<1>10. ItemFits(t)' /\ NewItem(t)'
  BY <1>2, <1>3, <1>4, <1>5 DEF ItemFits, NewItem, Creates, ItemsGood, Moved
<1>11. Claims(t)'
  <2>1. RowsFit(t)'
    BY <1>5, <1>9 DEF RowsFit, OneRow, NothingHeld, At
  <2> QED
    BY <1>5, <2>1 DEF Claims, At
<1>12. HeldRowsLive'
  <2> SUFFICES ASSUME NEW i \in Items, lock'[i] # Free
               PROVE  i \in live' \ Backups'
    BY DEF HeldRowsLive
  <2>1. lock[i] \notin {Free, t}
    BY <1>6, SingleUseAssumption
  <2>2. i \in live \ Backups /\ i \notin HeldBy(t)
    BY <2>1 DEF HeldRowsLive, IInv, HeldBy
  <2> QED
    BY <1>3, <1>5, <2>2 DEF ItemsGood
<1> QED
  BY <1>3, <1>7, <1>8, <1>10, <1>11, <1>12 DEF StepGood, ItemsGood

-----------------------------------------------------------------------------
(* One lemma for each part of the requests.                                *)

LEMMA ItemRequestsGood ==
  ASSUME IInv, NEW t \in Threads,
         NotFound(t) \/ WelcomeMember(t) \/ CommitItem(t) \/ Resend(t)
  PROVE  StepGood({t})
<1> USE KindsApart
<1>1. thread[t].op \in Ops /\ ItemFits(t) /\ RowsFit(t) /\ NewItem(t)
      /\ HeldBy(t) \subseteq live \ Backups
  BY AtStep DEF NotFound, WelcomeMember, CommitItem, Resend, Done, At, Ops
<1>2. CASE NotFound(t)
  BY <1>2, GivingUpGood DEF NotFound
<1>3. CASE WelcomeMember(t)
  <2>1. /\ Scan(t, "user", {UserRow}, {})
        /\ UNCHANGED <<kind, itemVars, lock, flags>>
        /\ thread[t].op = "accept" /\ thread[t].at = "item"
        /\ "user" \in Stages /\ {UserRow} \in SUBSET Rows
    BY <1>3 DEF WelcomeMember, Done, At, Stages
  <2>2. Moved(t, thread[t].op, thread[t].item, "user", {UserRow}, {})
    BY <1>1, <2>1, ScanEffect DEF IInv, TInv
  <2>3. /\ thread'[t].op = "accept" /\ thread'[t].item = thread[t].item
        /\ thread'[t].at = "user" /\ thread'[t].next # NoItem
        /\ thread'[t].next \notin thread'[t].todo
        /\ Ahead(t)' = {UserRow}
        /\ Backups' = Backups /\ Invitations' = Invitations
    BY <2>1, <2>2, MovedFacts
  <2>4. HeldBy(t)' = HeldBy(t) /\ lock'[UserRow] # t
    BY <1>1, <2>1 DEF HeldBy, RowsFit
  <2>5. ItemFits(t)'
    BY <1>1, <2>1, <2>3 DEF ItemFits
  <2>6. RowsFit(t)'
    BY <1>1, <2>1, <2>3, <2>4 DEF RowsFit, OneRow, At
  <2>7. Claims(t)'
    BY <2>3, <2>6 DEF Claims, At
  <2> QED
    BY <1>1, <2>1, <2>5, <2>7, ScanGood DEF IInv, TInv, TypeOK, HeldBy
<1>4. CASE CommitItem(t)
  <2>1. HeldBy(t) \subseteq {thread[t].item} /\ HeldBy(t) # {}
    BY <1>1, <1>4 DEF CommitItem, Done, At, RowsFit
  <2>2. uses' = uses \/ \E i \in HeldBy(t) : UsedBy(i)
    BY <1>4, <2>1 DEF CommitItem
  <2>3. /\ kind' = kind /\ enrolled' \in BOOLEAN /\ erased' \in BOOLEAN
        /\ closed' \in BOOLEAN /\ Finish(t) /\ DeleteHeld(t, {})
    BY <1>4 DEF CommitItem, flags, IInv, TInv, TypeOK
  <2> QED
    BY <1>1, <2>2, <2>3, DeletingGood
<1>5. CASE Resend(t)
  <2>1. ItemsGood({}, {}, FALSE, FALSE)
    BY <1>5 DEF Resend, flags, ItemsGood, IInv, TInv, TypeOK, LiveStep, OneLink,
                Links, OfKind
  <2>2. ItemsGood({i \in Items : lock[i] \in {Free, t}},
                  IF Creates(t) THEN {thread[t].item} ELSE {},
                  lock[UserRow] = t, lock[UserRow] = t)
    BY <2>1 DEF ItemsGood
  <2> QED
    BY <1>5, <2>2, FinishGood DEF Resend
<1> QED
  BY <1>2, <1>3, <1>4, <1>5

LEMMA SendingGood ==
  ASSUME IInv, NEW t \in Threads, EmptySlot(t) \/ CreateLink(t)
  PROVE  StepGood({t})
<1> USE KindsApart
<1>1. /\ thread[t].op = "send" /\ thread[t].next = NoItem
      /\ thread[t].op \in Ops /\ ItemFits(t) /\ RowsFit(t) /\ Claims(t) /\ NewItem(t)
      /\ HeldBy(t) \subseteq live \ Backups
  BY AtStep DEF EmptySlot, CreateLink, Done, At, Ops
<1>2. thread[t].item \in Links /\ Slot(thread[t].item) \subseteq Links
  BY <1>1 DEF ItemFits, Slot, Links, OfKind
<1>3. CASE EmptySlot(t)
  <2> DEFINE rows == live \cap Slot(thread[t].item)
  <2>1. /\ Scan(t, "links", rows, {})
        /\ UNCHANGED <<kind, itemVars, lock, flags>>
        /\ thread[t].at = "user"
        /\ "links" \in Stages /\ rows \in SUBSET Rows
    BY <1>3 DEF EmptySlot, Done, At, Stages, Slot, OfKind
  <2>2. \A i, j \in rows : i = j
    BY <1>2 DEF IInv, OneLink, Slot, OfKind
  <2>3. rows \subseteq Links /\ (rows = {} \/ \E r \in rows : rows = {r})
    BY <1>2, <2>2
  <2> HIDE DEF rows
  <2>4. Moved(t, thread[t].op, thread[t].item, "links", rows, {})
    BY <1>1, <2>1, ScanEffect DEF IInv, TInv
  <2>5. /\ thread'[t].op = "send" /\ thread'[t].item = thread[t].item
        /\ thread'[t].at = "links"
        /\ thread'[t].next = NoItem <=> rows = {}
        /\ thread'[t].todo = {}
        /\ Ahead(t)' = rows
        /\ Links' = Links /\ Backups' = Backups
        /\ Slot(thread[t].item)' = Slot(thread[t].item)
    BY <1>1, <2>1, <2>3, <2>4, MovedFacts
  <2>6. HeldBy(t)' = HeldBy(t) /\ HeldBy(t) = {} /\ lock'[UserRow] = t /\ live' = live
    BY <1>1, <2>1 DEF HeldBy, RowsFit, At, itemVars
  <2>7. ItemFits(t)'
    BY <1>2, <2>5 DEF ItemFits
  <2>8. RowsFit(t)'
    BY <2>3, <2>5, <2>6 DEF RowsFit, OneRow, At
  <2>9. (live \cap Slot(thread[t].item))' = rows
    BY <2>5, <2>6 DEF rows
  <2>10. Claims(t)'
    BY <2>3, <2>5, <2>6, <2>8, <2>9 DEF Claims, At
  <2> QED
    BY <1>1, <2>1, <2>7, <2>10, ScanGood DEF IInv, TInv, TypeOK, HeldBy
<1>4. CASE CreateLink(t)
  <2> DEFINE i == thread[t].item
  <2>1. /\ thread[t].at = "links" /\ lock[UserRow] = t
        /\ live \cap Slot(i) \subseteq HeldBy(t) /\ i \notin issued
        /\ i \in Links /\ Slot(i) \subseteq Links
    BY <1>1, <1>2, <1>4 DEF CreateLink, Done, Claims, NewItem, Creates, At, RowsFit, Ahead
  <2>2. /\ live' = (live \ HeldBy(t)) \cup {i} /\ issued' = issued \cup {i}
        /\ expired' = expired \ HeldBy(t) /\ recent' = recent \ HeldBy(t)
        /\ Finish(t) /\ uses' = uses /\ kind' = kind
        /\ UNCHANGED <<enrolled, erased, closed>>
    BY <1>4 DEF CreateLink, DeleteHeld, Replace, flags
  <2> HIDE DEF i
  <2>3. OneLink'
    <3>1. \A a \in live \ HeldBy(t) : a \in Links => kind[a] # kind[i]
      BY <2>1 DEF Slot, OfKind, Links
    <3>2. Links' = Links
      BY <2>2, KindsStay
    <3> QED
      BY <2>1, <2>2, <3>1, <3>2 DEF OneLink, IInv
  <2>4. LiveStep
    BY <2>1, <2>2 DEF LiveStep, IInv, TInv, TypeOK
  <2>5. ItemsGood(HeldBy(t), {i}, FALSE, TRUE)
    BY <1>1, <2>1, <2>2, <2>3, <2>4 DEF ItemsGood, IInv, TInv, TypeOK
  <2>6. Creates(t)
    BY <1>1 DEF Creates
  <2>7. ItemsGood({j \in Items : lock[j] \in {Free, t}},
                  IF Creates(t) THEN {thread[t].item} ELSE {},
                  lock[UserRow] = t, lock[UserRow] = t)
    BY <2>1, <2>5, <2>6 DEF ItemsGood, HeldBy, i
  <2> QED
    BY <2>2, <2>7, FinishGood
<1> QED
  BY <1>3, <1>4

LEMMA BackupsGood ==
  ASSUME IInv, NEW t \in Threads, ReadCodes(t) \/ SpendBackup(t)
  PROVE  StepGood({t})
<1> USE KindsApart
<1>1. /\ thread[t].op = "backup" /\ thread[t].next = NoItem
      /\ thread[t].op \in Ops /\ ItemFits(t) /\ RowsFit(t) /\ Claims(t)
      /\ HeldBy(t) \subseteq live \ Backups
  BY AtStep DEF ReadCodes, SpendBackup, Done, At, Ops
<1>2. CASE ReadCodes(t)
  <2>1. /\ Scan(t, "write", {}, live \cap Backups)
        /\ UNCHANGED <<kind, itemVars, lock, flags>>
        /\ thread[t].at = "user" /\ lock[UserRow] = t
        /\ "write" \in Stages /\ {} \in SUBSET Rows
        /\ live \cap Backups \in SUBSET Items
    BY <1>1, <1>2 DEF ReadCodes, Done, At, Stages, RowsFit
  <2>2. Moved(t, thread[t].op, thread[t].item, "write", {}, live \cap Backups)
    BY <1>1, <2>1, ScanEffect DEF IInv, TInv
  <2>3. /\ thread'[t].op = "backup" /\ thread'[t].item = thread[t].item
        /\ thread'[t].at = "write" /\ thread'[t].seen = live \cap Backups
        /\ thread'[t].next = NoItem /\ thread'[t].todo = {} /\ Ahead(t)' = {}
        /\ Backups' = Backups
    BY <1>1, <2>1, <2>2, MovedFacts
  <2>4. ItemFits(t)'
    BY <1>1, <2>3 DEF ItemFits
  <2>5. RowsFit(t)'
    BY <2>3 DEF RowsFit, OneRow, At
  <2>6. Claims(t)'
    BY <2>1, <2>3, <2>5 DEF Claims, At, itemVars
  <2> QED
    BY <1>1, <2>1, <2>4, <2>6, ScanGood DEF IInv, TInv, TypeOK, HeldBy
<1>3. CASE SpendBackup(t)
  <2> DEFINE i == thread[t].item
             seen == thread[t].seen
  <2>1. /\ thread[t].at = "write" /\ lock[UserRow] = t /\ seen = live \cap Backups
        /\ i \in Backups
    BY <1>1, <1>3 DEF SpendBackup, Done, At, Claims, ItemFits
  <2>2. /\ IF i \in seen
             THEN Replace(Backups \ (seen \ {i}), seen \ {i}) /\ UsedBy(i)
             ELSE UNCHANGED <<issued, live, expired, recent, uses>>
        /\ Finish(t) /\ kind' = kind /\ UNCHANGED <<enrolled, erased, closed>>
    BY <1>3 DEF SpendBackup, flags
  <2> HIDE DEF i, seen
  <2>3. ItemsGood({j \in Items : lock[j] \in {Free, t}}, {}, TRUE, FALSE)
    <3>1. CASE i \in seen
      <4> DEFINE end == Backups \ (seen \ {i})
                 left == seen \ {i}
      <4>1. /\ live' = (live \ end) \cup left /\ issued' = issued \cup left
            /\ expired' = expired \ end /\ recent' = recent \ end
            /\ uses' = [uses EXCEPT ![i] = @ + 1]
        BY <2>2, <3>1 DEF Replace, UsedBy
      <4>2. live \subseteq issued /\ expired \cap Backups = {}
        BY DEF IInv, TInv, TypeOK
      <4>3. /\ live' = live \ {i} /\ issued' = issued
            /\ expired' = expired \ {i} /\ recent' = recent \ end
            /\ uses' = [uses EXCEPT ![i] = @ + 1]
        BY <2>1, <4>1, <4>2
      <4>4. lock[i] = Free
        BY <2>1 DEF HeldRowsLive, IInv
      <4>5. LiveStep
        BY <2>1, <3>1, <4>3 DEF LiveStep, IInv, TInv, TypeOK
      <4>6. OneLink'
        BY <2>2, <4>3, KindsStay DEF OneLink, IInv
      <4>7. recent' \subseteq live'
        BY <2>1, <4>3 DEF IInv, TInv, TypeOK
      <4> QED
        BY <2>1, <2>2, <4>3, <4>4, <4>5, <4>6, <4>7 DEF ItemsGood, IInv, TInv, TypeOK
    <3>2. CASE i \notin seen
      <4>1. ItemsGood({}, {}, FALSE, FALSE)
        BY <2>2, <3>2, NothingHappens DEF itemVars, IInv, TInv, TypeOK
      <4> QED
        BY <4>1 DEF ItemsGood
    <3> QED
      BY <3>1, <3>2
  <2>4. ItemsGood({j \in Items : lock[j] \in {Free, t}},
                  IF Creates(t) THEN {thread[t].item} ELSE {},
                  lock[UserRow] = t, lock[UserRow] = t)
    BY <2>1, <2>3 DEF ItemsGood
  <2> QED
    BY <2>2, <2>4, FinishGood
<1> QED
  BY <1>2, <1>3

LEMMA ClosureGood ==
  ASSUME IInv, NEW t \in Threads,
         CloseDeletesLinks(t) \/ CloseTakesAccount(t) \/ CloseWrites(t)
  PROVE  StepGood({t})
<1> USE KindsApart
<1>1. /\ thread[t].op = "close" /\ thread[t].next = NoItem
      /\ thread[t].op \in Ops /\ ItemFits(t) /\ RowsFit(t)
      /\ thread[t].seen \subseteq Backups
      /\ HeldBy(t) \subseteq live \ Backups
  BY AtStep DEF CloseDeletesLinks, CloseTakesAccount, CloseWrites, Done, At, Ops, Claims
<1>2. ASSUME NEW at \in {"links", "user"}, NEW rows \in SUBSET Rows,
             Scan(t, at, rows, thread[t].seen),
             UNCHANGED <<kind, itemVars, lock, flags>>,
             thread[t].at # "user",
             at = "links" => rows \subseteq Links,
             at = "user" => rows = {UserRow}
      PROVE  StepGood({t})
  <2>1. at \in Stages /\ thread[t].seen \in SUBSET Items
    BY <1>1 DEF Stages
  <2>2. Moved(t, thread[t].op, thread[t].item, at, rows, thread[t].seen)
    BY <1>1, <1>2, <2>1, ScanEffect DEF IInv, TInv
  <2>3. /\ thread'[t].op = "close" /\ thread'[t].seen = thread[t].seen
        /\ thread'[t].at = at
        /\ thread'[t].next = NoItem <=> rows = {}
        /\ rows = {} => thread'[t].todo = {}
        /\ thread'[t].next \notin thread'[t].todo
        /\ Ahead(t)' = rows
        /\ Backups' = Backups /\ Links' = Links /\ Invitations' = Invitations
    BY <1>1, <1>2, <2>2, MovedFacts
  <2>4. /\ HeldBy(t)' = HeldBy(t) /\ HeldBy(t) \subseteq Invitations \cup Links
        /\ lock'[UserRow] # t
    <3>1. thread[t].at \in {"invitations", "links"}
      BY <1>1, <1>2 DEF ItemFits
    <3>2. lock[UserRow] # t /\ HeldBy(t) \subseteq Invitations \cup Links
      BY <1>1, <3>1 DEF RowsFit, At
    <3> QED
      BY <1>2, <3>2 DEF HeldBy
  <2>5. ItemFits(t)'
    BY <2>3 DEF ItemFits
  <2>6. RowsFit(t)'
    BY <1>2, <2>3, <2>4 DEF RowsFit, OneRow, At
  <2>7. Claims(t)'
    BY <1>1, <2>3, <2>6 DEF Claims, At
  <2> QED
    BY <1>1, <1>2, <2>1, <2>5, <2>7, ScanGood DEF IInv, TInv, TypeOK, HeldBy
<1>3. CASE CloseDeletesLinks(t)
  <2>1. live \cap Links \in SUBSET Rows
    OBVIOUS
  <2> QED
    BY <1>2, <1>3, <2>1 DEF CloseDeletesLinks, Done, At
<1>4. CASE CloseTakesAccount(t)
  <2>1. {UserRow} \in SUBSET Rows
    OBVIOUS
  <2> QED
    BY <1>2, <1>4, <2>1 DEF CloseTakesAccount, Done, At
<1>5. CASE CloseWrites(t)
  <2> DEFINE end == HeldBy(t) \cup (live \cap thread[t].seen)
  <2>1. /\ Replace(end, {}) /\ Finish(t) /\ kind' = kind /\ uses' = uses
        /\ lock[UserRow] = t
    BY <1>1, <1>5 DEF CloseWrites, Done, At, RowsFit
  <2>2. enrolled' \in BOOLEAN /\ erased' \in BOOLEAN /\ closed' \in BOOLEAN
    BY <1>5 DEF CloseWrites, IInv, TInv, TypeOK
  <2>3. end \in SUBSET live /\ end \subseteq {j \in Items : lock[j] \in {Free, t}}
    BY <1>1 DEF HeldBy, HeldRowsLive, IInv
  <2> HIDE DEF end
  <2>4. ItemsGood(end, {}, end \cap Backups # {}, FALSE)
    BY <2>1, <2>2, <2>3, EndingGood
  <2>5. ItemsGood({j \in Items : lock[j] \in {Free, t}},
                  IF Creates(t) THEN {thread[t].item} ELSE {},
                  lock[UserRow] = t, lock[UserRow] = t)
    BY <2>1, <2>3, <2>4 DEF ItemsGood
  <2> QED
    BY <2>1, <2>5, FinishGood
<1> QED
  BY <1>3, <1>4, <1>5

(* What a request inserts is new, and takes nobody's slot.                 *)
LEMMA InsertingGood ==
  ASSUME IInv, NEW t \in Threads, Creates(t), Finish(t), kind' = kind, uses' = uses,
         UNCHANGED flags,
         thread[t].item \in Items \ (Links \cup Backups),
         NEW end \in SUBSET HeldBy(t),
         live' = (live \ end) \cup {thread[t].item},
         issued' = issued \cup {thread[t].item},
         expired' = expired \ end,
         recent' \subseteq live'
  PROVE  StepGood({t})
<1> DEFINE i == thread[t].item
<1>1. /\ thread[t].op \in Ops /\ i \notin issued /\ i \in Items
      /\ end \subseteq live \ Backups
  BY AtStep DEF Creates, Ops, NewItem
<1>2. LiveStep
  BY <1>1 DEF LiveStep, IInv, TInv, TypeOK
<1>3. OneLink'
  BY KindsStay DEF OneLink, IInv
<1>4. ItemsGood(end, {i}, FALSE, FALSE)
  BY <1>1, <1>2, <1>3 DEF ItemsGood, flags, IInv, TInv, TypeOK
<1>5. ItemsGood({j \in Items : lock[j] \in {Free, t}},
                IF Creates(t) THEN {thread[t].item} ELSE {},
                lock[UserRow] = t, lock[UserRow] = t)
  BY <1>4 DEF ItemsGood, HeldBy
<1> QED
  BY <1>5, FinishGood

LEMMA OrganizationGood ==
  ASSUME IInv, NEW t \in Threads,
         InsertInvitation(t) \/ CommitErase(t) \/ CommitCleanUp(t)
  PROVE  StepGood({t})
<1> USE KindsApart
<1>1. thread[t].op \in Ops /\ ItemFits(t)
  BY AtStep DEF InsertInvitation, CommitErase, CommitCleanUp, Done, At, Ops
<1>2. CASE InsertInvitation(t)
  <2>1. Creates(t) /\ thread[t].item \in Items \ (Links \cup Backups)
    BY <1>1, <1>2 DEF InsertInvitation, Done, At, Creates, ItemFits
  <2>2. recent' \subseteq live'
    BY <1>2 DEF InsertInvitation, IInv, TInv, TypeOK
  <2> QED
    BY <1>2, <2>1, <2>2, InsertingGood DEF InsertInvitation
<1>3. CASE CommitErase(t) \/ CommitCleanUp(t)
  <2>1. /\ DeleteHeld(t, {}) /\ Finish(t) /\ kind' = kind /\ uses' = uses
        /\ enrolled' \in BOOLEAN /\ erased' \in BOOLEAN /\ closed' \in BOOLEAN
    BY <1>3 DEF CommitErase, CommitCleanUp, flags, IInv, TInv, TypeOK
  <2> QED
    BY <1>1, <2>1, DeletingGood
<1> QED
  BY <1>2, <1>3

LEMMA SamlGood ==
  ASSUME IInv, NEW t \in Threads, DropPrevious(t) \/ DropStale(t) \/ InsertSaml(t)
  PROVE  StepGood({t})
<1> USE KindsApart
<1>1. thread[t].op = "start" /\ ItemFits(t)
  BY AtStep DEF DropPrevious, DropStale, InsertSaml, Done, At, Ops
<1>2. CASE DropPrevious(t) \/ DropStale(t)
  <2>1. PICK at \in {"stale", "write"}, rows \in SUBSET SamlRequests :
          /\ DeleteHeld(t, {}) /\ Release(t) /\ Scan(t, at, rows, {})
          /\ UNCHANGED <<kind, uses, flags>>
    BY <1>2 DEF DropPrevious, DropStale
  <2> QED
    BY <1>1, <2>1, DroppingGood
<1>3. CASE InsertSaml(t)
  <2>1. Creates(t) /\ thread[t].item \in Items \ (Links \cup Backups)
    BY <1>1 DEF Creates, ItemFits
  <2>2. /\ live' = (live \ {}) \cup {thread[t].item}
        /\ issued' = issued \cup {thread[t].item}
        /\ expired' = expired \ {} /\ recent' = recent \ {}
        /\ Finish(t) /\ UNCHANGED <<kind, uses, flags>>
    BY <1>3 DEF InsertSaml, Replace
  <2>3. recent' \subseteq live' /\ {} \in SUBSET HeldBy(t)
    BY <2>2 DEF IInv, TInv, TypeOK
  <2> QED
    BY <2>1, <2>2, <2>3, InsertingGood
<1> QED
  BY <1>2, <1>3

-----------------------------------------------------------------------------
(* Steps without a request, and all steps together.                        *)

LEMMA ElsewhereGood ==
  ASSUME IInv, Elsewhere
  PROVE  StepGood({})
<1> USE KindsApart
<1>1. UNCHANGED <<kind, lock, thread>>
  BY DEF Elsewhere, WriteBackups, Receive, ConsumeSaml, Expire, HourPasses
<1>2. /\ Links' = Links /\ Backups' = Backups
  BY <1>1, KindsStay
<1>3. ASSUME NEW new \in SUBSET Items, WriteBackups(new)
      PROVE  StepGood({})
  <2>1. /\ lock[UserRow] = Free /\ new \subseteq Backups /\ \A i \in new : Unused(i)
        /\ live' = (live \ (live \cap Backups)) \cup new /\ issued' = issued \cup new
        /\ expired' = expired \ (live \cap Backups)
        /\ recent' = recent \ (live \cap Backups) /\ uses' = uses
        /\ enrolled' \in BOOLEAN /\ erased' = erased /\ closed' = closed
    BY <1>3 DEF WriteBackups, Replace
  <2>2. \A i \in Backups : lock[i] = Free
    BY DEF IInv, HeldRowsLive
  <2>3. LiveStep
    BY <2>1 DEF LiveStep, IInv, TInv, TypeOK, Unused
  <2>4. OneLink'
    BY <1>1, <1>2, <2>1 DEF OneLink, IInv
  <2>5. ItemsGood({i \in Items : lock[i] = Free}, {i \in Items : Unused(i)},
                  lock[UserRow] = Free, FALSE)
    BY <1>1, <2>1, <2>2, <2>3, <2>4 DEF ItemsGood, IInv, TInv, TypeOK
  <2> QED
    BY <1>1, <2>5, StatementGood
<1>4. ASSUME NEW i \in Items, Receive(i)
      PROVE  StepGood({})
  <2>1. /\ i \in Invitations /\ Unused(i)
        /\ live' = (live \ {}) \cup {i} /\ issued' = issued \cup {i}
        /\ expired' = expired \ {} /\ recent' = recent \ {} /\ uses' = uses
        /\ UNCHANGED <<enrolled, erased, closed>>
    BY <1>4 DEF Receive, Replace, Fresh, flags
  <2>2. LiveStep
    BY <2>1 DEF LiveStep, IInv, TInv, TypeOK, Unused
  <2>3. OneLink'
    BY <1>1, <1>2, <2>1 DEF OneLink, IInv
  <2>4. ItemsGood({j \in Items : lock[j] = Free}, {j \in Items : Unused(j)},
                  lock[UserRow] = Free, FALSE)
    BY <1>1, <2>1, <2>2, <2>3 DEF ItemsGood, IInv, TInv, TypeOK
  <2> QED
    BY <1>1, <2>4, StatementGood
<1>5. ASSUME NEW i \in Items, ConsumeSaml(i)
      PROVE  StepGood({})
  <2>1. /\ i \in SamlRequests /\ {i} \in SUBSET live /\ lock[i] = Free
        /\ Replace({i}, {}) /\ UsedBy(i) /\ ~({i} \cap Backups # {})
        /\ UNCHANGED <<enrolled, erased, closed>>
    BY <1>5 DEF ConsumeSaml, flags
  <2>2. ItemsGood({i}, {}, {i} \cap Backups # {}, FALSE)
    BY <1>1, <2>1, EndingGood DEF IInv, TInv, TypeOK
  <2>3. ItemsGood({j \in Items : lock[j] = Free}, {j \in Items : Unused(j)},
                  lock[UserRow] = Free, FALSE)
    BY <2>1, <2>2 DEF ItemsGood
  <2> QED
    BY <1>1, <2>3, StatementGood
<1>6. ASSUME NEW i \in Items, Expire(i) \/ HourPasses(i)
      PROVE  StepGood({})
  <2>1. /\ UNCHANGED <<issued, live, uses, enrolled, erased, closed>>
        /\ expired' \subseteq live /\ recent' \subseteq live
        /\ expired' \cap Backups = {}
    BY <1>6 DEF Expire, HourPasses, flags, IInv, TInv, TypeOK
  <2>2. LiveStep /\ OneLink'
    BY <1>2, <1>1, <2>1 DEF LiveStep, OneLink, IInv, TInv, TypeOK
  <2>3. ItemsGood({j \in Items : lock[j] = Free}, {j \in Items : Unused(j)},
                  lock[UserRow] = Free, FALSE)
    BY <1>1, <2>1, <2>2 DEF ItemsGood, IInv, TInv, TypeOK
  <2> QED
    BY <1>1, <2>3, StatementGood
<1> QED
  BY <1>3, <1>4, <1>5, <1>6 DEF Elsewhere

LEMMA NextGood ==
  ASSUME IInv, Next
  PROVE  \E T \in SUBSET Threads : StepGood(T)
<1>1. ASSUME NEW t \in Threads, Arrive(t) \/ Serve(t) \/ Fail(t)
      PROVE  StepGood({t})
  <2>1. CASE Arrive(t)
    BY <2>1, ArriveGood
  <2>2. CASE Fail(t) \/ DeadlockFound(t)
    BY <2>2, GivingUpGood DEF DeadlockFound, Fail
  <2>3. CASE Serve(t) /\ ~DeadlockFound(t)
    BY <2>3, TakeGood, ItemRequestsGood, SendingGood, BackupsGood, ClosureGood,
       OrganizationGood, SamlGood DEF Serve
  <2> QED
    BY <1>1, <2>1, <2>2, <2>3
<1>2. CASE Elsewhere
  BY <1>2, ElsewhereGood
<1> QED
  BY <1>1, <1>2 DEF Next

THEOREM Invariance == Spec => []IInv
<1>1. Init => IInv
  BY InitGood
<1>2. IInv /\ [Next]_vars => IInv'
  <2>1. ASSUME IInv, Next
        PROVE  IInv'
    BY <2>1, NextGood, GoodStep
  <2>2. ASSUME IInv, UNCHANGED vars
        PROVE  IInv'
    <3>1. /\ UNCHANGED <<kind, itemVars, lock, thread, flags>>
          /\ Links' = Links /\ Backups' = Backups
      BY <2>2, KindsStay DEF vars, itemVars, flags
    <3>2. ItemsGood({}, {}, FALSE, FALSE)
      BY <2>2, <3>1, NothingHappens DEF flags, IInv, TInv, TypeOK
    <3>3. StepGood({})
      BY <2>2, <3>1, <3>2, StatementGood DEF ItemsGood
    <3> QED
      BY <2>2, <3>3, GoodStep
  <2> QED
    BY <2>1, <2>2
<1> QED
  BY <1>1, <1>2, PTL DEF Spec

-----------------------------------------------------------------------------
(* What it gives.                                                          *)

(* TypeOK: every state of the items, locks and requests is well-formed.    *)
THEOREM TypeCorrect == Spec => []TypeOK
<1>1. IInv => TypeOK
  BY DEF IInv, TInv
<1> QED
  BY <1>1, Invariance, PTL

(***************************************************************************)
(* OneLiveLink: however the requests for a code, the purge and the closure *)
(* of the account overlap (send_magic_link, redact!), the account has at   *)
(* most one code that works in each slot.                                  *)
(***************************************************************************)
THEOREM OneLiveLinkTheorem == Spec => []OneLiveLink
<1>1. ASSUME IInv
      PROVE  OneLiveLink
  <2> SUFFICES ASSUME NEW slot \in {"sign_in", "sudo"}
               PROVE  Cardinality(live \cap OfKind({slot})) <= 1
    BY DEF OneLiveLink
  <2>1. \A i, j \in live \cap OfKind({slot}) : i = j
    BY <1>1 DEF IInv, OneLink, OfKind, Links
  <2>2. CASE live \cap OfKind({slot}) = {}
    <3>1. Cardinality({}) = 0
      BY FS_EmptySet
    <3> QED
      BY <2>2, <3>1
  <2>3. CASE \E i : live \cap OfKind({slot}) = {i}
    BY <2>3, FS_Singleton
  <2> QED
    BY <2>1, <2>2, <2>3
<1> QED
  BY <1>1, Invariance, PTL

(* Every use ends an item that was there, so nothing is used twice.        *)
THEOREM UsedAtMostOnce == Spec => [](\A i \in Items : uses[i] <= 1)
<1>1. IInv => \A i \in Items : uses[i] <= 1
  BY DEF IInv, UsedIsGone
<1> QED
  BY <1>1, Invariance, PTL

(***************************************************************************)
(* EachOnce: the requests together implement Once, where an item is used   *)
(* or ended in one step and never comes back, with issued \ live for what  *)
(* is spent.                                                               *)
(***************************************************************************)
THEOREM EachOnceTheorem == Spec => EachOnce
<1>1. Init => Single!Init
  BY DEF Init, Single!Init
<1>2. IInv /\ [Next]_vars => [Single!Next]_(Single!vars)
  <2> SUFFICES ASSUME IInv, [Next]_vars PROVE [Single!Next]_(Single!vars)
    OBVIOUS
  <2>1. CASE Next
    <3>1. TypeOK /\ TypeOK' /\ LiveStep
      BY <2>1, NextGood DEF StepGood, IInv, TInv
    <3>2. Single!Change(live \ live', live' \ live)
      BY <3>1 DEF Single!Change, LiveStep, TypeOK
    <3>3. live \ live' \in SUBSET Items /\ live' \ live \in SUBSET Items
      BY <3>1 DEF TypeOK
    <3> QED
      BY <3>2, <3>3 DEF Single!Next
  <2>2. CASE UNCHANGED vars
    BY <2>2 DEF vars, itemVars, Single!vars
  <2> QED
    BY <2>1, <2>2
<1> QED
  BY <1>1, <1>2, Invariance, PTL DEF Spec, EachOnce, Single!Spec

-----------------------------------------------------------------------------
(* The limit of invitations.                                               *)

(* The invitations within the hour that an admin sent, and those that have *)
(* been let through and are not inserted yet.                              *)
Invited == recent \ OfKind({"asked"})
Inviting ==
  {t \in Threads : thread[t].op = "invite" /\ thread[t].item \notin OfKind({"asked"})}

(* Somebody let through makes it one more, when fewer than Limit are there.*)
RoomLeft == Cardinality(Invited) + Cardinality(Inviting) < Limit + Cardinality(Threads)

(* An invitation is begun below the limit, or inserted, or nothing is sent.*)
LEMMA InvitationStep ==
  ASSUME IInv, Next
  PROVE  \/ Invited' \subseteq Invited /\ Inviting' \subseteq Inviting
         \/ Invited' = Invited /\ Cardinality(Invited) < Limit
         \/ \E t \in Inviting, i \in Items :
              Invited' \subseteq Invited \cup {i} /\ Inviting' = Inviting \ {t}
<1> USE DEF IInv, TInv
<1>1. /\ kind' = kind /\ OfKind({"asked"})' = OfKind({"asked"})
  <2>1. kind' = kind
    BY NextGood DEF StepGood
  <2> QED
    BY <2>1, KindsStay
<1>2. recent' \subseteq recent => Invited' \subseteq Invited
  BY <1>1 DEF Invited
<1>3. CASE Elsewhere
  <2>1. recent' \subseteq recent /\ thread' = thread
    BY <1>3 DEF Elsewhere, WriteBackups, Receive, ConsumeSaml, Expire, HourPasses, Replace
  <2> QED
    BY <1>1, <1>2, <2>1 DEF Inviting
<1>4. ASSUME NEW t \in Threads, NEW op, NEW i, NEW at, NEW rows, NEW seen,
             Begin(t, op, i, at, rows, seen), op = "invite" => i \in OfKind({"asked"})
      PROVE  Invited' \subseteq Invited /\ Inviting' \subseteq Inviting
  <2>1. recent' = recent
    BY <1>4 DEF Begin, itemVars
  <2>2. /\ thread'[t].op = op /\ thread'[t].item = i
        /\ \A u \in Threads \ {t} : thread'[u] = thread[u]
    BY <1>4 DEF Begin, TypeOK
  <2> QED
    BY <1>1, <1>2, <1>4, <2>1, <2>2 DEF Inviting
<1>5. ASSUME NEW t \in Threads, Arrive(t)
      PROVE  \/ Invited' \subseteq Invited /\ Inviting' \subseteq Inviting
             \/ Invited' = Invited /\ Cardinality(Invited) < Limit
  <2>1. ASSUME NEW i \in Items, NEW rows \in SUBSET Items, BeginInvite(t, i, rows)
        PROVE  Invited' = Invited /\ Cardinality(Invited) < Limit
    <3>1. recent' = recent /\ Cardinality(recent) < Limit
      BY <2>1 DEF BeginInvite, Begin, itemVars
    <3>2. /\ IsFiniteSet(recent) /\ Invited \subseteq recent
          /\ recent \subseteq Items
      BY SingleUseAssumption, FS_Subset DEF TypeOK, Invited
    <3>3. /\ Cardinality(Invited) <= Cardinality(recent)
          /\ Cardinality(Invited) \in Nat /\ Cardinality(recent) \in Nat
      BY <3>2, FS_Subset, FS_CardinalityType
    <3> QED
      BY <1>1, <3>1, <3>3, SingleUseAssumption DEF Invited
  <2>2. CASE BeginErase(t)
    BY <1>4, <2>2 DEF BeginErase
  <2>3. CASE BeginClose(t)
    BY <1>4, <2>3 DEF BeginClose
  <2>4. ASSUME NEW rows \in SUBSET Items, BeginCleanUp(t, rows)
        PROVE  Invited' \subseteq Invited /\ Inviting' \subseteq Inviting
    BY <1>4, <2>4 DEF BeginCleanUp
  <2>5. ASSUME NEW i \in Items, NEW op \in Ops, BeginTransition(t, op, i)
        PROVE  Invited' \subseteq Invited /\ Inviting' \subseteq Inviting
    BY <1>4, <2>5 DEF BeginTransition
  <2>6. ASSUME NEW i \in Items,
               \/ BeginConsume(t, i) \/ BeginResend(t, i)
               \/ BeginSend(t, i) \/ BeginBackup(t, i)
        PROVE  Invited' \subseteq Invited /\ Inviting' \subseteq Inviting
    BY <1>4, <2>6 DEF BeginConsume, BeginResend, BeginSend, BeginBackup
  <2>7. ASSUME NEW i \in Items, NEW rows \in SUBSET Items,
               BeginProvision(t, i, rows) \/ BeginSaml(t, i, rows)
        PROVE  Invited' \subseteq Invited /\ Inviting' \subseteq Inviting
    BY <1>4, <2>7 DEF BeginProvision, BeginSaml
  <2> QED
    BY <1>5, <2>1, <2>2, <2>3, <2>4, <2>5, <2>6, <2>7 DEF Arrive
<1>6. ASSUME NEW t \in Threads, Finish(t)
      PROVE  Inviting' = Inviting \ {t}
  BY <1>1, <1>6, FinishEffect DEF Inviting, Idle
<1>7. ASSUME NEW t \in Threads, NEW at, NEW rows, NEW seen, Scan(t, at, rows, seen)
      PROVE  Inviting' \subseteq Inviting
  <2>1. \A u \in Threads : thread'[u].op = thread[u].op /\ thread'[u].item = thread[u].item
    BY <1>7 DEF Scan, TypeOK
  <2> QED
    BY <1>1, <2>1 DEF Inviting
<1>8. ASSUME NEW t \in Threads, Serve(t) \/ Fail(t)
      PROVE  \/ Invited' \subseteq Invited /\ Inviting' \subseteq Inviting
             \/ \E i \in Items :
                  /\ t \in Inviting
                  /\ Invited' \subseteq Invited \cup {i} /\ Inviting' = Inviting \ {t}
  <2>1. CASE InsertInvitation(t)
    <3>1. /\ Done(t, {"invite"}, "stale") /\ Finish(t)
          /\ recent' \subseteq recent \cup {thread[t].item}
      BY <2>1 DEF InsertInvitation
    <3>2. thread[t].item \in Items
      BY <3>1, KindsApart DEF ItemFits, Done, At
    <3>3. CASE thread[t].item \in OfKind({"asked"})
      BY <1>1, <1>6, <3>1, <3>3 DEF Invited
    <3>4. CASE thread[t].item \notin OfKind({"asked"})
      BY <1>1, <1>6, <3>1, <3>2, <3>4 DEF Invited, Inviting, Done, At
    <3> QED
      BY <3>3, <3>4
  <2>2. CASE Take(t) \/ WelcomeMember(t) \/ EmptySlot(t) \/ ReadCodes(t)
             \/ CloseDeletesLinks(t) \/ CloseTakesAccount(t)
             \/ DropPrevious(t) \/ DropStale(t)
    <3>1. recent' \subseteq recent
      BY <2>2 DEF Take, WelcomeMember, EmptySlot, ReadCodes, CloseDeletesLinks,
                  CloseTakesAccount, DropPrevious, DropStale, DeleteHeld, Replace, itemVars
    <3>2. \E at, rows, seen : Scan(t, at, rows, seen)
      BY <2>2 DEF Take, WelcomeMember, EmptySlot, ReadCodes, CloseDeletesLinks,
                  CloseTakesAccount, DropPrevious, DropStale
    <3> QED
      BY <1>2, <1>7, <3>1, <3>2
  <2>3. CASE NotFound(t) \/ CommitItem(t) \/ Resend(t) \/ CreateLink(t)
             \/ SpendBackup(t) \/ CloseWrites(t) \/ CommitErase(t) \/ InsertSaml(t)
             \/ CommitCleanUp(t) \/ DeadlockFound(t) \/ Fail(t)
    <3>1. recent' \subseteq recent
      BY <2>3 DEF NotFound, CommitItem, Resend, CreateLink, SpendBackup, CloseWrites,
                  CommitErase, InsertSaml, CommitCleanUp, DeadlockFound, Fail,
                  DeleteHeld, Replace, itemVars
    <3>2. Finish(t)
      BY <2>3 DEF NotFound, CommitItem, Resend, CreateLink, SpendBackup, CloseWrites,
                  CommitErase, InsertSaml, CommitCleanUp, DeadlockFound, Fail
    <3> QED
      BY <1>2, <1>6, <3>1, <3>2
  <2> QED
    BY <1>8, <2>1, <2>2, <2>3 DEF Serve
<1> QED
  BY <1>3, <1>5, <1>8 DEF Next

LEMMA FiniteCounts ==
  ASSUME TypeOK
  PROVE  /\ IsFiniteSet(Invited) /\ IsFiniteSet(Inviting)
         /\ Cardinality(Invited) \in Nat /\ Cardinality(Inviting) \in Nat
         /\ Cardinality(Threads) \in Nat /\ Limit \in Nat \ {0}
         /\ Cardinality(Inviting) <= Cardinality(Threads)
<1>1. Invited \subseteq Items /\ Inviting \subseteq Threads
  BY DEF TypeOK, Invited, Inviting
<1>2. IsFiniteSet(Invited) /\ IsFiniteSet(Inviting)
      /\ Cardinality(Inviting) <= Cardinality(Threads)
  BY <1>1, FS_Subset, SingleUseAssumption
<1> QED
  BY <1>2, FS_CardinalityType, SingleUseAssumption
LEMMA StepKeepsRoom ==
  ASSUME IInv, IInv', Next, RoomLeft
  PROVE  RoomLeft'
<1>1. /\ IsFiniteSet(Invited) /\ IsFiniteSet(Inviting)
      /\ Cardinality(Invited) \in Nat /\ Cardinality(Inviting) \in Nat
      /\ Cardinality(Threads) \in Nat /\ Limit \in Nat \ {0}
  BY FiniteCounts DEF IInv, TInv
<1>2. /\ IsFiniteSet(Invited') /\ IsFiniteSet(Inviting')
      /\ Cardinality(Invited') \in Nat /\ Cardinality(Inviting') \in Nat
      /\ Cardinality(Inviting') <= Cardinality(Threads)
  <2>1. TypeOK'
    BY DEF IInv, TInv
  <2>2. Invited' \subseteq Items /\ Inviting' \subseteq Threads
    BY <2>1 DEF TypeOK, Invited, Inviting
  <2>3. IsFiniteSet(Invited') /\ IsFiniteSet(Inviting')
        /\ Cardinality(Inviting') <= Cardinality(Threads)
    BY <2>2, FS_Subset, SingleUseAssumption
  <2> QED
    BY <2>3, FS_CardinalityType
<1>3. CASE Invited' \subseteq Invited /\ Inviting' \subseteq Inviting
  <2>1. /\ Cardinality(Invited') <= Cardinality(Invited)
        /\ Cardinality(Inviting') <= Cardinality(Inviting)
    BY <1>1, <1>3, FS_Subset
  <2> QED
    BY <1>1, <1>2, <2>1 DEF RoomLeft
<1>4. CASE Invited' = Invited /\ Cardinality(Invited) < Limit
  BY <1>1, <1>2, <1>4 DEF RoomLeft
<1>5. ASSUME NEW t \in Inviting, NEW i \in Items,
             Invited' \subseteq Invited \cup {i}, Inviting' = Inviting \ {t}
      PROVE  RoomLeft'
  <2>1. /\ IsFiniteSet(Invited \cup {i})
        /\ Cardinality(Invited \cup {i}) <= Cardinality(Invited) + 1
        /\ Cardinality(Invited \cup {i}) \in Nat
    <3>1. IsFiniteSet(Invited \cup {i})
          /\ \/ Cardinality(Invited \cup {i}) = Cardinality(Invited)
             \/ Cardinality(Invited \cup {i}) = Cardinality(Invited) + 1
      BY <1>1, FS_AddElement
    <3> QED
      BY <1>1, <3>1
  <2>2. Cardinality(Invited') <= Cardinality(Invited \cup {i})
    BY <1>5, <2>1, FS_Subset
  <2>3. Cardinality(Inviting') = Cardinality(Inviting) - 1
    BY <1>1, <1>5, FS_RemoveElement
  <2> QED
    BY <1>1, <1>2, <2>1, <2>2, <2>3 DEF RoomLeft
<1> QED
  BY <1>3, <1>4, <1>5, InvitationStep

(***************************************************************************)
(* InvitationsBounded: requests of admins that pass enforce_rate_limit at  *)
(* once pass the hourly limit by less than their number, whatever the      *)
(* identity provider adds to the count.                                    *)
(***************************************************************************)
THEOREM InvitationsBoundedTheorem == Spec => []InvitationsBounded
<1>1. Init => RoomLeft
  <2> SUFFICES ASSUME Init PROVE RoomLeft
    OBVIOUS
  <2>1. IInv /\ Invited = {} /\ Inviting = {}
    BY InitGood DEF Init, Idle, Invited, Inviting
  <2>2. Cardinality(Invited) = 0 /\ Cardinality(Inviting) = 0
    BY <2>1, FS_EmptySet
  <2>3. Cardinality(Threads) \in Nat /\ Limit \in Nat \ {0}
    BY <2>1, FiniteCounts DEF IInv, TInv
  <2> QED
    BY <2>2, <2>3 DEF RoomLeft
<1>2. IInv /\ IInv' /\ RoomLeft /\ [Next]_vars => RoomLeft'
  BY StepKeepsRoom DEF vars, itemVars, RoomLeft, Invited, Inviting, OfKind
<1>3. IInv /\ RoomLeft => InvitationsBounded
  BY FiniteCounts DEF IInv, TInv, RoomLeft, InvitationsBounded, Invited
<1> QED
  BY <1>1, <1>2, <1>3, Invariance, PTL DEF Spec

-----------------------------------------------------------------------------
(* Who waits for whom.                                                     *)

(* In a circle that is no larger than it must be, each holds a row that    *)
(* another one is waiting for.                                             *)
LEMMA CircleHolds ==
  ASSUME NEW S \in SUBSET Threads, Deadlocked(S), NEW t \in S
  PROVE  \E s \in S : thread[s].next # NoItem /\ lock[thread[s].next] = t
<1> SUFFICES ASSUME \A s \in S : thread[s].next # NoItem => lock[thread[s].next] # t
             PROVE  FALSE
  OBVIOUS
<1>1. \A s \in S : thread[s].next # NoItem /\ lock[thread[s].next] \in S \ {s}
  BY DEF Deadlocked, Circle, Waits
<1>2. \A s \in S \ {t} : Waits(s, S \ {t})
  BY <1>1 DEF Waits
<1>3. S \ {t} # {}
  BY <1>1
<1>4. Circle(S \ {t})
  BY <1>2, <1>3 DEF Circle
<1> QED
  BY <1>4 DEF Deadlocked

(* Who waits although it holds a row is one of six kinds of requests.      *)
LEMMA WaitingHolder ==
  ASSUME IInv, NEW t \in Threads, NEW n \in Rows, lock[n] = t,
         thread[t].next # NoItem
  PROVE  LET next == thread[t].next
         IN  \/ thread[t].op = "accept" /\ n \in Invitations /\ next = UserRow
             \/ thread[t].op = "send" /\ n = UserRow /\ next \in Links
             \/ /\ thread[t].op = "close" /\ n \in Invitations \cup Links
                /\ n \in Links => next \in Links \cup {UserRow}
             \/ thread[t].op = "erase" /\ n \in Invitations
             \/ thread[t].op = "start" /\ n \in SamlRequests
             \/ /\ thread[t].op = "cleanup" /\ n # UserRow
                /\ n \in Links => next \in Links
<1> DEFINE next == thread[t].next
<1> USE KindsApart
<1>1. /\ thread[t].op \in Ops /\ ItemFits(t) /\ RowsFit(t) /\ Claims(t)
      /\ next \in Ahead(t)
  BY AtStep DEF Ahead
<1>2. n \in HeldBy(t) \/ n = UserRow
  BY DEF HeldBy, Rows
<1>3. ~NothingHeld(t)
  BY <1>2 DEF NothingHeld
<1>4. ~OneRow(t)
  BY <1>1, <1>3 DEF RowsFit
<1>5. CASE thread[t].op \in {"consume", "refuse", "resend", "invite"}
  BY <1>1, <1>4, <1>5 DEF ItemFits, OneRow, At
<1>6. CASE thread[t].op = "backup"
  BY <1>1, <1>4, <1>6 DEF ItemFits, OneRow, At, Claims
<1>7. CASE thread[t].op = "accept"
  <2>1. thread[t].at = "user" /\ thread[t].item \in Invitations
    BY <1>1, <1>4, <1>7 DEF ItemFits, OneRow, At
  <2>2. Ahead(t) \subseteq {UserRow} /\ lock[UserRow] # t /\ HeldBy(t) \subseteq {thread[t].item}
    BY <1>1, <1>7, <2>1 DEF RowsFit
  <2> QED
    BY <1>1, <1>2, <1>7, <2>1, <2>2
<1>8. CASE thread[t].op = "send"
  <2>1. thread[t].at = "links"
    BY <1>1, <1>4, <1>8 DEF ItemFits, OneRow, At
  <2>2. HeldBy(t) = {} /\ Ahead(t) \subseteq Links
    BY <1>1, <1>8, <2>1 DEF Claims, At
  <2> QED
    BY <1>1, <1>2, <1>8, <2>2
<1>9. CASE thread[t].op = "close"
  <2>1. thread[t].at \in {"invitations", "links", "user"}
    BY <1>1, <1>9 DEF ItemFits
  <2>2. lock[UserRow] # t /\ HeldBy(t) \subseteq Invitations \cup Links
    BY <1>1, <1>9, <2>1 DEF RowsFit, At
  <2>3. CASE thread[t].at = "invitations"
    BY <1>1, <1>2, <1>9, <2>2, <2>3 DEF RowsFit, At
  <2>4. CASE thread[t].at = "links"
    BY <1>1, <1>2, <1>9, <2>2, <2>4 DEF RowsFit, At
  <2>5. CASE thread[t].at = "user"
    BY <1>1, <1>2, <1>9, <2>2, <2>5 DEF RowsFit, At
  <2> QED
    BY <2>1, <2>3, <2>4, <2>5
<1>10. CASE thread[t].op = "erase"
  BY <1>1, <1>2, <1>10 DEF RowsFit, ItemFits
<1>11. CASE thread[t].op = "start"
  BY <1>1, <1>2, <1>11 DEF RowsFit
<1>12. CASE thread[t].op = "cleanup"
  <2>1. lock[UserRow] # t
    BY <1>1, <1>12 DEF RowsFit, ItemFits
  <2>2. PICK rows \in {Links, SamlRequests, Invitations} : HeldBy(t) \cup Ahead(t) \subseteq rows
    BY <1>1, <1>12 DEF RowsFit
  <2> QED
    BY <1>1, <1>2, <1>12, <2>1, <2>2
<1> QED
  BY <1>1, <1>5, <1>6, <1>7, <1>8, <1>9, <1>10, <1>11, <1>12 DEF Ops

(***************************************************************************)
(* OnlyDeletersInCircles: who locks one row at a time (consume, accept!,   *)
(* revoke!, resend!, consume_backup_code!, the insert of an invitation) is *)
(* never in a circle of waiting transactions, and a request for a new code *)
(* only together with redact!.  Somebody who waits for the account waits   *)
(* for a request for a code, which waits for a code; who holds a code and  *)
(* waits, waits for a code or the account: so a circle through the account *)
(* or a code never leaves these, and no acceptance is in it.               *)
(***************************************************************************)
THEOREM OnlyDeletersInCirclesTheorem == Spec => []OnlyDeletersInCircles
<1>1. ASSUME IInv
      PROVE  OnlyDeletersInCircles
  <2> SUFFICES ASSUME NEW S \in SUBSET Threads, Deadlocked(S)
               PROVE  /\ \A t \in S : thread[t].op \in Deleters
                      /\ \A t \in S : thread[t].op = "send" =>
                           \E s \in S : thread[s].op = "close"
    BY DEF OnlyDeletersInCircles
  <2> USE KindsApart
  <2>1. \A t \in S : /\ t \in Threads /\ thread[t].next # NoItem
                     /\ lock[thread[t].next] \in S \ {t}
    BY DEF Deadlocked, Circle, Waits
  <2>2. \A t \in S : thread[t].op \in Ops /\ thread[t].next \in Rows
    BY <1>1, <2>1, AtStep
  <2>3. \A t \in S : \E n \in Rows : lock[n] = t
    BY <2>2, CircleHolds
  <2>4. \A R \in SUBSET S : Circle(R) => R = S
    BY DEF Deadlocked
  <2>5. \A t \in S, n \in Rows : lock[n] = t /\ n = UserRow =>
          thread[t].op = "send" /\ thread[t].next \in Links
    BY <1>1, <2>1, WaitingHolder
  <2>6. \A t \in S, n \in Rows : lock[n] = t /\ n \in Links =>
          /\ thread[t].op \in {"close", "cleanup"}
          /\ thread[t].next \in Links \cup {UserRow}
          /\ thread[t].op = "cleanup" => thread[t].next \in Links
    BY <1>1, <2>1, WaitingHolder
  <2>7. ASSUME NEW t \in S, thread[t].op = "accept"
        PROVE  FALSE
    <3> DEFINE R == {x \in S : /\ thread[x].next \in Links \cup {UserRow}
                               /\ thread[x].op # "accept"}
    <3>1. thread[t].next = UserRow
      BY <1>1, <2>1, <2>3, <2>7, WaitingHolder
    <3>2. lock[UserRow] \in R
      BY <2>1, <2>5, <3>1
    <3>3. ASSUME NEW x \in R
          PROVE  lock[thread[x].next] \in R \ {x}
      BY <2>1, <2>2, <2>5, <2>6
    <3>4. Circle(R)
      BY <2>1, <3>2, <3>3 DEF Circle, Waits
    <3> QED
      BY <2>4, <2>7, <3>4
  <2>8. ASSUME NEW t \in S, thread[t].op = "send", \A s \in S : thread[s].op # "close"
        PROVE  FALSE
    <3> DEFINE R == {x \in S : thread[x].op = "cleanup" /\ thread[x].next \in Links}
    <3>1. thread[t].next \in Links
      BY <1>1, <2>1, <2>3, <2>8, WaitingHolder
    <3>2. lock[thread[t].next] \in R
      BY <2>1, <2>2, <2>6, <2>8, <3>1
    <3>3. ASSUME NEW x \in R
          PROVE  lock[thread[x].next] \in R \ {x}
      BY <2>1, <2>2, <2>6, <2>8
    <3>4. Circle(R)
      BY <2>1, <3>2, <3>3 DEF Circle, Waits
    <3> QED
      BY <2>4, <2>8, <3>4
  <2>9. \A t \in S : thread[t].op \in Deleters \cup {"accept"}
    BY <1>1, <2>1, <2>3, WaitingHolder DEF Deleters
  <2> QED
    BY <2>7, <2>8, <2>9
<1> QED
  BY <1>1, Invariance, PTL

=============================================================================
