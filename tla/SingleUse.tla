----------------------------- MODULE SingleUse -----------------------------
(***************************************************************************)
(* The rows of the database that may be used once, and the threads that    *)
(* race for them: the sign-in codes and backup codes of one account, the   *)
(* SAML requests of one connection, the invitations that one organization  *)
(* sends and those that the account receives.                              *)
(*                                                                         *)
(* A transaction holds the rows it has written or selected FOR UPDATE      *)
(* until it commits; what it wrote is seen by others only then (PostgreSQL *)
(* at READ COMMITTED).  A statement goes through its rows one after the    *)
(* other, in an order the planner chooses: it waits at a row that another  *)
(* transaction holds while it keeps those it has taken, and looks at the   *)
(* row again when it gets it.                                              *)
(***************************************************************************)
EXTENDS Naturals, FiniteSets

CONSTANTS
  Items,     \* codes, requests and invitations that ever exist
  Threads,   \* the threads that serve requests and jobs
  Mixes,     \* what kinds of items there may be: functions from Items
  Limit,     \* invitations an organization may send in an hour
  UserRow,   \* the row of the account, which also holds the backup codes
  Free,      \* a row nobody holds
  NoItem     \* no item, or no row

(***************************************************************************)
(* Codes to sign in and codes for sudo are of two slots.  An invitation is *)
(* sent by an admin of the organization, asked for by its identity         *)
(* provider, received by the account from elsewhere, or sent by an admin   *)
(* to the account ("direct").  An item may also never exist ("none").      *)
(***************************************************************************)
ItemKinds ==
  {"sign_in", "sudo", "backup", "saml", "sent", "asked", "direct", "received",
   "none"}

ASSUME SingleUseAssumption ==
  /\ Mixes \subseteq [Items -> ItemKinds]
  /\ Limit \in Nat \ {0}
  /\ Items \subseteq Nat
  /\ IsFiniteSet(Items) /\ IsFiniteSet(Threads)
  /\ UserRow \notin Items
  /\ Free \notin Threads
  /\ NoItem \notin Items \cup {UserRow}

VARIABLES
  kind,      \* what each item is
  issued,    \* the items that were created
  live,      \* the items whose row, or place in the list, exists
  expired,   \* the live items whose time is over
  recent,    \* the live invitations the organization sent within the hour
  uses,      \* history: how often each item let somebody in
  lock,      \* which thread holds which row
  thread,    \* the request of each thread
  enrolled,  \* has the account a second factor?
  erased,    \* is the organization deleted?
  closed     \* is the account closed?

itemVars == <<issued, live, expired, recent, uses>>
flags == <<enrolled, erased, closed>>
vars == <<kind, itemVars, lock, thread, flags>>

Rows == Items \cup {UserRow}

OfKind(kinds) == {i \in Items : kind[i] \in kinds}

Links        == OfKind({"sign_in", "sudo"})
Slot(i)      == OfKind({kind[i]})
Backups      == OfKind({"backup"})
SamlRequests == OfKind({"saml"})
Sent         == OfKind({"sent", "asked", "direct"})
Received     == OfKind({"received", "direct"})
Invitations  == Sent \cup Received

Ops == {"consume", "accept", "refuse", "resend", "send", "backup", "close",
        "invite", "erase", "start", "cleanup"}

Stages == {"item", "row", "stale", "invitations", "links", "user", "write"}

(***************************************************************************)
(* A request: about an item, with a statement under way (at) that is at    *)
(* the row next and goes on with those of todo; seen is what it has read.  *)
(***************************************************************************)
Request ==
  [op : Ops, item : Items \cup {NoItem}, at : Stages,
   next : Rows \cup {NoItem}, todo : SUBSET Rows, seen : SUBSET Items]

Idle == [op |-> "none", item |-> NoItem, at |-> "idle",
         next |-> NoItem, todo |-> {}, seen |-> {}]

TypeOK ==
  /\ kind \in Mixes
  /\ issued \subseteq Items
  /\ live \subseteq issued
  /\ expired \subseteq live
  /\ recent \subseteq live
  /\ uses \in [Items -> Nat]
  /\ lock \in [Rows -> Threads \cup {Free}]
  /\ thread \in [Threads -> Request \cup {Idle}]
  /\ enrolled \in BOOLEAN
  /\ erased \in BOOLEAN
  /\ closed \in BOOLEAN

Init ==
  /\ kind \in Mixes
  /\ issued = {} /\ live = {} /\ expired = {} /\ recent = {}
  /\ uses = [i \in Items |-> 0]
  /\ lock = [r \in Rows |-> Free]
  /\ thread = [t \in Threads |-> Idle]
  /\ enrolled = FALSE
  /\ erased = FALSE
  /\ closed = FALSE

-----------------------------------------------------------------------------
(* Items, rows and statements.                                             *)

Unused(i) == i \notin issued /\ \A t \in Threads : thread[t].item # i

(* Bound: the items of a kind are created in the order of their numbers.   *)
Fresh(i) == Unused(i) /\ \A j \in Slot(i) : Unused(j) => i <= j

(* Mutant: the dates of what has ended are kept.                           *)
ReplaceAndRemember(end, new) ==
  /\ live' = (live \ end) \cup new
  /\ issued' = issued \cup new
  /\ UNCHANGED <<expired, recent>>

(* The set end ceases to exist and the set new comes to be.                *)
Replace(end, new) ==
  /\ live' = (live \ end) \cup new
  /\ issued' = issued \cup new
  /\ expired' = expired \ end
  /\ recent' = recent \ end

UsedBy(i) == uses' = [uses EXCEPT ![i] = @ + 1]

(* A statement over the given rows is at one of them, if there are any.    *)
First(rows) == IF rows = {} THEN {NoItem} ELSE rows

Begin(t, op, i, at, rows, seen) ==
  /\ thread[t] = Idle
  /\ \E r \in First(rows) :
       thread' = [thread EXCEPT ![t] =
         [op |-> op, item |-> i, at |-> at,
          next |-> r, todo |-> rows \ {r}, seen |-> seen]]
  /\ UNCHANGED <<kind, itemVars, lock, flags>>

(* The request of t goes on to the rest of its rows, or a new statement.   *)
Scan(t, at, rows, seen) ==
  \E r \in First(rows) :
    thread' = [thread EXCEPT ![t] =
      [op |-> @.op, item |-> @.item, at |-> at,
       next |-> r, todo |-> rows \ {r}, seen |-> seen]]

At(t, ops, at) == thread[t].op \in ops /\ thread[t].at = at

(* The statement of t has been through all its rows.                       *)
Done(t, ops, at) == At(t, ops, at) /\ thread[t].next = NoItem

(* Mutant: a row is taken as it was found, without a second look.          *)
MatchesAsFound(t) == TRUE

(* What a statement asks of a row, looked at again when it has the row.    *)
Matches(t) ==
  \/ thread[t].next = UserRow
  \/ /\ thread[t].next \in live
     /\ thread[t].at = "item"  => thread[t].next \notin expired
     /\ thread[t].at = "stale" => thread[t].next \in expired

(* Mutant: a row that does not match is tried again.                       *)
TakeUntilThere(t) ==
  /\ thread[t].next # NoItem
  /\ lock[thread[t].next] = Free
  /\ Matches(t)
  /\ lock' = [lock EXCEPT ![thread[t].next] = t]
  /\ Scan(t, thread[t].at, thread[t].todo, thread[t].seen)
  /\ UNCHANGED <<kind, itemVars, flags>>

Take(t) ==
  /\ thread[t].next # NoItem
  /\ lock[thread[t].next] = Free
  /\ lock' = [lock EXCEPT ![thread[t].next] = IF Matches(t) THEN t ELSE Free]
  /\ Scan(t, thread[t].at, thread[t].todo, thread[t].seen)
  /\ UNCHANGED <<kind, itemVars, flags>>

(* The statement of t cannot go on before a transaction of S has finished. *)
Waits(t, S) ==
  thread[t].next # NoItem /\ lock[thread[t].next] \in S \ {t}

Circle(S) == S # {} /\ \A t \in S : Waits(t, S)

(* A circle of transactions, each of which somebody in it waits for.       *)
Deadlocked(S) == Circle(S) /\ \A R \in SUBSET S : Circle(R) => R = S

Release(t) == lock' = [r \in Rows |-> IF lock[r] = t THEN Free ELSE lock[r]]

(* The transaction of t is over, and its request answered.                 *)
Finish(t) == Release(t) /\ thread' = [thread EXCEPT ![t] = Idle]

HeldBy(t) == {i \in Items : lock[i] = t}

(* What t has locked is gone when its transaction commits.                 *)
DeleteHeld(t, new) == Replace(HeldBy(t), new)

-----------------------------------------------------------------------------
(* Codes and invitations: find the row, lock it, look at it again, end it. *)

(* A code is looked for whatever it is; an invitation must be pending.     *)
BeginConsume(t, i) ==
  i \in Links \cap issued /\ Begin(t, "consume", i, "item", {i}, {})

(* Whom it was sent to may accept; he may decline, and an admin revoke.    *)
BeginTransition(t, op, i) ==
  /\ op \in {"accept", "refuse"}
  /\ i \in Invitations \cap (live \ expired)
  /\ Begin(t, op, i, "item", {i}, {})

NotFound(t) ==
  /\ Done(t, {"consume", "accept", "refuse"}, "item")
  /\ HeldBy(t) = {}
  /\ Finish(t)
  /\ UNCHANGED <<kind, itemVars, flags>>

(* Mutant: a code that is consumed marks the account too.                  *)
WelcomeAnybody(t) ==
  /\ Done(t, {"accept", "consume"}, "item")
  /\ HeldBy(t) # {}
  /\ Scan(t, "user", {UserRow}, {})
  /\ UNCHANGED <<kind, itemVars, lock, flags>>

(* Who accepts becomes a member and completes the onboarding: two writes   *)
(* that need the row of the account (which is another one's if the         *)
(* invitation is).                                                         *)
WelcomeMember(t) ==
  /\ Done(t, {"accept"}, "item")
  /\ HeldBy(t) # {} /\ thread[t].item \in Received
  /\ Scan(t, "user", {UserRow}, {})
  /\ UNCHANGED <<kind, itemVars, lock, flags>>

CommitItem(t) ==
  /\ \/ Done(t, {"consume", "refuse"}, "item")
     \/ Done(t, {"accept"}, "item") /\ thread[t].item \notin Received
     \/ Done(t, {"accept"}, "user")
  /\ HeldBy(t) # {}
  /\ DeleteHeld(t, {})
  /\ IF thread[t].op \in {"consume", "accept"}
       THEN UsedBy(thread[t].item) ELSE UNCHANGED uses
  /\ Finish(t)
  /\ UNCHANGED <<kind, flags>>

BeginResend(t, i) ==
  /\ i \in Invitations \cap (live \ expired)
  /\ i \in Sent => ~erased
  /\ Begin(t, "resend", i, "row", {i}, {})

(* An UPDATE of a row that is gone changes nothing.                        *)
Resend(t) ==
  /\ Done(t, {"resend"}, "row")
  /\ expired' = expired \ HeldBy(t)
  /\ Finish(t)
  /\ UNCHANGED <<kind, issued, live, recent, uses, flags>>

-----------------------------------------------------------------------------
(* The account's row: new codes, backup codes, closure.                    *)

(* Mutant: the codes are deleted without the lock of the account.          *)
BeginSendAtOnce(t, i) ==
  /\ ~closed /\ i \in Links /\ Fresh(i)
  /\ Begin(t, "send", i, "links", live \cap Slot(i), {})

BeginSend(t, i) ==
  /\ ~closed /\ i \in Links /\ Fresh(i)
  /\ Begin(t, "send", i, "user", {UserRow}, {})

(* send_magic_link empties the slot while it holds the account.            *)
EmptySlot(t) ==
  /\ Done(t, {"send"}, "user")
  /\ Scan(t, "links", live \cap Slot(thread[t].item), {})
  /\ UNCHANGED <<kind, itemVars, lock, flags>>

CreateLink(t) ==
  /\ Done(t, {"send"}, "links")
  /\ DeleteHeld(t, {thread[t].item})
  /\ Finish(t)
  /\ UNCHANGED <<kind, uses, flags>>

BeginBackup(t, i) ==
  /\ ~closed
  /\ i \in Backups \cap issued
  /\ Begin(t, "backup", i, "user", {UserRow}, {})

(* with_lock reads the row again once it has it.                           *)
ReadCodes(t) ==
  /\ Done(t, {"backup"}, "user")
  /\ Scan(t, "write", {}, live \cap Backups)
  /\ UNCHANGED <<kind, itemVars, lock, flags>>

(* The list that was read is written back whole, without the code.         *)
SpendBackup(t) ==
  /\ Done(t, {"backup"}, "write")
  /\ LET i == thread[t].item
         seen == thread[t].seen
     IN  IF i \in seen
           THEN Replace(Backups \ (seen \ {i}), seen \ {i}) /\ UsedBy(i)
           ELSE UNCHANGED <<issued, live, expired, recent, uses>>
  /\ Finish(t)
  /\ UNCHANGED <<kind, flags>>

(***************************************************************************)
(* redact! deletes the invitations the account received, then its codes,   *)
(* then writes the account; it ends the second factor, if the user that    *)
(* was loaded had one (seen: the codes it will overwrite).  Bound: a       *)
(* closure is of interest only where the account may have items.           *)
(***************************************************************************)
BeginClose(t) ==
  /\ ~closed /\ Links \cup Backups \cup Received # {}
  /\ Begin(t, "close", NoItem, "invitations", live \cap Received,
           IF enrolled THEN Backups ELSE {})

CloseDeletesLinks(t) ==
  /\ Done(t, {"close"}, "invitations")
  /\ Scan(t, "links", live \cap Links, thread[t].seen)
  /\ UNCHANGED <<kind, itemVars, lock, flags>>

CloseTakesAccount(t) ==
  /\ Done(t, {"close"}, "links")
  /\ Scan(t, "user", {UserRow}, thread[t].seen)
  /\ UNCHANGED <<kind, itemVars, lock, flags>>

CloseWrites(t) ==
  /\ Done(t, {"close"}, "user")
  /\ Replace(HeldBy(t) \cup (live \cap thread[t].seen), {})
  /\ enrolled' = (enrolled /\ thread[t].seen = {})
  /\ closed' = TRUE
  /\ Finish(t)
  /\ UNCHANGED <<kind, uses, erased>>

(* enable_two_factor! and disable_two_factor! overwrite the whole list.    *)
WriteBackups(new) ==
  /\ ~closed
  /\ lock[UserRow] = Free
  /\ \A i \in new : i \in Backups /\ Unused(i)
  /\ Replace(live \cap Backups, new)
  /\ enrolled' = (new # {})
  /\ UNCHANGED <<kind, uses, lock, thread, erased, closed>>

-----------------------------------------------------------------------------
(* The organization: invitations are sent and erased.                      *)

(* An expired invitation to the same address is deleted on the way.        *)
Duplicate(i, duplicate) ==
  /\ duplicate \subseteq expired \cap Slot(i)
  /\ Cardinality(duplicate) <= 1

(* Mutant: the limit itself is let through.                                *)
BeginInviteAtLimit(t, i, duplicate) ==
  /\ ~erased
  /\ i \in OfKind({"sent", "direct"}) /\ Fresh(i) /\ Duplicate(i, duplicate)
  /\ Cardinality(recent) <= Limit
  /\ Begin(t, "invite", i, "stale", duplicate, {})

(* The count of the last hour is taken long before the row is inserted.    *)
BeginInvite(t, i, duplicate) ==
  /\ ~erased
  /\ i \in OfKind({"sent", "direct"}) /\ Fresh(i) /\ Duplicate(i, duplicate)
  /\ Cardinality(recent) < Limit
  /\ Begin(t, "invite", i, "stale", duplicate, {})

(* An identity provider that asks for consent is not limited.              *)
BeginProvision(t, i, duplicate) ==
  /\ ~erased
  /\ i \in OfKind({"asked"}) /\ Fresh(i) /\ Duplicate(i, duplicate)
  /\ Begin(t, "invite", i, "stale", duplicate, {})

InsertInvitation(t) ==
  /\ Done(t, {"invite"}, "stale")
  /\ live' = (live \ HeldBy(t)) \cup {thread[t].item}
  /\ issued' = issued \cup {thread[t].item}
  /\ expired' = expired \ HeldBy(t)
  /\ recent' = (recent \ HeldBy(t)) \cup {thread[t].item}
  /\ Finish(t)
  /\ UNCHANGED <<kind, uses, flags>>

(* Another organization invites the account.                               *)
Receive(i) ==
  /\ ~closed
  /\ i \in Received \ Sent /\ Fresh(i)
  /\ Replace({}, {i})
  /\ UNCHANGED <<kind, uses, lock, thread, flags>>

(* The invitations are loaded, and destroyed one after the other.  Bound:  *)
(* a deletion is of interest only where there may be invitations.          *)
BeginErase(t) ==
  /\ ~erased /\ Sent # {}
  /\ Begin(t, "erase", NoItem, "invitations", live \cap Sent, {})

CommitErase(t) ==
  /\ Done(t, {"erase"}, "invitations")
  /\ DeleteHeld(t, {})
  /\ erased' = TRUE
  /\ Finish(t)
  /\ UNCHANGED <<kind, uses, enrolled, closed>>

-----------------------------------------------------------------------------
(* SAML requests and clean-ups: every statement commits at once.           *)

(* The browser's previous request, if its cookie names one, goes first,    *)
(* then the stale ones of the connection, and then a new one is inserted.  *)
BeginSaml(t, i, previous) ==
  /\ i \in SamlRequests /\ Fresh(i)
  /\ previous \subseteq SamlRequests \cap live /\ Cardinality(previous) <= 1
  /\ Begin(t, "start", i, "item", previous, {})

DropPrevious(t) ==
  /\ Done(t, {"start"}, "item")
  /\ DeleteHeld(t, {})
  /\ Release(t)
  /\ Scan(t, "stale", SamlRequests \cap expired, {})
  /\ UNCHANGED <<kind, uses, flags>>

DropStale(t) ==
  /\ Done(t, {"start"}, "stale")
  /\ DeleteHeld(t, {})
  /\ Release(t)
  /\ Scan(t, "write", {}, {})
  /\ UNCHANGED <<kind, uses, flags>>

InsertSaml(t) ==
  /\ Done(t, {"start"}, "write")
  /\ Replace({}, {thread[t].item})
  /\ Finish(t)
  /\ UNCHANGED <<kind, uses, flags>>

(* One statement, of one row, which says whether it found the row.         *)
ConsumeSaml(i) ==
  /\ i \in SamlRequests \cap (live \ expired)
  /\ lock[i] = Free
  /\ Replace({i}, {})
  /\ UsedBy(i)
  /\ UNCHANGED <<kind, lock, thread, flags>>

(* One statement of a purge: the stale codes, the stale requests, or those *)
(* expired invitations that are a month old.                               *)
BeginCleanUp(t, rows) ==
  /\ rows # {}
  /\ \/ rows = expired \cap Links
     \/ rows = expired \cap SamlRequests
     \/ rows \subseteq expired \cap Invitations
  /\ Begin(t, "cleanup", NoItem, "stale", rows, {})

CommitCleanUp(t) ==
  /\ Done(t, {"cleanup"}, "stale")
  /\ DeleteHeld(t, {})
  /\ Finish(t)
  /\ UNCHANGED <<kind, uses, flags>>

-----------------------------------------------------------------------------
(* Time and failure.                                                       *)

Expire(i) ==
  /\ i \in live \ (Backups \cup expired \cup recent)
  /\ expired' = expired \cup {i}
  /\ UNCHANGED <<kind, issued, live, recent, uses, lock, thread, flags>>

HourPasses(i) ==
  /\ i \in recent
  /\ recent' = recent \ {i}
  /\ UNCHANGED <<kind, issued, live, expired, uses, lock, thread, flags>>

(* A worker that dies, or a request that fails: the transaction that was   *)
(* under way never was.                                                    *)
Fail(t) ==
  /\ thread[t] # Idle
  /\ Finish(t)
  /\ UNCHANGED <<kind, itemVars, flags>>

(* PostgreSQL rolls one transaction of a circle back.                      *)
DeadlockFound(t) ==
  /\ \E S \in SUBSET Threads : t \in S /\ Deadlocked(S)
  /\ Fail(t)

-----------------------------------------------------------------------------
Arrive(t) ==
  \/ BeginErase(t) \/ BeginClose(t)
  \/ \E rows \in SUBSET Items : BeginCleanUp(t, rows)
  \/ \E i \in Items :
       \/ BeginConsume(t, i)
       \/ \E op \in Ops : BeginTransition(t, op, i)
       \/ BeginResend(t, i)
       \/ BeginSend(t, i)
       \/ BeginBackup(t, i)
       \/ \E others \in SUBSET Items :
            \/ BeginInvite(t, i, others)
            \/ BeginProvision(t, i, others)
            \/ BeginSaml(t, i, others)

Serve(t) ==
  \/ Take(t)
  \/ NotFound(t) \/ WelcomeMember(t) \/ CommitItem(t) \/ Resend(t)
  \/ EmptySlot(t) \/ CreateLink(t) \/ ReadCodes(t) \/ SpendBackup(t)
  \/ CloseDeletesLinks(t) \/ CloseTakesAccount(t) \/ CloseWrites(t)
  \/ InsertInvitation(t) \/ CommitErase(t)
  \/ DropPrevious(t) \/ DropStale(t) \/ InsertSaml(t) \/ CommitCleanUp(t)
  \/ DeadlockFound(t)

Elsewhere ==
  \/ \E new \in SUBSET Items : WriteBackups(new)
  \/ \E i \in Items : Receive(i) \/ ConsumeSaml(i) \/ Expire(i) \/ HourPasses(i)

Next ==
  \/ \E t \in Threads : Arrive(t) \/ Serve(t) \/ Fail(t)
  \/ Elsewhere

(* The locks of PostgreSQL are queues: who keeps waiting gets its turn.    *)
Spec == Init /\ [][Next]_vars /\ \A t \in Threads : SF_vars(Serve(t))

-----------------------------------------------------------------------------
(* Properties.                                                             *)

Single == INSTANCE Once WITH spent <- issued \ live

(***************************************************************************)
(* Every sign-in code, backup code, SAML request and invitation is used at *)
(* most once, and none comes back after it was used, revoked, replaced or  *)
(* cleaned up, whichever requests overlap and whichever worker dies.       *)
(***************************************************************************)
EachOnce == Single!Spec

(***************************************************************************)
(* The requests for a code of an account, however they overlap with each   *)
(* other, with the purge and with the closure, leave one code that works   *)
(* in each slot.                                                           *)
(***************************************************************************)
OneLiveLink ==
  \A slot \in {"sign_in", "sudo"} : Cardinality(live \cap OfKind({slot})) <= 1

(***************************************************************************)
(* Parallel requests of admins pass the hourly limit of invitations        *)
(* together, but by no more than the threads that were counting at once,   *)
(* whatever the identity provider, which nothing limits, adds to the count.*)
(***************************************************************************)
InvitationsBounded ==
  Cardinality(recent \ OfKind({"asked"})) < Limit + Cardinality(Threads)

(* The requests whose statements go through several rows.                  *)
Deleters == {"send", "close", "erase", "cleanup", "start"}

(***************************************************************************)
(* Requests wait for each other in a circle, of which the database rolls   *)
(* one back, only where all of them delete several rows: nobody who uses,  *)
(* answers, revokes or sends an item ever is in one, and a request for a   *)
(* new code only together with the closure of the account (the one takes   *)
(* the account first and the codes last, the other the other way round).   *)
(***************************************************************************)
OnlyDeletersInCircles ==
  \A S \in SUBSET Threads : Deadlocked(S) =>
    LET ops == {thread[t].op : t \in S}
    IN  ops \subseteq Deleters /\ ("send" \in ops => "close" \in ops)

(***************************************************************************)
(* No request waits for ever: rows are always released, and the database   *)
(* ends the waits that are circular.                                       *)
(***************************************************************************)
EveryRequestAnswered ==
  \A t \in Threads : []<>(thread[t] = Idle)
=============================================================================
