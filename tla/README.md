# Moneygun in TLA+

Moneygun is a multi-tenant Rails application: accounts sign in without a
password, found or join organizations, and work in them with a role. This
directory holds TLA+ modules of the parts whose correctness depends on what
happens in which order, the TLC configurations that check them on small
instances, and TLAPS proofs of what matters most for instances of any size.
`PROJECT.json` lists the runs, the mutants that show each property can fail,
the source lines behind each definition, the hazards and the findings.

    tlc -workers 2 -config MCTenancy_tenancy.cfg MCTenancy
    tlapm TenancyProofs.tla

## The system

Everything lives in one PostgreSQL database at READ COMMITTED. Puma threads
serve requests, GoodJob workers run jobs and cron entries, browsers hold
encrypted cookies and run Turbo and a few Stimulus controllers, identity
providers call SAML and SCIM endpoints, and the payment processor sends
webhooks. A controller action is rarely one
transaction: rows are loaded and authorized first, validations query again, and
the columns that changed are written by primary key. `with_lock` is used where
the authors thought of a race (invitation transitions, codes, scan status,
backup codes) and nowhere else.

| Component | State | Operations | What is hard |
|---|---|---|---|
| Memberships and roles | `memberships` (role, deactivated_at) | change role, remove, leave, reactivate | validations read a stale owner; last-admin check before the write |
| Ownership transfer | `organizations.owner_id`, the new owner's role | transfer | overlaps with removal or demotion of the candidate, and with another transfer |
| Organization lifecycle | `organizations` (deleted_at, privacy) | create, change privacy, soft-delete, purge | rows that outlive their parents; a purge stopped by one record |
| Invitations | `invitations` | send, re-send, accept, decline, revoke, expire, purge | races between transitions; several ways in at once; deletes of many rows |
| Join requests | `access_requests` | join, ask, cancel, approve, reject | requests that survive what they rest on |
| Account closure | `users.redacted_at`, everything the account owns | redact, destroy, purge | what stays behind; what revives it |
| Sign-in and sessions | `magic_links`, `sessions`, pending cookies | ask for and enter a code, sign out, revoke, ban | state in cookies the server cannot take back |
| Second factor | `users.otp_*` | enable, disable, enter, backup codes | changes between the two factors; a code spent twice |
| Sudo and e-mail change | Rails session, `magic_links` | challenge, change | steps in separate transactions |
| SAML SSO | `sso_connections`, `sso_domains`, `saml_auth_requests`, flow cookie | sign in, provision, reactivate | replayed answers, access withdrawn midway |
| SCIM | `scim_connections`, memberships | create, update, delete | existing accounts, closed accounts, repeated calls |
| Virus scanning | blob metadata, jobs | mark, enqueue, scan, retry, sweep, serve | crashes between two steps, lost updates, stale batches, retries |
| Scanner process | a child process | spawn, read, time out, kill, reap | time limit racing the end |
| Data exports | `data_exports` | request, generate, expire | failure and retry |
| Upload authorization | blob metadata, attachments | attach, read | checks on rows that change |
| OAuth tokens | tokens with expiry | refresh | a concern no model includes |
| Upload field | previews, hidden inputs, a counter, the submit button | drop, replace, remove, upload, submit | files that go while they are sent; one button for all of them and for Turbo |
| Confirm dialog | a `<dialog>` and its return value | ask, type, answer | an answer that outlives its question |
| Unsaved-changes guard | two flags | edit, submit, leave | submissions that stop each other; answers that come later |
| Action menus | one flag per row | toggle, click elsewhere | little: one click is one event |
| Audit log | `audit_logs` | append | inside other parts' transactions |
| Agreements, onboarding, projects, billing, notifications, admin screens, interface | flags and records | forms | little: sequential, or another library's |

How they interact: closing an account rewrites memberships, invitations,
sessions, codes and the second factor; erasing an organization destroys
invitations and connections and leaves the rest to a job a month later; SSO and
SCIM write the same membership rows as the admins do; sign-in asks the SSO
connections whether a code is allowed at all. In the browser, the upload field
takes the submit button away and gives it back, and so does Turbo, each without
asking the other; Turbo asks the confirm dialog before it sends and the guard
before it leaves, and every visit brings all of them anew. Billing stands in the way of
deletion. The audit log decides whether an account is redacted or destroyed.

What makes them correct, in one line each:

- memberships and ownership: an organization always has exactly one owner, who
  is an active admin, and the application changes owners by a transfer only (a
  platform admin can set one in Avo's form, `organization.rb:26` of its
  resources, which is not modelled);
- organization lifecycle and account closure: no row outlives its parent, and
  history goes only with the organization or with an account that left;
- invitations and join requests: nobody is enrolled unasked, or with more
  rights than were offered;
- sign-in: once it is closed an account is out, a second factor cannot be
  stepped around, withdrawn access is noticed at the last step;
- what may be used once (codes, backup codes, SAML requests, invitations): it
  is, whichever requests overlap, and nobody waits for it for ever;
- virus scanning: nothing infected is served, and no file is pending for ever;
- the page: the form sends the files it shows, its button comes back, edits
  are not lost without a question, and only the accept button means yes (which
  `confirm_escape` refutes).

## The modules

| Module | What it is |
|---|---|
| `Ownership` | the contract: what one organization promises about its owner, members and admins |
| `OwnershipProofs` | what the contract amounts to over an organization's life |
| `Tenancy` | accounts, organizations, memberships, invitations, join requests; one action per handler, directory call or purge iteration |
| `TenancyProofs` | the invariant of `Tenancy`, its action properties, and the proof that it implements `Ownership` |
| `MembershipRequests` | the membership and transfer handlers of one organization, split into load, validate and save, run by several threads |
| `MembershipRequestsProofs` | the proof that they are safe together as long as no transfer runs |
| `SignIn` | codes, pending cookies, second factor, SSO callback, sessions, bans, closure |
| `SignInProofs` | typing, closure, codes, the second factor, SSO, enforcement and bans, proved |
| `Once` | the contract: items are spent once, used once, and never come back |
| `OnceProofs` | what that contract amounts to over an item's life |
| `SingleUse` | codes, backup codes, SAML requests and invitations under PostgreSQL's row locks, row by row |
| `SingleUseProofs` | the invariant of `SingleUse`, who waits for whom, and the proof that it implements `Once` |
| `VirusScan` | the scan status of uploaded files: hook, jobs, sweep, analysis, guard |
| `VirusScanProofs` | typing, "nothing infected is served", "enqueued once" and "a verdict is not taken back", proved |
| `Submission` | the form of a page as Turbo sends it, and what that does to the button |
| `Dropzone`, `UnsavedChanges`, `TurboConfirm` | the upload field, the guard and the dialog, each with its own variables and actions; the first two extend `Submission` |
| `Tab` | the browser tab that composes them: pages, visits, submissions, answers |
| `TabProofs` | the safety of the tab, proved |
| `MC*` | role sets, handler sets and symmetry for TLC |

### Tenancy

One record of state per unique index: `standing[o][u]` and `role[o][u]` for the
membership row of an account in an organization (`none`, `active`,
`deactivated`), `invitation`/`offered`, `request`, and per organization
`status` (`absent`, `kept`, soft-`deleted`), `privacy`, `subscribed`, `owner`.
A handler is one action: its guard gathers the scope it loads through, the
policy and the validations; a request that is refused is an action that is not
enabled. Accounts and addresses are identified: an invitation is addressed to
an element of `Users` whether the account exists yet or not, and a closed
account that signs up again is another element.

Decisions a reader may want to check:

- Signing out is the first thing closing an account does and writes an audit
  row for every active membership, so an account with one is always redacted.
  One whose memberships are all deactivated may go either way (`RedactUser`
  and `DestroyUser` are both enabled), because the model does not keep track of
  who acted before.
- A join request is found by id, so an approved one can be approved or rejected
  again. A soft-deleted organization is still discoverable, so it can be joined
  or asked.
- `MaxInvitations` and `MaxRequests` bound the model and stand for nothing in
  the code: the hourly limit is `SingleUse`'s, and SCIM has none.
- A membership that is revived by a public organization keeps its old role, and
  the approved request of a former member stands in the way of a new one. Both
  look unintended; no document says otherwise, so they are no findings.

A directory (SCIM, or SSO with provisioning) enrolls an account in the step
that makes it, and no account that was there before: that is how
`NobodyEntersUninvited` can speak of every organization. What it means for a
closed account is `ClosedEnterByOldRequestOnly`: the request of
`tenancy_closed_account` is its one way back. `OwnerCanAdminister` says what
`OwnerIsActiveAdmin` is for. It rests on `ClosedAccountStaysOut`, which the
code does not keep, and so it is stated of the states where that holds.

### MembershipRequests

`Tenancy` runs each handler without interruption. Here a request first loads
the organization, the actor and the target and authorizes (`Load...`), then
validates on what it loaded and on one query (`Validate`), then writes its
columns (`Save...`). `seenOwner` and `seenRole` are what it loaded. The contract
does not say who hands ownership over, only that the former owner stays an admin
and the new one was a member: of two transfers that overlap, the second, by
somebody who is no longer the owner, keeps it. Commits that
fall inside the loads or between a validation and its query are left out.

### SignIn

What the server cannot take back is kept per browser: `pending`, the account a
code was asked for, and `second`, the account that passed the first factor and
by which method. `links` are the codes that have not expired; sessions are
known by the browser whose cookie names them. `sso` holds the accounts with an
active membership behind an enabled connection, `enforced` those whose domain
requires SSO. A request that may know a code knows it: wrong codes change
nothing. Changing the address and the sudo challenge are not in this module.
Requests are whole: what the properties say of a closed or banned account holds
between requests, and a session that a request already under way opens while
the account is being closed is outside the model.

A pending sign-in that began with a code is completed even if SSO has become
mandatory for its domain since: the document speaks of codes, and its code was
entered before. `EnforcedEnterBySso` names it as the one exception.

### SingleUse

`Tenancy` and `SignIn` say what an invitation or a code does; here it only
counts that it is used once. A thread carries one request through its
statements: `at` is the statement, `next` the row it is at, `todo` the rows it
has still to go through, `seen` what the request read before. `lock` is who
holds which row. `Take` gets the next row when nobody else holds it and looks at
it again (`Matches`), as `with_lock`, DELETE and UPDATE do at READ COMMITTED: a
row that is gone or no longer meets the condition is passed over. So a DELETE
of several rows keeps those it has while it waits for the next, in whatever
order. `CommitItem` and its like end the transaction: what it holds and meant to
delete is gone, and the locks are given back (`Finish`).

- `BeginConsume`, `Take`, `CommitItem` are `MagicLink.consume`, and with
  `BeginTransition` the invitation's `locked_transition`. Whoever accepts also
  becomes a member and is onboarded, which needs the row of his account while he
  holds the invitation (`WelcomeMember`).
- `BeginSend`, `EmptySlot`, `CreateLink` are `send_magic_link`: account, then
  codes. `BeginBackup`, `ReadCodes`, `SpendBackup` are `consume_backup_code!`,
  which writes the list back whole.
- `BeginClose`, `CloseDeletesLinks`, `CloseTakesAccount`, `CloseWrites` are
  `redact!`: the invitations the account received, its codes, then its own row;
  it ends the second factor if the account it loaded had one.
- `BeginInvite` counts and `InsertInvitation` inserts later, after an expired
  duplicate was deleted. `BeginProvision` is SCIM's invitation for consent: the
  same insert, which counts for the others, without a limit of its own.
  `InvitationsBounded` is therefore about those of admins.
- `Resend` is a single UPDATE that may meet a row that is gone. An expired
  invitation can only be sent again by a request that found it before.
- `BeginErase`, `CommitErase` are `erase!`: it destroys the invitations it
  loaded, in whatever order they come.
- `BeginSaml`, `DropPrevious`, `DropStale`, `InsertSaml` are the three
  statements of `request_phase`, each a transaction; `ConsumeSaml` is the one
  row of the callback.
- `BeginCleanUp`, `CommitCleanUp` are one statement of `MaintenanceJob` or
  `Invitation::PurgeJob`, over all the rows it finds.
- Any request may fail at any point (`Fail`): its transaction never was.

`Circle` is a set of threads each of which waits for a row another of them
holds; PostgreSQL rolls back one of a smallest circle (`DeadlockFound`), and the
user sees an error. Circles do form: a closure against a request for a code, two
erasures, an erasure or a closure, which both delete invitations, against a
purge, two purges of stale SAML requests.
`OnlyDeletersInCircles` says who is never in one: whoever uses, answers, revokes,
re-sends or sends a single item, and whoever asks for a code unless his account
is being closed in the same circle.

Left out: the row locks of memberships, sessions and audit rows, which these
requests take as well, and erasures by the other organizations that invited the
account, so circles through those are not excluded. An account's codes of a
change of address form a slot like that of sudo. Two bounds keep the instance
small and lose nothing: items of a kind are created in the order of their
numbers (`Fresh`), and closures and erasures come only where there are items for
them to meet.

An invitation inserted by a request that began before the organization was
erased survives the erasure. Nothing in the code or its documents says it may
not, so no property does.

### Tab

The variables of the four modules and `page` are one tab. What the user may do
while the dialog is modal is said in `Tab`; what each controller does about it
in its own module.

- `Submission`: a submission by a click disables the button at its start and
  enables it at its end, whatever was done to the button meanwhile; one by
  Ctrl+Enter (auto-submit's `requestSubmit()`) does not look at the button and
  leaves it alone. A submission takes time: `underWay` is its way, `stopped`
  that of one which another submission of the page has stopped and whose end is
  still to be reported, `reply` an answer that was reported and is still to be
  shown. Any request may be answered by a redirect or by errors, or be lost.
- `Dropzone`: a file is `creating` while its checksum is computed and its blob
  announced, `storing` while the XHR runs. `Drop` is Dropzone's `addFile` with
  the controller's listener inside: it removes what is replaced, or the new
  file if it looks like a duplicate, and uploads the new one all the same.
  Dropzone aborts the XHR of a file that is removed while it is stored; an
  aborted request calls neither `load` nor `error`, so the counter never comes
  back (`Aborted`). An upload of a removed file goes on when it was only
  announced; its hidden input is then appended to a preview out of the form.
  `Count` writes the same `disabled` as `Submission`.
- `UnsavedChanges`: the controller hears the start and the end of each
  submission of its form. Turbo reports the end of a stopped one after the start
  of the other, and the end of a submission before it visits the redirect; it
  asks `turbo:before-visit` for visits but not for Back, and replaces the page,
  controllers and all, when the form comes back with errors (status 422).
- `TurboConfirm`: every way to close the dialog goes through `Closed`. Escape
  leaves `returnValue` alone, and the element lives as long as the page.

The button has two masters, and `ButtonFollowsUploads` says what is left of
"off while an upload runs": it is off without a counted upload only until a
clicked submission ends, and on in spite of one only after Turbo, at such an
end, gave it back while that upload was already there (`handedBack`). So
whoever saves, drops a file while the request runs and loses the connection can
click again and save without the file; no document speaks of that, or of
Ctrl+Enter during an upload, so no property forbids either.

`NoSilentLoss` is about edits made while nothing was being sent. Edits made
during a submission, or those of a form that was refused, can be lost without
a word, by the design of the controller; the history variable `unsaved` tells
them apart.

### VirusScan

A file is marked under the row lock and its job enqueued after it
(`RecordCommitted`, `EnqueueMarked`), with a crash in between
(`EnqueuerDies`). A job ends in a verdict, an error or an outage, each with its
own count of attempts; its write and the purge of an infected file are steps of
their own. The sweep loads a batch and acts on it later. Active Storage's
analysis writes back the whole metadata it loaded, scan status included, without
the lock. `Served` puts the two guards of the file-serving controllers
together: the file is attached to a record, and its status is clean. They are
evaluated at one moment. The scanner is never wrong when it answers.

A second scan, started by a sweep that loaded an old batch, may fail for the
last time and turn a clean file `failed`, which nothing scans again; so may one
that was queued after the analysis wiped the mark. `VerdictStands` names these:
a verdict is never taken back to pending or unrecorded but by the analysis, and
another verdict replaces it only where a second scan may exist (past the grace
period of the sweep, or after a wiped mark). This is within "clean, failed or
purged", and no document denies it, so it is not reported.

## The runs

| Run | Bounds | Distinct states |
|---|---|---|
| `tenancy` | 2 accounts, 2 organizations, one with directory, 1 invitation, 1 request | 672,000 |
| `tenancy_closed_account` (violation) | 2 accounts, 2 organizations, no invitation | |
| `requests_races` | 3 memberships, 3 threads, all handlers | 1,110,000 |
| `requests_overlap` (violation) | 3 memberships, 2 threads, all handlers | |
| `signin_safety` | 2 accounts, 2 browsers, 3 codes | 684,000 |
| `signin_banned` (violation) | 1 account, 2 browsers, 2 codes | |
| `scans` | 1 file, 2 jobs, 3 error and 2 outage attempts, 2 hook runs | 58,000 |
| `scan_gone` (violation) | 1 file, 3 jobs | |
| `single_use` | 2 threads, 2 or 3 items in seven mixes of kinds, limit 1 | 552,000 |
| `tab` | 2 files, 3 pages | 411,000 |
| `upload_replaced` (violation) | as `tab` | |
| `confirm_escape` (violation) | as `tab` | |

What each run shows is said in `PROJECT.json`. Why the bounds are enough:

- Closing an account looks at all its organizations, so there are two, one of
  them without a directory; two accounts are the one that acts, leaves or closes
  and the one that owns or stays, and each may be either. With these every
  action of `Tenancy` is reached. A third person adds no rule: every handler
  names an actor and a target, and the theorems hold for any number.
- A race of two requests needs two threads; three allow a third commit between
  the load and the save of each. Any state with a sound owner is an initial
  state, so no depth is needed to reach a situation.
- A session, a sign-in in flight and the act that withdraws it need two
  browsers; two accounts let a browser change hands; a third code is what
  replaces one of two.
- Files do not interact, so one file is general; two jobs are the hook's and
  the sweep's. A file gets a second hook run while its first job is alive.
  Attempts are 3 and 5 in the code; the safety proofs hold for any numbers.
- Two threads are enough for a row that is used twice and for two
  transactions that wait for each other. Longer circles exist, of three
  deletions and three invitations for instance: these are the theorem's, which
  is about any number of threads. Items of different kinds meet at the account's
  row, at the hourly limit or in a request that deletes both: `MCSingleUse` has
  the mixes in which they do.
- A file that replaces or duplicates another needs two files. One submission
  can be stopped by another of the page, and Turbo knows no third.

`CHECK_DEADLOCK FALSE` stands where the system may stop: in `scans` and
`scan_gone`, where a purged file without jobs really is the end; in
`requests_races`, where an organization with nobody left to act may be; in
`single_use`, where every item has been spent and nobody has anything to ask.
Symmetry is used over accounts, browsers, codes, threads and jobs where the
module treats them alike, and not in the runs that check liveness.

### Fairness

- `VirusScan`: GoodJob runs every job, the sweep runs hourly, the clock moves,
  unattached files are purged daily, and a process that marked a file goes on
  or dies: weak fairness. A scanner that is asked again and again gives a
  verdict in the end, and a worker does not die at the same step for ever:
  strong fairness of answers, writes and the sweep. Nothing is assumed of the
  analysis, or of the hook's next run.
- `SingleUse`: the waiting lists of PostgreSQL's locks are queues, so a
  statement that can go on again and again does: strong fairness of what each
  thread does next. Nothing is assumed of arrivals, failures or time.
- `Tab`: a checksum, an announcement or an XHR ends, well or badly, and so does
  the request of a submission: weak fairness of each upload and of
  `SubmissionProceeds`. Nothing is assumed of the user.

## The proofs

TLAPS proves, for every value of the constants under the named assumptions of
each module (`TenancyAssumption`, `RequestsAssumption`, `SignInAssumption`,
`ScanAssumption`, `SingleUseAssumption`, `DropzoneAssumption`):

- `TenancyProofs`: typing, `OwnerIsActiveAdmin`, `RowsHaveParents`,
  `InvitationsAreForKeptOrganizations`, and `OwnershipKept`, the refinement of
  `Ownership`. The three invariants are inductive only together: a directory
  may create an account at an absent address, which must not be the owner of
  anything (`RowsHaveParents`), and no closure may touch an owner
  (`OwnerIsActiveAdmin`). The refinement is proved action by action from them.
  `ClosedMembershipStaysClosed`, `HistoryRetained`, `NobodyEntersUninvited` and
  `ClosedEnterByOldRequestOnly` are about changes of standing: one lemma
  (`StandingWriters`) lists the handlers that can change one, and each theorem
  goes through that list. The last two also need that where there is no
  membership, no role and no approved request is left to inherit
  (`NothingInherited`); the last one, that closed accounts have no invitation
  (`ClosedNotInvited`) and that only open ones ask (`RequestWriters`).
  `OwnerCanAdminister` follows from the invariants.
- `OwnershipProofs`, `OnceProofs`: the contracts are action systems, and
  `OwnershipKept` and `EachOnce` say no more than the contracts do. These
  modules prove what that is: an organization has an admin for its owner as
  long as it exists (`OwnerLeads`), and loses its owner only by that owner's
  handing over or with everybody else (`OwnerGoesByHandOver`); an item is used
  once at most (`UsedOnce`), and what has ended is not issued or used again
  (`EndedForGood`). The hypothesis that `Nobody` is not an account is part of
  the assumptions of both modules that are checked against `Ownership`.
- `MembershipRequestsProofs`: typing, `OnlyTransfersRace` and
  `OwnerSafeWithoutTransfers`. What a validated request has checked still holds
  of the organization it loaded, so a commit is a step of the contract unless
  the owner or the candidate has changed since. Without transfers, every
  request in flight which could demote or remove is aimed at somebody else
  than the owner. A transfer breaks exactly that, as `requests_overlap` shows.
- `SignInProofs`: typing, `ClosedStaysSignedOut`, `OneLiveCode`,
  `SecondFactorNeverSkipped`, `WithdrawnSsoStaysOut`,
  `BannedOnlyBySecondFactor`, `EnforcedEnterBySso`. Cookies may name anybody, so
  the invariant speaks of what the server keeps: sessions, codes and second factors belong to open
  accounts. Each check a cookie has to pass needs one of the three. The last
  four properties go through the three ways in (`WaysIn`): the callback of
  SSO, a code, a second factor.
- `SingleUseProofs`: typing, `OneLiveLink`, `InvitationsBounded`,
  `OnlyDeletersInCircles`, and `EachOnce`, the refinement of `Once`. The
  invariant says which rows a request holds and which are ahead of it at each
  statement (`RowsFit`) and what it may rely on there: whoever holds a row holds
  a live one; whoever writes the list of backup codes back has read the present
  one, and whoever creates a code has all others of the slot held or ahead,
  because both hold the account's row (`Claims`); the item somebody is about to
  create is nobody else's (`NewItem`). Every step is shown to respect what the
  other threads rely on (`Respects`), so that only the thread that moves is left
  to look at. For the limit, what admins sent within the hour and what they are
  sending are counted together (`RoomLeft`). For the circles: a thread that
  waits while it holds is one of six kinds of request (`WaitingHolder`), and in
  a smallest circle everybody does (`CircleHolds`); who waits for the account
  waits for a request for a code, and who holds a code waits for a code or for
  the account, so no acceptance is in one, and no request for a code without a
  closure.
- `TabProofs`: typing, `ButtonFollowsUploads`, `FormSendsWhatIsShown` and
  `NoSilentLoss`, each with a theorem of its own; and that
  `ReplacementCanBeSent`, which `upload_replaced` refutes, holds while no upload
  was aborted: aborts are the only cause (`OnlyAbortsKeepTheButtonOff`). Typing
  needs the invariant: that the counter is a natural number rests on its being
  the number of running and aborted uploads. The guard's half of it
  (`GuardInv`) says that a typed edit the server lacks keeps `dirty` set, and
  that the controller believes in a submission only while there is one.
- `VirusScanProofs`: typing (attempts stay within their limits) and
  `NothingInfectedServed`. An infected file has no clean status, no job with a
  clean verdict and no analysis that loaded a clean status. `EnqueuedOnce` rests
  on the mark (`MarkHolds`): a file nothing is recorded of has neither an
  enqueuer nor a job, and nothing but the analysis takes a record back.
  `VerdictStands` has two halves: in any state a job that writes over a verdict
  writes a verdict, and no save marks a file that has one
  (`VerdictsGiveWayToVerdicts`); and where there can be no second scan, a file
  with a verdict, recorded or loaded by the analysis, has no enqueuer and no job
  left that could give another (`VerdictsFinal`).

Model-checked only: `EventuallySettled`, `EveryRequestAnswered` and
`ButtonComesBack`, because liveness is out of this prover's reach. Every other
property of the passing runs, invariant or action property, is a theorem. The
properties of the six runs that expect a violation are false; for four of them a
theorem says how far they hold: `ClosedEnterOneWay`,
`OwnerSafeWithoutTransfers` and `OnlyTransfersRaceTheorem`, `BannedKeptOut`,
`OnlyAbortsKeepTheButtonOff`.

## Findings

- A join request outlives the closure of its account; approving it makes the
  closed account an active member (`tenancy_closed_account`).
- A transfer overlapping the removal or demotion of the new owner leaves an
  owner who is not an active admin (`requests_overlap`).
- A sign-in waiting for its second factor survives a ban (`signin_banned`).
- A scan whose file is gone is retried, not ignored (`scan_gone`).
- A file that is replaced while its bytes are sent leaves the submit button off
  until the page is left (`upload_replaced`).
- Escape closes the confirm dialog with the answer of its last use on the page:
  after a yes, it is a yes (`confirm_escape`).

Not findings, because no document says otherwise, but worth knowing: Ctrl+Enter
sends the settings without a file that is still being uploaded, and so does a
click after Turbo gave the button back at the end of a submission that was lost.

## What is left out, and the plan

Not modelled because nothing in them depends on order: mail, notifications,
agreements, onboarding, projects, the audit log's content, helpers and
components. The OAuth token concern is included by no model. The payment
processor, Active Storage, Turbo, Dropzone and GoodJob are modelled only as
this code uses them. Pages are loaded anew in `Tab`: those inside an
organization are not cached (`organizations/base_controller.rb:6`), the upload
field of any other is destroyed when it is left (`dropzone_controller.js:29`),
and what else Turbo may keep of it in its cache is left out. The platform
administration can edit any record, owners included; what is said of `Tenancy`
holds without it.

By lines, the JavaScript of this repository is mostly not its own: two thirds
are the compiled daisyUI plugin under `src/app/assets/tailwind`. Of the rest
the upload field, the guard and the dialog are modelled. The action menus
(dropdown) have a controller and a document handler each, but a click is one
event in which all of them run, so no order of events is left to vary. The
others mirror one value into the page (badge, clipboard, local time,
autonumeric, flash), keep no state between two events, or are used by no view
(local save, share, tooltip, lightbox, scrolling, reset, focus, removal,
installation). The program's own logic is in Ruby, and most of the models are
of that.

Next, in this order:

1. `SensitiveActions`: sudo challenges and the change of an address, its code
   and the sessions it ends; composes with `SignIn`.
2. `DataExports`: generation, failure, retry and expiry of an export.
3. `OrganizationPurge`: the purge job's cursor, its retries and the liveness
   of both steps.
4. `CommandRunner`: the scanner's child process under its time limit.
5. `Scim`: overlapping directory calls; `Uploads`: who may attach and read.
