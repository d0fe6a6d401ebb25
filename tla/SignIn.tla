------------------------------- MODULE SignIn -------------------------------
(***************************************************************************)
(* Signing in: e-mail codes, the second factor, SSO, the sessions they     *)
(* open, and what ends them: signing out, revocation, a ban, the closure   *)
(* of the account.                                                         *)
(*                                                                         *)
(* Between its requests a sign-in lives in cookies the browser keeps: the  *)
(* address a code was asked for, and the account that has passed the first *)
(* factor.  The server cannot take a cookie back, it can only let it       *)
(* expire.  Every action is one request or admin action, executed without  *)
(* interruption.                                                           *)
(*                                                                         *)
(* An account and its address are one thing here: changing the address,    *)
(* and the sudo challenge before sensitive actions, are left out.  So are  *)
(* wrong codes, which change nothing, and the rate limits.  A request that *)
(* is right to know a code or a one-time password knows it.                *)
(***************************************************************************)
EXTENDS Naturals, FiniteSets

CONSTANTS
  Users,     \* accounts
  Browsers,  \* cookie jars
  Codes,     \* bound: values of a code
  None       \* no account

ASSUME SignInAssumption == None \notin Users

VARIABLES
  account,   \* absent, open, or closed (redacted or destroyed)
  banned,    \* the accounts with a banned_at
  totp,      \* the accounts with a second factor
  enforced,  \* the accounts whose domain enforces SSO
  sso,       \* the accounts with an active membership behind enabled SSO
  links,     \* magic_links that have not expired
  pending,   \* cookie: the account a code was asked for
  second,    \* cookie: the account that has passed the first factor, and how
  session    \* the account of the session row the browser's cookie names

accountVars == <<account, banned, totp>>
cookieVars == <<pending, second>>
vars == <<account, banned, totp, enforced, sso, links, pending, second, session>>

Purposes == {"sign_in", "sign_up"}

Methods == {"magic_link", "sso"}

Link == [user : Users, purpose : Purposes, code : Codes]

NoSecond == [user |-> None, method |-> "none"]

TypeOK ==
  /\ account \in [Users -> {"absent", "open", "closed"}]
  /\ banned \subseteq Users
  /\ totp \subseteq Users
  /\ enforced \subseteq Users
  /\ sso \subseteq Users
  /\ links \subseteq Link
  /\ pending \in [Browsers -> Users \cup {None}]
  /\ second \in [Browsers -> [user : Users, method : Methods] \cup {NoSecond}]
  /\ session \in [Browsers -> Users \cup {None}]

Init ==
  /\ account = [u \in Users |-> "absent"]
  /\ banned = {}
  /\ totp = {}
  /\ enforced = {}
  /\ sso = {}
  /\ links = {}
  /\ pending = [b \in Browsers |-> None]
  /\ second = [b \in Browsers |-> NoSecond]
  /\ session = [b \in Browsers |-> None]

-----------------------------------------------------------------------------
CanAuthenticate(u) == account[u] = "open" /\ u \notin banned

Establish(b, u) == session' = [session EXCEPT ![b] = u]

(***************************************************************************)
(* The first factor has been passed: on to the second, or straight in.     *)
(***************************************************************************)
SignInOrVerifySecond(b, u, method) ==
  IF u \in totp
  THEN /\ second' = [second EXCEPT ![b] = [user |-> u, method |-> method]]
       /\ UNCHANGED session
  ELSE /\ Establish(b, u)
       /\ UNCHANGED second

(* Mutant: only the codes of the same purpose give way.                    *)
SendSecondLink(u, purpose) ==
  \E c \in Codes :
    /\ \A l \in links : l.code # c
    /\ links' = {l \in links : l.user # u \/ l.purpose # purpose}
                  \cup {[user |-> u, purpose |-> purpose, code |-> c]}

(***************************************************************************)
(* A new code, unlike every other, takes the place of the account's codes  *)
(* for signing in and signing up: the two share a slot.                    *)
(***************************************************************************)
SendMagicLink(u, purpose) ==
  \E c \in Codes :
    /\ \A l \in links : l.code # c
    /\ links' = {l \in links : l.user # u}
                  \cup {[user |-> u, purpose |-> purpose, code |-> c]}

-----------------------------------------------------------------------------
(* Signing in.                                                             *)

SignUp(b, u) ==
  /\ session[b] = None
  /\ u \notin enforced
  /\ account[u] = "absent"
  /\ account' = [account EXCEPT ![u] = "open"]
  /\ SendMagicLink(u, "sign_up")
  /\ pending' = [pending EXCEPT ![b] = u]
  /\ UNCHANGED <<banned, totp, enforced, sso, second, session>>

(* A banned account is shown the same page, but no code is sent.           *)
AskCode(b, u) ==
  /\ session[b] = None
  /\ u \notin enforced
  /\ account[u] = "open"
  /\ IF CanAuthenticate(u) THEN SendMagicLink(u, "sign_in") ELSE UNCHANGED links
  /\ pending' = [pending EXCEPT ![b] = u]
  /\ UNCHANGED <<accountVars, enforced, sso, second, session>>

(* Mutant: whoever has the code may enter.                                 *)
EnterCodeUnchecked(b, l) ==
  /\ session[b] = None
  /\ pending[b] = l.user
  /\ links' = links \ {l}
  /\ SignInOrVerifySecond(b, l.user, "magic_link")
  /\ pending' = [pending EXCEPT ![b] = None]
  /\ UNCHANGED <<accountVars, enforced, sso>>

(* Mutant: the second factor is left to the next request.                  *)
EnterCodeAndEstablish(b, l) ==
  /\ session[b] = None
  /\ pending[b] = l.user
  /\ links' = links \ {l}
  /\ IF CanAuthenticate(l.user) /\ l.user \notin enforced
     THEN /\ Establish(b, l.user)
          /\ pending' = [pending EXCEPT ![b] = None]
     ELSE UNCHANGED <<session, pending>>
  /\ UNCHANGED <<accountVars, enforced, sso, second>>

(***************************************************************************)
(* The code is consumed first, in a transaction of its own; whether the    *)
(* account may sign in with it is looked at afterwards.                    *)
(***************************************************************************)
EnterCode(b, l) ==
  /\ session[b] = None
  /\ pending[b] = l.user
  /\ links' = links \ {l}
  /\ IF CanAuthenticate(l.user) /\ l.user \notin enforced
     THEN /\ SignInOrVerifySecond(b, l.user, "magic_link")
          /\ pending' = [pending EXCEPT ![b] = None]
     ELSE UNCHANGED <<cookieVars, session>>
  /\ UNCHANGED <<accountVars, enforced, sso>>

(***************************************************************************)
(* The callback of the identity provider is open to a browser that is      *)
(* signed in, whose session it replaces.  Where the connection provisions, *)
(* it also makes the account or brings its membership back.                *)
(***************************************************************************)
SsoCallback(b, u) ==
  /\ account[u] # "closed" /\ u \notin banned
  /\ account' = [account EXCEPT ![u] = "open"]
  /\ sso' = sso \cup {u}
  /\ SignInOrVerifySecond(b, u, "sso")
  /\ UNCHANGED <<banned, totp, enforced, links, pending>>

(* Mutant: the membership is not looked at again.                          *)
EnterSecondTrusting(b) ==
  LET u == second[b].user IN
  /\ session[b] = None
  /\ u \in totp
  /\ Establish(b, u)
  /\ second' = [second EXCEPT ![b] = NoSecond]
  /\ UNCHANGED <<accountVars, enforced, sso, links, pending>>

(***************************************************************************)
(* The one-time password is checked against the account as it is now.  A   *)
(* sign-in that came through SSO needs the membership behind it still; one *)
(* that came through a code is not looked at again.                        *)
(***************************************************************************)
EnterSecondFactor(b) ==
  LET u == second[b].user IN
  /\ session[b] = None
  /\ u \in totp
  /\ IF second[b].method = "sso" /\ u \notin sso
     THEN UNCHANGED session
     ELSE Establish(b, u)
  /\ second' = [second EXCEPT ![b] = NoSecond]
  /\ UNCHANGED <<accountVars, enforced, sso, links, pending>>

-----------------------------------------------------------------------------
(* What a signed-in account does.                                          *)

EnableTwoFactor(b) ==
  /\ session[b] # None
  /\ totp' = totp \cup {session[b]}
  /\ UNCHANGED <<account, banned, enforced, sso, links, cookieVars, session>>

DisableTwoFactor(b) ==
  /\ session[b] \in totp
  /\ totp' = totp \ {session[b]}
  /\ UNCHANGED <<account, banned, enforced, sso, links, cookieVars, session>>

SignOut(b) ==
  /\ session[b] # None
  /\ Establish(b, None)
  /\ UNCHANGED <<accountVars, enforced, sso, links, cookieVars>>

RevokeSession(b, c) ==
  /\ session[b] # None
  /\ session[c] = session[b]
  /\ Establish(c, None)
  /\ UNCHANGED <<accountVars, enforced, sso, links, cookieVars>>

EndSessions(u) ==
  session' = [b \in Browsers |-> IF session[b] = u THEN None ELSE session[b]]

(* Mutant: the second factor of a closed account stays.                    *)
CloseAndKeepTwoFactor(b) ==
  /\ session[b] # None
  /\ account' = [account EXCEPT ![session[b]] = "closed"]
  /\ EndSessions(session[b])
  /\ links' = {l \in links : l.user # session[b]}
  /\ UNCHANGED <<banned, totp, enforced, sso, cookieVars>>

(***************************************************************************)
(* Closing the account: its sessions, its codes and its second factor go.  *)
(* The memberships go too, and with them SSO.                              *)
(***************************************************************************)
CloseAccount(b) ==
  /\ session[b] # None
  /\ account' = [account EXCEPT ![session[b]] = "closed"]
  /\ EndSessions(session[b])
  /\ links' = {l \in links : l.user # session[b]}
  /\ totp' = totp \ {session[b]}
  /\ sso' = sso \ {session[b]}
  /\ UNCHANGED <<banned, enforced, cookieVars>>

-----------------------------------------------------------------------------
(* What others do.                                                         *)

(* Mutant: the ban is a status of the account.                             *)
BanByStatus(u) ==
  /\ account[u] = "open"
  /\ account' = [account EXCEPT ![u] = "banned"]
  /\ EndSessions(u)
  /\ UNCHANGED <<banned, totp, enforced, sso, links, cookieVars>>

Ban(u) ==
  /\ account[u] = "open"
  /\ banned' = banned \cup {u}
  /\ EndSessions(u)
  /\ UNCHANGED <<account, totp, enforced, sso, links, cookieVars>>

Unban(u) ==
  /\ u \in banned
  /\ banned' = banned \ {u}
  /\ UNCHANGED <<account, totp, enforced, sso, links, cookieVars, session>>

(* An organization starts or ends enforcing SSO for the account's domain.  *)
EnforcementChanges(u) ==
  /\ enforced' = IF u \in enforced THEN enforced \ {u} ELSE enforced \cup {u}
  /\ UNCHANGED <<accountVars, sso, links, cookieVars, session>>

(* The account gains or loses the membership, the connection is switched.  *)
SsoAccessChanges(u) ==
  /\ account[u] = "open"
  /\ sso' = IF u \in sso THEN sso \ {u} ELSE sso \cup {u}
  /\ UNCHANGED <<accountVars, enforced, links, cookieVars, session>>

-----------------------------------------------------------------------------
(* Time: codes last 15 minutes, as the cookie that goes with them does,    *)
(* the pending second factor 5, an unused session 14 days.                 *)

LinkExpires(l) ==
  /\ links' = links \ {l}
  /\ UNCHANGED <<accountVars, enforced, sso, cookieVars, session>>

PendingExpires(b) ==
  /\ pending[b] # None
  /\ pending' = [pending EXCEPT ![b] = None]
  /\ UNCHANGED <<accountVars, enforced, sso, links, second, session>>

SecondExpires(b) ==
  /\ second[b] # NoSecond
  /\ second' = [second EXCEPT ![b] = NoSecond]
  /\ UNCHANGED <<accountVars, enforced, sso, links, pending, session>>

SessionIdles(b) ==
  /\ session[b] # None
  /\ Establish(b, None)
  /\ UNCHANGED <<accountVars, enforced, sso, links, cookieVars>>

-----------------------------------------------------------------------------
BrowserStep(b) ==
  \/ \E u \in Users : SignUp(b, u) \/ AskCode(b, u) \/ SsoCallback(b, u)
  \/ \E l \in links : EnterCode(b, l)
  \/ EnterSecondFactor(b)
  \/ EnableTwoFactor(b)
  \/ DisableTwoFactor(b)
  \/ SignOut(b)
  \/ \E c \in Browsers : RevokeSession(b, c)
  \/ CloseAccount(b)
  \/ PendingExpires(b)
  \/ SecondExpires(b)
  \/ SessionIdles(b)

AccountStep(u) ==
  Ban(u) \/ Unban(u) \/ EnforcementChanges(u) \/ SsoAccessChanges(u)

Next ==
  \/ \E b \in Browsers : BrowserStep(b)
  \/ \E u \in Users : AccountStep(u)
  \/ \E l \in links : LinkExpires(l)

Spec == Init /\ [][Next]_vars

-----------------------------------------------------------------------------
(* Properties.                                                             *)

(***************************************************************************)
(* "Consuming the latest valid code" (docs/authentication.md): an account  *)
(* has at most one code to sign in with, and two codes are never alike.    *)
(***************************************************************************)
OneLiveCode ==
  \A l, m \in links : l.user = m.user \/ l.code = m.code => l = m

(***************************************************************************)
(* A closed account has no session, no code and no second factor, whatever *)
(* cookies of a sign-in its browsers kept ("redaction removes access",     *)
(* test/models/user_lifecycle_test.rb).  This is about whole requests: one *)
(* that is being served when redact! runs is not modelled here.            *)
(***************************************************************************)
ClosedStaysSignedOut ==
  \A u \in Users :
    account[u] = "closed" =>
      /\ \A b \in Browsers : session[b] # u
      /\ \A l \in links : l.user # u
      /\ u \notin totp

(* The browser b enters as u in this step.                                 *)
Enters(b, u) == session[b] # u /\ session'[b] = u

(***************************************************************************)
(* An account that has a second factor when a session of it opens was      *)
(* asked for it in that very browser, after passing the first there, even  *)
(* if the factor was switched on in another browser in the meantime.       *)
(***************************************************************************)
SecondFactorNeverSkipped ==
  [][\A b \in Browsers, u \in Users :
       Enters(b, u) /\ u \in totp => second[b].user = u /\ second'[b] = NoSecond]_vars

(***************************************************************************)
(* A sign-in that the identity provider began is refused at the second     *)
(* factor when the membership or the connection has gone since             *)
(* (SsoAccessWithdrawn).                                                   *)
(***************************************************************************)
WithdrawnSsoStaysOut ==
  [][\A b \in Browsers, u \in Users :
       Enters(b, u) /\ second[b] = [user |-> u, method |-> "sso"] /\ second'[b] = NoSecond
         => u \in sso]_vars

(***************************************************************************)
(* A code asked for before the ban is worth nothing after it, and neither  *)
(* is SSO: the only way into a banned account is a second factor that was  *)
(* pending already.                                                        *)
(***************************************************************************)
BannedOnlyBySecondFactor ==
  [][\A b \in Browsers, u \in banned :
       Enters(b, u) => second[b].user = u /\ second'[b] = NoSecond]_vars

(***************************************************************************)
(* "email-code sign-in for that domain is refused" (docs/authentication.md *)
(* on an enforced connection): a code asked for before the enforcement     *)
(* opens no session after it, unless the code had been entered already and *)
(* only its second factor was pending; SSO is the other way in.            *)
(***************************************************************************)
EnforcedEnterBySso ==
  [][\A b \in Browsers, u \in enforced :
       Enters(b, u) =>
         \/ u \in sso'
         \/ second[b] = [user |-> u, method |-> "magic_link"] /\ second'[b] = NoSecond]_vars

(***************************************************************************)
(* "Banned users cannot sign in; their active sessions are terminated."    *)
(* (the message of the ban action)                                         *)
(***************************************************************************)
BannedHaveNoSession == \A b \in Browsers : session[b] \notin banned
=============================================================================
