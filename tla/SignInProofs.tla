---------------------------- MODULE SignInProofs ----------------------------
(***************************************************************************)
(* What closing an account ends, what a second factor guards and how codes *)
(* replace each other, for any number of accounts, browsers and codes.     *)
(*                                                                         *)
(* A cookie outlives the account it names, so nothing can be said of       *)
(* cookies.  What the server keeps (sessions, codes, second factors)       *)
(* belongs to open accounts only, and the checks a cookie has to pass need *)
(* one of the three: that is the invariant.                                *)
(***************************************************************************)
EXTENDS SignIn, TLAPS

HeldByOpen ==
  /\ \A b \in Browsers : session[b] # None => account[session[b]] = "open"
  /\ \A l \in links : account[l.user] = "open"
  /\ \A u \in totp : account[u] = "open"

IInv == TypeOK /\ HeldByOpen /\ OneLiveCode

LEMMA InitIInv == Init => IInv
BY SignInAssumption DEF Init, IInv, TypeOK, HeldByOpen, OneLiveCode, NoSecond

(***************************************************************************)
(* A new code keeps the codes well-formed, apart, and of open accounts.    *)
(***************************************************************************)
LEMMA SendMagicLinkKeeps ==
  ASSUME TypeOK, OneLiveCode, NEW u \in Users, NEW p \in Purposes,
         SendMagicLink(u, p)
  PROVE  /\ links' \subseteq Link
         /\ OneLiveCode'
         /\ \A l \in links' : l \in links \/ l.user = u
<1>1. PICK c \in Codes :
        /\ \A l \in links : l.code # c
        /\ links' = {l \in links : l.user # u}
                      \cup {[user |-> u, purpose |-> p, code |-> c]}
  BY DEF SendMagicLink
<1>2. [user |-> u, purpose |-> p, code |-> c] \in Link
  BY DEF Link
<1>3. OneLiveCode'
  BY <1>1 DEF OneLiveCode
<1> QED
  BY <1>1, <1>2, <1>3 DEF TypeOK

(***************************************************************************)
(* Passing the first factor gives an open account a session or a cookie.   *)
(***************************************************************************)
LEMMA SignInKeeps ==
  ASSUME TypeOK, NEW b \in Browsers, NEW u \in Users, NEW m \in Methods,
         SignInOrVerifySecond(b, u, m)
  PROVE  /\ session' \in [Browsers -> Users \cup {None}]
         /\ second' \in [Browsers -> [user : Users, method : Methods] \cup {NoSecond}]
         /\ \A c \in Browsers : session'[c] = session[c] \/ session'[c] = u
BY DEF TypeOK, SignInOrVerifySecond, Establish

LEMMA BrowserKeepsIInv ==
  ASSUME IInv, NEW b \in Browsers, BrowserStep(b)
  PROVE  IInv'
<1> USE SignInAssumption DEF IInv
<1>1. ASSUME NEW u \in Users, SignUp(b, u) PROVE IInv'
  <2>1. /\ links' \subseteq Link
        /\ OneLiveCode'
        /\ \A l \in links' : l \in links \/ l.user = u
    BY <1>1, SendMagicLinkKeeps DEF SignUp, Purposes
  <2>2. TypeOK'
    BY <1>1, <2>1 DEF SignUp, TypeOK
  <2>3. HeldByOpen'
    BY <1>1, <2>1 DEF SignUp, TypeOK, HeldByOpen, Link
  <2> QED
    BY <2>1, <2>2, <2>3
<1>2. ASSUME NEW u \in Users, AskCode(b, u) PROVE IInv'
  <2>1. /\ links' \subseteq Link
        /\ OneLiveCode'
        /\ \A l \in links' : l \in links \/ l.user = u
    <3>1. CASE CanAuthenticate(u)
      BY <1>2, <3>1, SendMagicLinkKeeps DEF AskCode, Purposes
    <3>2. CASE ~CanAuthenticate(u)
      BY <1>2, <3>2 DEF AskCode, TypeOK, OneLiveCode
    <3> QED
      BY <3>1, <3>2
  <2>2. TypeOK'
    BY <1>2, <2>1 DEF AskCode, TypeOK, accountVars
  <2>3. HeldByOpen'
    BY <1>2, <2>1 DEF AskCode, HeldByOpen, accountVars
  <2> QED
    BY <2>1, <2>2, <2>3
<1>3. ASSUME NEW u \in Users, SsoCallback(b, u) PROVE IInv'
  <2>1. /\ session' \in [Browsers -> Users \cup {None}]
        /\ second' \in [Browsers -> [user : Users, method : Methods] \cup {NoSecond}]
        /\ \A c \in Browsers : session'[c] = session[c] \/ session'[c] = u
    BY <1>3, SignInKeeps DEF SsoCallback, Methods
  <2>2. TypeOK'
    BY <1>3, <2>1 DEF SsoCallback, TypeOK
  <2>3. HeldByOpen'
    BY <1>3, <2>1 DEF SsoCallback, TypeOK, HeldByOpen, Link
  <2>4. OneLiveCode'
    BY <1>3 DEF SsoCallback, OneLiveCode
  <2> QED
    BY <2>2, <2>3, <2>4
<1>4. ASSUME NEW l \in links, EnterCode(b, l) PROVE IInv'
  <2>1. l.user \in Users
    BY DEF TypeOK, Link
  <2>2. /\ session' \in [Browsers -> Users \cup {None}]
        /\ second' \in [Browsers -> [user : Users, method : Methods] \cup {NoSecond}]
        /\ \A c \in Browsers : session'[c] = session[c] \/ session'[c] = l.user
        /\ pending' \in [Browsers -> Users \cup {None}]
    <3>1. CASE CanAuthenticate(l.user) /\ l.user \notin enforced
      <4>1. SignInOrVerifySecond(b, l.user, "magic_link")
        BY <1>4, <3>1 DEF EnterCode
      <4>2. pending' = [pending EXCEPT ![b] = None]
        BY <1>4, <3>1 DEF EnterCode
      <4>3. "magic_link" \in Methods
        BY DEF Methods
      <4>4. pending' \in [Browsers -> Users \cup {None}]
        BY <4>2 DEF TypeOK
      <4> QED
        BY <2>1, <4>1, <4>3, <4>4, SignInKeeps
    <3>2. CASE ~(CanAuthenticate(l.user) /\ l.user \notin enforced)
      BY <1>4, <3>2 DEF EnterCode, TypeOK, cookieVars
    <3> QED
      BY <3>1, <3>2
  <2>3. TypeOK'
    BY <1>4, <2>2 DEF EnterCode, TypeOK, accountVars
  <2>4. HeldByOpen'
    BY <1>4, <2>2 DEF EnterCode, HeldByOpen, accountVars
  <2>5. OneLiveCode'
    BY <1>4 DEF EnterCode, OneLiveCode
  <2> QED
    BY <2>3, <2>4, <2>5
<1>5. CASE EnterSecondFactor(b)
  <2>1. second[b].user \in totp
    BY <1>5 DEF EnterSecondFactor
  <2>2. /\ session' \in [Browsers -> Users \cup {None}]
        /\ \A c \in Browsers : session'[c] = session[c] \/ session'[c] = second[b].user
    BY <1>5, <2>1 DEF EnterSecondFactor, Establish, TypeOK
  <2>3. TypeOK'
    BY <1>5, <2>2 DEF EnterSecondFactor, TypeOK, accountVars
  <2>4. HeldByOpen'
    BY <1>5, <2>1, <2>2 DEF EnterSecondFactor, HeldByOpen, accountVars
  <2>5. OneLiveCode'
    BY <1>5 DEF EnterSecondFactor, OneLiveCode
  <2> QED
    BY <2>3, <2>4, <2>5
<1>6. CASE EnableTwoFactor(b)
  BY <1>6 DEF EnableTwoFactor, cookieVars, TypeOK, HeldByOpen, OneLiveCode
<1>7. CASE DisableTwoFactor(b)
  BY <1>7 DEF DisableTwoFactor, cookieVars, TypeOK, HeldByOpen, OneLiveCode
<1>8. CASE SignOut(b)
  BY <1>8 DEF SignOut, Establish, accountVars, cookieVars, TypeOK, HeldByOpen, OneLiveCode
<1>9. ASSUME NEW c \in Browsers, RevokeSession(b, c) PROVE IInv'
  BY <1>9 DEF RevokeSession, Establish, accountVars, cookieVars, TypeOK, HeldByOpen, OneLiveCode
<1>10. CASE CloseAccount(b)
  <2>1. TypeOK'
    BY <1>10 DEF CloseAccount, EndSessions, cookieVars, TypeOK
  <2>2. HeldByOpen'
    BY <1>10 DEF CloseAccount, EndSessions, TypeOK, HeldByOpen, Link
  <2>3. OneLiveCode'
    BY <1>10 DEF CloseAccount, OneLiveCode
  <2> QED
    BY <2>1, <2>2, <2>3
<1>11. CASE PendingExpires(b)
  BY <1>11 DEF PendingExpires, accountVars, TypeOK, HeldByOpen, OneLiveCode
<1>12. CASE SecondExpires(b)
  BY <1>12 DEF SecondExpires, accountVars, TypeOK, HeldByOpen, OneLiveCode
<1>13. CASE SessionIdles(b)
  BY <1>13 DEF SessionIdles, Establish, accountVars, cookieVars, TypeOK, HeldByOpen, OneLiveCode
<1> QED
  BY <1>1, <1>2, <1>3, <1>4, <1>5, <1>6, <1>7, <1>8, <1>9, <1>10, <1>11, <1>12, <1>13
  DEF BrowserStep

LEMMA NextIInv == IInv /\ [Next]_vars => IInv'
<1> SUFFICES ASSUME IInv, [Next]_vars PROVE IInv'
  OBVIOUS
<1> USE SignInAssumption DEF IInv, TypeOK, HeldByOpen, OneLiveCode
<1>1. ASSUME NEW u \in Users, AccountStep(u) PROVE IInv'
  <2>1. CASE Ban(u)
    BY <2>1 DEF Ban, EndSessions, cookieVars
  <2>2. CASE Unban(u)
    BY <2>2 DEF Unban, cookieVars
  <2>3. CASE EnforcementChanges(u)
    BY <2>3 DEF EnforcementChanges, accountVars, cookieVars
  <2>4. CASE SsoAccessChanges(u)
    BY <2>4 DEF SsoAccessChanges, accountVars, cookieVars
  <2> QED
    BY <1>1, <2>1, <2>2, <2>3, <2>4 DEF AccountStep
<1>2. ASSUME NEW l \in links, LinkExpires(l) PROVE IInv'
  BY <1>2 DEF LinkExpires, accountVars, cookieVars
<1>3. CASE UNCHANGED vars
  BY <1>3 DEF vars, accountVars
<1> QED
  BY <1>1, <1>2, <1>3, BrowserKeepsIInv DEF Next

LEMMA Invariance == Spec => []IInv
BY InitIInv, NextIInv, PTL DEF Spec

(***************************************************************************)
(* Between requests, a closed account has no session, no code and no       *)
(* second factor, whatever cookies its browsers kept when it was closed.   *)
(***************************************************************************)
THEOREM ClosedNeverSignedIn == Spec => []ClosedStaysSignedOut
<1>1. IInv => ClosedStaysSignedOut
  BY SignInAssumption DEF IInv, HeldByOpen, ClosedStaysSignedOut
<1> QED
  BY <1>1, Invariance, PTL

(***************************************************************************)
(* An account never has two codes to sign in with, and two codes are never *)
(* alike.                                                                  *)
(***************************************************************************)
THEOREM NeverTwoCodes == Spec => []OneLiveCode
<1>1. IInv => OneLiveCode
  BY DEF IInv
<1> QED
  BY <1>1, Invariance, PTL

(* Every reachable state is well typed.                                    *)
THEOREM TypeCorrect == Spec => []TypeOK
<1>1. IInv => TypeOK
  BY DEF IInv
<1> QED
  BY <1>1, Invariance, PTL

(***************************************************************************)
(* There are three ways into an account: SSO, a code, and the second       *)
(* factor after either.                                                    *)
(***************************************************************************)
LEMMA WaysIn ==
  ASSUME IInv, [Next]_vars, NEW b \in Browsers, NEW u \in Users, Enters(b, u)
  PROVE  \/ SsoCallback(b, u) /\ u \notin totp
         \/ \E l \in links : EnterCode(b, l) /\ CanAuthenticate(u) /\ u \notin totp
         \/ EnterSecondFactor(b) /\ second[b].user = u
<1> DEFINE Goal == \/ SsoCallback(b, u) /\ u \notin totp
                   \/ \E l \in links :
                        EnterCode(b, l) /\ CanAuthenticate(u) /\ u \notin totp
                   \/ EnterSecondFactor(b) /\ second[b].user = u
<1> USE SignInAssumption DEF Enters, IInv, TypeOK
<1>1. ASSUME NEW c \in Browsers, BrowserStep(c)
      PROVE  Goal
  <2>1. ~ \E v \in Users : SignUp(c, v) \/ AskCode(c, v)
    BY DEF SignUp, AskCode
  <2>2. ASSUME NEW v \in Users, SsoCallback(c, v) PROVE Goal
    <3>1. v \notin totp /\ session' = [session EXCEPT ![c] = v]
      BY <2>2 DEF SsoCallback, SignInOrVerifySecond, Establish
    <3>2. c = b /\ v = u
      BY <3>1
    <3> QED
      BY <2>2, <3>1, <3>2
  <2>3. ASSUME NEW l \in links, EnterCode(c, l) PROVE Goal
    <3>1. /\ CanAuthenticate(l.user) /\ l.user \notin totp
          /\ session' = [session EXCEPT ![c] = l.user]
      BY <2>3 DEF EnterCode, SignInOrVerifySecond, Establish
    <3>2. c = b /\ l.user = u
      BY <3>1
    <3> QED
      BY <2>3, <3>1, <3>2
  <2>4. ~ (SignOut(c) \/ SessionIdles(c))
    BY DEF SignOut, SessionIdles, Establish
  <2>5. ~ \E d \in Browsers : RevokeSession(c, d)
    BY DEF RevokeSession, Establish
  <2>6. ~ CloseAccount(c)
    BY DEF CloseAccount, EndSessions
  <2>7. ~ (EnableTwoFactor(c) \/ DisableTwoFactor(c) \/ PendingExpires(c) \/ SecondExpires(c))
    BY DEF EnableTwoFactor, DisableTwoFactor, PendingExpires, SecondExpires
  <2>8. ASSUME EnterSecondFactor(c) PROVE Goal
    <3>1. c = b /\ second[c].user = u
      BY <2>8 DEF EnterSecondFactor, Establish
    <3> QED
      BY <2>8, <3>1
  <2> QED
    BY <1>1, <2>1, <2>2, <2>3, <2>4, <2>5, <2>6, <2>7, <2>8 DEF BrowserStep
<1>2. ~ \E v \in Users : AccountStep(v)
  BY DEF AccountStep, Ban, Unban, EnforcementChanges, SsoAccessChanges, EndSessions
<1>3. ~ \E l \in links : LinkExpires(l)
  BY DEF LinkExpires
<1>4. ~ UNCHANGED vars
  BY DEF vars
<1> QED
  BY <1>1, <1>2, <1>3, <1>4 DEF Next

(***************************************************************************)
(* No session of an account with a second factor opens in a browser that   *)
(* did not hold the account's pending second factor.                       *)
(***************************************************************************)
THEOREM SecondFactorAlwaysAsked == Spec => SecondFactorNeverSkipped
<1>1. ASSUME IInv, [Next]_vars, NEW b \in Browsers, NEW u \in Users,
             Enters(b, u), u \in totp
      PROVE  second[b].user = u /\ second'[b] = NoSecond
  <2>1. EnterSecondFactor(b) /\ second[b].user = u
    BY <1>1, WaysIn
  <2> QED
    BY <1>1, <2>1 DEF EnterSecondFactor, IInv, TypeOK
<1>2. IInv /\ [Next]_vars =>
        [\A b \in Browsers, u \in Users :
           Enters(b, u) /\ u \in totp => second[b].user = u /\ second'[b] = NoSecond]_vars
  BY <1>1
<1> QED
  BY <1>2, Invariance, PTL DEF SecondFactorNeverSkipped, Spec

(***************************************************************************)
(* Whoever ends a sign-in of SSO at the second factor still has the        *)
(* membership and the connection it began with.                            *)
(***************************************************************************)
THEOREM WithdrawnSsoRefused == Spec => WithdrawnSsoStaysOut
<1>1. ASSUME IInv, [Next]_vars, NEW b \in Browsers, NEW u \in Users,
             Enters(b, u), second[b] = [user |-> u, method |-> "sso"],
             second'[b] = NoSecond
      PROVE  u \in sso
  <2> USE SignInAssumption DEF IInv, TypeOK, NoSecond, Enters
  <2>1. CASE SsoCallback(b, u) /\ u \notin totp
    BY <1>1, <2>1 DEF SsoCallback, SignInOrVerifySecond
  <2>2. ASSUME NEW l \in links, EnterCode(b, l), u \notin totp
        PROVE  u \in sso
    <3>1. l.user = u
      BY <1>1, <2>2 DEF EnterCode, SignInOrVerifySecond, Establish
    <3>2. second' = second
      BY <2>2, <3>1 DEF EnterCode, SignInOrVerifySecond, cookieVars
    <3> QED
      BY <1>1, <3>2
  <2>3. CASE EnterSecondFactor(b) /\ second[b].user = u
    BY <1>1, <2>3 DEF EnterSecondFactor
  <2> QED
    BY <1>1, <2>1, <2>2, <2>3, WaysIn
<1>2. IInv /\ [Next]_vars =>
        [\A b \in Browsers, u \in Users :
           Enters(b, u) /\ second[b] = [user |-> u, method |-> "sso"] /\ second'[b] = NoSecond
             => u \in sso]_vars
  BY <1>1
<1> QED
  BY <1>2, Invariance, PTL DEF WithdrawnSsoStaysOut, Spec

(***************************************************************************)
(* The only way into a banned account is a second factor that was pending  *)
(* when it was banned.                                                     *)
(***************************************************************************)
THEOREM BannedKeptOut == Spec => BannedOnlyBySecondFactor
<1>1. ASSUME IInv, [Next]_vars, NEW b \in Browsers, NEW u \in banned, Enters(b, u)
      PROVE  second[b].user = u /\ second'[b] = NoSecond
  <2>1. u \in Users
    BY <1>1 DEF IInv, TypeOK
  <2>2. EnterSecondFactor(b) /\ second[b].user = u
    BY <1>1, <2>1, WaysIn DEF SsoCallback, CanAuthenticate
  <2> QED
    BY <1>1, <2>2 DEF EnterSecondFactor, IInv, TypeOK
<1>2. IInv /\ [Next]_vars =>
        [\A b \in Browsers, u \in banned :
           Enters(b, u) => second[b].user = u /\ second'[b] = NoSecond]_vars
  BY <1>1
<1> QED
  BY <1>2, Invariance, PTL DEF BannedOnlyBySecondFactor, Spec

(***************************************************************************)
(* While the domain of an account enforces SSO, the only way in beside SSO *)
(* is the second factor of a code that had been entered before.            *)
(***************************************************************************)
THEOREM EnforcementKept == Spec => EnforcedEnterBySso
<1>1. ASSUME IInv, [Next]_vars, NEW b \in Browsers, NEW u \in enforced, Enters(b, u)
      PROVE  \/ u \in sso'
             \/ second[b] = [user |-> u, method |-> "magic_link"] /\ second'[b] = NoSecond
  <2>1. u \in Users
    BY <1>1 DEF IInv, TypeOK
  <2>2. CASE SsoCallback(b, u)
    BY <2>2 DEF SsoCallback
  <2>3. ~ \E l \in links : EnterCode(b, l)
    <3>1. SUFFICES ASSUME NEW l \in links, EnterCode(b, l) PROVE FALSE
      OBVIOUS
    <3>2. l.user \notin enforced /\ session' = [session EXCEPT ![b] = l.user]
      BY <1>1, <3>1 DEF EnterCode, Enters, SignInOrVerifySecond, Establish
    <3> QED
      BY <1>1, <3>2 DEF Enters, IInv, TypeOK
  <2>4. CASE EnterSecondFactor(b) /\ second[b].user = u
    <3>1. second'[b] = NoSecond /\ (second[b].method = "sso" => u \in sso /\ sso' = sso)
      BY <1>1, <2>4 DEF EnterSecondFactor, Enters, IInv, TypeOK
    <3>2. second[b] \in [user : Users, method : Methods]
      <4>1. second[b] \in [user : Users, method : Methods] \cup {NoSecond}
        BY <1>1 DEF IInv, TypeOK
      <4>2. second[b] # NoSecond
        BY <2>1, <2>4, SignInAssumption DEF NoSecond
      <4> QED
        BY <4>1, <4>2
    <3>3. second[b].method = "magic_link" => second[b] = [user |-> u, method |-> "magic_link"]
      BY <2>4, <3>2
    <3> QED
      BY <3>1, <3>2, <3>3 DEF Methods
  <2> QED
    BY <1>1, <2>1, <2>2, <2>3, <2>4, WaysIn
<1>2. IInv /\ [Next]_vars =>
        [\A b \in Browsers, u \in enforced :
           Enters(b, u) =>
             \/ u \in sso'
             \/ second[b] = [user |-> u, method |-> "magic_link"] /\ second'[b] = NoSecond]_vars
  BY <1>1
<1> QED
  BY <1>2, Invariance, PTL DEF EnforcedEnterBySso, Spec
=============================================================================
