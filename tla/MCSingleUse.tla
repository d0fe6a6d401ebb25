----------------------------- MODULE MCSingleUse -----------------------------
(***************************************************************************)
(* A small instance of SingleUse: three items, of kinds that are explored  *)
(* too.  Links and backup codes meet at the row of the account; requests   *)
(* of SAML meet only their own kind; an organization invites an address    *)
(* once at a time, so that at most one item is "direct".                   *)
(***************************************************************************)
EXTENDS SingleUse

Mix(a, b, c) == <<a, b, c>>

SomeMixes ==
  { Mix("sign_in", "sign_in", "sudo"),
    Mix("sign_in", "backup", "backup"),
    Mix("saml", "saml", "saml"),
    Mix("sent", "sent", "sent"),
    Mix("asked", "sent", "none"),
    Mix("direct", "received", "none"),
    Mix("sudo", "received", "none") }
=============================================================================
