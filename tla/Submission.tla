----------------------------- MODULE Submission -----------------------------
(***************************************************************************)
(* The form of the page as Turbo submits it.                               *)
(*                                                                         *)
(* A click on the button submits with the button, which Turbo disables     *)
(* when the submission starts and enables when it ends, whatever else has  *)
(* been done to it meanwhile.  Ctrl+Enter (auto-submit) submits without    *)
(* the button.  Every submission of the page stops the one under way,      *)
(* whose end is reported all the same, and maybe not before the other has  *)
(* started.  An answer is shown some time after the end was reported.      *)
(***************************************************************************)

VARIABLES
  disabled,   \* btn.disabled
  underWay,   \* how the submission under way was sent, or "no"
  stopped,    \* the same of one that was stopped and is still to end
  reply       \* what is to be shown: the redirect, the form with errors

submitVars == <<disabled, underWay, stopped, reply>>

Ways == {"click", "key"}

SubmissionTypeOK ==
  /\ disabled \in BOOLEAN
  /\ underWay \in Ways \cup {"no"}
  /\ stopped \in Ways \cup {"no"}
  /\ reply \in {"none", "saved", "errors"}

FreshForm ==
  disabled = FALSE /\ underWay = "no" /\ stopped = "no" /\ reply = "none"

RenewForm ==
  disabled' = FALSE /\ underWay' = "no" /\ stopped' = "no" /\ reply' = "none"

-----------------------------------------------------------------------------
(* A disabled button takes no click; requestSubmit() does not ask it.      *)
Submit(way) ==
  /\ stopped = "no"
  /\ way = "click" => ~disabled
  /\ underWay' = way
  /\ stopped' = underWay
  /\ disabled' = (disabled \/ way = "click")
  /\ UNCHANGED reply

(* Another form of the page is sent: a logo is removed, a user logs out.   *)
SubmitElsewhere ==
  /\ underWay # "no" /\ stopped = "no"
  /\ underWay' = "no"
  /\ stopped' = underWay
  /\ UNCHANGED <<disabled, reply>>

StoppedSubmissionEnds ==
  /\ stopped # "no"
  /\ stopped' = "no"
  /\ disabled' = (disabled /\ stopped # "click")
  /\ UNCHANGED <<underWay, reply>>

(* A request that was "lost" has no answer.                                *)
SubmissionEnds(outcome) ==
  /\ underWay # "no" /\ stopped = "no"
  /\ underWay' = "no"
  /\ disabled' = (disabled /\ underWay # "click")
  /\ reply' = IF outcome = "lost" THEN reply ELSE outcome
  /\ UNCHANGED stopped
=============================================================================
