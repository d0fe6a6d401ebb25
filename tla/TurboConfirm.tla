---------------------------- MODULE TurboConfirm ----------------------------
(***************************************************************************)
(* The <dialog> that stands in for confirm(): what the user does to it,    *)
(* and what the promise that Turbo waits for resolves to.                  *)
(*                                                                         *)
(* The element belongs to the layout: every visit brings a new one, but a  *)
(* form that is answered inside a frame leaves it, with the return value   *)
(* of its last use.                                                        *)
(***************************************************************************)

VARIABLES
  asking,       \* is the dialog open?
  required,     \* must a text be typed first?
  acceptOff,    \* acceptBtn.disabled
  returnValue,  \* dialog.returnValue
  answer        \* history: what the user did last, and what Turbo got

confirmVars == <<asking, required, acceptOff, returnValue, answer>>

NoAnswer == [did |-> "nothing", got |-> FALSE]

ConfirmTypeOK ==
  /\ asking \in BOOLEAN
  /\ required \in BOOLEAN
  /\ acceptOff \in BOOLEAN
  /\ returnValue \in {"", "confirm", "cancel"}
  /\ answer \in [did : {"nothing", "accept", "reject", "backdrop", "escape"},
                 got : BOOLEAN]

(* A new element.                                                          *)
FreshDialog ==
  /\ asking = FALSE /\ required = FALSE /\ acceptOff = FALSE
  /\ returnValue = ""
  /\ answer = NoAnswer

RenewDialog ==
  /\ asking' = FALSE /\ required' = FALSE /\ acceptOff' = FALSE
  /\ returnValue' = ""
  /\ answer' = NoAnswer

-----------------------------------------------------------------------------
(* Turbo.config.forms.confirm up to showModal().                           *)
Ask(text) ==
  /\ ~asking
  /\ asking' = TRUE
  /\ required' = text
  /\ acceptOff' = text
  /\ answer' = NoAnswer
  /\ UNCHANGED returnValue

(* The input event: the button is on while the text is the required one.   *)
Type(right) ==
  /\ asking /\ required
  /\ acceptOff' = ~right
  /\ UNCHANGED <<asking, required, returnValue, answer>>

(***************************************************************************)
(* The close event: the listeners go, and the promise resolves to whether  *)
(* the return value, whoever set it, is "confirm".                         *)
(***************************************************************************)
Closed(did, value) ==
  /\ asking
  /\ asking' = FALSE
  /\ returnValue' = value
  /\ acceptOff' = FALSE
  /\ required' = FALSE
  /\ answer' = [did |-> did, got |-> value = "confirm"]

(* The button, or Enter in the text field or on the focused button.        *)
Accept == ~acceptOff /\ Closed("accept", "confirm")

Reject == Closed("reject", "cancel")

(* A click on the <dialog> itself.                                         *)
Backdrop == Closed("backdrop", "cancel")

(* The browser closes the dialog and leaves the return value alone.        *)
Escape == Closed("escape", returnValue)

UserAnswers == Accept \/ Reject \/ Backdrop \/ Escape

-----------------------------------------------------------------------------
(* Properties.                                                             *)

(***************************************************************************)
(* "Replace default browser confirm() with a styled <dialog>"              *)
(* (turbo_confirm.js): as with confirm(), whatever way the user closes the *)
(* dialog, only its confirm button means yes.                              *)
(***************************************************************************)
OnlyAcceptMeansYes == answer.got => answer.did = "accept"
=============================================================================
