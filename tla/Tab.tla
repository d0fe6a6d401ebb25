-------------------------------- MODULE Tab --------------------------------
(***************************************************************************)
(* A browser tab: the page it shows, and on it a form with its button, the *)
(* upload field of the settings or the guard of the project form, and the  *)
(* confirm dialog of the layout.                                           *)
(*                                                                         *)
(* Every visit brings new elements and new controllers.  While the dialog  *)
(* is open the rest of the page takes no clicks and no keys, but uploads,  *)
(* submissions and the Back button go on.                                  *)
(***************************************************************************)
EXTENDS Dropzone, UnsavedChanges, TurboConfirm

VARIABLE page    \* which page is shown

vars == <<submitVars, uploadVars, unsavedVars, confirmVars, page>>

(* The settings have an upload field, the project form has the guard.      *)
Pages == {"other", "settings", "project"}

TypeOK ==
  /\ SubmissionTypeOK /\ UploadTypeOK /\ UnsavedTypeOK /\ ConfirmTypeOK
  /\ page \in Pages

Init ==
  /\ page = "other"
  /\ FreshForm /\ Connected(TRUE, {}) /\ CleanForm /\ FreshDialog

-----------------------------------------------------------------------------
(* Pages.                                                                  *)

(* New elements, with the files of the record or of the form sent before.  *)
Render(p, edits) ==
  /\ RenewForm /\ RenewDialog /\ NewController(edits)
  /\ IF p = "settings"
       THEN \E isSingle \in BOOLEAN :
              \E existing \in Existing(isSingle) : Reconnect(isSingle, existing)
       ELSE Reconnect(TRUE, {})

Show(p) == page' = p /\ Render(p, {})

(***************************************************************************)
(* A link, a reload, or the answer to a form elsewhere on the page.  If    *)
(* the form IsDirty the user was asked, and wants to go.                   *)
(***************************************************************************)
Visit(p) == ~asking /\ Show(p)

(* The visit that follows a saved form; the same question.                 *)
Redirect(p) == reply = "saved" /\ Show(p)

(* beforeVisit lets the user stay where the redirect would leave.          *)
StayAfterAll ==
  /\ reply = "saved" /\ IsDirty
  /\ reply' = "none"
  /\ UNCHANGED <<disabled, underWay, stopped, uploadVars, unsavedVars, confirmVars, page>>

(* turbo:before-visit is not sent when the user goes back.                 *)
Back(p) == Show(p)

(* The page is rendered anew, the dialog with it.                          *)
ShowErrors ==
  /\ reply = "errors"
  /\ Render(page, IF unsaved \ {"late"} = {} THEN {} ELSE {"refused"})
  /\ UNCHANGED page

-----------------------------------------------------------------------------
(* The form.                                                               *)

UseField ==
  /\ page = "settings" /\ ~asking
  /\ UserUploads
  /\ UNCHANGED <<underWay, stopped, reply, unsavedVars, confirmVars, page>>

Upload(f) ==
  /\ UploadProceeds(f)
  /\ UNCHANGED <<underWay, stopped, reply, unsavedVars, confirmVars, page>>

EditProject ==
  /\ page = "project" /\ ~asking
  /\ MarkDirty
  /\ UNCHANGED <<submitVars, uploadVars, confirmVars, page>>

(* Only the project form listens to its submissions.                       *)
Heard(listener) == IF page = "project" THEN listener ELSE UNCHANGED unsavedVars

SendForm(way) ==
  /\ page # "other" /\ ~asking
  /\ Submit(way) /\ UploadsGoOn /\ Heard(SubmitStart)
  /\ UNCHANGED <<confirmVars, page>>

SendAnotherForm ==
  /\ ~asking
  /\ SubmitElsewhere /\ UploadsGoOn
  /\ UNCHANGED <<unsavedVars, confirmVars, page>>

SubmissionProceeds ==
  /\ \/ StoppedSubmissionEnds /\ Heard(StoppedEnd)
     \/ \E outcome \in {"saved", "errors", "lost"} :
          SubmissionEnds(outcome) /\ Heard(SubmitEnd(outcome))
  /\ UploadsGoOn
  /\ UNCHANGED <<confirmVars, page>>

-----------------------------------------------------------------------------
(* The dialog.                                                             *)

UseDialog ==
  /\ \/ \E text \in BOOLEAN : Ask(text)
     \/ \E right \in BOOLEAN : Type(right)
     \/ UserAnswers
  /\ UNCHANGED <<submitVars, uploadVars, unsavedVars, page>>

-----------------------------------------------------------------------------
Next ==
  \/ \E p \in Pages : Visit(p) \/ Redirect(p) \/ Back(p)
  \/ StayAfterAll
  \/ ShowErrors
  \/ UseField
  \/ \E f \in Files : Upload(f)
  \/ EditProject
  \/ \E way \in Ways : SendForm(way)
  \/ SendAnotherForm
  \/ SubmissionProceeds
  \/ UseDialog

(* An XHR is answered or fails, and so is the request of a submission.     *)
Spec ==
  /\ Init /\ [][Next]_vars
  /\ \A f \in Files : WF_vars(Upload(f))
  /\ WF_vars(SubmissionProceeds)

-----------------------------------------------------------------------------
(* Properties.                                                             *)

(***************************************************************************)
(* A visit does not lose edits that were made in a quiet form without      *)
(* asking, unless the form is being sent: while the server lacks them, the *)
(* guard knows, whatever submission was stopped, refused or lost.          *)
(***************************************************************************)
NoSilentLoss ==
  "typed" \in unsaved => IsDirty \/ underWay # "no" \/ stopped # "no"

(***************************************************************************)
(* The button is given back, whatever the user does while files and the    *)
(* form are sent, unless an upload was aborted.                            *)
(***************************************************************************)
ButtonComesBack == disabled ~> ~disabled \/ Aborted # {}
=============================================================================
