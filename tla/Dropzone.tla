------------------------------ MODULE Dropzone ------------------------------
(***************************************************************************)
(* One upload field of a form: the dropzone controller, Dropzone and the   *)
(* direct uploads of Active Storage.                                       *)
(*                                                                         *)
(* A file that is dropped is checked, announced to the server and stored,  *)
(* while the user drops others and takes files away.  The hidden inputs    *)
(* with the ids of stored files hang on the previews.  The submit button   *)
(* of the form is set by every change of the counter of uploads, and by    *)
(* the submissions of the form.                                            *)
(***************************************************************************)
EXTENDS Submission, Naturals, FiniteSets

CONSTANT Files    \* the files a user may drop, each once on a page

ASSUME DropzoneAssumption == IsFiniteSet(Files)

VARIABLES
  single,         \* does the field take one file only?
  files,          \* dropZone.files: the files with a preview in the form
  phase,          \* how far each file is
  inputs,         \* the files whose signed id is in the form
  activeUploads,  \* the counter
  handedBack      \* history: what was being uploaded when Turbo enabled the button

uploadVars == <<single, files, phase, inputs, activeUploads, handedBack>>

(***************************************************************************)
(* "creating" is the checksum and the announcement, "storing" the XHR that *)
(* sends the bytes; "aborted" is a file whose XHR was aborted.             *)
(***************************************************************************)
Phases == {"none", "creating", "storing", "done", "failed", "refused", "aborted"}

Running == {f \in Files : phase[f] \in {"creating", "storing"}}
Aborted == {f \in Files : phase[f] = "aborted"}

UploadTypeOK ==
  /\ single \in BOOLEAN
  /\ files \subseteq Files
  /\ phase \in [Files -> Phases]
  /\ inputs \subseteq Files
  /\ activeUploads \in Nat
  /\ handedBack \subseteq Files

(* connect(), on a page that was just loaded.                              *)
Connected(isSingle, existing) ==
  /\ single = isSingle
  /\ files = existing
  /\ phase = [f \in Files |-> IF f \in existing THEN "done" ELSE "none"]
  /\ inputs = existing
  /\ activeUploads = 0
  /\ handedBack = {}

(* connect() on the next page.                                             *)
Reconnect(isSingle, existing) ==
  /\ single' = isSingle
  /\ files' = existing
  /\ phase' = [f \in Files |-> IF f \in existing THEN "done" ELSE "none"]
  /\ inputs' = existing
  /\ activeUploads' = 0
  /\ handedBack' = {}

(* What the record has, or was sent with the form that came back.          *)
Existing(isSingle) ==
  {e \in SUBSET Files : isSingle => Cardinality(e) <= 1}

-----------------------------------------------------------------------------
(* Mutant: the counter is left, the button follows the upload that ended.  *)
CountUnlessLast(n) ==
  /\ activeUploads' = n
  /\ disabled' = (n > 1)

(* The counter moves and the button follows.                               *)
Count(n) ==
  /\ activeUploads' = n
  /\ disabled' = (n > 0)

(* removeFile: an upload whose XHR runs is aborted, an earlier one is not. *)
AfterRemoval(gone) ==
  [f \in Files |-> IF f \in gone /\ phase[f] = "storing" THEN "aborted" ELSE phase[f]]

(***************************************************************************)
(* addFile: the listener removes the files that the new one replaces, or   *)
(* the new one if it is a duplicate; Dropzone then goes on with the new    *)
(* file in either case, and hands it to upload() unless it is refused for  *)
(* its type or size.  Any file may look like one that is there.            *)
(***************************************************************************)
Drop(f, duplicate, refused) ==
  LET gone == IF single THEN files ELSE {}
  IN  /\ phase[f] = "none"
      /\ duplicate => ~single /\ files # {}
      /\ files' = IF duplicate THEN files ELSE (files \ gone) \cup {f}
      /\ inputs' = inputs \ gone
      /\ phase' = [AfterRemoval(gone) EXCEPT ![f] =
                     IF refused THEN "refused" ELSE "creating"]
      /\ IF refused THEN UNCHANGED <<activeUploads, disabled>>
                    ELSE Count(activeUploads + 1)
      /\ UNCHANGED <<single, handedBack>>

(* Mutant: the counter does not wait for the upload of what is removed.    *)
RemoveAndCount(f) ==
  /\ f \in files
  /\ files' = files \ {f}
  /\ inputs' = inputs \ {f}
  /\ phase' = AfterRemoval({f})
  /\ IF f \in Running THEN Count(activeUploads - 1)
                      ELSE UNCHANGED <<activeUploads, disabled>>
  /\ UNCHANGED <<single, handedBack>>

(* The link under a preview.                                               *)
Remove(f) ==
  /\ f \in files
  /\ files' = files \ {f}
  /\ inputs' = inputs \ {f}
  /\ phase' = AfterRemoval({f})
  /\ UNCHANGED <<single, activeUploads, handedBack, disabled>>

(* directUploadWillStoreFileWithXHR, also for a file that was removed.     *)
StoreStarts(f) ==
  /\ phase[f] = "creating"
  /\ phase' = [phase EXCEPT ![f] = "storing"]
  /\ UNCHANGED <<single, files, inputs, activeUploads, handedBack, disabled>>

(* Mutant: the hidden input is appended to the form.                       *)
UploadSucceedsInForm(f) ==
  /\ phase[f] = "storing"
  /\ phase' = [phase EXCEPT ![f] = "done"]
  /\ inputs' = inputs \cup {f}
  /\ Count(activeUploads - 1)
  /\ UNCHANGED <<single, files, handedBack>>

(* The hidden input hangs on the preview, which may be out of the form.    *)
UploadSucceeds(f) ==
  /\ phase[f] = "storing"
  /\ phase' = [phase EXCEPT ![f] = "done"]
  /\ inputs' = inputs \cup ({f} \cap files)
  /\ Count(activeUploads - 1)
  /\ UNCHANGED <<single, files, handedBack>>

(* Mutant: the button is forgotten when an upload fails.                   *)
UploadFailsSilently(f) ==
  /\ f \in Running
  /\ phase' = [phase EXCEPT ![f] = "failed"]
  /\ UNCHANGED <<single, files, inputs, activeUploads, handedBack, disabled>>

(* The announcement or the XHR fails.                                      *)
UploadFails(f) ==
  /\ f \in Running
  /\ phase' = [phase EXCEPT ![f] = "failed"]
  /\ Count(activeUploads - 1)
  /\ UNCHANGED <<single, files, inputs, handedBack>>

UserUploads ==
  \E f \in Files :
    Remove(f) \/ \E duplicate, refused \in BOOLEAN : Drop(f, duplicate, refused)

(* A step of a submission; it may give the button back during an upload.   *)
UploadsGoOn ==
  /\ handedBack' =
       IF disabled /\ ~disabled' THEN handedBack \cup Running \cup Aborted ELSE handedBack
  /\ UNCHANGED <<single, files, phase, inputs, activeUploads>>

UploadProceeds(f) == StoreStarts(f) \/ UploadSucceeds(f) \/ UploadFails(f)

-----------------------------------------------------------------------------
(* Properties.                                                             *)

(***************************************************************************)
(* The counter is the number of the uploads that run, shown or not, and of *)
(* those that were aborted, because an aborted XHR never calls back.  The  *)
(* button is off without one only for a click whose submission is to end;  *)
(* and where it is on, every upload was already there when Turbo, at the   *)
(* end of such a submission, gave the button back.                         *)
(***************************************************************************)
ButtonFollowsUploads ==
  /\ activeUploads = Cardinality(Running) + Cardinality(Aborted)
  /\ disabled => Running \cup Aborted # {} \/ "click" \in {underWay, stopped}
  /\ ~disabled => Running \cup Aborted \subseteq handedBack

(***************************************************************************)
(* The form holds the ids of the stored files that are shown, and of no    *)
(* other: a file that was removed or replaced before its upload ended does *)
(* not come back with it, and a field for one file never sends two.        *)
(***************************************************************************)
FormSendsWhatIsShown ==
  /\ inputs = {f \in files : phase[f] = "done"}
  /\ single => Cardinality(files) <= 1

(***************************************************************************)
(* "Single-file: replace previous file" (dropzone_controller.js): once the *)
(* file that replaced another is stored, the form can be sent, unless it   *)
(* is being sent.                                                          *)
(***************************************************************************)
ReplacementCanBeSent ==
  /\ single /\ files # {} /\ files = inputs /\ Running = {}
  /\ "click" \notin {underWay, stopped}
  => ~disabled
=============================================================================
