--------------------------- MODULE UnsavedChanges ---------------------------
(***************************************************************************)
(* The unsaved-changes controller on a form, listening to the submissions. *)
(***************************************************************************)
EXTENDS Submission

VARIABLES
  dirty,        \* dirtyValue
  submitting,   \* is a submission under way, for the controller?
  unsaved       \* history: the kinds of edits the server does not have

unsavedVars == <<dirty, submitting, unsaved>>

(***************************************************************************)
(* "typed" edits were made in a quiet form, "late" ones while it was sent  *)
(* or its answer still to be shown, and "refused" ones came back with the  *)
(* errors of the form.                                                     *)
(***************************************************************************)
UnsavedTypeOK ==
  /\ dirty \in BOOLEAN
  /\ submitting \in BOOLEAN
  /\ unsaved \subseteq {"typed", "late", "refused"}

CleanForm == dirty = FALSE /\ submitting = FALSE /\ unsaved = {}

(* A new form has a new controller.                                        *)
NewController(edits) == dirty' = FALSE /\ submitting' = FALSE /\ unsaved' = edits

IsDirty == ~submitting /\ dirty

-----------------------------------------------------------------------------
(* input and change events.                                                *)
MarkDirty ==
  /\ dirty' = TRUE
  /\ unsaved' = unsaved \cup {IF underWay # "no" \/ reply # "none" THEN "late" ELSE "typed"}
  /\ UNCHANGED submitting

SubmitStart ==
  /\ submitting' = TRUE
  /\ UNCHANGED <<dirty, unsaved>>

(* turbo:submit-end of a submission that was stopped.                      *)
StoppedEnd ==
  /\ submitting' = FALSE
  /\ UNCHANGED <<dirty, unsaved>>

(* Mutant: a form that could not be sent is taken for a saved one.         *)
SubmitEndAlways(outcome) ==
  /\ submitting' = FALSE
  /\ dirty' = FALSE
  /\ unsaved' = unsaved \ (IF outcome = "saved" THEN {"typed", "refused"} ELSE {})

SubmitEnd(outcome) ==
  /\ submitting' = FALSE
  /\ dirty' = (dirty /\ outcome # "saved")
  /\ unsaved' = unsaved \ (IF outcome = "saved" THEN {"typed", "refused"} ELSE {})
=============================================================================
