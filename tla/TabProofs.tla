----------------------------- MODULE TabProofs -----------------------------
(***************************************************************************)
(* Proofs about Tab, for any finite set of files.                          *)
(*                                                                         *)
(* The form with its upload field and the guard of the project form have   *)
(* an invariant each, and the steps of the others leave their variables    *)
(* alone; a visit starts them all over.                                    *)
(***************************************************************************)
EXTENDS Tab, FiniteSetTheorems, TLAPS

FormInv ==
  SubmissionTypeOK /\ UploadTypeOK /\ ButtonFollowsUploads /\ FormSendsWhatIsShown

(* The guard forgets an edit only with its form, or when it was stored.    *)
GuardInv ==
  /\ UnsavedTypeOK
  /\ "typed" \in unsaved => dirty
  /\ submitting => page = "project" /\ (underWay # "no" \/ stopped # "no")

TabInv == ConfirmTypeOK /\ page \in Pages

IInv == FormInv /\ GuardInv /\ TabInv

-----------------------------------------------------------------------------
(* The form and its upload field.                                          *)

(* The files that the counter counts.                                      *)
Busy == {f \in Files : phase[f] \in {"creating", "storing", "aborted"}}

LEMMA BusyCount ==
  /\ IsFiniteSet(Busy) /\ Cardinality(Busy) \in Nat
  /\ Busy = Running \cup Aborted
  /\ Cardinality(Busy) = Cardinality(Running) + Cardinality(Aborted)
<1>1. Busy = Running \cup Aborted /\ Running \cap Aborted = {}
  BY DEF Busy, Running, Aborted
<1>2. Running \subseteq Files /\ Aborted \subseteq Files /\ Busy \subseteq Files
  BY DEF Busy, Running, Aborted
<1>3. IsFiniteSet(Running) /\ IsFiniteSet(Aborted) /\ IsFiniteSet(Busy)
  BY <1>2, FS_Subset, DropzoneAssumption
<1>4. /\ Cardinality(Busy) \in Nat
      /\ Cardinality(Running) \in Nat /\ Cardinality(Aborted) \in Nat
  BY <1>3, FS_CardinalityType
<1>5. Cardinality(Running \cap Aborted) = 0
  BY <1>1, FS_EmptySet
<1>6. Cardinality(Running \cup Aborted) =
        Cardinality(Running) + Cardinality(Aborted) - Cardinality(Running \cap Aborted)
  BY <1>3, FS_Union
<1> QED
  BY <1>1, <1>3, <1>4, <1>5, <1>6

(* The same after a step.                                                  *)
LEMMA BusyCountAfter ==
  /\ IsFiniteSet(Busy') /\ Cardinality(Busy') \in Nat
  /\ Busy' = (Running \cup Aborted)'
  /\ Cardinality(Busy') = (Cardinality(Running) + Cardinality(Aborted))'
<1>1. Busy' = Running' \cup Aborted' /\ Running' \cap Aborted' = {}
  BY DEF Busy, Running, Aborted
<1>2. Running' \subseteq Files /\ Aborted' \subseteq Files /\ Busy' \subseteq Files
  BY DEF Busy, Running, Aborted
<1>3. IsFiniteSet(Running') /\ IsFiniteSet(Aborted') /\ IsFiniteSet(Busy')
  BY <1>2, FS_Subset, DropzoneAssumption
<1>4. /\ Cardinality(Busy') \in Nat
      /\ Cardinality(Running') \in Nat /\ Cardinality(Aborted') \in Nat
  BY <1>3, FS_CardinalityType
<1>5. Cardinality(Running' \cap Aborted') = 0
  BY <1>1, FS_EmptySet
<1>6. Cardinality(Running' \cup Aborted') =
        Cardinality(Running') + Cardinality(Aborted') - Cardinality(Running' \cap Aborted')
  BY <1>3, FS_Union
<1> QED
  BY <1>1, <1>3, <1>4, <1>5, <1>6

LEMMA ConnectKeeps ==
  ASSUME NEW isSingle \in BOOLEAN, NEW existing \in Existing(isSingle),
         Reconnect(isSingle, existing), RenewForm
  PROVE  FormInv'
<1>1. /\ single' = isSingle /\ files' = existing /\ inputs' = existing
      /\ activeUploads' = 0 /\ disabled' = FALSE /\ handedBack' = {}
      /\ phase' = [f \in Files |-> IF f \in existing THEN "done" ELSE "none"]
      /\ existing \subseteq Files /\ (isSingle => Cardinality(existing) <= 1)
  BY DEF Reconnect, RenewForm, Existing
<1>2. UploadTypeOK' /\ SubmissionTypeOK'
  BY <1>1 DEF UploadTypeOK, Phases, RenewForm, SubmissionTypeOK
<1>3. Running' = {} /\ Aborted' = {} /\ inputs' = {f \in files' : phase'[f] = "done"}
  BY <1>1 DEF Running, Aborted
<1>4. Cardinality(Running') = 0 /\ Cardinality(Aborted') = 0
  BY <1>3, FS_EmptySet
<1>5. ButtonFollowsUploads'
  BY <1>1, <1>3, <1>4 DEF ButtonFollowsUploads
<1>6. FormSendsWhatIsShown'
  BY <1>1, <1>3 DEF FormSendsWhatIsShown
<1> QED
  BY <1>2, <1>5, <1>6 DEF FormInv

(* The counter moves with the files it counts.                             *)
LEMMA CountKeeps ==
  ASSUME FormInv, NEW f \in Files, UNCHANGED <<underWay, stopped, handedBack>>,
         \/ f \notin Busy /\ Busy' = Busy \cup {f} /\ Count(activeUploads + 1)
         \/ f \in Busy /\ Busy' = Busy \ {f} /\ Count(activeUploads - 1)
         \/ Busy' = Busy /\ UNCHANGED <<activeUploads, disabled>>
  PROVE  ButtonFollowsUploads' /\ activeUploads' \in Nat /\ disabled' \in BOOLEAN
<1>1. /\ activeUploads = Cardinality(Busy) /\ activeUploads \in Nat
      /\ disabled \in BOOLEAN
      /\ disabled => Busy # {} \/ "click" \in {underWay, stopped}
      /\ ~disabled => Busy \subseteq handedBack
  BY BusyCount DEF FormInv, ButtonFollowsUploads, UploadTypeOK, SubmissionTypeOK
<1>2. activeUploads' = Cardinality(Busy')
  <2>1. CASE f \notin Busy /\ Busy' = Busy \cup {f} /\ Count(activeUploads + 1)
    BY <1>1, <2>1, BusyCount, FS_AddElement DEF Count
  <2>2. CASE f \in Busy /\ Busy' = Busy \ {f} /\ Count(activeUploads - 1)
    BY <1>1, <2>2, BusyCount, FS_RemoveElement DEF Count
  <2>3. CASE Busy' = Busy /\ UNCHANGED <<activeUploads, disabled>>
    BY <1>1, <2>3
  <2> QED
    BY <2>1, <2>2, <2>3
<1>3. Cardinality(Busy') = 0 <=> Busy' = {}
  BY BusyCountAfter, FS_EmptySet
<1>4. /\ disabled' \in BOOLEAN
      /\ disabled' => Busy' # {} \/ "click" \in {underWay', stopped'}
      /\ ~disabled' => Busy' \subseteq handedBack'
  <2>1. CASE UNCHANGED <<activeUploads, disabled>> /\ Busy' = Busy
    BY <1>1, <2>1
  <2>2. CASE disabled' = (activeUploads' > 0)
    <3>1. (activeUploads' > 0) <=> Busy' # {}
      BY <1>2, <1>3, BusyCountAfter
    <3>2. disabled' \in BOOLEAN
      BY <2>2
    <3>3. disabled' <=> Busy' # {}
      BY <2>2, <3>1
    <3> QED
      BY <3>2, <3>3
  <2>3. CASE \E n \in {activeUploads + 1, activeUploads - 1} : Count(n)
    BY <2>2, <2>3 DEF Count
  <2> QED
    BY <2>1, <2>3
<1> QED
  BY <1>2, <1>4, BusyCountAfter DEF ButtonFollowsUploads

LEMMA DropKeeps ==
  ASSUME FormInv, NEW f \in Files, NEW duplicate \in BOOLEAN, NEW refused \in BOOLEAN,
         Drop(f, duplicate, refused),
         UNCHANGED <<underWay, stopped, reply>>
  PROVE  FormInv'
<1> DEFINE gone == IF single THEN files ELSE {}
<1> USE DEF FormInv, SubmissionTypeOK, UploadTypeOK
<1>1. /\ phase[f] = "none"
      /\ files' = IF duplicate THEN files ELSE (files \ gone) \cup {f}
      /\ inputs' = inputs \ gone /\ UNCHANGED <<single, handedBack>>
      /\ phase' = [AfterRemoval(gone) EXCEPT ![f] =
                     IF refused THEN "refused" ELSE "creating"]
      /\ duplicate => ~single
  BY DEF Drop
<1>2. /\ phase' \in [Files -> Phases]
      /\ phase'[f] = IF refused THEN "refused" ELSE "creating"
      /\ \A g \in Files \ {f} :
           phase'[g] = IF g \in gone /\ phase[g] = "storing" THEN "aborted" ELSE phase[g]
  BY <1>1 DEF AfterRemoval, Phases
<1>3. f \notin Busy /\ Busy' = IF refused THEN Busy ELSE Busy \cup {f}
  BY <1>1, <1>2 DEF Busy
<1>4. ButtonFollowsUploads' /\ activeUploads' \in Nat /\ disabled' \in BOOLEAN
  BY <1>1, <1>3, CountKeeps DEF Drop
<1>5. inputs' = {g \in files' : phase'[g] = "done"}
  BY <1>1, <1>2 DEF FormSendsWhatIsShown
<1>6. single' => Cardinality(files') <= 1
  <2>1. CASE ~single
    BY <1>1, <2>1
  <2>2. CASE single
    <3>1. files' = {f}
      BY <1>1, <2>2
    <3>2. Cardinality(files') = 1
      BY <3>1, FS_Singleton
    <3> QED
      BY <3>2
  <2> QED
    BY <2>1, <2>2
<1> QED
  BY <1>1, <1>2, <1>4, <1>5, <1>6 DEF FormSendsWhatIsShown

LEMMA RemoveKeeps ==
  ASSUME FormInv, NEW f \in Files, Remove(f),
         UNCHANGED <<underWay, stopped, reply>>
  PROVE  FormInv'
<1> USE DEF FormInv, SubmissionTypeOK, UploadTypeOK
<1>1. /\ files' = files \ {f} /\ inputs' = inputs \ {f}
      /\ phase' = AfterRemoval({f})
      /\ UNCHANGED <<single, activeUploads, handedBack, disabled>>
  BY DEF Remove
<1>2. /\ phase' \in [Files -> Phases]
      /\ \A g \in Files :
           phase'[g] = IF g = f /\ phase[g] = "storing" THEN "aborted" ELSE phase[g]
  BY <1>1 DEF AfterRemoval, Phases
<1>3. Busy' = Busy
  BY <1>2 DEF Busy
<1>4. ButtonFollowsUploads' /\ activeUploads' \in Nat /\ disabled' \in BOOLEAN
  BY <1>1, <1>3, CountKeeps
<1>5. inputs' = {g \in files' : phase'[g] = "done"}
  BY <1>1, <1>2 DEF FormSendsWhatIsShown
<1>6. single' => Cardinality(files') <= 1
  <2>1. IsFiniteSet(files)
    BY FS_Subset, DropzoneAssumption
  <2>2. /\ Cardinality(files') <= Cardinality(files)
        /\ Cardinality(files') \in Nat /\ Cardinality(files) \in Nat
    BY <1>1, <2>1, FS_Subset, FS_CardinalityType
  <2> QED
    BY <1>1, <2>2 DEF FormSendsWhatIsShown
<1> QED
  BY <1>1, <1>2, <1>4, <1>5, <1>6 DEF FormSendsWhatIsShown

LEMMA UploadKeeps ==
  ASSUME FormInv, NEW f \in Files, UploadProceeds(f),
         UNCHANGED <<underWay, stopped, reply>>
  PROVE  FormInv'
<1> USE DEF FormInv, SubmissionTypeOK, UploadTypeOK
<1>1. PICK p \in Phases :
        /\ phase' = [phase EXCEPT ![f] = p]
        /\ p = "storing" \/ p = "done" \/ p = "failed"
        /\ p = "storing" => UNCHANGED <<inputs, activeUploads, disabled>>
        /\ p # "storing" => Count(activeUploads - 1)
        /\ inputs' = IF p = "done" THEN inputs \cup ({f} \cap files) ELSE inputs
  BY DEF UploadProceeds, StoreStarts, UploadSucceeds, UploadFails, Phases
<1>2. phase[f] \in {"creating", "storing"} /\ UNCHANGED <<single, files, handedBack>>
  BY DEF UploadProceeds, StoreStarts, UploadSucceeds, UploadFails, Running
<1>3. /\ phase' \in [Files -> Phases] /\ phase'[f] = p
      /\ \A g \in Files \ {f} : phase'[g] = phase[g]
  BY <1>1
<1>4. f \in Busy /\ Busy' = IF p = "storing" THEN Busy ELSE Busy \ {f}
  BY <1>1, <1>2, <1>3 DEF Busy
<1>5. ButtonFollowsUploads' /\ activeUploads' \in Nat /\ disabled' \in BOOLEAN
  BY <1>1, <1>2, <1>4, CountKeeps
<1>6. inputs' = {g \in files' : phase'[g] = "done"}
  BY <1>1, <1>2, <1>3 DEF FormSendsWhatIsShown
<1> QED
  BY <1>2, <1>3, <1>5, <1>6 DEF FormSendsWhatIsShown

(* Submissions move the button, and the history says what they reveal.     *)
LEMMA SubmissionKeeps ==
  ASSUME FormInv, UploadsGoOn,
         \/ \E way \in Ways : Submit(way)
         \/ SubmitElsewhere
         \/ StoppedSubmissionEnds
         \/ \E outcome \in {"saved", "errors", "lost"} : SubmissionEnds(outcome)
  PROVE  FormInv'
<1> USE DEF FormInv, SubmissionTypeOK, UploadTypeOK, Ways
<1>1. /\ handedBack' = IF disabled /\ ~disabled'
                         THEN handedBack \cup Running \cup Aborted ELSE handedBack
      /\ UNCHANGED <<single, files, phase, inputs, activeUploads>>
  BY DEF UploadsGoOn
<1>2. SubmissionTypeOK'
  <2>1. CASE \E outcome \in {"saved", "errors", "lost"} : SubmissionEnds(outcome)
    BY <2>1 DEF SubmissionEnds
  <2>2. CASE \E way \in Ways : Submit(way)
    BY <2>2 DEF Submit
  <2> QED
    BY <2>1, <2>2 DEF SubmitElsewhere, StoppedSubmissionEnds
<1>3. disabled' => disabled \/ "click" \in {underWay', stopped'}
  BY DEF Submit, SubmitElsewhere, StoppedSubmissionEnds, SubmissionEnds
<1>4. disabled' /\ "click" \in {underWay, stopped} => "click" \in {underWay', stopped'}
  BY DEF Submit, SubmitElsewhere, StoppedSubmissionEnds, SubmissionEnds
<1>5. Running' = Running /\ Aborted' = Aborted
  BY <1>1 DEF Running, Aborted
<1>6. UploadTypeOK' /\ FormSendsWhatIsShown'
  BY <1>1 DEF FormSendsWhatIsShown, Running, Aborted
<1>7. ButtonFollowsUploads'
  <2>1. disabled' => Running' \cup Aborted' # {} \/ "click" \in {underWay', stopped'}
    BY <1>3, <1>4, <1>5 DEF ButtonFollowsUploads
  <2>2. ~disabled' => Running' \cup Aborted' \subseteq handedBack'
    BY <1>1, <1>5 DEF ButtonFollowsUploads
  <2> QED
    BY <1>1, <1>5, <2>1, <2>2 DEF ButtonFollowsUploads
<1> QED
  BY <1>2, <1>6, <1>7

LEMMA FormInvStays ==
  ASSUME FormInv, UNCHANGED <<uploadVars, disabled, underWay, stopped>>,
         reply' \in {reply, "none"}
  PROVE  FormInv'
BY DEF FormInv, uploadVars, UploadTypeOK, SubmissionTypeOK, ButtonFollowsUploads,
       FormSendsWhatIsShown, Running, Aborted

-----------------------------------------------------------------------------
(* The guard of the form.                                                  *)

LEMMA NewControllerKeeps ==
  ASSUME NEW edits \in SUBSET {"late", "refused"}, NewController(edits)
  PROVE  GuardInv'
BY DEF NewController, GuardInv, UnsavedTypeOK

LEMMA EditKeeps ==
  ASSUME GuardInv, MarkDirty, UNCHANGED <<page, underWay, stopped>>
  PROVE  GuardInv'
BY DEF MarkDirty, GuardInv, UnsavedTypeOK

LEMMA SendKeeps ==
  ASSUME GuardInv, NEW way \in Ways, Submit(way), Heard(SubmitStart), UNCHANGED page
  PROVE  GuardInv'
BY DEF Submit, Ways, Heard, SubmitStart, unsavedVars, GuardInv, UnsavedTypeOK

LEMMA EndKeeps ==
  ASSUME GuardInv, SubmissionProceeds
  PROVE  GuardInv'
<1>0. UNCHANGED page
  BY DEF SubmissionProceeds
<1>1. CASE StoppedSubmissionEnds /\ Heard(StoppedEnd)
  BY <1>0, <1>1 DEF StoppedSubmissionEnds, Heard, StoppedEnd, unsavedVars, GuardInv,
                    UnsavedTypeOK
<1>2. ASSUME NEW outcome \in {"saved", "errors", "lost"},
             SubmissionEnds(outcome), Heard(SubmitEnd(outcome))
      PROVE  GuardInv'
  <2>1. CASE page = "project"
    <3>1. /\ submitting' = FALSE
          /\ dirty' = (dirty /\ outcome # "saved")
          /\ unsaved' = unsaved \ (IF outcome = "saved" THEN {"typed", "refused"} ELSE {})
      BY <1>2, <2>1 DEF Heard, SubmitEnd
    <3>2. "typed" \in unsaved' => dirty /\ outcome # "saved"
      BY <3>1 DEF GuardInv
    <3>3. UnsavedTypeOK'
      BY <3>1 DEF GuardInv, UnsavedTypeOK
    <3> QED
      BY <3>1, <3>2, <3>3 DEF GuardInv
  <2>2. CASE page # "project"
    BY <1>0, <1>2, <2>2 DEF Heard, unsavedVars, GuardInv, UnsavedTypeOK
  <2> QED
    BY <2>1, <2>2
<1> QED
  BY <1>1, <1>2 DEF SubmissionProceeds

LEMMA GuardInvStays ==
  ASSUME GuardInv, UNCHANGED <<unsavedVars, page>>,
         \/ UNCHANGED <<underWay, stopped>>
         \/ SubmitElsewhere
  PROVE  GuardInv'
BY DEF GuardInv, unsavedVars, UnsavedTypeOK, SubmitElsewhere

-----------------------------------------------------------------------------
(* The dialog.                                                             *)

LEMMA RenewDialogKeeps ==
  ASSUME RenewDialog
  PROVE  ConfirmTypeOK'
BY DEF RenewDialog, NoAnswer, ConfirmTypeOK

LEMMA DialogKeeps ==
  ASSUME ConfirmTypeOK, UseDialog
  PROVE  ConfirmTypeOK'
<1> USE DEF ConfirmTypeOK
<1>1. ASSUME NEW text \in BOOLEAN, Ask(text)
      PROVE  ConfirmTypeOK'
  BY <1>1 DEF Ask, NoAnswer
<1>2. ASSUME NEW right \in BOOLEAN, Type(right)
      PROVE  ConfirmTypeOK'
  BY <1>2 DEF Type
<1>3. CASE UserAnswers
  <2>1. ASSUME NEW did \in {"accept", "reject", "backdrop", "escape"},
               NEW value \in {"", "confirm", "cancel"}, Closed(did, value)
        PROVE  ConfirmTypeOK'
    BY <2>1 DEF Closed
  <2> QED
    BY <1>3, <2>1 DEF UserAnswers, Accept, Reject, Backdrop, Escape
<1> QED
  BY <1>1, <1>2, <1>3 DEF UseDialog

LEMMA TabInvStays ==
  ASSUME TabInv, UNCHANGED <<confirmVars, page>>
  PROVE  TabInv'
BY DEF TabInv, confirmVars, ConfirmTypeOK

-----------------------------------------------------------------------------
(* The steps of the tab.                                                   *)

LEMMA InitGood == Init => IInv
<1> SUFFICES ASSUME Init PROVE IInv
  OBVIOUS
<1>1. /\ single = TRUE /\ files = {} /\ inputs = {} /\ activeUploads = 0
      /\ disabled = FALSE /\ handedBack = {}
      /\ phase = [f \in Files |-> IF f \in {} THEN "done" ELSE "none"]
  BY DEF Init, Connected, FreshForm
<1>2. FormInv
  <2>1. Running = {} /\ Aborted = {} /\ inputs = {f \in files : phase[f] = "done"}
    BY <1>1 DEF Running, Aborted
  <2>2. Cardinality({}) = 0
    BY FS_EmptySet
  <2>3. UploadTypeOK /\ SubmissionTypeOK
    BY <1>1 DEF UploadTypeOK, Phases, Init, FreshForm, SubmissionTypeOK
  <2>4. ButtonFollowsUploads
    BY <1>1, <2>1, <2>2 DEF ButtonFollowsUploads
  <2>5. FormSendsWhatIsShown
    BY <1>1, <2>1, <2>2 DEF FormSendsWhatIsShown
  <2> QED
    BY <2>3, <2>4, <2>5 DEF FormInv
<1>3. GuardInv
  BY DEF Init, CleanForm, GuardInv, UnsavedTypeOK
<1>4. TabInv
  BY DEF Init, FreshDialog, NoAnswer, Pages, TabInv, ConfirmTypeOK
<1> QED
  BY <1>2, <1>3, <1>4 DEF IInv

(* Whatever is rendered is new.                                            *)
LEMMA RenderKeeps ==
  ASSUME NEW p \in Pages, NEW edits \in SUBSET {"late", "refused"},
         Render(p, edits), page' = p
  PROVE  IInv'
<1>1. FormInv'
  <2>1. {} \in Existing(TRUE)
    <3>1. Cardinality({}) = 0
      BY FS_EmptySet
    <3> QED
      BY <3>1 DEF Existing
  <2> QED
    BY <2>1, ConnectKeeps DEF Render
<1>2. GuardInv' /\ ConfirmTypeOK'
  BY NewControllerKeeps, RenewDialogKeeps DEF Render
<1> QED
  BY <1>1, <1>2 DEF IInv, TabInv

LEMMA NextGood ==
  ASSUME IInv, Next
  PROVE  IInv'
<1> USE DEF IInv
<1>1. ASSUME NEW p \in Pages, Visit(p) \/ Redirect(p) \/ Back(p)
      PROVE  IInv'
  <2>1. Show(p)
    BY <1>1 DEF Visit, Redirect, Back
  <2> QED
    BY <2>1, RenderKeeps DEF Show
<1>2. CASE StayAfterAll
  BY <1>2, FormInvStays, GuardInvStays, TabInvStays DEF StayAfterAll
<1>3. CASE ShowErrors
  <2>1. (IF unsaved \ {"late"} = {} THEN {} ELSE {"refused"}) \in SUBSET {"late", "refused"}
    OBVIOUS
  <2>2. page \in Pages /\ page' = page
    BY <1>3 DEF ShowErrors, TabInv
  <2> QED
    BY <1>3, <2>1, <2>2, RenderKeeps DEF ShowErrors
<1>4. CASE UseField
  BY <1>4, RemoveKeeps, DropKeeps, GuardInvStays, TabInvStays DEF UseField, UserUploads
<1>5. ASSUME NEW f \in Files, Upload(f)
      PROVE  IInv'
  BY <1>5, UploadKeeps, GuardInvStays, TabInvStays DEF Upload
<1>6. CASE EditProject
  <2>1. UNCHANGED <<submitVars, uploadVars, confirmVars, page>> /\ MarkDirty
    BY <1>6 DEF EditProject
  <2> QED
    BY <2>1, EditKeeps, FormInvStays, TabInvStays DEF submitVars
<1>7. ASSUME NEW way \in Ways, SendForm(way)
      PROVE  IInv'
  BY <1>7, SubmissionKeeps, SendKeeps, TabInvStays DEF SendForm
<1>8. CASE SendAnotherForm
  BY <1>8, SubmissionKeeps, GuardInvStays, TabInvStays DEF SendAnotherForm
<1>9. CASE SubmissionProceeds
  BY <1>9, SubmissionKeeps, EndKeeps, TabInvStays DEF SubmissionProceeds
<1>10. CASE UseDialog
  <2>1. UNCHANGED <<submitVars, uploadVars, unsavedVars, page>>
    BY <1>10 DEF UseDialog
  <2> QED
    BY <1>10, <2>1, DialogKeeps, FormInvStays, GuardInvStays DEF submitVars, TabInv
<1> QED
  BY <1>1, <1>2, <1>3, <1>4, <1>5, <1>6, <1>7, <1>8, <1>9, <1>10 DEF Next

LEMMA Invariance == Spec => []IInv
<1>1. Init => IInv
  BY InitGood
<1>2. IInv /\ [Next]_vars => IInv'
  <2> SUFFICES ASSUME IInv, [Next]_vars PROVE IInv'
    OBVIOUS
  <2>1. CASE UNCHANGED vars
    BY <2>1, FormInvStays, GuardInvStays, TabInvStays DEF vars, submitVars, IInv
  <2> QED
    BY <2>1, NextGood
<1> QED
  BY <1>1, <1>2, PTL DEF Spec

-----------------------------------------------------------------------------
(* The properties.                                                         *)

(* The state keeps its type; above all, the counter never goes below zero. *)
THEOREM TypeCorrect == Spec => []TypeOK
<1>1. IInv => TypeOK
  BY DEF IInv, FormInv, GuardInv, TabInv, TypeOK
<1> QED
  BY <1>1, Invariance, PTL

(***************************************************************************)
(* The counter is the number of running and aborted uploads; the button is *)
(* off without one only during a submission by a click, and on with one    *)
(* only where the end of such a submission gave it back during the upload. *)
(***************************************************************************)
THEOREM ButtonFollowsUploadsTheorem == Spec => []ButtonFollowsUploads
<1>1. IInv => ButtonFollowsUploads
  BY DEF IInv, FormInv
<1> QED
  BY <1>1, Invariance, PTL

(* The form holds the ids of the stored files it shows, and no other.      *)
THEOREM FormSendsWhatIsShownTheorem == Spec => []FormSendsWhatIsShown
<1>1. IInv => FormSendsWhatIsShown
  BY DEF IInv, FormInv
<1> QED
  BY <1>1, Invariance, PTL

(***************************************************************************)
(* The field that takes one file gives its button back, once the file that *)
(* replaced another is stored, in every case but the known one: an upload  *)
(* was aborted on this page.                                               *)
(***************************************************************************)
THEOREM OnlyAbortsKeepTheButtonOff ==
  Spec => [](Aborted = {} => ReplacementCanBeSent)
<1>1. IInv => (Aborted = {} => ReplacementCanBeSent)
  BY DEF IInv, FormInv, ButtonFollowsUploads, ReplacementCanBeSent
<1> QED
  BY <1>1, Invariance, PTL

(* The guard knows of every edit made in a quiet form that would be lost.  *)
THEOREM NoSilentLossTheorem == Spec => []NoSilentLoss
<1>1. IInv => NoSilentLoss
  BY DEF IInv, GuardInv, NoSilentLoss, IsDirty
<1> QED
  BY <1>1, Invariance, PTL
=============================================================================
