----------------------------- MODULE OnceProofs -----------------------------
(***************************************************************************)
(* What the promise of Once amounts to, for any set of items.  Codes,      *)
(* backup codes, SAML requests and invitations keep the promise whichever  *)
(* requests overlap or die (SingleUseProofs!EachOnceTheorem).              *)
(***************************************************************************)
EXTENDS Once, TLAPS

(***************************************************************************)
(* An item that can be used has not ended and was never used; one that was *)
(* used was used once, and has ended.                                      *)
(***************************************************************************)
UsedOnce ==
  /\ live \cap spent = {}
  /\ uses \in [Items -> {0, 1}]
  /\ \A i \in Items : uses[i] = 1 => i \in spent

LEMMA ChangeKeepsUsedOnce ==
  ASSUME UsedOnce, NEW end \in SUBSET Items, NEW new \in SUBSET Items, Change(end, new)
  PROVE  UsedOnce'
<1> USE DEF UsedOnce, Change
<1>1. live' \cap spent' = {}
  OBVIOUS
<1>2. CASE uses' = uses
  BY <1>1, <1>2
<1>3. ASSUME NEW i \in end, uses' = [uses EXCEPT ![i] = @ + 1]
      PROVE  UsedOnce'
  <2>1. uses[i] = 0 /\ i \in spent' /\ spent \subseteq spent'
    <3>1. uses[i] \in {0, 1} /\ uses[i] # 1
      OBVIOUS
    <3> QED
      BY <3>1
  <2>2. \A j \in Items : uses'[j] = IF j = i THEN 1 ELSE uses[j]
    BY <1>3, <2>1
  <2>3. uses' \in [Items -> {0, 1}]
    BY <1>3, <2>1
  <2> QED
    BY <1>1, <2>1, <2>2, <2>3
<1> QED
  BY <1>2, <1>3

(* No item is used twice, and none that has ended can be used.             *)
THEOREM AlwaysUsedOnce == Spec => []UsedOnce
<1>1. Init => UsedOnce
  BY DEF Init, UsedOnce
<1>2. UsedOnce /\ [Next]_vars => UsedOnce'
  <2> SUFFICES ASSUME UsedOnce, [Next]_vars PROVE UsedOnce'
    OBVIOUS
  <2>1. CASE Next
    BY <2>1, ChangeKeepsUsedOnce DEF Next
  <2>2. CASE UNCHANGED vars
    BY <2>2 DEF vars, UsedOnce
  <2> QED
    BY <2>1, <2>2
<1> QED
  BY <1>1, <1>2, PTL DEF Spec

(***************************************************************************)
(* What has ended stays so: it is never issued again and never used again. *)
(***************************************************************************)
EndedForGood ==
  [][\A i \in Items : i \in spent =>
       i \in spent' /\ i \notin live' /\ uses'[i] = uses[i]]_vars

THEOREM NeverComesBack == Spec => EndedForGood
<1>1. ASSUME UsedOnce, NEW i \in Items, i \in spent, Next
      PROVE  i \in spent' /\ i \notin live' /\ uses'[i] = uses[i]
  <2>1. PICK end \in SUBSET Items, new \in SUBSET Items : Change(end, new)
    BY <1>1 DEF Next
  <2>2. i \in spent' /\ i \notin live' /\ i \notin end
    BY <1>1, <2>1 DEF Change, UsedOnce
  <2>3. uses'[i] = uses[i]
    BY <1>1, <2>1, <2>2 DEF Change, UsedOnce
  <2> QED
    BY <2>2, <2>3
<1>2. UsedOnce /\ [Next]_vars =>
        [\A i \in Items : i \in spent =>
           i \in spent' /\ i \notin live' /\ uses'[i] = uses[i]]_vars
  BY <1>1
<1> QED
  BY <1>2, AlwaysUsedOnce, PTL DEF EndedForGood, Spec
=============================================================================
