-------------------------------- MODULE Once --------------------------------
(***************************************************************************)
(* What every one-time credential promises: it can be used only while it   *)
(* is live, using it ends it, and what has ended never comes back.         *)
(*                                                                         *)
(* A step may end several items and issue several new ones (new backup     *)
(* codes replace the old list, a new sign-in code the old code), but it    *)
(* uses at most one, and only an item that the same step ends.             *)
(***************************************************************************)
EXTENDS Naturals

CONSTANT Items

VARIABLES
  live,     \* the items that can be used
  spent,    \* the items that were live once
  uses      \* how often each item was used

vars == <<live, spent, uses>>

Init ==
  /\ live = {}
  /\ spent = {}
  /\ uses = [i \in Items |-> 0]

Change(end, new) ==
  /\ end \subseteq live
  /\ new \subseteq Items \ (live \cup spent)
  /\ live' = (live \ end) \cup new
  /\ spent' = spent \cup end
  /\ \/ uses' = uses
     \/ \E i \in end : uses' = [uses EXCEPT ![i] = @ + 1]

Next == \E end, new \in SUBSET Items : Change(end, new)

Spec == Init /\ [][Next]_vars
=============================================================================
