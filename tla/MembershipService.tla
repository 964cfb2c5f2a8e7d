-------------------------- MODULE MembershipService --------------------------
(***************************************************************************)
(* What the membership protocol promises: there is one membership, which   *)
(* all correct members see.  It changes by one node at a time, the same    *)
(* one for everybody, and loses nobody but nodes that have failed or been  *)
(* started anew.                                                           *)
(***************************************************************************)
CONSTANT Node

VARIABLES
  views, \* the memberships the correct members see: one, or none
  gone   \* nodes that have failed or whose process is a new one

Init == views = {} /\ gone \in SUBSET Node

Establish(n) == views = {} /\ views' = {{n}}

Admit(n) == \E group \in views : views' = {group \cup {n}}

Remove(n) == n \in gone' /\ \E group \in views : views' = {group \ {n}}

\* The last correct member is gone.
Dissolve == (\A group \in views : group \subseteq gone') /\ views' = {}

Next ==
  /\ gone' \in SUBSET Node
  /\ \/ UNCHANGED views
     \/ \E n \in Node : Establish(n) \/ Admit(n) \/ Remove(n)
     \/ Dissolve

vars == <<views, gone>>

Spec == Init /\ [][Next]_vars
=============================================================================
