---------------------------- MODULE DoNotContact ----------------------------
(***************************************************************************)
(* What the store promises about exclusion, without saying how: a business *)
(* appears, and from the moment it is excluded no command sees it again.   *)
(* README.md: "Suppression is permanent".                                  *)
(***************************************************************************)
CONSTANT Ids

VARIABLES visible, excluded

vars == <<visible, excluded>>

Init == visible = {} /\ excluded = {}

\* A business nobody has excluded comes into view.
Appear(i) ==
  /\ i \notin visible \cup excluded
  /\ visible' = visible \cup {i}
  /\ UNCHANGED excluded

\* One business, and only that one, leaves the view for good.
Exclude(i) ==
  /\ i \in visible
  /\ visible' = visible \ {i}
  /\ excluded' = excluded \cup {i}

Next == \E i \in Ids : Appear(i) \/ Exclude(i)

Spec == Init /\ [][Next]_vars
=============================================================================
