------------------------------- MODULE Belief -------------------------------
(***************************************************************************)
(* What the signals table promises its readers, without the history: for   *)
(* each fact the values believed now.  A fact that can have one value      *)
(* holds the last one observed; a fact that can have several holds every   *)
(* value ever observed.                                                    *)
(***************************************************************************)
CONSTANTS
  Facts,      (* what can be observed, by whom, about which business *)
  Multi,      (* the facts that hold several values at once          *)
  Values

VARIABLE belief (* fact -> the values believed now *)

Init == belief = [f \in Facts |-> {}]

Observe(f, v) ==
  belief' = [belief EXCEPT ![f] = IF f \in Multi THEN @ \cup {v} ELSE {v}]

Next == \E f \in Facts, v \in Values : Observe(f, v)

Spec == Init /\ [][Next]_belief
=============================================================================
