----------------------------- MODULE CommandSource -----------------------------
(***************************************************************************)
(* What the backend sees of the action server: a command that is the target *)
(* of the one goal that is active, or the position held since the last one. *)
(***************************************************************************)
EXTENDS Integers

CONSTANTS Limits, Measurable, Tolerance, None

VARIABLES
  goal,     \* target of the active goal, None while the slot is free
  command   \* what the timer publishes, None for nothing

Init == goal = None /\ command = None

Accept ==
  /\ goal = None
  /\ goal' \in Limits
  /\ UNCHANGED command

Chase ==
  /\ goal # None
  /\ command' = goal
  /\ UNCHANGED goal

\* The goal succeeds where it is near enough, and may be given up anywhere.
End(success, hold) ==
  /\ goal # None
  /\ success => hold \in Measurable /\ goal - hold \in (-Tolerance)..Tolerance
  /\ goal' = None
  /\ command' = hold

Next == Accept \/ Chase \/ \E success \in BOOLEAN, hold \in Measurable \cup {None} : End(success, hold)

Spec == Init /\ [][Next]_<<goal, command>>
==============================================================================
