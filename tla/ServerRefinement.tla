--------------------------- MODULE ServerRefinement ---------------------------
(***************************************************************************)
(* The threads, mutex and clock of the action server implement the promise  *)
(* of SingleGoalAction to their clients and of CommandSource to the backend. *)
(***************************************************************************)
EXTENDS JointPositionControllerServer

Abstract == INSTANCE SingleGoalAction WITH
  Limits     <- lower_limit..upper_limit,
  Tolerance  <- position_tolerance,
  None       <- NaN,
  slot       <- {g \in Goals : Owns(g)},
  verdict    <- result,
  command    <- pos_cmd

\* Every step of the server is a step of the promised behaviour or invisible in it: the
\* slot, the holding command and the verdict change in one step, whatever callbacks and
\* threads of other goals do meanwhile; the terminal call only reports what was decided.
ImplementsSingleGoalAction == Abstract!Spec

ActiveTarget ==
  IF \E g \in Goals : Owns(g) THEN target[CHOOSE g \in Goals : Owns(g)] ELSE NaN

Source == INSTANCE CommandSource WITH
  Limits     <- lower_limit..upper_limit,
  Tolerance  <- position_tolerance,
  None       <- NaN,
  goal       <- ActiveTarget,
  command    <- pos_cmd

\* For the backend the server is one target at a time and a hold in between: a goal whose
\* thread still runs after its end never shows in the command again, and the next target
\* comes after the hold.
ImplementsCommandSource == Source!Spec
==============================================================================
