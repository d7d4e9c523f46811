------------------- MODULE MCJointPositionControllerServer -------------------
(***************************************************************************)
(* Small instances of the server for TLC: limits 0..4, the target 3 and the *)
(* rejected 9, measurements on and off the target, past the upper limit, and *)
(* the malformed messages joint_state_cb() handles.                         *)
(***************************************************************************)
EXTENDS ServerInvariant, ServerRefinement, ServerClaims, TLC

MCGoalPositions == {3, 9}

Msg(names, positions) == [name |-> names, position |-> positions]

MCJointStateMsgs ==
  { Msg(<<"fork">>, <<2>>),                 \* within tolerance of the target 3
    Msg(<<"mast", "fork">>, <<3, 0>>),      \* second entry, far from the target
    Msg(<<"mast", "fork">>, <<3>>) }        \* no position entry for the joint

\* The messages above and the other cases joint_state_cb() tells apart.
MCAllJointStateMsgs ==
  MCJointStateMsgs \cup
  { Msg(<<"fork">>, <<5>>),                 \* past the upper limit
    Msg(<<"fork">>, <<NaN>>),               \* non-finite
    Msg(<<"mast">>, <<3>>),                 \* another joint: ignored
    Msg(<<"fork", "fork">>, <<0, 2>>) }     \* the first entry counts

MCJointNames == {"fork", "mast"}

GoalSymmetry == Permutations(Goals)
==============================================================================
