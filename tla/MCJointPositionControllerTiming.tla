------------------ MODULE MCJointPositionControllerTiming ------------------
(***************************************************************************)
(* Small instance of the timed server for TLC.                              *)
(***************************************************************************)
EXTENDS JointPositionControllerTiming

MCGoalPositions == {3}

MCJointStateMsgs ==
  { [name |-> <<"fork">>, position |-> <<2>>],   \* within tolerance of the target 3
    [name |-> <<"fork">>, position |-> <<0>>],   \* far from it
    [name |-> <<"fork">>, position |-> <<>>],    \* no position entry
    [name |-> <<"fork">>, position |-> <<NaN>>], \* non-finite
    [name |-> <<"mast">>, position |-> <<3>>] }  \* another joint

MCJointNames == {"fork", "mast"}

==============================================================================
