\* Safety of the server and its promise: every interleaving with the threads of two goals.
SPECIFICATION Spec
CONSTANTS
  Goals = {g1, g2}
  GoalPositions <- MCGoalPositions
  JointStateMsgs <- MCJointStateMsgs
  JointNames <- MCJointNames
  NaN = NaN
  joint_name = "fork"
  lower_limit = 0
  upper_limit = 4
  position_tolerance = 1
  goal_timeout = 1
  joint_state_timeout = 1
  feedback_period = 1
  InitialTime = 1
  MaxTime = 3
SYMMETRY GoalSymmetry
INVARIANTS TypeOK SlotHasOneOwner CommandProvenance LegalTerminalTransition ResultSound HandleFollowsThread 
PROPERTIES ImplementsSingleGoalAction ImplementsCommandSource
