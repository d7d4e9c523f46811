\* A measurement past the limit becomes the holding command.
SPECIFICATION Spec
CONSTANTS
  Goals = {g1}
  GoalPositions <- MCGoalPositions
  JointStateMsgs <- MCAllJointStateMsgs
  JointNames <- MCJointNames
  NaN = NaN
  joint_name = "fork"
  lower_limit = 0
  upper_limit = 4
  position_tolerance = 1
  goal_timeout = 1
  joint_state_timeout = 1
  feedback_period = 1
  InitialTime = 1
  MaxTime = 3
INVARIANT CommandWithinBoundary
