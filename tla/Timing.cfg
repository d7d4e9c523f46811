\* How long a goal lasts, and that it ends: one goal.
SPECIFICATION TimedFairSpec
CONSTANTS
  Goals = {g1}
  GoalPositions <- MCGoalPositions
  JointStateMsgs <- MCJointStateMsgs
  JointNames <- MCJointNames
  NaN = NaN
  joint_name = "fork"
  lower_limit = 0
  upper_limit = 4
  position_tolerance = 1
  goal_timeout = 2
  joint_state_timeout = 1
  feedback_period = 1
  InitialTime = 1
  MaxTime = 7
  MaxLag = 1
  RequestHorizon = 2
PROPERTIES GoalTerminates CancelWins HoldIsPublished
INVARIANTS GoalDeadline BlindTime FeedbackBound
