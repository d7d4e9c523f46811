\* Both clients at one server, at the level of its promise: safety and completion.
SPECIFICATION FairSpec
CONSTANTS
  NoGoal = NoGoal
  None = None
  Limits <- MCLimits
  Measurable <- MCMeasurable
  Tolerance = 0
  first_position = 1
  second_position = 2
  only_position = 0
INVARIANTS TypeOK RequestFindsFreeSlot OneLiveGoal NothingLeftRunning ExitCodeSound
PROPERTY ClientsExit
