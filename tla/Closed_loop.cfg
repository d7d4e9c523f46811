\* The server and the serial driver around one joint: a tolerance of two thresholds.
SPECIFICATION FairLoopSpec
CONSTANTS
  None = None
  NaN = NaN
  Garbage = Garbage
  Limits <- MCLimits
  Tolerance = 2
  Targets <- MCTargets
  convergence_threshold = 1
  lower_limit = 0
  upper_limit = 3
  lower_ir_value = 2
  upper_ir_value = 5
  slope = 1
  SensorValues <- MCInRange
  low_pass_filter_coeff = "one"
  MaxBytes = 1
  MaxFrames = 1
INVARIANTS NothingRefused 
PROPERTIES  HoldIsReached
