\* A status frame older than the last command byte.
\* Nothing moves once the port is closed.
SPECIFICATION Spec
CONSTANTS
  None = None
  NaN = NaN
  Garbage = Garbage
  Targets <- MCTargets
  convergence_threshold = 1
  lower_limit = 0
  upper_limit = 5
  lower_ir_value = 2
  upper_ir_value = 7
  slope = 1
  SensorValues <- MCInRange
  low_pass_filter_coeff = "one"
  MaxBytes = 2
  MaxFrames = 2
INVARIANT ReachedMeansStopping
CHECK_DEADLOCK FALSE
