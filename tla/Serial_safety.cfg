\* The driver with a falling calibration and a firmware that runs at its own pace.
\* Nothing moves once the port is closed.
SPECIFICATION Spec
CONSTANTS
  None = None
  NaN = NaN
  Garbage = Garbage
  Targets <- MCTargets
  convergence_threshold = 1
  lower_limit = 0
  upper_limit = 4
  lower_ir_value = 6
  upper_ir_value = 2
  slope <- MCFallingSlope
  SensorValues <- MCBeyond
  low_pass_filter_coeff = "partial"
  MaxBytes = 2
  MaxFrames = 2
INVARIANTS TypeOK  PublishedWithinLimits SmallStepsDoNotAddUp
CHECK_DEADLOCK FALSE
