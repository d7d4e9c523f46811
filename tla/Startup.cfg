\* Every program from its parameters to its exit.
SPECIFICATION Spec
CONSTANTS
  NaN = NaN
  Infinity = Infinity
  ServerParameters <- MCServerParameters
  DriverParameters <- MCDriverParameters
  SingleParameters <- MCSingleParameters
  SequentialParameters <- MCSequentialParameters
INVARIANTS RunningMeansSound PortNeedsValidParameters
 
