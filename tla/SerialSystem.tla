----------------------------- MODULE SerialSystem -----------------------------
(***************************************************************************)
(* The serial driver with the firmware it talks to: a motor that moves the  *)
(* joint, a sensor, and the serial line in both directions.  The firmware   *)
(* is modelled in two ways: taking bytes, moving and sending frames in any  *)
(* order (Spec), or in cycles of its own loop that take the bytes first and *)
(* report afterwards (CycleSpec).                                           *)
(***************************************************************************)
EXTENDS SerialDriver

CONSTANTS
  Targets,      \* positions on the command topic
  SensorValues, \* where the joint may be, as the sensor sees it
  MaxFrames     \* frames on the line before the driver reads them

ASSUME SystemAssumption ==
  /\ Targets \subseteq Int \cup {NaN}
  /\ SensorValues \subseteq Int
  /\ MaxFrames \in Nat \ {0}

VARIABLES
  motor, ir,    \* the firmware's motor and sensor
  requested     \* last valid position on the command topic

firmwareVars == <<motor, ir>>
vars == <<driverVars, incoming, outgoing, firmwareVars, requested>>

Init ==
  /\ DriverInit
  /\ motor = "0" /\ ir \in SensorValues
  /\ requested = None

-----------------------------------------------------------------------------
\* Float64 on the command topic.
TargetRequested(p) ==
  /\ port_open
  /\ requested' = IF InLimits(p) THEN p ELSE requested
  /\ IF InLimits(p) /\ IsNewTarget(p)
     THEN TargetPosCallback(p)
     ELSE UNCHANGED <<driverVars, incoming, outgoing>>
  /\ UNCHANGED firmwareVars

Driver == (Update \/ DestroyNode) /\ UNCHANGED <<firmwareVars, requested>>

Towards(state) ==
  LET up == IF slope > 0 THEN 1 ELSE -1
  IN  CASE state = "1" -> ir + up [] state = "2" -> ir - up [] OTHER -> ir

Frame == [status |-> motor, ir |-> ir]

TakeByte ==
  /\ outgoing # <<>>
  /\ motor' = Head(outgoing) /\ outgoing' = Tail(outgoing)
  /\ UNCHANGED <<driverVars, incoming, ir, requested>>

Move ==
  /\ motor # "0" /\ Towards(motor) \in SensorValues
  /\ ir' = Towards(motor)
  /\ UNCHANGED <<driverVars, incoming, outgoing, motor, requested>>

SendFrame ==
  /\ port_open /\ Len(incoming) < MaxFrames
  /\ \E line \in {Frame, Garbage} : incoming' = Append(incoming, line)
  /\ UNCHANGED <<driverVars, outgoing, firmwareVars, requested>>

\* One turn of a firmware that takes every byte, moves, then reports.
Cycle(line) ==
  /\ incoming = <<>>
  /\ motor' = IF outgoing = <<>> THEN motor ELSE outgoing[Len(outgoing)]
  /\ outgoing' = <<>>
  /\ ir' = IF Towards(motor') \in SensorValues THEN Towards(motor') ELSE ir
  /\ incoming' = IF line = "frame" THEN <<[status |-> motor', ir |-> ir']>> ELSE <<Garbage>>
  /\ UNCHANGED <<driverVars, requested>>

Next == (\E p \in Targets : TargetRequested(p)) \/ Driver \/ TakeByte \/ Move \/ SendFrame

CycleNext ==
  \/ \E p \in Targets : TargetRequested(p)
  \/ Driver
  \/ \E line \in {"frame", "garbage"} : Cycle(line)

Spec == Init /\ [][Next]_vars
CycleSpec == Init /\ [][CycleNext]_vars

\* The executor keeps calling the timer, and the firmware keeps cycling.
Fairness ==
  /\ WF_vars(\E line \in {"frame", "garbage"} : Cycle(line))
  /\ WF_vars(Update /\ UNCHANGED <<firmwareVars, requested>>)

FairCycleSpec == CycleSpec /\ Fairness

-----------------------------------------------------------------------------
\* Every variable has its type.
TypeOK ==
  /\ target_position \in Int \cup {None} /\ target_position_reached \in BOOLEAN
  /\ filtered_current_pos \in Int \cup {None} /\ joint_state \in Int \cup {None}
  /\ port_open \in BOOLEAN
  /\ outgoing \in Seq(MotorStates) /\ Len(outgoing) <= MaxBytes
  /\ Len(incoming) <= MaxFrames
  /\ motor \in MotorStates /\ ir \in SensorValues
  /\ requested \in Int \cup {None}

\* The check of the stored target in _update() (354-365), which "protects against
\* internal state corruption", never fails: only targets inside the limits are stored.
TargetWithinLimits == target_position # None => target_position \in lower_limit..upper_limit

\* What the server is told lies within the joint limits, whatever the sensor saw, for a
\* rising and for a falling calibration and for every filter.
PublishedWithinLimits == joint_state # None => joint_state \in lower_limit..upper_limit

\* The driver's target stays within the threshold of the last valid request: requests
\* that differ too little to be taken do not add up.
SmallStepsDoNotAddUp ==
  requested # None =>
    target_position # None /\ Distance(requested, target_position) <= convergence_threshold

\* What the motor will do once it has taken the bytes on the line.
Commanded == IF outgoing = <<>> THEN motor ELSE outgoing[Len(outgoing)]

\* "Mark the target as reached only after the stop command was accepted by the serial
\* port" (prismatic_joint_position_serial_driver.py:411): a reached target means that the
\* motor is stopped or will be.
ReachedMeansStopping == target_position_reached => Commanded = "0"

\* A joint that has reached its target rests within the threshold of it.
RestsAtTarget ==
  target_position_reached => Distance(CurrentPos(ir), target_position) <= convergence_threshold

\* A step without a garbled line or a failed write.
LineWorks ==
  /\ incoming' # <<Garbage>>
  /\ UpdateMeasured /\ Pursuing /\ MotorCommand(filtered_current_pos') # Latest.status
       => outgoing' # outgoing

CalmStep == target_position' = target_position /\ LineWorks

\* Once the targets stop changing and the line works, the driver reaches its target and
\* stays there, whatever lines and writes were lost before (_update() retries them).
TargetIsReached ==
  <>[][CalmStep]_vars => <>[](target_position = None \/ target_position_reached \/ ~port_open)
==============================================================================
