----------------------------- MODULE SerialProofs -----------------------------
(***************************************************************************)
(* The limits of the serial driver, proved for every calibration, filter,    *)
(* limits, threshold and firmware.                                          *)
(***************************************************************************)
EXTENDS SerialSystem, TLAPS

JointRange == lower_limit..upper_limit

LEMMA Integers4 ==
  /\ lower_limit \in Int /\ upper_limit \in Int /\ lower_limit < upper_limit
  /\ lower_ir_value \in Int /\ upper_ir_value \in Int /\ slope \in Int
  /\ upper_limit - lower_limit = slope * (upper_ir_value - lower_ir_value)
  /\ convergence_threshold \in Nat
BY DriverParameters

\* A product does not leave the interval of its factor.
LEMMA ProductBetween ==
  ASSUME NEW s \in Int, NEW x \in Int, NEW y \in Int, s * y > 0,
         x \in 0..y \/ x \in y..0
  PROVE  s * x \in 0..(s * y)
<1>1. CASE s > 0
  <2>1. y > 0
    BY <1>1
  <2>2. x \in 0..y
    BY <2>1
  <2>3. s * x >= 0
    BY <1>1, <2>2
  <2>4. s * (y - x) >= 0
    BY <1>1, <2>2
  <2>5. s * (y - x) = s * y - s * x
    OBVIOUS
  <2> QED
    BY <2>3, <2>4, <2>5
<1>2. CASE s < 0
  <2>1. y < 0
    BY <1>2
  <2>2. x \in y..0
    BY <2>1
  <2>3. s * x >= 0
    BY <1>2, <2>2
  <2>4. s * (y - x) >= 0
    BY <1>2, <2>2
  <2>5. s * (y - x) = s * y - s * x
    OBVIOUS
  <2> QED
    BY <2>3, <2>4, <2>5
<1>3. s # 0
  OBVIOUS
<1> QED
  BY <1>1, <1>2, <1>3

\* A sensor value inside its range, rising or falling, is a position inside the limits.
LEMMA CalibrationKeepsLimits ==
  ASSUME NEW x, InSensorRange(x)
  PROVE  CurrentPos(x) \in JointRange
<1> DEFINE d == x - lower_ir_value
           range == upper_ir_value - lower_ir_value
<1>1. x \in Int /\ (d \in 0..range \/ d \in range..0)
  BY Integers4 DEF InSensorRange
<1>2. slope * range > 0 /\ slope * range = upper_limit - lower_limit
  BY Integers4
<1>3. d \in Int /\ range \in Int
  BY <1>1, Integers4
<1>4. slope * d \in 0..(slope * range)
  <2> HIDE DEF d, range
  <2> QED
    BY <1>1, <1>2, <1>3, ProductBetween, Integers4
<1>5. slope * d \in Int /\ slope * d >= 0 /\ slope * d <= upper_limit - lower_limit
  <2> HIDE DEF d, range
  <2> QED
    BY <1>2, <1>3, <1>4, Integers4
<1>6. CurrentPos(x) = slope * d + lower_limit
  BY DEF CurrentPos
<1> HIDE DEF d, range
<1> QED
  BY <1>5, <1>6, Integers4 DEF JointRange

\* Whatever the coefficient, the filter stays between the old value and the new one.
LEMMA FilterKeepsLimits ==
  ASSUME filtered_current_pos \in JointRange \cup {None}, NEW pos \in JointRange
  PROVE  Filtered(pos) \subseteq JointRange
<1>1. CASE filtered_current_pos = None
  BY <1>1 DEF Filtered
<1>2. CASE filtered_current_pos \in JointRange
  <2>1. filtered_current_pos # None
    BY <1>2, ValueAssumption, Integers4 DEF JointRange
  <2>2. CASE low_pass_filter_coeff = "zero"
    BY <1>2, <2>1, <2>2 DEF Filtered
  <2>3. CASE low_pass_filter_coeff = "one"
    BY <2>3 DEF Filtered
  <2>4. CASE low_pass_filter_coeff = "partial"
    <3>1. Filtered(pos) = (filtered_current_pos..pos) \cup (pos..filtered_current_pos)
      BY <2>1, <2>4 DEF Filtered
    <3> QED
      BY <1>2, <3>1, Integers4 DEF JointRange
  <2> QED
    BY <2>2, <2>3, <2>4, DriverParameters
<1> QED
  BY <1>1, <1>2

-----------------------------------------------------------------------------
\* Targets and positions are inside the limits.
LimitsInv ==
  /\ target_position \in JointRange \cup {None}
  /\ filtered_current_pos \in JointRange \cup {None}
  /\ joint_state \in JointRange \cup {None}

\* The driver keeps to the last valid request.
RequestInv ==
  /\ requested \in JointRange \cup {None}
  /\ SmallStepsDoNotAddUp

LEMMA InitialLimits == Init => LimitsInv /\ RequestInv
BY DEF Init, DriverInit, LimitsInv, RequestInv, SmallStepsDoNotAddUp

LEMMA AcceptedInRange ==
  ASSUME NEW p \in Int \cup {NaN}, InLimits(p)
  PROVE  p \in JointRange
BY Integers4 DEF InLimits, JointRange

LEMMA RequestKeepsLimits ==
  ASSUME LimitsInv, RequestInv, NEW p \in Int \cup {NaN}, TargetRequested(p)
  PROVE  LimitsInv' /\ RequestInv'
<1>1. CASE InLimits(p) /\ IsNewTarget(p)
  <2>1. target_position' = p /\ requested' = p
    BY <1>1 DEF TargetRequested, TargetPosCallback
  <2>2. UNCHANGED <<filtered_current_pos, joint_state>>
    BY <1>1 DEF TargetRequested, TargetPosCallback
  <2>3. p \in JointRange
    BY <1>1, AcceptedInRange
  <2>4. p # None /\ Distance(p, p) <= convergence_threshold
    BY <2>3, Integers4, ValueAssumption DEF Distance, JointRange
  <2>5. LimitsInv'
    BY <2>1, <2>2, <2>3 DEF LimitsInv
  <2>6. RequestInv'
    BY <2>1, <2>3, <2>4 DEF RequestInv, SmallStepsDoNotAddUp, Distance
  <2> QED
    BY <2>5, <2>6
<1>2. CASE InLimits(p) /\ ~IsNewTarget(p)
  <2>1. requested' = p /\ UNCHANGED driverVars
    BY <1>2 DEF TargetRequested
  <2>2. p \in JointRange
    BY <1>2, AcceptedInRange
  <2>3. target_position \in JointRange /\ target_position # None
    BY <1>2 DEF IsNewTarget, LimitsInv
  <2>4. Distance(p, target_position) <= convergence_threshold
    <3>1. ~(Distance(p, target_position) > convergence_threshold)
      BY <1>2 DEF IsNewTarget
    <3>2. Distance(p, target_position) \in Int
      BY <2>2, <2>3, Integers4 DEF Distance, JointRange
    <3> QED
      BY <3>1, <3>2, Integers4
  <2>5. target_position' = target_position
    BY <2>1 DEF driverVars
  <2>6. LimitsInv'
    BY <2>1 DEF LimitsInv, driverVars
  <2>7. RequestInv'
    BY <2>1, <2>2, <2>3, <2>4, <2>5 DEF RequestInv, SmallStepsDoNotAddUp, Distance
  <2> QED
    BY <2>6, <2>7
<1>3. CASE ~InLimits(p)
  <2>1. UNCHANGED <<driverVars, requested>>
    BY <1>3 DEF TargetRequested
  <2> QED
    BY <2>1 DEF LimitsInv, RequestInv, SmallStepsDoNotAddUp, Distance, driverVars
<1> QED
  BY <1>1, <1>2, <1>3

LEMMA UpdateKeepsLimits ==
  ASSUME LimitsInv, RequestInv, Update, UNCHANGED requested
  PROVE  LimitsInv' /\ RequestInv'
<1>1. UNCHANGED target_position
  BY DEF Update, UpdateDropped, UpdateMeasured, driverVars
<1>2. RequestInv'
  BY <1>1 DEF RequestInv, SmallStepsDoNotAddUp, Distance
<1>3. CASE UpdateDropped
  BY <1>2, <1>3 DEF UpdateDropped, driverVars, LimitsInv
<1>4. CASE UpdateMeasured
  <2>1. CurrentPos(Latest.ir) \in JointRange
    BY <1>4, CalibrationKeepsLimits DEF UpdateMeasured, IsValid
  <2>2. Filtered(CurrentPos(Latest.ir)) \subseteq JointRange
    BY <2>1, FilterKeepsLimits DEF LimitsInv
  <2>3. PICK pos \in Filtered(CurrentPos(Latest.ir)) :
          filtered_current_pos' = pos /\ joint_state' = pos
    BY <1>4 DEF UpdateMeasured
  <2> QED
    BY <1>1, <1>2, <2>2, <2>3 DEF LimitsInv
<1> QED
  BY <1>3, <1>4 DEF Update

\* Every other step leaves targets and positions alone.
LEMMA RestKeepsLimits ==
  ASSUME LimitsInv, RequestInv,
         UNCHANGED <<target_position, filtered_current_pos, joint_state, requested>>
  PROVE  LimitsInv' /\ RequestInv'
BY DEF LimitsInv, RequestInv, SmallStepsDoNotAddUp, Distance

LEMMA LimitsInductive ==
  ASSUME LimitsInv, RequestInv, [Next \/ CycleNext]_vars
  PROVE  LimitsInv' /\ RequestInv'
<1>1. CASE \E p \in Targets : TargetRequested(p)
  BY <1>1, RequestKeepsLimits, SystemAssumption
<1>2. CASE Driver
  <2>1. CASE Update
    BY <1>2, <2>1, UpdateKeepsLimits DEF Driver
  <2>2. CASE DestroyNode
    BY <1>2, <2>2, RestKeepsLimits DEF Driver, DestroyNode
  <2> QED
    BY <1>2, <2>1, <2>2 DEF Driver
<1>3. CASE TakeByte
  BY <1>3, RestKeepsLimits DEF TakeByte, driverVars
<1>4. CASE Move
  BY <1>4, RestKeepsLimits DEF Move, driverVars
<1>5. CASE SendFrame
  BY <1>5, RestKeepsLimits DEF SendFrame, driverVars
<1>6. CASE \E line \in {"frame", "garbage"} : Cycle(line)
  BY <1>6, RestKeepsLimits DEF Cycle, driverVars
<1>7. CASE UNCHANGED vars
  BY <1>7, RestKeepsLimits DEF vars, driverVars
<1> QED
  BY <1>1, <1>2, <1>3, <1>4, <1>5, <1>6, <1>7 DEF Next, CycleNext

LEMMA LimitsImply ==
  LimitsInv /\ RequestInv => TargetWithinLimits /\ PublishedWithinLimits /\ SmallStepsDoNotAddUp
BY DEF LimitsInv, RequestInv, TargetWithinLimits, PublishedWithinLimits, JointRange

-----------------------------------------------------------------------------
LEMMA LimitsInvariance == Spec \/ CycleSpec => [](LimitsInv /\ RequestInv)
<1>1. LimitsInv /\ RequestInv /\ [Next]_vars => LimitsInv' /\ RequestInv'
  BY LimitsInductive
<1>2. LimitsInv /\ RequestInv /\ [CycleNext]_vars => LimitsInv' /\ RequestInv'
  BY LimitsInductive
<1> QED
  BY <1>1, <1>2, InitialLimits, PTL DEF Spec, CycleSpec

\* Whatever order the firmware works in and whatever lines and writes are lost, the target
\* stored by _target_pos_callback() lies within the joint limits: the check that _update()
\* makes of it never fails.
THEOREM TargetKept == Spec \/ CycleSpec => []TargetWithinLimits
BY LimitsInvariance, LimitsImply, PTL

\* So does every position that _update() publishes.
THEOREM PublishedKept == Spec \/ CycleSpec => []PublishedWithinLimits
BY LimitsInvariance, LimitsImply, PTL

\* Requests too small to be taken do not drift away from the driver's target.
THEOREM RequestsDoNotDrift == Spec \/ CycleSpec => []SmallStepsDoNotAddUp
BY LimitsInvariance, LimitsImply, PTL

-----------------------------------------------------------------------------
(* Types, of the driver and the firmware.                                   *)

Line == [status : MotorStates, ir : SensorValues] \cup {Garbage}

SerialTypes == TypeOK /\ LimitsInv /\ incoming \in Seq(Line)

LEMMA InitialTypes == Init => SerialTypes
<1> SUFFICES ASSUME Init PROVE SerialTypes
  OBVIOUS
<1>1. /\ incoming \in Seq(Line) /\ Len(incoming) <= MaxFrames
      /\ outgoing \in Seq(MotorStates) /\ Len(outgoing) <= MaxBytes
  BY SystemAssumption, DriverParameters DEF Init, DriverInit
<1>2. motor \in MotorStates
  BY DEF Init, MotorStates
<1>3. TypeOK
  BY <1>1, <1>2 DEF Init, DriverInit, TypeOK
<1> QED
  BY <1>1, <1>3, InitialLimits DEF SerialTypes

LEMMA EmptyLine == Len(<<>>) <= MaxFrames /\ <<>> \in Seq(Line)
BY SystemAssumption

LEMMA WrittenTypes ==
  ASSUME TypeOK, NEW cmd \in MotorStates, Written(cmd) \/ UNCHANGED outgoing
  PROVE  outgoing' \in Seq(MotorStates) /\ Len(outgoing') <= MaxBytes
<1>1. CASE UNCHANGED outgoing
  BY <1>1 DEF TypeOK
<1>2. CASE Written(cmd)
  <2>1. outgoing \in Seq(MotorStates) /\ Len(outgoing) < MaxBytes /\ outgoing' = Append(outgoing, cmd)
    BY <1>2 DEF TypeOK, Written
  <2>2. Len(outgoing') = Len(outgoing) + 1 /\ Len(outgoing) \in Nat
    BY <2>1
  <2> QED
    BY <2>1, <2>2, DriverParameters
<1> QED
  BY <1>1, <1>2

LEMMA RequestTypes ==
  ASSUME TypeOK, NEW p \in Int \cup {NaN}, TargetRequested(p)
  PROVE  TypeOK' /\ UNCHANGED <<incoming, outgoing, motor, ir>>
<1>1. InLimits(p) => p \in Int
  BY DEF InLimits
<1> QED
  BY <1>1 DEF TypeOK, TargetRequested, TargetPosCallback, driverVars, firmwareVars

LEMMA UpdateTypes ==
  ASSUME SerialTypes, Update, UNCHANGED <<firmwareVars, requested>>
  PROVE  TypeOK' /\ incoming' = <<>>
<1>1. CASE UpdateDropped
  BY <1>1, EmptyLine DEF UpdateDropped, SerialTypes, TypeOK, driverVars, firmwareVars
<1>2. CASE UpdateMeasured
  <2>1. PICK pos \in Filtered(CurrentPos(Latest.ir)) :
          filtered_current_pos' = pos /\ joint_state' = pos /\ Command(Latest.status, pos)
    BY <1>2 DEF UpdateMeasured
  <2>2. pos \in Int
    <3>1. CurrentPos(Latest.ir) \in JointRange
      BY <1>2, CalibrationKeepsLimits DEF UpdateMeasured, IsValid
    <3> QED
      BY <2>1, <3>1, FilterKeepsLimits, Integers4 DEF SerialTypes, LimitsInv, JointRange
  <2>3. MotorCommand(pos) \in MotorStates
    BY DEF MotorCommand, MotorStates
  <2>4. outgoing' \in Seq(MotorStates) /\ Len(outgoing') <= MaxBytes
    BY <2>1, <2>3, WrittenTypes DEF SerialTypes, Command, SendCommand
  <2>5. target_position_reached' \in BOOLEAN
    BY <2>1 DEF SerialTypes, TypeOK, Command, SendCommand
  <2>6. incoming' = <<>> /\ UNCHANGED <<target_position, port_open, motor, ir, requested>>
    BY <1>2 DEF UpdateMeasured, firmwareVars
  <2> QED
    BY <2>1, <2>2, <2>4, <2>5, <2>6, EmptyLine DEF SerialTypes, TypeOK
<1> QED
  BY <1>1, <1>2 DEF Update

LEMMA DestroyTypes ==
  ASSUME SerialTypes, DestroyNode, UNCHANGED <<firmwareVars, requested>>
  PROVE  TypeOK' /\ UNCHANGED incoming
<1>1. outgoing' \in Seq(MotorStates) /\ Len(outgoing') <= MaxBytes
  BY WrittenTypes DEF SerialTypes, DestroyNode, MotorStates
<1> QED
  BY <1>1 DEF SerialTypes, TypeOK, DestroyNode, firmwareVars

LEMMA CycleTypes ==
  ASSUME SerialTypes, NEW line \in {"frame", "garbage"}, Cycle(line)
  PROVE  TypeOK' /\ incoming' \in Seq(Line)
<1>1. motor' \in MotorStates
  BY DEF Cycle, SerialTypes, TypeOK
<1>2. ir' \in SensorValues
  BY DEF Cycle, SerialTypes, TypeOK
<1>3. incoming' \in Seq(Line) /\ Len(incoming') = 1
  <2>1. [status |-> motor', ir |-> ir'] \in Line /\ Garbage \in Line
    BY <1>1, <1>2 DEF Line
  <2> QED
    BY <2>1 DEF Cycle
<1>4. outgoing' = <<>> /\ UNCHANGED <<driverVars, requested>>
  BY DEF Cycle
<1> QED
  BY <1>1, <1>2, <1>3, <1>4, SystemAssumption, DriverParameters
  DEF SerialTypes, TypeOK, driverVars

LEMMA TypesInductive ==
  ASSUME SerialTypes, RequestInv, [Next \/ CycleNext]_vars
  PROVE  SerialTypes'
<1>1. LimitsInv'
  BY LimitsInductive DEF SerialTypes
<1>2. CASE \E p \in Targets : TargetRequested(p)
  BY <1>1, <1>2, RequestTypes, SystemAssumption DEF SerialTypes
<1>3. CASE Driver
  <2>1. CASE Update
    BY <1>1, <1>3, <2>1, UpdateTypes, EmptyLine DEF SerialTypes, Driver
  <2>2. CASE DestroyNode
    BY <1>1, <1>3, <2>2, DestroyTypes DEF SerialTypes, Driver
  <2> QED
    BY <1>3, <2>1, <2>2 DEF Driver
<1>4. CASE TakeByte
  <2>1. Head(outgoing) \in MotorStates /\ Tail(outgoing) \in Seq(MotorStates)
        /\ Len(Tail(outgoing)) <= MaxBytes
    BY <1>4, DriverParameters DEF TakeByte, SerialTypes, TypeOK
  <2> QED
    BY <1>1, <1>4, <2>1 DEF TakeByte, SerialTypes, TypeOK, driverVars
<1>5. CASE Move
  BY <1>1, <1>5 DEF Move, SerialTypes, TypeOK, driverVars
<1>6. CASE SendFrame
  <2>1. Frame \in Line /\ Garbage \in Line
    BY DEF Frame, Line, SerialTypes, TypeOK
  <2>2. incoming' \in Seq(Line) /\ Len(incoming') <= MaxFrames
    BY <1>6, <2>1, SystemAssumption DEF SendFrame, SerialTypes
  <2> QED
    BY <1>1, <1>6, <2>2 DEF SendFrame, SerialTypes, TypeOK, driverVars, firmwareVars
<1>7. CASE \E line \in {"frame", "garbage"} : Cycle(line)
  BY <1>1, <1>7, CycleTypes DEF SerialTypes
<1>8. CASE UNCHANGED vars
  BY <1>1, <1>8 DEF SerialTypes, TypeOK, vars, driverVars, firmwareVars
<1> QED
  BY <1>2, <1>3, <1>4, <1>5, <1>6, <1>7, <1>8 DEF Next, CycleNext

\* Driver, line and firmware have their types; the line is never longer than it may be.
THEOREM TypeCorrect == Spec \/ CycleSpec => []TypeOK
<1>1. SerialTypes /\ RequestInv /\ [Next]_vars => SerialTypes'
  BY TypesInductive
<1>2. SerialTypes /\ RequestInv /\ [CycleNext]_vars => SerialTypes'
  BY TypesInductive
<1>3. SerialTypes => TypeOK
  BY DEF SerialTypes
<1> QED
  BY <1>1, <1>2, <1>3, InitialTypes, LimitsInvariance, PTL DEF Spec, CycleSpec

-----------------------------------------------------------------------------
(* A firmware that takes its bytes before it reports.                       *)

\* What is on the line was sent after every byte was taken, so it tells the truth about
\* the motor and the joint until the driver has read it.
LineIsFresh ==
  /\ incoming \in {<<>>, <<Garbage>>, <<Frame>>}
  /\ port_open /\ incoming # <<>> => outgoing = <<>>

ReachedInv ==
  /\ target_position_reached => target_position # None
  /\ ReachedMeansStopping

\* Without the filter the driver stops where the joint is.
RestInv == low_pass_filter_coeff = "one" => RestsAtTarget

CycleInv == SerialTypes /\ LineIsFresh /\ ReachedInv /\ RestInv

LEMMA InitialCycle == Init => CycleInv
BY InitialTypes
DEF Init, DriverInit, CycleInv, LineIsFresh, ReachedInv, ReachedMeansStopping, RestInv, RestsAtTarget

LEMMA ReadsTheFrame ==
  ASSUME LineIsFresh, Readable # {}
  PROVE  incoming = <<Frame>> /\ Latest = Frame
<1>1. incoming # <<>> /\ incoming # <<Garbage>>
  BY DEF Readable
<1>2. incoming = <<Frame>>
  BY <1>1 DEF LineIsFresh
<1>3. Readable = {1}
  BY <1>2 DEF Readable
<1>4. (CHOOSE i \in Readable : \A j \in Readable : j <= i) = 1
  <2>1. 1 \in Readable /\ \A j \in Readable : j <= 1
    BY <1>3
  <2> QED
    BY <1>3, <2>1
<1>5. Latest = incoming[1]
  BY <1>4, Zenon DEF Latest
<1>6. incoming[1] = Frame
  BY <1>2
<1> QED
  BY <1>2, <1>5, <1>6

LEMMA Positions ==
  ASSUME SerialTypes
  PROVE  /\ CurrentPos(ir) \in Int
         /\ target_position # None => target_position \in Int
BY Integers4, SystemAssumption DEF SerialTypes, TypeOK, CurrentPos

\* What a command decides: reached only with the stop byte, and only near the target.
LEMMA CommandDecides ==
  ASSUME NEW pos, Command(motor, pos), target_position_reached', ~target_position_reached
  PROVE  /\ target_position # None
         /\ Distance(target_position, pos) <= convergence_threshold
         /\ (outgoing' = outgoing /\ motor = "0") \/ outgoing' = Append(outgoing, "0")
<1>1. Pursuing
  BY DEF Command
<1>2. MotorCommand(pos) = "0"
  BY DEF Command, SendCommand, Written
<1>3. Distance(target_position, pos) <= convergence_threshold
  BY <1>2 DEF MotorCommand
<1>4. (outgoing' = outgoing /\ motor = "0") \/ outgoing' = Append(outgoing, "0")
  BY <1>2 DEF Command, SendCommand, Written
<1> QED
  BY <1>1, <1>3, <1>4 DEF Pursuing

LEMMA CommandedByLast ==
  ASSUME NEW cmd
  PROVE  /\ Append(<<>>, cmd) # <<>>
         /\ Append(<<>>, cmd)[Len(Append(<<>>, cmd))] = cmd
OBVIOUS

LEMMA UpdateCycle ==
  ASSUME CycleInv, RequestInv, Update, UNCHANGED <<firmwareVars, requested>>
  PROVE  CycleInv'
<1>1. SerialTypes'
  BY UpdateTypes, UpdateKeepsLimits, EmptyLine DEF CycleInv, SerialTypes
<1>2. LineIsFresh'
  BY UpdateTypes DEF CycleInv, LineIsFresh
<1> SUFFICES ReachedInv' /\ RestInv'
  BY <1>1, <1>2 DEF CycleInv
<1>3. UNCHANGED <<target_position, motor, ir>>
  BY DEF Update, UpdateDropped, UpdateMeasured, driverVars, firmwareVars
<1>4. ASSUME UNCHANGED <<target_position_reached, outgoing>>
      PROVE  ReachedInv' /\ RestInv'
  BY <1>3, <1>4 DEF CycleInv, ReachedInv, ReachedMeansStopping, Commanded, RestInv, RestsAtTarget, CurrentPos, Distance
<1>5. CASE UpdateDropped
  BY <1>4, <1>5 DEF UpdateDropped, driverVars
<1>6. CASE UpdateMeasured
  <2>1. incoming = <<Frame>> /\ Latest = Frame /\ outgoing = <<>>
    BY <1>6, ReadsTheFrame DEF UpdateMeasured, CycleInv, LineIsFresh
  <2>2. PICK pos \in Filtered(CurrentPos(ir)) : Command(motor, pos)
    BY <1>6, <2>1 DEF UpdateMeasured, Frame
  <2>3. CASE target_position_reached
    <3>1. ~Pursuing
      BY <2>3 DEF Pursuing
    <3>2. UNCHANGED <<target_position_reached, outgoing>>
      BY <2>2, <3>1 DEF Command
    <3> QED
      BY <1>4, <3>2
  <2>4. CASE ~target_position_reached /\ target_position_reached'
    <3>1. /\ target_position # None
          /\ Distance(target_position, pos) <= convergence_threshold
          /\ (outgoing' = <<>> /\ motor = "0") \/ outgoing' = Append(<<>>, "0")
      BY <2>1, <2>2, <2>4, CommandDecides
    <3>2. ReachedInv'
      BY <1>3, <3>1, CommandedByLast DEF ReachedInv, ReachedMeansStopping, Commanded
    <3>3. ASSUME low_pass_filter_coeff = "one"
          PROVE  Distance(CurrentPos(ir), target_position) <= convergence_threshold
      <4>1. pos = CurrentPos(ir)
        BY <2>2, <3>3 DEF Filtered
      <4>2. CurrentPos(ir) \in Int /\ target_position \in Int
        BY <3>1, Positions DEF CycleInv
      <4> QED
        BY <3>1, <4>1, <4>2 DEF Distance
    <3>4. RestInv'
      BY <1>3, <3>3 DEF RestInv, RestsAtTarget, CurrentPos, Distance
    <3> QED
      BY <3>2, <3>4
  <2>5. CASE ~target_position_reached'
    BY <2>5 DEF ReachedInv, ReachedMeansStopping, RestInv, RestsAtTarget
  <2> QED
    BY <2>3, <2>4, <2>5
<1> QED
  BY <1>5, <1>6 DEF Update

LEMMA RequestCycle ==
  ASSUME CycleInv, RequestInv, NEW p \in Int \cup {NaN}, TargetRequested(p)
  PROVE  CycleInv'
<1>1. SerialTypes' /\ UNCHANGED <<incoming, outgoing, motor, ir>>
  BY RequestTypes, RequestKeepsLimits DEF CycleInv, SerialTypes
<1>2. UNCHANGED port_open
  BY DEF TargetRequested, TargetPosCallback, driverVars
<1>3. LineIsFresh'
  BY <1>1, <1>2 DEF CycleInv, LineIsFresh, Frame
<1>4. CASE UNCHANGED driverVars
  BY <1>1, <1>3, <1>4 DEF CycleInv, ReachedInv, ReachedMeansStopping, Commanded, RestInv, RestsAtTarget,
                          CurrentPos, Distance, driverVars
<1>5. CASE target_position_reached' = FALSE
  BY <1>1, <1>3, <1>5 DEF CycleInv, ReachedInv, ReachedMeansStopping, RestInv, RestsAtTarget
<1> QED
  BY <1>4, <1>5 DEF TargetRequested, TargetPosCallback

LEMMA DestroyCycle ==
  ASSUME CycleInv, RequestInv, DestroyNode, UNCHANGED <<firmwareVars, requested>>
  PROVE  CycleInv'
<1>1. /\ UNCHANGED <<target_position, target_position_reached, filtered_current_pos, joint_state, incoming, motor, ir>>
      /\ port_open' = FALSE
      /\ outgoing' = outgoing \/ outgoing' = Append(outgoing, "0")
  BY DEF DestroyNode, Written, firmwareVars
<1>2. SerialTypes'
  BY <1>1, DestroyTypes, RestKeepsLimits DEF CycleInv, SerialTypes
<1>3. LineIsFresh'
  BY <1>1 DEF CycleInv, LineIsFresh, Frame
<1>4. Commanded' = Commanded \/ Commanded' = "0"
  <2>1. CASE outgoing' = outgoing
    BY <1>1, <2>1 DEF Commanded
  <2>2. CASE outgoing' = Append(outgoing, "0")
    <3>1. outgoing \in Seq(MotorStates)
      BY DEF CycleInv, SerialTypes, TypeOK
    <3>2. outgoing' # <<>> /\ outgoing'[Len(outgoing')] = "0"
      BY <2>2, <3>1
    <3> QED
      BY <3>2 DEF Commanded
  <2> QED
    BY <1>1, <2>1, <2>2
<1>5. ReachedInv'
  BY <1>1, <1>4 DEF CycleInv, ReachedInv, ReachedMeansStopping
<1>6. RestInv'
  BY <1>1 DEF CycleInv, RestInv, RestsAtTarget, CurrentPos, Distance
<1> QED
  BY <1>2, <1>3, <1>5, <1>6 DEF CycleInv

\* A motor that is stopped, or that will be, moves no further in the next turn.
LEMMA TurnCycle ==
  ASSUME CycleInv, RequestInv, NEW line \in {"frame", "garbage"}, Cycle(line)
  PROVE  CycleInv'
<1>1. /\ UNCHANGED <<target_position, target_position_reached, filtered_current_pos, joint_state, requested>>
      /\ outgoing' = <<>> /\ motor' = Commanded
  BY DEF Cycle, driverVars, Commanded
<1>2. SerialTypes'
  BY <1>1, CycleTypes, RestKeepsLimits DEF CycleInv, SerialTypes
<1>3. LineIsFresh'
  BY <1>1 DEF LineIsFresh, Cycle, Frame
<1>4. ReachedInv'
  BY <1>1 DEF CycleInv, ReachedInv, ReachedMeansStopping, Commanded
<1>5. ASSUME target_position_reached PROVE ir' = ir
  <2>1. motor' = "0"
    BY <1>1, <1>5 DEF CycleInv, ReachedInv, ReachedMeansStopping
  <2>2. Towards(motor') = ir
    BY <2>1 DEF Towards
  <2> QED
    BY <2>2 DEF Cycle
<1>6. RestInv'
  BY <1>1, <1>5 DEF CycleInv, RestInv, RestsAtTarget, CurrentPos, Distance
<1> QED
  BY <1>2, <1>3, <1>4, <1>6 DEF CycleInv

LEMMA CycleInvariance == CycleSpec => []CycleInv
<1>1. CycleInv /\ RequestInv /\ [CycleNext]_vars => CycleInv'
  <2> SUFFICES ASSUME CycleInv, RequestInv, [CycleNext]_vars PROVE CycleInv'
    OBVIOUS
  <2>1. CASE UNCHANGED vars
    BY <2>1, RestKeepsLimits
    DEF vars, driverVars, firmwareVars, CycleInv, SerialTypes, TypeOK, LimitsInv, LineIsFresh, Frame, ReachedInv,
        ReachedMeansStopping, Commanded, RestInv, RestsAtTarget, CurrentPos, Distance
  <2> QED
    BY <2>1, RequestCycle, UpdateCycle, DestroyCycle, TurnCycle, SystemAssumption
    DEF CycleNext, Driver
<1> QED
  BY <1>1, InitialCycle, LimitsInvariance, PTL DEF CycleSpec

\* A target that _update() marks as reached has a stopped motor, or the stop byte is on its
\* way to it, for every filter, with a firmware that reports after it has taken its bytes.
THEOREM ReachedIsStopped == CycleSpec => []ReachedMeansStopping
BY CycleInvariance, PTL DEF CycleInv, ReachedInv

\* Without the low-pass filter the joint then rests within the threshold of the target.
THEOREM RestIsNear == ASSUME low_pass_filter_coeff = "one" PROVE CycleSpec => []RestsAtTarget
<1>1. CycleInv => RestsAtTarget
  BY DEF CycleInv, RestInv
<1> QED
  BY <1>1, CycleInvariance, PTL
==============================================================================
