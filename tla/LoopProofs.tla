------------------------------ MODULE LoopProofs ------------------------------
(***************************************************************************)
(* The closed loop of server and serial driver, for every calibration,       *)
(* limits, threshold and tolerance, and for any number of driver restarts.  *)
(***************************************************************************)
EXTENDS ClosedLoop, SerialProofs

\* Commands and measurements on their way through the loop are positions of the joint.
TopicInv ==
  /\ goal \in Limits \cup {None}
  /\ {command, measured, in_flight} \subseteq JointRange \cup {None}

LoopInv == TopicInv /\ CycleInv /\ RequestInv

LEMMA RangeIsInt == JointRange \subseteq Int /\ None \notin JointRange /\ Limits \subseteq JointRange
BY Integers4, ValueAssumption, LoopAssumption DEF JointRange

LEMMA InitialLoop == LoopInit => LoopInv
BY InitialCycle, InitialLimits DEF LoopInit, Server!Init, LoopInv, TopicInv

-----------------------------------------------------------------------------
\* The server stores goals, and holds that the driver has measured.
LEMMA ServerLoop ==
  ASSUME LoopInv, AcceptGoal \/ ChaseGoal \/ EndGoal(TRUE) \/ EndGoal(FALSE)
  PROVE  TopicInv' /\ UNCHANGED vars
<1>1. CASE AcceptGoal
  BY <1>1 DEF AcceptGoal, Server!Accept, LoopInv, TopicInv
<1>2. CASE ChaseGoal
  BY <1>2, RangeIsInt DEF ChaseGoal, Server!Chase, LoopInv, TopicInv
<1>3. CASE EndGoal(TRUE) \/ EndGoal(FALSE)
  BY <1>3 DEF EndGoal, Server!End, LoopInv, TopicInv
<1> QED
  BY <1>1, <1>2, <1>3

LEMMA TopicLoop ==
  ASSUME LoopInv, Measure \/ TimerPublishes
  PROVE  TopicInv' /\ UNCHANGED vars
<1>1. CASE Measure
  <2>1. joint_state \in JointRange \cup {None}
    BY DEF LoopInv, CycleInv, SerialTypes, LimitsInv
  <2> QED
    BY <1>1, <2>1 DEF Measure, LoopInv, TopicInv
<1>2. CASE TimerPublishes
  BY <1>2 DEF TimerPublishes, LoopInv, TopicInv
<1> QED
  BY <1>1, <1>2

\* A driver that knows nothing keeps what the old one promised, and the line stays fresh.
LEMMA RestartLoop ==
  ASSUME LoopInv, DriverRestarts
  PROVE  LoopInv'
<1>1. /\ target_position' = None /\ target_position_reached' = FALSE /\ filtered_current_pos' = None
      /\ requested' = None /\ incoming' = <<>>
      /\ UNCHANGED <<joint_state, port_open, motor, ir, goal, command, measured, in_flight>>
  BY DEF DriverRestarts, firmwareVars
<1>2. outgoing' \in Seq(MotorStates) /\ Len(outgoing') <= MaxBytes
  <2>1. CASE outgoing' = <<>>
    BY <2>1, DriverParameters
  <2>2. CASE Written("0") \/ UNCHANGED outgoing
    BY <2>2, WrittenTypes DEF LoopInv, CycleInv, SerialTypes, MotorStates
  <2> QED
    BY <2>1, <2>2 DEF DriverRestarts
<1>3. TypeOK'
  BY <1>1, <1>2, EmptyLine DEF LoopInv, CycleInv, SerialTypes, TypeOK
<1>4. LimitsInv' /\ RequestInv'
  BY <1>1 DEF LoopInv, CycleInv, SerialTypes, LimitsInv, RequestInv, SmallStepsDoNotAddUp
<1>5. LineIsFresh' /\ ReachedInv' /\ RestInv'
  BY <1>1 DEF LineIsFresh, ReachedInv, ReachedMeansStopping, RestInv, RestsAtTarget
<1>6. TopicInv'
  BY <1>1 DEF LoopInv, TopicInv
<1> QED
  BY <1>1, <1>3, <1>4, <1>5, <1>6, EmptyLine DEF LoopInv, CycleInv, SerialTypes

LEMMA DeliverLoop ==
  ASSUME LoopInv, Deliver
  PROVE  LoopInv'
<1>1. in_flight \in Int /\ TargetRequested(in_flight)
  BY RangeIsInt DEF Deliver, LoopInv, TopicInv
<1>2. TopicInv'
  BY DEF Deliver, LoopInv, TopicInv
<1> QED
  BY <1>1, <1>2, RequestCycle, RequestKeepsLimits DEF LoopInv, CycleInv, SerialTypes

LEMMA BackendLoop ==
  ASSUME LoopInv, Backend
  PROVE  LoopInv'
<1>1. TopicInv'
  BY DEF Backend, LoopInv, TopicInv
<1>2. CASE Update /\ UNCHANGED <<firmwareVars, requested>>
  BY <1>1, <1>2, UpdateCycle, UpdateKeepsLimits DEF LoopInv, CycleInv, SerialTypes
<1>3. ASSUME NEW line \in {"frame", "garbage"}, Cycle(line) PROVE LoopInv'
  <2>1. RequestInv'
    BY <1>3, RestKeepsLimits DEF Cycle, driverVars, LoopInv, CycleInv, SerialTypes
  <2> QED
    BY <1>1, <1>3, <2>1, TurnCycle DEF LoopInv
<1> QED
  BY <1>2, <1>3 DEF Backend

\* What neither driver nor firmware notices.
LEMMA IdleLoop == ASSUME LoopInv, UNCHANGED vars PROVE CycleInv' /\ RequestInv'
BY RestKeepsLimits
DEF vars, driverVars, firmwareVars, LoopInv, CycleInv, SerialTypes, TypeOK, LimitsInv, LineIsFresh, Frame,
    ReachedInv, ReachedMeansStopping, Commanded, RestInv, RestsAtTarget, CurrentPos, Distance

LEMMA LoopInvariance == LoopSpec => []LoopInv
<1>1. LoopInv /\ [LoopNext]_loopVars => LoopInv'
  <2> SUFFICES ASSUME LoopInv, [LoopNext]_loopVars PROVE LoopInv'
    OBVIOUS
  <2>1. CASE AcceptGoal \/ ChaseGoal \/ EndGoal(TRUE) \/ EndGoal(FALSE) \/ Measure \/ TimerPublishes
    BY <2>1, ServerLoop, TopicLoop, IdleLoop DEF LoopInv
  <2>2. CASE UNCHANGED loopVars
    BY <2>2, IdleLoop DEF loopVars, LoopInv, TopicInv
  <2> QED
    BY <2>1, <2>2, DeliverLoop, BackendLoop, RestartLoop DEF LoopNext
<1> QED
  BY <1>1, InitialLoop, PTL DEF LoopSpec

-----------------------------------------------------------------------------
\* Every command of the server, a hold as well as a goal, is one that the driver's
\* _target_pos_callback() takes: execute() need not compare a hold with the limits here.
THEOREM CommandsTaken == LoopSpec => []NothingRefused
<1>1. LoopInv => NothingRefused
  <2> SUFFICES ASSUME LoopInv, NEW p \in JointRange PROVE InLimits(p)
    BY DEF NothingRefused, LoopInv, TopicInv
  <2> QED
    BY Integers4, ValueAssumption DEF JointRange, InLimits
<1> QED
  BY <1>1, LoopInvariance, PTL

\* Without the low-pass filter, a joint that is held rests within two thresholds of the hold,
\* whatever goals, restarts and lost bytes came before.
THEOREM HoldKept == ASSUME low_pass_filter_coeff = "one" PROVE LoopSpec => []HeldNearTheHold
<1>1. LoopInv => HeldNearTheHold
  <2> SUFFICES ASSUME LoopInv, Held
               PROVE  Distance(CurrentPos(ir), command) <= 2 * convergence_threshold
    BY DEF HeldNearTheHold
  <2>1. /\ Distance(command, target_position) <= convergence_threshold
        /\ command \in Int /\ target_position # None
    BY RangeIsInt DEF Held, LoopInv, TopicInv, RequestInv, SmallStepsDoNotAddUp
  <2>2. Distance(CurrentPos(ir), target_position) <= convergence_threshold
    BY DEF Held, LoopInv, CycleInv, RestInv, RestsAtTarget
  <2>3. CurrentPos(ir) \in Int /\ target_position \in Int
    BY <2>1, Positions DEF LoopInv, CycleInv
  <2> QED
    BY <2>1, <2>2, <2>3, Integers4 DEF Distance
<1> QED
  BY <1>1, LoopInvariance, PTL
==============================================================================
