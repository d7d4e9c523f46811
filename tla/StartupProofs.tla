----------------------------- MODULE StartupProofs -----------------------------
(***************************************************************************)
(* Whatever a program is given, what runs satisfies the assumptions of the   *)
(* other modules: proved for every set of parameters.                       *)
(***************************************************************************)
EXTENDS Startup, TLAPS

\* Each constructor's checks, NaN and infinities included, leave only sound parameters.
LEMMA ServerSound ==
  ASSUME NEW p \in ServerParameters, ServerAccepts(p)
  PROVE  /\ {p.lower_limit, p.upper_limit} \subseteq Int
         /\ p.lower_limit..p.upper_limit # {}
         /\ p.position_tolerance \in Nat
         /\ {p.goal_timeout, p.joint_state_timeout} \subseteq Nat \ {0}
         /\ {p.command_publication_frequency, p.feedback_publication_frequency}
              \subseteq 1..p.execution_loop_frequency
<1> DEFINE values == {p.lower_limit, p.upper_limit, p.position_tolerance,
                      p.command_publication_frequency, p.feedback_publication_frequency,
                      p.execution_loop_frequency, p.goal_timeout, p.joint_state_timeout}
<1>1. values \subseteq Int
  BY ParameterTypes DEF ServerAccepts, AllFinite, Finite, Number
<1>2. \A a \in Int, b \in Int : (Below(a, b) <=> a < b) /\ (AtMost(a, b) <=> a <= b)
  BY NonFiniteAssumption DEF Below, AtMost
<1>3. p.lower_limit <= p.upper_limit /\ p.position_tolerance >= 0
  BY <1>1, <1>2 DEF ServerAccepts
<1>4. p.goal_timeout > 0 /\ p.joint_state_timeout > 0
  BY <1>1, <1>2 DEF ServerAccepts
<1>5. /\ p.command_publication_frequency \in 1..p.execution_loop_frequency
      /\ p.feedback_publication_frequency \in 1..p.execution_loop_frequency
  BY <1>1, <1>2 DEF ServerAccepts, Faster
<1> QED
  BY <1>1, <1>3, <1>4, <1>5

LEMMA DriverSound ==
  ASSUME NEW p \in DriverParameters, DriverAccepts(p)
  PROVE  /\ {p.lower_limit, p.upper_limit, p.lower_ir_value, p.upper_ir_value} \subseteq Int
         /\ p.upper_limit - p.lower_limit > 0
         /\ p.upper_ir_value - p.lower_ir_value # 0
         /\ p.convergence_threshold \in Nat
         /\ p.execution_loop_frequency \in Nat \ {0}
         /\ p.low_pass_filter_coeff \in 0..100
<1>1. {p.lower_limit, p.upper_limit, p.lower_ir_value, p.upper_ir_value, p.convergence_threshold,
       p.execution_loop_frequency, p.low_pass_filter_coeff} \subseteq Int
  BY ParameterTypes DEF DriverAccepts, AllFinite, Finite, Number
<1>2. \A a \in Int, b \in Int : (Below(a, b) <=> a < b) /\ (AtMost(a, b) <=> a <= b)
  BY NonFiniteAssumption DEF Below, AtMost
<1> QED
  BY <1>1, <1>2 DEF DriverAccepts

LEMMA SingleSound ==
  ASSUME NEW p \in SingleParameters, SingleAccepts(p)
  PROVE  p.position \in Int /\ p.wait_for_server_timeout \in Nat \ {0}
BY ParameterTypes, NonFiniteAssumption DEF SingleAccepts, Finite, Number, Below, AtMost

LEMMA SequentialSound ==
  ASSUME NEW p \in SequentialParameters, SequentialAccepts(p)
  PROVE  /\ {p.first_position, p.second_position} \subseteq Int
         /\ p.second_goal_delay \in Nat /\ p.wait_for_server_timeout \in Nat \ {0}
BY ParameterTypes, NonFiniteAssumption DEF SequentialAccepts, Finite, Number, Below, AtMost

-----------------------------------------------------------------------------
\* The program has been given parameters of its kind.
Given ==
  \/ node = "server"     /\ given \in ServerParameters
  \/ node = "driver"     /\ given \in DriverParameters
  \/ node = "single"     /\ given \in SingleParameters
  \/ node = "sequential" /\ given \in SequentialParameters

\* What got past the constructor was accepted, and the port is touched later still.
StartupInv ==
  /\ Given
  /\ phase \in {"constructing", "opening", "opened", "running", "exited"}
  /\ phase \in {"opening", "opened", "running"} => ConstructorAccepts
  /\ phase \in {"opening", "opened"} => node = "driver"
  /\ phase \in {"constructing", "opening"} => port = "untouched"
  /\ node = "driver" /\ phase \in {"opened", "running"} => port # "untouched"
  /\ PortNeedsValidParameters

LEMMA SoundWhenAccepted == Given /\ ConstructorAccepts => RunningMeansSound
<1> SUFFICES ASSUME Given, ConstructorAccepts PROVE RunningMeansSound
  OBVIOUS
<1>1. CASE node = "server"
  BY <1>1, ServerSound DEF Given, ConstructorAccepts, RunningMeansSound
<1>2. CASE node = "driver"
  BY <1>2, DriverSound DEF Given, ConstructorAccepts, RunningMeansSound
<1>3. CASE node = "single"
  BY <1>3, SingleSound DEF Given, ConstructorAccepts, RunningMeansSound
<1>4. CASE node = "sequential"
  BY <1>4, SequentialSound DEF Given, ConstructorAccepts, RunningMeansSound
<1> QED
  BY <1>1, <1>2, <1>3, <1>4 DEF Given

LEMMA StartupInvariance == Spec => []StartupInv
<1>1. Init => StartupInv
  BY DEF Init, StartupInv, Given, PortNeedsValidParameters
<1>2. StartupInv /\ [Next]_vars => StartupInv'
  <2> SUFFICES ASSUME StartupInv, [Next]_vars PROVE StartupInv'
    OBVIOUS
  <2> USE DEF StartupInv, Given, PortNeedsValidParameters, ConstructorAccepts
  <2>1. CASE Construct
    BY <2>1 DEF Construct
  <2>2. CASE ConstructorThrows \/ OpenFails
    BY <2>2 DEF ConstructorThrows, OpenFails, Leave
  <2>3. CASE OpenSerialPort
    BY <2>3 DEF OpenSerialPort
  <2>4. CASE Spin
    BY <2>4 DEF Spin
  <2>5. CASE InterruptedEarly
    BY <2>5 DEF InterruptedEarly, Leave
  <2>6. ASSUME NEW code \in {0, 1}, Ends(code) PROVE StartupInv'
    BY <2>6 DEF Ends, Leave, Cleanup
  <2>7. CASE Exited \/ UNCHANGED vars
    BY <2>7 DEF Exited, vars
  <2> QED
    BY <2>1, <2>2, <2>3, <2>4, <2>5, <2>6, <2>7 DEF Next
<1> QED
  BY <1>1, <1>2, PTL DEF Spec

\* Every program that runs has parameters for which the models of it were made.
THEOREM SoundParameters == Spec => []RunningMeansSound
<1>1. StartupInv => RunningMeansSound
  BY SoundWhenAccepted DEF StartupInv, RunningMeansSound
<1> QED
  BY <1>1, StartupInvariance, PTL

\* A configuration that is wrong anywhere never opens the serial port.
THEOREM PortGuarded == Spec => []PortNeedsValidParameters
<1>1. StartupInv => PortNeedsValidParameters
  BY DEF StartupInv
<1> QED
  BY <1>1, StartupInvariance, PTL

\* Every way out of a driver that was updating its motor goes through the finally block, and
\* no way out of any program leaves the port open (the bare interrupt in the constructor of
\* the driver included).
THEOREM StopOffered == Spec => MotorToldToStop
<1> DEFINE A == /\ phase = "running" /\ node = "driver" /\ phase' = "exited" => told_to_stop'
                /\ phase' = "exited" => port' # "open"
<1>1. StartupInv /\ [Next]_vars => [A]_vars
  <2> SUFFICES ASSUME StartupInv, Next, ~Exited PROVE A
    BY DEF Exited
  <2>1. port # "untouched" => node = "driver"
    BY DEF StartupInv, PortNeedsValidParameters
  <2>2. CASE Construct \/ OpenSerialPort \/ Spin
    BY <2>2 DEF Construct, OpenSerialPort, Spin
  <2>3. CASE ConstructorThrows \/ OpenFails
    BY <2>3 DEF ConstructorThrows, OpenFails, Leave, StartupInv
  <2>4. CASE InterruptedEarly
    BY <2>4 DEF InterruptedEarly
  <2>5. ASSUME NEW code \in {0, 1}, Ends(code) PROVE A
    BY <2>1, <2>5 DEF Ends, Cleanup
  <2> QED
    BY <2>2, <2>3, <2>4, <2>5 DEF Next
<1>2. []StartupInv /\ [][Next]_vars => [][A]_vars
  BY <1>1, PTL
<1> QED
  BY <1>2, StartupInvariance, PTL DEF Spec, MotorToldToStop
==============================================================================
