-------------------------------- MODULE Startup --------------------------------
(***************************************************************************)
(* How each of the four programs comes up and goes down: the parameter       *)
(* checks of its constructor, the serial port of the driver, and main().     *)
(* Frequencies are integers, and a comparison with NaN is false, as in C++   *)
(* and Python.                                                              *)
(***************************************************************************)
EXTENDS Integers

CONSTANTS
  NaN, Infinity,
  ServerParameters, DriverParameters, SingleParameters, SequentialParameters   \* sets of records

ASSUME NonFiniteAssumption == NaN \notin Int /\ Infinity \notin Int /\ NaN # Infinity

Number == Int \cup {NaN, Infinity}

ASSUME ParameterTypes ==
  /\ \A p \in ServerParameters :
       {p.lower_limit, p.upper_limit, p.position_tolerance, p.command_publication_frequency,
        p.feedback_publication_frequency, p.execution_loop_frequency, p.goal_timeout,
        p.joint_state_timeout} \subseteq Number
  /\ \A p \in DriverParameters :
       {p.lower_limit, p.upper_limit, p.lower_ir_value, p.upper_ir_value, p.convergence_threshold,
        p.execution_loop_frequency, p.low_pass_filter_coeff} \subseteq Number
  /\ \A p \in SingleParameters : {p.position, p.wait_for_server_timeout} \subseteq Number
  /\ \A p \in SequentialParameters :
       {p.first_position, p.second_position, p.second_goal_delay, p.wait_for_server_timeout}
         \subseteq Number

Names == {"text", "blank", "empty"}   \* what a string parameter holds: only spaces, or nothing

VARIABLES
  node, given,    \* the program and its parameters
  phase,          \* "constructing", "opening", "opened", "running", "exited"
  ret,            \* exit status of the process, 0 until it exits
  port,           \* serial port of the driver: "untouched", "open", "closed"
  told_to_stop    \* the stop byte was offered to the port before it was closed

vars == <<node, given, phase, ret, port, told_to_stop>>

Init ==
  /\ \/ node = "server"     /\ given \in ServerParameters
     \/ node = "driver"     /\ given \in DriverParameters
     \/ node = "single"     /\ given \in SingleParameters
     \/ node = "sequential" /\ given \in SequentialParameters
  /\ phase = "constructing" /\ ret = 0
  /\ port = "untouched" /\ told_to_stop = FALSE

-----------------------------------------------------------------------------
Finite(x) == x \notin {NaN, Infinity}

Below(a, b) == a # NaN /\ b # NaN /\ a # Infinity /\ (b = Infinity \/ a < b)

AtMost(a, b) == Below(a, b) \/ (a = b /\ a # NaN)

\* Mutant: no check that a value is finite.
AllFinite_Omitted(values) == TRUE

AllFinite(values) == \A x \in values : Finite(x)

\* std::max of the two publication frequencies.
Faster(p) ==
  IF Below(p.command_publication_frequency, p.feedback_publication_frequency)
  THEN p.feedback_publication_frequency
  ELSE p.command_publication_frequency

\* declare_and_validate_parameters(), and the blank topics rclcpp itself refuses.
ServerAccepts(p) ==
  /\ AllFinite({p.lower_limit, p.upper_limit, p.position_tolerance, p.command_publication_frequency,
                p.feedback_publication_frequency, p.execution_loop_frequency,
                p.goal_timeout, p.joint_state_timeout})
  /\ p.joint_name # "empty" /\ p.topics = "text"
  /\ ~Below(p.upper_limit, p.lower_limit)
  /\ ~Below(p.position_tolerance, 0)
  /\ ~AtMost(p.command_publication_frequency, 0) /\ ~AtMost(p.feedback_publication_frequency, 0)
  /\ ~AtMost(p.execution_loop_frequency, 0)
  /\ ~Below(p.execution_loop_frequency, Faster(p))
  /\ ~AtMost(p.goal_timeout, 0) /\ ~AtMost(p.joint_state_timeout, 0)

\* __init__() before the port: names are stripped, so blanks are as good as nothing.  The
\* filter coefficient is in percent.
DriverAccepts(p) ==
  /\ AllFinite({p.lower_limit, p.upper_limit, p.lower_ir_value, p.upper_ir_value,
                p.convergence_threshold})
  /\ Below(p.lower_limit, p.upper_limit)
  /\ p.lower_ir_value # p.upper_ir_value
  /\ ~Below(p.convergence_threshold, 0)
  /\ p.joint_name = "text" /\ p.topics = "text"
  /\ Finite(p.execution_loop_frequency) /\ ~AtMost(p.execution_loop_frequency, 0)
  /\ Finite(p.low_pass_filter_coeff)
  /\ AtMost(0, p.low_pass_filter_coeff) /\ AtMost(p.low_pass_filter_coeff, 100)

\* _validate_serial_configuration(): the choices are one set, of those it knows or others.
SerialAccepts(p) ==
  /\ p.port = "text" /\ p.baudrate > 0
  /\ {p.data_bits, p.flow_control, p.parity, p.stop_bits} = {"known"}

SingleAccepts(p) ==
  /\ p.action_name = "text"
  /\ Finite(p.position)
  /\ Finite(p.wait_for_server_timeout) /\ ~AtMost(p.wait_for_server_timeout, 0)

SequentialAccepts(p) ==
  /\ p.action_name = "text"
  /\ Finite(p.first_position) /\ Finite(p.second_position)
  /\ Finite(p.second_goal_delay) /\ ~Below(p.second_goal_delay, 0)
  /\ Finite(p.wait_for_server_timeout) /\ ~AtMost(p.wait_for_server_timeout, 0)

ConstructorAccepts ==
  \/ node = "server"     /\ ServerAccepts(given)
  \/ node = "driver"     /\ DriverAccepts(given)
  \/ node = "single"     /\ SingleAccepts(given)
  \/ node = "sequential" /\ SequentialAccepts(given)
-----------------------------------------------------------------------------
Leave(code) == phase' = "exited" /\ ret' = code

Construct ==
  /\ phase = "constructing" /\ ConstructorAccepts
  /\ phase' = IF node = "driver" THEN "opening" ELSE "running"
  /\ UNCHANGED <<node, given, ret, port, told_to_stop>>

\* The exception of a check, or of the middleware, ends main() with 1.
ConstructorThrows ==
  /\ phase = "constructing"
  /\ Leave(1)
  /\ UNCHANGED <<node, given, port, told_to_stop>>

\* Mutant: the settings of the port are checked after it was opened.
OpenSerialPort_Unchecked ==
  /\ phase = "opening"
  /\ phase' = "opened" /\ port' = "open"
  /\ UNCHANGED <<node, given, ret, told_to_stop>>

OpenSerialPort ==
  /\ phase = "opening" /\ SerialAccepts(given)
  /\ phase' = "opened" /\ port' = "open"
  /\ UNCHANGED <<node, given, ret, told_to_stop>>

\* A setting is refused, or there is no such port.
OpenFails ==
  /\ phase = "opening"
  /\ Leave(1)
  /\ UNCHANGED <<node, given, port, told_to_stop>>

\* The object exists: main() of the driver spins it.
Spin ==
  /\ phase = "opened"
  /\ phase' = "running"
  /\ UNCHANGED <<node, given, ret, port, told_to_stop>>

\* KeyboardInterrupt inside the constructor: there is no node to destroy.
InterruptedEarly ==
  /\ node = "driver" /\ phase \in {"constructing", "opening", "opened"}
  /\ \E code \in {0, 1} : Leave(code)
  /\ port' = IF port = "open" THEN "closed" ELSE port
  /\ UNCHANGED <<node, given, told_to_stop>>

\* Mutant: destroy_node() is not in the finally block.
Cleanup_OnlyWhenStopped(code) ==
  IF node = "driver" /\ code = 0
  THEN port' = "closed" /\ told_to_stop' = TRUE
  ELSE UNCHANGED <<port, told_to_stop>>

\* The finally block of the driver's main(): destroy_node() and in it
\* _close_serial_port(), which closes the port also when the write fails.
Cleanup(code) ==
  IF node = "driver"
  THEN port' = "closed" /\ told_to_stop' = TRUE
  ELSE UNCHANGED <<port, told_to_stop>>

\* spin() returns or raises: 0 after a signal, 1 after an exception of a callback or of
\* shutting down; the clients return what their goals came to.
Ends(code) ==
  /\ phase = "running"
  /\ Leave(code) /\ Cleanup(code)
  /\ UNCHANGED <<node, given>>

Exited == phase = "exited" /\ UNCHANGED vars

Next ==
  \/ Construct \/ ConstructorThrows
  \/ OpenSerialPort \/ OpenFails \/ Spin \/ InterruptedEarly
  \/ \E code \in {0, 1} : Ends(code)
  \/ Exited

Spec == Init /\ [][Next]_vars
-----------------------------------------------------------------------------
\* What the other modules take for granted holds of every node that runs, whatever it was
\* given: limits and tolerances are ordered numbers, so a comparison with them decides
\* something (ParameterAssumption, DriverParameters), no period is divided by zero or
\* shorter than the loop, no calibration has a vanishing range, no timeout is over at once.
RunningMeansSound ==
  phase = "running" =>
    CASE node = "server" ->
           /\ {given.lower_limit, given.upper_limit} \subseteq Int
           /\ given.lower_limit..given.upper_limit # {}
           /\ given.position_tolerance \in Nat
           /\ {given.goal_timeout, given.joint_state_timeout} \subseteq Nat \ {0}
           /\ {given.command_publication_frequency, given.feedback_publication_frequency}
                \subseteq 1..given.execution_loop_frequency
      [] node = "driver" ->
           /\ {given.lower_limit, given.upper_limit, given.lower_ir_value, given.upper_ir_value}
                \subseteq Int
           /\ given.upper_limit - given.lower_limit > 0
           /\ given.upper_ir_value - given.lower_ir_value # 0
           /\ given.convergence_threshold \in Nat
           /\ given.execution_loop_frequency \in Nat \ {0}
           /\ given.low_pass_filter_coeff \in 0..100
      [] node = "single" ->
           given.position \in Int /\ given.wait_for_server_timeout \in Nat \ {0}
      [] node = "sequential" ->
           /\ {given.first_position, given.second_position} \subseteq Int
           /\ given.second_goal_delay \in Nat /\ given.wait_for_server_timeout \in Nat \ {0}

\* The port is touched only once every parameter of the driver, its own among them, has been
\* found valid: a wrong configuration never reaches the firmware
\* (test_prismatic_joint_position_serial_driver.py:108).
PortNeedsValidParameters ==
  port # "untouched" => node = "driver" /\ DriverAccepts(given) /\ SerialAccepts(given)

\* However a driver that was updating its motor ends, by signal or by an exception that
\* leaves a callback, the stop byte is offered before the port is closed, and the process
\* never keeps the port.
MotorToldToStop ==
  [][/\ phase = "running" /\ node = "driver" /\ phase' = "exited" => told_to_stop'
     /\ phase' = "exited" => port' # "open"]_vars
==============================================================================
