------------------------------ MODULE ClosedLoop ------------------------------
(***************************************************************************)
(* The whole loop: the action server, taken at the level of CommandSource,  *)
(* commands the serial driver over the command topic and sees the joint     *)
(* through the JointState topic; the firmware runs in cycles (CycleSpec).    *)
(* Server and driver each have a notion of being there, position_tolerance  *)
(* and convergence_threshold, and neither knows the other's.                *)
(***************************************************************************)
EXTENDS SerialSystem

CONSTANTS Limits, Tolerance

\* "These limits must match the controlled joint limits" (server example, line 6).
ASSUME LoopAssumption == Limits \subseteq lower_limit..upper_limit /\ Tolerance \in Nat

VARIABLES
  goal, command,
  measured,    \* the measurement the server works with, older than joint_state
  in_flight    \* a command the timer has read and the driver has not received

loopVars == <<vars, goal, command, measured, in_flight>>

Server == INSTANCE CommandSource WITH Measurable <- lower_limit..upper_limit

LoopInit == Init /\ Server!Init /\ measured = None /\ in_flight = None

-----------------------------------------------------------------------------
\* handle_goal() wants a measurement.  Only the driver publishes JointState here, so
\* measurements are valid from the first one on.
AcceptGoal ==
  /\ measured # None
  /\ Server!Accept
  /\ UNCHANGED <<vars, measured, in_flight>>

ChaseGoal == Server!Chase /\ UNCHANGED <<vars, measured, in_flight>>

\* Success, cancel and timeout hold the measurement.
EndGoal(success) ==
  /\ Server!End(success, measured)
  /\ UNCHANGED <<vars, measured, in_flight>>

\* joint_state_cb().
Measure ==
  /\ measured # joint_state
  /\ measured' = joint_state
  /\ UNCHANGED <<vars, goal, command, in_flight>>

TimerPublishes_ActiveOnly ==   \* mutant
  /\ goal # None /\ command # None /\ in_flight = None
  /\ in_flight' = command
  /\ UNCHANGED <<vars, goal, command, measured>>

\* pos_cmd_timer_cb() reads and publishes; one command is under way at a time.
TimerPublishes ==
  /\ command # None /\ in_flight = None
  /\ in_flight' = command
  /\ UNCHANGED <<vars, goal, command, measured>>

\* The driver receives the command.
Deliver ==
  /\ in_flight # None
  /\ TargetRequested(in_flight)
  /\ in_flight' = None
  /\ UNCHANGED <<goal, command, measured>>

\* The driver, until it is shut down, and the firmware.
Backend ==
  /\ (Update /\ UNCHANGED <<firmwareVars, requested>>) \/ Cycle("frame") \/ Cycle("garbage")
  /\ UNCHANGED <<goal, command, measured, in_flight>>

\* The driver process dies, or is shut down and offers the stop byte, and a new one starts:
\* it has no target, opening the port discards what was received, and what was still to be
\* sent may be lost.  The motor goes on.
DriverRestarts ==
  /\ target_position' = None /\ target_position_reached' = FALSE /\ filtered_current_pos' = None
  /\ requested' = None
  /\ incoming' = <<>>
  /\ outgoing' = <<>> \/ UNCHANGED outgoing \/ Written("0")
  /\ UNCHANGED <<joint_state, port_open, firmwareVars, goal, command, measured, in_flight>>

LoopNext ==
  \/ AcceptGoal \/ ChaseGoal \/ EndGoal(TRUE) \/ EndGoal(FALSE)
  \/ Measure \/ TimerPublishes \/ Deliver \/ Backend \/ DriverRestarts

LoopSpec == LoopInit /\ [][LoopNext]_loopVars

(* The timer, the topics, driver and firmware go on; the thread of a goal    *)
(* gives the timer its target and notices that it is there.                 *)
LoopFairness ==
  /\ WF_loopVars(Backend)
  /\ WF_loopVars(Measure) /\ WF_loopVars(TimerPublishes) /\ WF_loopVars(Deliver)
  /\ WF_loopVars(ChaseGoal) /\ WF_loopVars(EndGoal(TRUE))

FairLoopSpec == LoopSpec /\ LoopFairness

-----------------------------------------------------------------------------
\* With this package's driver as the backend the server only ever commands what the
\* driver takes: a hold is a position the driver measured, inside its limits, although
\* the server stores holds without comparing them with anything (cpp:290-292).
NothingRefused == \A p \in {command, in_flight} : p # None => InLimits(p)

\* No goal is active, the driver has the hold and considers it reached.
Held == goal = None /\ requested = command /\ command # None /\ target_position_reached

\* The joint is held where the last goal left it: at most one threshold for a hold the
\* driver did not take because it was close to its target, and one for where it stops.
HeldNearTheHold == Held => Distance(CurrentPos(ir), command) <= 2 * convergence_threshold

\* A step in which line and driver work.
LoopWorks == LineWorks /\ ~DriverRestarts

\* A goal that ends has succeeded.
OnlySuccess == goal # None /\ goal' = None => EndGoal(TRUE)

\* A goal that nothing ends but success succeeds once line and driver work, whatever
\* goals, cancels, failures and restarts came before: the driver always brings the joint where the
\* server is satisfied.  It needs position_tolerance >= 2 * convergence_threshold.
GoalConverges ==
  <>[][LoopWorks /\ OnlySuccess]_loopVars =>
    (goal # None ~> goal = None)

\* When goals are over the joint comes to rest near the hold and stays there, although it
\* may still be moving, the old target may be on its way and a byte may have been lost
\* when the last goal ended, and although a driver that is started again knows no target: the
\* server goes on publishing (cpp:50-52).
HoldIsReached ==
  <>[](goal = None /\ command # None) /\ <>[][LoopWorks]_loopVars => <>[]Held

\* config/example_prismatic_joint_position_serial_driver.yaml:21: "Stop when the measured
\* position is within this distance of the target."
StopsWithinThreshold ==
  requested # None /\ target_position_reached =>
    Distance(CurrentPos(ir), requested) <= convergence_threshold
==============================================================================
