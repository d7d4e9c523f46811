----------------------------- MODULE SerialDriver -----------------------------
(***************************************************************************)
(* The serial backend,                                                     *)
(* joint_position_controller_server/prismatic_joint_position_serial_driver.py. *)
(* One executor thread runs the topic callback and the periodic update.     *)
(* Positions and sensor values are integers in millimetres; a frame of the  *)
(* firmware is in incoming from its newline on, so that the bytes of an     *)
(* unfinished one (_serial_read_buffer) are not there yet.                  *)
(***************************************************************************)
EXTENDS Integers, Sequences

CONSTANTS
  None, NaN,
  Garbage,               \* a line that is not "<text>,<integer>"
  lower_limit, upper_limit, lower_ir_value, upper_ir_value,
  slope,                 \* _ir_value_to_position_slope
  convergence_threshold,
  low_pass_filter_coeff, \* "zero", "partial" or "one"
  MaxBytes               \* command bytes the serial line takes before a write fails

\* What __init__() enforces, for a calibration whose slope is an integer.
ASSUME DriverParameters ==
  /\ {lower_limit, upper_limit, lower_ir_value, upper_ir_value, slope} \subseteq Int
  /\ lower_limit < upper_limit
  /\ lower_ir_value # upper_ir_value
  /\ upper_limit - lower_limit = slope * (upper_ir_value - lower_ir_value)
  /\ convergence_threshold \in Nat
  /\ low_pass_filter_coeff \in {"zero", "partial", "one"}
  /\ MaxBytes \in Nat \ {0}

ASSUME ValueAssumption == None \notin Int /\ NaN \notin Int /\ None # NaN

VARIABLES
  target_position, target_position_reached,
  filtered_current_pos,
  joint_state,           \* last position published, None before the first
  port_open,
  incoming,              \* frames received and not yet read
  outgoing               \* bytes written and not yet taken by the firmware

driverVars == <<target_position, target_position_reached, filtered_current_pos, joint_state, port_open>>

MotorStates == {"0", "1", "2"}   \* stopped, towards the upper limit, towards the lower limit

Distance(x, y) == IF x >= y THEN x - y ELSE y - x

DriverInit ==
  /\ target_position = None /\ target_position_reached = FALSE
  /\ filtered_current_pos = None
  /\ joint_state = None
  /\ port_open = TRUE
  /\ incoming = <<>> /\ outgoing = <<>>

-----------------------------------------------------------------------------
InLimits_LowerOnly(p) == p # NaN /\ lower_limit <= p   \* mutant

\* Mutant: no isfinite(), and NaN is neither below nor above a limit.
InLimits_NaNPasses(p) == p = NaN \/ (lower_limit <= p /\ p <= upper_limit)

InLimits(p) == p # NaN /\ lower_limit <= p /\ p <= upper_limit

\* Mutant: compared with where the joint is.
IsNewTarget_FromMeasurement(p) ==
  {target_position, filtered_current_pos} \subseteq Int =>
    Distance(p, filtered_current_pos) > convergence_threshold

\* A target that differs from the stored one by more than the threshold.
IsNewTarget(p) ==
  target_position # None => Distance(p, target_position) > convergence_threshold

\* Mutant: the flag of the old target survives.
TargetPosCallback_KeepsFlag(p) ==
  /\ InLimits(p)
  /\ IsNewTarget(p)
  /\ target_position' = p
  /\ UNCHANGED <<target_position_reached, filtered_current_pos, joint_state, port_open,
                 incoming, outgoing>>

\* _target_pos_callback(); the other targets change nothing.
TargetPosCallback(p) ==
  /\ InLimits(p)
  /\ IsNewTarget(p)
  /\ target_position' = p
  /\ target_position_reached' = FALSE
  /\ UNCHANGED <<filtered_current_pos, joint_state, port_open, incoming, outgoing>>

-----------------------------------------------------------------------------
(* _update(): read, convert, filter, publish, then command.  An update that *)
(* finds the port closed, nothing to read or a read that fails is no step.   *)

Readable == {i \in DOMAIN incoming : incoming[i] # Garbage}

\* _read(): the last readable line of what has arrived.
Latest == incoming[CHOOSE i \in Readable : \A j \in Readable : j <= i]

InSensorRange_NoMaximum(ir) ==   \* mutant
  ir >= IF lower_ir_value < upper_ir_value THEN lower_ir_value ELSE upper_ir_value

InSensorRange(ir) == ir \in lower_ir_value..upper_ir_value \/ ir \in upper_ir_value..lower_ir_value

IsValid(frame) == frame.status \in MotorStates /\ InSensorRange(frame.ir)

CurrentPos_WrongOrigin(ir) == slope * (ir - upper_ir_value) + lower_limit   \* mutant

CurrentPos(ir) == slope * (ir - lower_ir_value) + lower_limit

\* The low-pass filter: the old value, the new one, or anything between.
Filtered(pos) ==
  IF filtered_current_pos = None \/ low_pass_filter_coeff = "one" THEN {pos}
  ELSE IF low_pass_filter_coeff = "zero" THEN {filtered_current_pos}
  ELSE (filtered_current_pos..pos) \cup (pos..filtered_current_pos)

\* Mutant: the directions swapped.
MotorCommand_Swapped(pos) ==
  IF Distance(target_position, pos) <= convergence_threshold THEN "0"
  ELSE IF target_position > pos THEN "2" ELSE "1"

MotorCommand(pos) ==
  IF Distance(target_position, pos) <= convergence_threshold THEN "0"
  ELSE IF target_position > pos THEN "1" ELSE "2"

\* serial.write() takes the byte ...
Written(cmd) == Len(outgoing) < MaxBytes /\ outgoing' = Append(outgoing, cmd)

\* Mutant: reached before the write is known to have worked.
SendCommand_MarksFirst(cmd) ==
  /\ Written(cmd) \/ UNCHANGED outgoing
  /\ target_position_reached' = (cmd = "0")

\* ... or raises or takes nothing; the next update tries again.
SendCommand(cmd) ==
  \/ Written(cmd) /\ target_position_reached' = (cmd = "0")
  \/ UNCHANGED <<outgoing, target_position_reached>>

\* There is a target inside the limits that was not reached yet.
Pursuing == target_position # None /\ InLimits(target_position) /\ ~target_position_reached

\* The motor is told only what its status does not already say.
Command(status, pos) ==
  \/ ~Pursuing /\ UNCHANGED <<outgoing, target_position_reached>>
  \/ /\ Pursuing /\ MotorCommand(pos) = status
     /\ target_position_reached' = (status = "0")
     /\ UNCHANGED outgoing
  \/ /\ Pursuing /\ MotorCommand(pos) # status
     /\ SendCommand(MotorCommand(pos))

\* Nothing readable, an unknown status or a sensor value out of range: read and dropped.
UpdateDropped ==
  /\ port_open /\ incoming # <<>>
  /\ incoming' = <<>>
  /\ Readable # {} => ~IsValid(Latest)
  /\ UNCHANGED <<driverVars, outgoing>>

UpdateMeasured ==
  /\ port_open /\ Readable # {}
  /\ incoming' = <<>>
  /\ IsValid(Latest)
  /\ \E pos \in Filtered(CurrentPos(Latest.ir)) :
       /\ filtered_current_pos' = pos
       /\ joint_state' = pos
       /\ Command(Latest.status, pos)
  /\ UNCHANGED <<target_position, port_open>>

Update == UpdateDropped \/ UpdateMeasured

\* destroy_node(): the stop byte is written, or not, and the port is closed.
DestroyNode ==
  /\ port_open
  /\ port_open' = FALSE
  /\ Written("0") \/ UNCHANGED outgoing
  /\ UNCHANGED <<target_position, target_position_reached, filtered_current_pos, joint_state, incoming>>
==============================================================================
