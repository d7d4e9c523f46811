---------------------------- MODULE MCSerialSystem ----------------------------
(***************************************************************************)
(* Instances of the serial driver: a rising calibration, where the sensor   *)
(* value grows with the position, and a falling one.                        *)
(***************************************************************************)
EXTENDS SerialSystem

\* The whole range, one value beyond each end, and what is not a position.
MCTargets == {lower_limit - 1, lower_limit, lower_limit + 1, upper_limit, upper_limit + 1, NaN}

\* The joint never leaves the range of the sensor.
MCInRange == (lower_ir_value..upper_ir_value) \cup (upper_ir_value..lower_ir_value)

\* It may, by one on each side.
MCBeyond == MCInRange \cup {ir0 - 1 : ir0 \in MCInRange} \cup {ir0 + 1 : ir0 \in MCInRange}

MCFallingSlope == -1
==============================================================================
