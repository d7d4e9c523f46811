----------------------------- MODULE MCClosedLoop -----------------------------
(***************************************************************************)
(* Small instance of the loop for TLC: goals to both ends of the range.     *)
(***************************************************************************)
EXTENDS ClosedLoop

MCTargets == {}
MCLimits == {lower_limit, upper_limit}
MCInRange == (lower_ir_value..upper_ir_value) \cup (upper_ir_value..lower_ir_value)
==============================================================================
