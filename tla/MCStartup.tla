------------------------------ MODULE MCStartup ------------------------------
(***************************************************************************)
(* Every valid configuration below with at most one field replaced by a      *)
(* value of the other kinds: negative, zero, small, NaN or infinite; a blank *)
(* or empty name; a choice the serial port does not know.                    *)
(***************************************************************************)
EXTENDS Startup

Values == {-1, 0, 1, 2, 3, NaN, Infinity}

Variants(base, numbers, names, choices) ==
  {base}
    \cup {[base EXCEPT ![f] = v] : f \in numbers, v \in Values}
    \cup {[base EXCEPT ![f] = v] : f \in names, v \in Names}
    \cup {[base EXCEPT ![f] = "other"] : f \in choices}

ServerNumbers ==
  {"lower_limit", "upper_limit", "position_tolerance", "command_publication_frequency",
   "feedback_publication_frequency", "execution_loop_frequency", "goal_timeout",
   "joint_state_timeout"}

MCServerParameters ==
  Variants([f \in ServerNumbers \cup {"joint_name", "topics"} |->
              IF f = "lower_limit" THEN 1
              ELSE IF f \in {"joint_name", "topics"} THEN "text" ELSE 2],
           ServerNumbers, {"joint_name", "topics"}, {})

MCDriverParameters ==
  Variants([lower_limit |-> 0, upper_limit |-> 2, lower_ir_value |-> 1, upper_ir_value |-> 3,
            convergence_threshold |-> 1, execution_loop_frequency |-> 2,
            low_pass_filter_coeff |-> 1, joint_name |-> "text", topics |-> "text",
            port |-> "text", baudrate |-> 1,
            data_bits |-> "known", flow_control |-> "known", parity |-> "known", stop_bits |-> "known"],
           {"lower_limit", "upper_limit", "lower_ir_value", "upper_ir_value",
            "convergence_threshold", "execution_loop_frequency", "low_pass_filter_coeff"},
           {"joint_name", "topics", "port"},
           {"data_bits", "flow_control", "parity", "stop_bits"})
    \cup {[lower_limit |-> 0, upper_limit |-> 2, lower_ir_value |-> 3, upper_ir_value |-> 1,
            convergence_threshold |-> 0, execution_loop_frequency |-> 1,
            low_pass_filter_coeff |-> c, joint_name |-> "text", topics |-> "text",
            port |-> "text", baudrate |-> b,
            data_bits |-> "known", flow_control |-> "known", parity |-> "known", stop_bits |-> "known"]
           : b \in {-1, 0, 1}, c \in {0, 100, 101}}

MCSingleParameters ==
  Variants([action_name |-> "text", position |-> 1, wait_for_server_timeout |-> 1],
           {"position", "wait_for_server_timeout"}, {"action_name"}, {})

MCSequentialParameters ==
  Variants([action_name |-> "text", first_position |-> 1, second_position |-> 2,
            second_goal_delay |-> 1, wait_for_server_timeout |-> 1],
           {"first_position", "second_position", "second_goal_delay", "wait_for_server_timeout"},
           {"action_name"}, {})
==============================================================================
