--------------------------- MODULE SingleGoalClient ---------------------------
(***************************************************************************)
(* The one-goal example client, src/joint_position_controller_client.cpp,   *)
(* and the main() of its node, which spins until the goal is answered and    *)
(* then until its result is there.  The node's callbacks only log.           *)
(***************************************************************************)
EXTENDS Naturals

CONSTANTS
  NoGoal,  \* no return code yet
  goal     \* the one goal of this client

VARIABLES
  main,    \* main(): "waiting" for the server, "requesting", "awaiting" the result, "exited"
  ret,     \* what main() returns, NoGoal before
  requests, responses, result_requests, results   \* in flight, shared with other clients

Init == main = "waiting" /\ ret = NoGoal

Finish(code) == main' = "exited" /\ ret' = code

\* Mutant: a result of any kind counts as success.
ExitCode_AnyResult(code) == 0

ExitCode(code) == IF code = "succeeded" THEN 0 ELSE 1

\* The server answered in time: async_send_goal().
Start ==
  /\ main = "waiting"
  /\ main' = "requesting"
  /\ requests' = requests \cup {goal}
  /\ UNCHANGED <<ret, responses, result_requests, results>>

ServerNotAvailable ==
  /\ main = "waiting"
  /\ Finish(1)
  /\ UNCHANGED <<requests, responses, result_requests, results>>

\* goal_future is ready with a handle: rclcpp_action asks for the result.
GoalAccepted ==
  /\ main = "requesting"
  /\ [goal |-> goal, accepted |-> TRUE] \in responses
  /\ responses' = responses \ {[goal |-> goal, accepted |-> TRUE]}
  /\ result_requests' = result_requests \cup {goal}
  /\ main' = "awaiting"
  /\ UNCHANGED <<ret, requests, results>>

GoalRejected ==
  /\ main = "requesting"
  /\ [goal |-> goal, accepted |-> FALSE] \in responses
  /\ responses' = responses \ {[goal |-> goal, accepted |-> FALSE]}
  /\ Finish(1)
  /\ UNCHANGED <<requests, result_requests, results>>

\* result_future is ready.
Result(code) ==
  /\ main = "awaiting"
  /\ [goal |-> goal, code |-> code] \in results
  /\ results' = results \ {[goal |-> goal, code |-> code]}
  /\ Finish(ExitCode(code))
  /\ UNCHANGED <<requests, responses, result_requests>>

\* SIGINT ends either spin; the goal is not canceled.
Interrupted ==
  /\ main \in {"requesting", "awaiting"}
  /\ Finish(1)
  /\ UNCHANGED <<requests, responses, result_requests, results>>

Spin ==
  \/ GoalAccepted
  \/ GoalRejected
  \/ \E code \in {"succeeded", "aborted", "canceled", "unknown"} : Result(code)

Next == Start \/ ServerNotAvailable \/ Spin \/ Interrupted
==============================================================================
