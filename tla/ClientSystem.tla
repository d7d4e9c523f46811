----------------------------- MODULE ClientSystem -----------------------------
(***************************************************************************)
(* Both example clients at the action server they are written for, taken at *)
(* the level of SingleGoalAction, with the goal, cancel and result services  *)
(* of rclcpp_action between them: the clients compete for the one slot.      *)
(***************************************************************************)
EXTENDS SequentialClient, Integers

CONSTANTS Limits, Measurable, Tolerance, None,
  first_position, second_position, only_position

VARIABLES
  slot, status, target, verdict, command,
  single_main, single_ret   \* main() of the one-goal client

Goals == Labels \cup {"only_goal"}

serverVars == <<slot, status, target, verdict, command>>
singleVars == <<single_main, single_ret>>
vars == <<clientVars, networkVars, serverVars, singleVars>>

Server == INSTANCE SingleGoalAction
Single == INSTANCE SingleGoalClient WITH
  goal <- "only_goal", main <- single_main, ret <- single_ret

position ==
  [first_goal |-> first_position, second_goal |-> second_position, only_goal |-> only_position]

Init == ClientInit /\ Single!Init /\ Server!Init

-----------------------------------------------------------------------------
(* The services: a request is taken by the server's executor, the answer is *)
(* sent by the same step.                                                   *)

ServeGoalAccept(g) ==
  /\ g \in requests
  /\ Server!Accept(g) /\ target'[g] = position[g]
  /\ requests' = requests \ {g}
  /\ responses' = responses \cup {[goal |-> g, accepted |-> TRUE]}
  /\ UNCHANGED <<clientVars, singleVars, cancels, result_requests, results>>

ServeGoalReject(g) ==
  /\ g \in requests
  /\ Server!Reject(g)
  /\ requests' = requests \ {g}
  /\ responses' = responses \cup {[goal |-> g, accepted |-> FALSE]}
  /\ UNCHANGED <<clientVars, singleVars, cancels, result_requests, results>>

\* rclcpp_action turns the cancel of a goal that is over down without asking the node.
ServeCancel(g) ==
  /\ g \in cancels
  /\ cancels' = cancels \ {g}
  /\ \/ Server!Cancel(g)
     \/ status[g] \in Server!Terminal /\ UNCHANGED serverVars
  /\ UNCHANGED <<clientVars, singleVars, requests, responses, result_requests, results>>

\* The result is sent when the goal is over, or UNKNOWN if it has expired meanwhile.
ServeResult(g) ==
  /\ g \in result_requests
  /\ status[g] \in Server!Terminal
  /\ result_requests' = result_requests \ {g}
  /\ \E code \in {status[g], "unknown"} : results' = results \cup {[goal |-> g, code |-> code]}
  /\ UNCHANGED <<clientVars, singleVars, serverVars, requests, responses, cancels>>

Settle(g) ==
  /\ \E outcome \in Server!Terminal, hold \in Measurable \cup {None} : Server!Settle(g, outcome, hold)
  /\ UNCHANGED <<clientVars, singleVars, networkVars>>

Begin(g)  == Server!Start(g)  /\ UNCHANGED <<clientVars, singleVars, networkVars>>
Chase(g)  == Server!Chase(g)  /\ UNCHANGED <<clientVars, singleVars, networkVars>>
Report(g) == Server!Report(g) /\ UNCHANGED <<clientVars, singleVars, networkVars>>

ServerNext ==
  \E g \in Goals :
    \/ ServeGoalAccept(g) \/ ServeGoalReject(g) \/ ServeCancel(g) \/ ServeResult(g)
    \/ Begin(g) \/ Chase(g) \/ Settle(g) \/ Report(g)

Sequential(A) == A /\ UNCHANGED <<serverVars, singleVars>>
OneGoal(A)    == A /\ UNCHANGED <<serverVars, clientVars, cancels>>

\* Both processes are over.
Exited == main = "exited" /\ single_main = "exited" /\ UNCHANGED vars

Next == Sequential(ClientNext) \/ OneGoal(Single!Next) \/ ServerNext \/ Exited

Spec == Init /\ [][Next]_vars

\* Requests are answered, callbacks run, and the server ends every goal it accepted
\* (GoalTerminates of JointPositionControllerTiming).
Fairness ==
  /\ WF_vars(Sequential(ClientCallback \/ Exit))
  /\ WF_vars(Sequential(SecondGoalTimer))
  /\ WF_vars(OneGoal(Single!Spin))
  /\ \A g \in Goals :
       /\ WF_vars(ServeGoalAccept(g) \/ ServeGoalReject(g))
       /\ WF_vars(ServeResult(g)) /\ WF_vars(Begin(g)) /\ WF_vars(Settle(g)) /\ WF_vars(Report(g))

FairSpec == Spec /\ Fairness

-----------------------------------------------------------------------------
\* Every variable of the clients and of the network has its type.
TypeOK ==
  /\ main \in {"waiting", "spinning", "exited"}
  /\ single_main \in {"waiting", "requesting", "awaiting", "exited"}
  /\ {ret, single_ret, completion} \subseteq {NoGoal, 0, 1}
  /\ timer_armed \in BOOLEAN
  /\ {current_goal_handle, current_goal_label, pending_goal} \subseteq Labels \cup {NoGoal}
  /\ cancel_in_progress \in BOOLEAN /\ goal_request_in_progress \in BOOLEAN
  /\ requests \subseteq Goals /\ cancels \subseteq Labels /\ result_requests \subseteq Goals
  /\ responses \subseteq [goal : Goals, accepted : BOOLEAN]
  /\ results \subseteq [goal : Goals, code : ResultCodes]

\* A request of the sequential client never finds the slot taken by its own earlier goal:
\* it is sent after a result, and the server has freed the slot before it sends one
\* (joint_position_controller_server.cpp:247-249).
RequestFindsFreeSlot == requests \cap Labels # {} => slot \cap Labels = {}

\* The sequential client never keeps two accepted goals alive at once (cpp:246-247 of the
\* client), whatever the order of timer, response, cancel and result.
OneLiveGoal ==
  \A g, h \in Labels :
    {status[g], status[h]} \subseteq {"accepted", "executing", "canceling"} => g = h

\* When the sequential client completes it leaves no goal of its own running in the server
\* and none on its way there, whoever holds the slot now.
NothingLeftRunning == completion # NoGoal => (slot \cup requests) \cap Labels = {}

\* A process returns 0 only if its last goal was reported as succeeded.
ExitCodeSound ==
  /\ ret = 0 => status["second_goal"] = "succeeded"
  /\ single_ret = 0 => status["only_goal"] = "succeeded"

\* Both examples end, however their goals and results cross and whoever is rejected.
ClientsExit ==
  /\ main = "spinning" ~> main = "exited"
  /\ single_main \in {"requesting", "awaiting"} ~> single_main = "exited"
==============================================================================
