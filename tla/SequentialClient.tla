--------------------------- MODULE SequentialClient ---------------------------
(***************************************************************************)
(* The two-goal example client,                                            *)
(* src/joint_position_controller_client_single_goal_sequential.cpp, and the *)
(* main() of its node.  One executor thread runs the timer and the action  *)
(* callbacks one at a time.  A goal is named by its label: no label is sent *)
(* twice.  requests, responses, cancels, result_requests and results hold   *)
(* what rclcpp_action has in flight; its services neither lose nor order it. *)
(***************************************************************************)
EXTENDS Naturals

CONSTANT NoGoal   \* a reset handle, an empty optional

Labels == {"first_goal", "second_goal"}
ResultCodes == {"succeeded", "aborted", "canceled", "unknown"}

ASSUME NoGoalAssumption == NoGoal \notin Labels /\ NoGoal \notin {0, 1}

VARIABLES
  main,                      \* main(): "waiting" for the server, "spinning", "exited"
  ret,                       \* what main() returns, NoGoal before
  timer_armed,               \* second_goal_timer_
  current_goal_handle, current_goal_label,
  pending_goal,              \* pending_goal_position_ and pending_goal_label_
  cancel_in_progress, goal_request_in_progress,
  completion,                \* completion_promise_: NoGoal until complete_once()
  requests, responses, cancels, result_requests, results

clientVars  == <<main, ret, timer_armed, current_goal_handle, current_goal_label,
                 pending_goal, cancel_in_progress, goal_request_in_progress, completion>>
networkVars == <<requests, responses, cancels, result_requests, results>>

ClientInit ==
  /\ main = "waiting" /\ ret = NoGoal
  /\ timer_armed = FALSE
  /\ current_goal_handle = NoGoal /\ current_goal_label = NoGoal
  /\ pending_goal = NoGoal
  /\ cancel_in_progress = FALSE /\ goal_request_in_progress = FALSE
  /\ completion = NoGoal
  /\ requests = {} /\ responses = {} /\ cancels = {} /\ result_requests = {} /\ results = {}

\* spin_until_future_complete() runs callbacks one at a time while the future is pending.
Spinning == main = "spinning" /\ completion = NoGoal

SendGoal(label) ==
  /\ current_goal_label' = label
  /\ goal_request_in_progress' = TRUE
  /\ requests' = requests \cup {label}

\* Mutants: an empty optional is used; the handle is not looked at; any goal is the last.
HasPending_Assumed == TRUE
NoActiveGoal_Assumed == TRUE
IsSecond_Assumed == TRUE

HasPending   == pending_goal # NoGoal
NoActiveGoal == current_goal_handle = NoGoal
IsSecond     == current_goal_label = "second_goal"

CompleteOnce(code) == completion' = IF completion = NoGoal THEN code ELSE completion

\* The second half of request_goal_change(): queue the target, cancel the active goal once.
ReplaceActive(handle, label) ==
  /\ pending_goal' = label
  /\ cancel_in_progress' = TRUE
  /\ cancels' = IF cancel_in_progress THEN cancels ELSE cancels \cup {handle}

\* Mutant: no return after the next goal is sent.
SendPending_NoReturn ==
  HasPending /\ pending_goal' = NoGoal /\ SendGoal(pending_goal) /\ CompleteOnce(1)

\* The goal that waited is next, and the callback returns.
SendPending ==
  HasPending /\ pending_goal' = NoGoal /\ SendGoal(pending_goal) /\ UNCHANGED completion

NothingSent == UNCHANGED <<pending_goal, current_goal_label, requests>>

ForgetGoal_KeepsHandle == cancel_in_progress' = FALSE /\ UNCHANGED current_goal_handle   \* mutant

ForgetGoal == cancel_in_progress' = FALSE /\ current_goal_handle' = NoGoal

-----------------------------------------------------------------------------
\* main(): the server answered in time; start() sends the first goal and arms the timer.
Start ==
  /\ main = "waiting"
  /\ main' = "spinning"
  /\ SendGoal("first_goal")
  /\ timer_armed' = TRUE
  /\ UNCHANGED <<ret, current_goal_handle, pending_goal, cancel_in_progress, completion,
                 responses, cancels, result_requests, results>>

\* main(): no server within wait_for_server_timeout.
ServerNotAvailable ==
  /\ main = "waiting"
  /\ main' = "exited" /\ ret' = 1
  /\ UNCHANGED <<timer_armed, current_goal_handle, current_goal_label, pending_goal,
                 cancel_in_progress, goal_request_in_progress, completion, networkVars>>

\* The one-shot timer asks for the second target: request_goal_change().
SecondGoalTimer ==
  /\ Spinning
  /\ timer_armed /\ timer_armed' = FALSE
  /\ \/ /\ NoActiveGoal /\ goal_request_in_progress
        /\ pending_goal' = "second_goal"
        /\ UNCHANGED <<current_goal_label, goal_request_in_progress, requests, cancel_in_progress, cancels>>
     \/ /\ NoActiveGoal /\ ~goal_request_in_progress
        /\ SendGoal("second_goal")
        /\ UNCHANGED <<pending_goal, cancel_in_progress, cancels>>
     \/ /\ ~NoActiveGoal
        /\ ReplaceActive(current_goal_handle, "second_goal")
        /\ UNCHANGED <<current_goal_label, goal_request_in_progress, requests>>
  /\ UNCHANGED <<main, ret, current_goal_handle, completion, responses, result_requests, results>>

\* goal_response_cb() of an accepted goal; rclcpp_action then asks for its result.
GoalAccepted(g) ==
  /\ Spinning
  /\ [goal |-> g, accepted |-> TRUE] \in responses
  /\ responses' = responses \ {[goal |-> g, accepted |-> TRUE]}
  /\ goal_request_in_progress' = FALSE
  /\ current_goal_handle' = g
  /\ IF HasPending
     THEN ReplaceActive(g, pending_goal)
     ELSE UNCHANGED <<pending_goal, cancel_in_progress, cancels>>
  /\ result_requests' = result_requests \cup {g}
  /\ UNCHANGED <<main, ret, timer_armed, current_goal_label, completion, requests, results>>

\* goal_response_cb() of a rejected goal: the pending goal, or the end.
GoalRejected(g) ==
  /\ Spinning
  /\ [goal |-> g, accepted |-> FALSE] \in responses
  /\ responses' = responses \ {[goal |-> g, accepted |-> FALSE]}
  /\ current_goal_handle' = NoGoal
  /\ \/ SendPending
     \/ /\ ~HasPending /\ NothingSent
        /\ goal_request_in_progress' = FALSE
        /\ CompleteOnce(1)
  /\ UNCHANGED <<main, ret, timer_armed, cancel_in_progress, cancels, result_requests, results>>

\* result_cb(): give up on an unexpected code; otherwise the pending goal is next, and
\* the second goal decides the return code.
ResultCb(g, code) ==
  /\ Spinning
  /\ [goal |-> g, code |-> code] \in results
  /\ results' = results \ {[goal |-> g, code |-> code]}
  /\ ForgetGoal
  /\ \/ /\ code = "unknown" /\ NothingSent
        /\ CompleteOnce(1)
        /\ UNCHANGED goal_request_in_progress
     \/ code # "unknown" /\ SendPending
     \/ /\ code # "unknown" /\ ~HasPending /\ NothingSent
        /\ IF IsSecond
           THEN CompleteOnce(IF code = "succeeded" THEN 0 ELSE 1)
           ELSE UNCHANGED completion
        /\ UNCHANGED goal_request_in_progress
  /\ UNCHANGED <<main, ret, timer_armed, responses, cancels, result_requests>>

\* main(): the future is ready.
Exit ==
  /\ main = "spinning" /\ completion # NoGoal
  /\ main' = "exited" /\ ret' = completion
  /\ UNCHANGED <<timer_armed, current_goal_handle, current_goal_label, pending_goal,
                 cancel_in_progress, goal_request_in_progress, completion, networkVars>>

\* main(): SIGINT ends the spin before the future is ready.
Interrupted ==
  /\ Spinning
  /\ main' = "exited" /\ ret' = 1
  /\ UNCHANGED <<timer_armed, current_goal_handle, current_goal_label, pending_goal,
                 cancel_in_progress, goal_request_in_progress, completion, networkVars>>

ClientCallback ==
  \/ SecondGoalTimer
  \/ \E g \in Labels :
       GoalAccepted(g) \/ GoalRejected(g) \/ \E code \in ResultCodes : ResultCb(g, code)

ClientNext == Start \/ ServerNotAvailable \/ ClientCallback \/ Exit \/ Interrupted
==============================================================================
