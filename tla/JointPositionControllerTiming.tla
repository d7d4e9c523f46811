-------------------- MODULE JointPositionControllerTiming --------------------
(***************************************************************************)
(* The action server with a scheduling assumption: an iteration of the loop *)
(* of execute(), sleep included, takes at most MaxLag on the node clock, and *)
(* an accepted goal starts before the clock moves.  The bounds on how long  *)
(* a goal drives the joint, and drives it blind, follow from it.            *)
(***************************************************************************)
EXTENDS JointPositionControllerServer

CONSTANTS
  MaxLag,         \* from one this->now() of the loop to the next
  RequestHorizon  \* no goal is accepted after this time, so that MaxTime cuts none short

ASSUME LagAssumption == MaxLag \in Nat \ {0} /\ RequestHorizon \in Nat

\* The thread is between its first instruction in the loop and the end of the goal.
Running(g) == pc[g] \in {"loop", "read", "check", "converge", "feedback"}

\* When the iteration the thread is in, or sleeps after, began.
IterationStart(g) == IF now[g] >= goal_start_time[g] THEN now[g] ELSE goal_start_time[g]

Prompt ==
  \A g \in Goals :
    /\ pc[g] \notin {"reserved", "start"}
    /\ Running(g) => clock - IterationStart(g) < MaxLag

TimedTick == Prompt /\ Tick

TimedStep == Step /\ (has_active_goal' => has_active_goal \/ clock <= RequestHorizon)

TimedNext == TimedStep \/ TimedTick

TimedSpec == Init /\ [][TimedNext]_vars

TimedFairSpec == TimedSpec /\ Fairness /\ WF_vars(TimedTick)

-----------------------------------------------------------------------------
\* A goal is driven for goal_timeout and two iterations of the loop at most: the one
\* whose check comes just in time and the one that notices (281-297).
GoalDeadline ==
  \A g \in Goals : Running(g) => clock <= goal_start_time[g] + goal_timeout + 2 * MaxLag

\* The joint is driven without a measurement for joint_state_timeout and two iterations
\* at most, counted from the last valid measurement and including the wait for the
\* first iteration after handle_goal() found the measurement fresh (261-278, 440).
BlindTime ==
  \A g \in Goals : Running(g) => clock <= last_joint_state_time + joint_state_timeout + 2 * MaxLag

\* What the wait for the next feedback of g counts from.
LastFeedback(g) ==
  IF last_feedback_time[g] >= goal_start_time[g] THEN last_feedback_time[g] ELSE goal_start_time[g]

\* While a goal runs its client does not wait for feedback longer than the period and two
\* iterations, the first feedback included, whatever the clock said when the node
\* started: the period counts in whole iterations (212, 348).
FeedbackBound ==
  \A g \in Goals : Running(g) => clock < LastFeedback(g) + feedback_period + 2 * MaxLag

\* Every accepted goal ends with a result, unless the node is shut down: no answer of the
\* environment (measurement, cancel, next goal) is needed, only the clock.
GoalTerminates ==
  \A g \in Goals : (status[g] = "accepted") ~> (status[g] \in Terminal \/ ~rclcpp_ok)
==============================================================================
