-------------------- MODULE JointPositionControllerServer --------------------
(***************************************************************************)
(* The action server node of src/joint_position_controller_server.cpp: the *)
(* executor thread that runs the ROS callbacks (handle_goal, handle_accepted, *)
(* handle_cancel, joint_state_cb, pos_cmd_timer_cb) and one detached thread *)
(* per accepted goal that runs execute().  The threads share the members   *)
(* protected by mutex_; every critical section is one atomic step here, and *)
(* what a thread does outside the mutex and another thread can observe (the *)
(* clock, the state of the goal handle, a publication) is a step of its own. *)
(*                                                                         *)
(* Positions are integers in units of some resolution; NaN stands for every *)
(* non-finite double.  The node clock is an integer that Tick advances.    *)
(***************************************************************************)
EXTENDS Integers, Sequences

CONSTANTS
  Goals,                \* goal requests, one per goal UUID
  GoalPositions,        \* positions a request may carry
  JointStateMsgs,       \* JointState messages the subscription may deliver
  NaN,                  \* the non-finite double
  joint_name,           \* the entry of JointState that is monitored
  JointNames,           \* the joint names that occur in messages
  lower_limit, upper_limit, position_tolerance,
  goal_timeout, joint_state_timeout, feedback_period,
  InitialTime,          \* reading of the node clock when the node starts
  MaxTime               \* bound on the clock

Position == Int \cup {NaN}

ASSUME DataAssumption ==
  /\ NaN \notin Int
  /\ GoalPositions \subseteq Position
  /\ JointStateMsgs \subseteq [name : Seq(JointNames), position : Seq(Position)]

\* What declare_and_validate_parameters() enforces before the node exists.
ASSUME ParameterAssumption ==
  /\ lower_limit \in Int /\ upper_limit \in Int /\ lower_limit <= upper_limit
  /\ position_tolerance \in Nat
  /\ goal_timeout \in Nat \ {0}
  /\ joint_state_timeout \in Nat \ {0}
  /\ feedback_period \in Nat \ {0}

ASSUME ClockAssumption == InitialTime \in Nat /\ MaxTime \in Nat

VARIABLES
  clock,                \* this->now()
  rclcpp_ok,            \* rclcpp::ok()
  (* members protected by mutex_ *)
  current_pos, current_pos_is_valid, last_joint_state_time,
  pos_cmd, has_active_goal,
  (* the executor inside pos_cmd_timer_cb *)
  timer_busy, timer_cmd,
  command,              \* last message on command_topic, NaN before the first
  (* goal handles, kept by rclcpp_action *)
  status, target, result,
  (* the threads that run execute(): program counter and locals *)
  pc, goal_start_time, now, snapshot, last_feedback_time, feedback_sent

shared  == <<current_pos, current_pos_is_valid, last_joint_state_time, pos_cmd, has_active_goal>>
joint   == <<current_pos, current_pos_is_valid, last_joint_state_time>>
timer   == <<timer_busy, timer_cmd, command>>
handles == <<status, target, result>>
locals  == <<goal_start_time, now, snapshot, last_feedback_time, feedback_sent>>
world   == <<clock, rclcpp_ok>>
vars    == <<world, shared, timer, handles, pc, locals>>

Terminal == {"succeeded", "canceled", "aborted"}
Statuses == {"unknown", "rejected", "accepted", "executing", "canceling"} \cup Terminal

NoSnapshot == [pos |-> NaN, valid |-> FALSE, time |-> 0]
NoResult   == [outcome |-> "none", final_position |-> NaN]

AbsDiff(x, y) == IF x >= y THEN x - y ELSE y - x

-----------------------------------------------------------------------------
Init ==
  /\ clock = InitialTime /\ rclcpp_ok = TRUE
  /\ current_pos = 0 /\ current_pos_is_valid = FALSE /\ last_joint_state_time = 0
  /\ pos_cmd = NaN /\ has_active_goal = FALSE
  /\ timer_busy = FALSE /\ timer_cmd = NaN /\ command = NaN
  /\ status = [g \in Goals |-> "unknown"]
  /\ target = [g \in Goals |-> NaN]
  /\ result = [g \in Goals |-> NoResult]
  /\ pc     = [g \in Goals |-> "none"]
  /\ goal_start_time    = [g \in Goals |-> 0]
  /\ now                = [g \in Goals |-> 0]
  /\ snapshot           = [g \in Goals |-> NoSnapshot]
  /\ last_feedback_time = [g \in Goals |-> 0]
  /\ feedback_sent      = [g \in Goals |-> FALSE]

-----------------------------------------------------------------------------
(* The executor thread: one callback at a time (MutuallyExclusive group,    *)
(* SingleThreadedExecutor), none once rclcpp::shutdown() was called.        *)

ExecutorFree == rclcpp_ok /\ ~timer_busy

\* Mutant: the slot is not looked at.
Admissible_SlotNotChecked(p) ==
  /\ p # NaN
  /\ lower_limit <= p /\ p <= upper_limit
  /\ current_pos_is_valid
  /\ clock - last_joint_state_time <= joint_state_timeout

\* handle_goal(): finite, inside the limits, slot free, fresh valid measurement.
Admissible(p) ==
  /\ p # NaN
  /\ lower_limit <= p /\ p <= upper_limit
  /\ ~has_active_goal
  /\ current_pos_is_valid
  /\ clock - last_joint_state_time <= joint_state_timeout

HandleGoalAccept(g, p) ==
  /\ ExecutorFree
  /\ status[g] = "unknown"
  /\ Admissible(p)
  /\ has_active_goal' = TRUE
  /\ status' = [status EXCEPT ![g] = "accepted"]
  /\ target' = [target EXCEPT ![g] = p]
  /\ pc' = [pc EXCEPT ![g] = "reserved"]
  /\ UNCHANGED <<world, joint, pos_cmd, timer, result, locals>>

HandleGoalReject(g, p) ==
  /\ ExecutorFree
  /\ status[g] = "unknown"
  /\ ~Admissible(p)
  /\ status' = [status EXCEPT ![g] = "rejected"]
  /\ UNCHANGED <<world, shared, timer, target, result, pc, locals>>

\* handle_accepted(): rclcpp_action has created the executing handle and the
\* callback detaches the thread.
HandleAccepted(g) ==
  /\ ExecutorFree
  /\ pc[g] = "reserved"
  /\ pc' = [pc EXCEPT ![g] = "start"]
  /\ status' = [status EXCEPT ![g] = "executing"]
  /\ UNCHANGED <<world, shared, timer, target, result, locals>>

\* Mutant: the exception is caught where it is thrown.
HandleAcceptedThrows_Caught(g) ==
  /\ ExecutorFree
  /\ pc[g] = "reserved"
  /\ pc' = [pc EXCEPT ![g] = "exited"]
  /\ status' = [status EXCEPT ![g] = "executing"]
  /\ UNCHANGED <<world, shared, timer, target, result, locals>>

\* std::thread may throw: nobody will free the slot, but the exception leaves spin(), and
\* main() shuts the node down.
HandleAcceptedThrows(g) ==
  /\ ExecutorFree
  /\ pc[g] = "reserved"
  /\ pc' = [pc EXCEPT ![g] = "exited"]
  /\ status' = [status EXCEPT ![g] = "executing"]
  /\ rclcpp_ok' = FALSE
  /\ UNCHANGED <<clock, shared, timer, target, result, locals>>

StartThread(g) == HandleAccepted(g) \/ HandleAcceptedThrows(g)

\* handle_cancel() always accepts; rclcpp_action then moves the handle to canceling.
HandleCancel(g) ==
  /\ ExecutorFree
  /\ status[g] = "executing"
  /\ status' = [status EXCEPT ![g] = "canceling"]
  /\ UNCHANGED <<world, shared, timer, target, result, pc, locals>>

\* Mutant: the index of the name is not used.
IsFirstEntry_IgnoresIndex(msg, i) == i = 1 /\ \E j \in DOMAIN msg.name : msg.name[j] = joint_name

\* std::find: the first entry of the message that carries joint_name.
IsFirstEntry(msg, i) ==
  /\ i \in DOMAIN msg.name
  /\ msg.name[i] = joint_name
  /\ \A j \in 1..(i - 1) : msg.name[j] # joint_name

HasPosition(msg, i) == i \in DOMAIN msg.position /\ msg.position[i] # NaN

\* joint_state_cb(): a message without the joint changes nothing (no step); one
\* without a finite position invalidates the measurement but keeps its time.
JointStateCb(msg) ==
  /\ ExecutorFree
  /\ \E i \in DOMAIN msg.name :
       /\ IsFirstEntry(msg, i)
       /\ IF HasPosition(msg, i)
          THEN /\ current_pos' = msg.position[i]
               /\ current_pos_is_valid' = TRUE
               /\ last_joint_state_time' = clock
          ELSE /\ current_pos' = NaN
               /\ current_pos_is_valid' = FALSE
               /\ UNCHANGED last_joint_state_time
  /\ UNCHANGED <<world, pos_cmd, has_active_goal, timer, handles, pc, locals>>

\* Mutant: the timer publishes during goals only.
TimerRead_ActiveOnly ==
  /\ ExecutorFree /\ has_active_goal
  /\ timer_busy' = TRUE
  /\ timer_cmd' = pos_cmd
  /\ UNCHANGED <<world, shared, command, handles, pc, locals>>

\* pos_cmd_timer_cb(): read under the mutex ...
TimerRead ==
  /\ ExecutorFree
  /\ timer_busy' = TRUE
  /\ timer_cmd' = pos_cmd
  /\ UNCHANGED <<world, shared, command, handles, pc, locals>>

\* ... then publish_pos_cmd() outside of it; NaN is not published.
TimerPublish ==
  /\ timer_busy
  /\ timer_busy' = FALSE
  /\ timer_cmd' = NaN
  /\ command' = IF timer_cmd = NaN THEN command ELSE timer_cmd
  /\ UNCHANGED <<world, shared, handles, pc, locals>>

-----------------------------------------------------------------------------
(* execute(goal_handle): the detached thread of goal g.                     *)

Goto(g, from, to) == pc[g] = from /\ pc' = [pc EXCEPT ![g] = to]

ExecStart(g) ==
  /\ Goto(g, "start", "loop")
  /\ goal_start_time' = [goal_start_time EXCEPT ![g] = clock]
  /\ UNCHANGED <<world, shared, timer, handles, now, snapshot, last_feedback_time, feedback_sent>>

\* while(rclcpp::ok()): now{this->now()}
ExecReadClock(g) ==
  /\ rclcpp_ok
  /\ Goto(g, "loop", "read")
  /\ now' = [now EXCEPT ![g] = clock]
  /\ UNCHANGED <<world, shared, timer, handles, goal_start_time, snapshot, last_feedback_time, feedback_sent>>

\* The loop ends because of shutdown: no result, and the slot stays taken.
ExecExit(g) ==
  /\ ~rclcpp_ok
  /\ Goto(g, "loop", "exited")
  /\ UNCHANGED <<world, shared, timer, handles, locals>>

\* The consistent copy of the joint state taken under the mutex.
ExecSnapshot(g) ==
  /\ Goto(g, "read", "check")
  /\ snapshot' = [snapshot EXCEPT ![g] =
       [pos |-> current_pos, valid |-> current_pos_is_valid, time |-> last_joint_state_time]]
  /\ UNCHANGED <<world, shared, timer, handles, goal_start_time, now, last_feedback_time, feedback_sent>>

\* Mutants: operands swapped; the timeout starts again with every feedback.
Stale_Swapped(g) == snapshot[g].time - now[g] > joint_state_timeout
TimedOut_SinceFeedback(g) == now[g] - last_feedback_time[g] > goal_timeout

Stale(g)    == now[g] - snapshot[g].time > joint_state_timeout
TimedOut(g) == now[g] - goal_start_time[g] > goal_timeout
Failed(g)   == ~snapshot[g].valid \/ Stale(g) \/ TimedOut(g)
Converged(g) == AbsDiff(target[g], snapshot[g].pos) <= position_tolerance

FillResult_Omitted(g, outcome, hold) == UNCHANGED result   \* mutant

FillResult(g, outcome, hold) ==
  result' = [result EXCEPT ![g] = [outcome |-> outcome, final_position |-> hold]]

StoreHold_FlagOnly(hold) == has_active_goal' = FALSE /\ UNCHANGED pos_cmd   \* mutant

\* The critical section that ends every goal.
StoreHold(hold) == has_active_goal' = FALSE /\ pos_cmd' = hold

\* Every branch that ends the goal: fill in the result, then store the holding
\* command and free the slot in one critical section, before the handle is told.
\* The other locals of the thread are not used any more.
Release(g, outcome, hold) ==
  /\ pc' = [pc EXCEPT ![g] = "finish"]
  /\ FillResult(g, outcome, hold)
  /\ StoreHold(hold)
  /\ goal_start_time' = [goal_start_time EXCEPT ![g] = 0]
  /\ now' = [now EXCEPT ![g] = 0]
  /\ snapshot' = [snapshot EXCEPT ![g] = NoSnapshot]
  /\ last_feedback_time' = [last_feedback_time EXCEPT ![g] = 0]
  /\ UNCHANGED <<world, joint, timer, status, target, feedback_sent>>

ExecAbortInvalid(g) ==
  /\ pc[g] = "check"
  /\ ~snapshot[g].valid
  /\ Release(g, "aborted", NaN)

ExecAbortStale(g) ==
  /\ pc[g] = "check"
  /\ snapshot[g].valid /\ Stale(g)
  /\ Release(g, "aborted", snapshot[g].pos)

ExecAbortTimeout(g) ==
  /\ pc[g] = "check"
  /\ snapshot[g].valid /\ ~Stale(g) /\ TimedOut(g)
  /\ Release(g, "aborted", snapshot[g].pos)

\* Mutant: is_canceling() is not asked.
ExecCanceled_Unasked(g) ==
  /\ pc[g] = "check"
  /\ ~Failed(g)
  /\ Release(g, "canceled", snapshot[g].pos)

ExecCanceled(g) ==
  /\ pc[g] = "check"
  /\ ~Failed(g)
  /\ status[g] = "canceling"
  /\ Release(g, "canceled", snapshot[g].pos)

\* Mutant: convergence is tested whatever is_canceling() answers.
ExecNotCanceling_Regardless(g) ==
  /\ Goto(g, "check", "converge")
  /\ ~Failed(g)
  /\ UNCHANGED <<world, shared, timer, handles, locals>>

\* is_canceling() answered false; a cancel that comes later waits for the next iteration.
ExecNotCanceling(g) ==
  /\ Goto(g, "check", "converge")
  /\ ~Failed(g)
  /\ status[g] # "canceling"
  /\ UNCHANGED <<world, shared, timer, handles, locals>>

ExecSucceed(g) ==
  /\ pc[g] = "converge"
  /\ Converged(g)
  /\ Release(g, "succeeded", snapshot[g].pos)

\* Not there yet: give the timer the target to publish.
ExecCommand(g) ==
  /\ Goto(g, "converge", "feedback")
  /\ ~Converged(g)
  /\ pos_cmd' = target[g]
  /\ UNCHANGED <<world, joint, has_active_goal, timer, handles, locals>>

FeedbackDue_Swapped(g) == last_feedback_time[g] - now[g] >= feedback_period   \* mutant

FeedbackDue(g) == now[g] - last_feedback_time[g] >= feedback_period

\* Feedback when its period is over, then the sleep; the copy dies with the iteration.
ExecFeedback(g) ==
  /\ Goto(g, "feedback", "loop")
  /\ snapshot' = [snapshot EXCEPT ![g] = NoSnapshot]
  /\ IF FeedbackDue(g)
     THEN /\ last_feedback_time' = [last_feedback_time EXCEPT ![g] = now[g]]
          /\ feedback_sent' = [feedback_sent EXCEPT ![g] = TRUE]
     ELSE UNCHANGED <<last_feedback_time, feedback_sent>>
  /\ UNCHANGED <<world, shared, timer, handles, goal_start_time, now>>

\* Mutant: a cancel that came late overrides the result.
ExecFinish_CancelOverrides(g) ==
  /\ Goto(g, "finish", "done")
  /\ status' = [status EXCEPT ![g] = IF @ = "canceling" THEN "canceled" ELSE result[g].outcome]
  /\ UNCHANGED <<world, shared, timer, target, result, locals>>

\* goal_handle->abort / canceled / succeed(result); the thread returns.
ExecFinish(g) ==
  /\ Goto(g, "finish", "done")
  /\ status' = [status EXCEPT ![g] = result[g].outcome]
  /\ UNCHANGED <<world, shared, timer, target, result, locals>>

-----------------------------------------------------------------------------
\* The node clock; it may stand still (use_sim_time), it never goes back here.
Tick ==
  /\ rclcpp_ok
  /\ clock < MaxTime
  /\ clock' = clock + 1
  /\ UNCHANGED <<rclcpp_ok, shared, timer, handles, pc, locals>>

\* SIGINT: spin() returns, rclcpp::shutdown() is called, the threads drain.
Shutdown ==
  /\ rclcpp_ok
  /\ rclcpp_ok' = FALSE
  /\ UNCHANGED <<clock, shared, timer, handles, pc, locals>>

\* The process is over once the executor and every thread have returned.
Drained ==
  /\ ~rclcpp_ok /\ ~timer_busy
  /\ \A g \in Goals : pc[g] \in {"none", "reserved", "exited", "done"}
  /\ UNCHANGED vars

HandleGoal(g) == \E p \in GoalPositions : HandleGoalAccept(g, p) \/ HandleGoalReject(g, p)

Execute(g) ==
  \/ ExecStart(g) \/ ExecReadClock(g) \/ ExecExit(g) \/ ExecSnapshot(g)
  \/ ExecAbortInvalid(g) \/ ExecAbortStale(g) \/ ExecAbortTimeout(g)
  \/ ExecCanceled(g) \/ ExecNotCanceling(g) \/ ExecSucceed(g)
  \/ ExecCommand(g) \/ ExecFeedback(g) \/ ExecFinish(g)

Executor ==
  \/ \E g \in Goals : HandleGoal(g) \/ StartThread(g) \/ HandleCancel(g)
  \/ \E msg \in JointStateMsgs : JointStateCb(msg)
  \/ TimerRead \/ TimerPublish

\* Everything but the clock.
Step == Executor \/ (\E g \in Goals : Execute(g)) \/ Shutdown \/ Drained

Next == Step \/ Tick

Spec == Init /\ [][Next]_vars

(* The OS runs every thread; the single-threaded executor collects all ready *)
(* callbacks of a round before it waits again, so none is passed over forever. *)
Fairness ==
  /\ \A g \in Goals : WF_vars(Execute(g)) /\ SF_vars(StartThread(g))
  /\ WF_vars(TimerRead) /\ WF_vars(TimerPublish)

FairSpec == Spec /\ Fairness

-----------------------------------------------------------------------------
(* Properties.                                                              *)

\* The finite positions that messages report for the controlled joint.
Reports(msg) ==
  {i \in DOMAIN msg.name \cap DOMAIN msg.position : msg.name[i] = joint_name /\ msg.position[i] # NaN}
Measurable == UNION {{msg.position[i] : i \in Reports(msg)} : msg \in JointStateMsgs}

Phases == {"none", "reserved", "start", "loop", "read", "check", "converge",
           "feedback", "finish", "done", "exited"}

\* Every variable has its type: positions are integers or NaN, times naturals.
TypeOK ==
  /\ clock \in Nat /\ rclcpp_ok \in BOOLEAN
  /\ current_pos \in Position /\ current_pos_is_valid \in BOOLEAN
  /\ last_joint_state_time \in Nat
  /\ pos_cmd \in Position /\ has_active_goal \in BOOLEAN
  /\ timer_busy \in BOOLEAN /\ timer_cmd \in Position /\ command \in Position
  /\ status \in [Goals -> Statuses]
  /\ target \in [Goals -> Position]
  /\ result \in [Goals -> [outcome : Terminal \cup {"none"}, final_position : Position]]
  /\ pc \in [Goals -> Phases]
  /\ goal_start_time \in [Goals -> Nat]
  /\ now \in [Goals -> Nat]
  /\ snapshot \in [Goals -> [pos : Position, valid : BOOLEAN, time : Nat]]
  /\ last_feedback_time \in [Goals -> Nat]
  /\ feedback_sent \in [Goals -> BOOLEAN]

\* Goal g has been accepted and its thread has not freed the slot.
Owns(g) == pc[g] \in {"reserved", "start", "loop", "read", "check", "converge", "feedback", "exited"}

\* Single-goal slot: has_active_goal is true exactly while one goal owns the slot,
\* and never two, although the thread of a finished goal still runs (it has not told
\* the client yet) when handle_goal() accepts the next one.
SlotHasOneOwner ==
  /\ has_active_goal <=> \E g \in Goals : Owns(g)
  /\ \A g, h \in Goals : Owns(g) /\ Owns(h) => g = h

\* A slot that no thread will free, because none could be started or its loop ended with
\* the node, is never left in a node that still takes requests.
SlotNotOrphaned == rclcpp_ok => \A g \in Goals : pc[g] # "exited"

\* The stored command is the target of the goal that owns the slot or a position the
\* joint really reported: once a goal has freed the slot its target is withdrawn, and
\* no later step of its thread brings it back.
CommandProvenance ==
  \/ pos_cmd = NaN
  \/ pos_cmd \in Measurable
  \/ \E g \in Goals : Owns(g) /\ pos_cmd = target[g]

\* The terminal call of execute() on the goal handle is a legal transition of the
\* handle: it is not terminal yet, and canceled() is called only on a handle that a
\* cancel request has moved to canceling (rclcpp throws in the detached thread otherwise).
LegalTerminalTransition ==
  \A g \in Goals : pc[g] = "finish" =>
    /\ status[g] \in {"executing", "canceling"}
    /\ result[g].outcome = "canceled" => status[g] = "canceling"

\* What the client is told is coherent although position, validity and time change
\* under the thread: a success carries a measured position within the tolerance of the
\* target, every finite final_position was measured, and NaN comes with an abort only.
ResultSound ==
  \A g \in Goals : LET r == result[g] IN
    /\ r.outcome = "succeeded" =>
         r.final_position \in Measurable /\ AbsDiff(target[g], r.final_position) <= position_tolerance
    /\ r.outcome = "canceled" => r.final_position \in Measurable
    /\ r.final_position # NaN => r.final_position \in Measurable

\* A cancel accepted before the thread's is_canceling() check of an iteration beats
\* convergence: the goal is not reported as succeeded any more.
CancelWins ==
  \A g \in Goals :
    [](status[g] = "canceling" /\ pc[g] \in {"start", "loop", "read", "check"}
         => [](status[g] # "succeeded"))

\* After a goal has ended the timer brings the holding command to the backend, even
\* though it may be about to publish the old target when the goal ends.
HoldIsPublished ==
  (~has_active_goal /\ pos_cmd # NaN)
    ~> (command = pos_cmd \/ has_active_goal \/ ~rclcpp_ok)
==============================================================================
