----------------------------- MODULE ServerProofs -----------------------------
(***************************************************************************)
(* Proofs about the action server for every set of goals, every set of      *)
(* messages, every limit, tolerance and timeout.                            *)
(***************************************************************************)
EXTENDS ServerInvariant, TLAPS

\* What joint_state_cb() takes from a message is a finite position of the joint.
LEMMA MeasuredPosition ==
  ASSUME NEW msg \in JointStateMsgs, NEW i, IsFirstEntry(msg, i), HasPosition(msg, i)
  PROVE  msg.position[i] \in Measurable /\ msg.position[i] \in Int
<1>1. i \in Reports(msg)
  BY DEF Reports, IsFirstEntry, HasPosition
<1>2. msg.position[i] \in Measurable
  BY <1>1 DEF Measurable
<1>3. msg.position \in Seq(Position)
  BY DataAssumption
<1>4. msg.position[i] \in Position
  BY <1>3 DEF HasPosition
<1> QED
  BY <1>2, <1>4 DEF HasPosition, Position

\* A branch that ends a goal keeps the types.
LEMMA ReleaseTypes ==
  ASSUME TypeOK, NEW g \in Goals, NEW outcome \in Terminal, NEW hold \in Position,
         Release(g, outcome, hold)
  PROVE  TypeOK'
BY DEF TypeOK, Release, FillResult, StoreHold, NoSnapshot, Position, Terminal, Phases,
       world, joint, timer

-----------------------------------------------------------------------------
\* The initial state has the types.
LEMMA InitTypes == Init => TypeOK
<1> SUFFICES ASSUME Init PROVE TypeOK
  OBVIOUS
<1>1. NoResult \in [outcome : Terminal \cup {"none"}, final_position : Position]
  BY DEF NoResult, Position
<1>2. NoSnapshot \in [pos : Position, valid : BOOLEAN, time : Nat]
  BY DEF NoSnapshot, Position
<1>3. result \in [Goals -> [outcome : Terminal \cup {"none"}, final_position : Position]]
  BY <1>1 DEF Init
<1>4. snapshot \in [Goals -> [pos : Position, valid : BOOLEAN, time : Nat]]
  BY <1>2 DEF Init
<1>5. pc \in [Goals -> Phases] /\ status \in [Goals -> Statuses] /\ target \in [Goals -> Position]
  BY DEF Init, Phases, Statuses, Position
<1>6. /\ goal_start_time \in [Goals -> Nat] /\ now \in [Goals -> Nat]
      /\ last_feedback_time \in [Goals -> Nat] /\ feedback_sent \in [Goals -> BOOLEAN]
  BY DEF Init
<1>7. /\ clock \in Nat /\ last_joint_state_time \in Nat /\ current_pos \in Position
      /\ pos_cmd \in Position /\ timer_cmd \in Position /\ command \in Position
  BY ClockAssumption DEF Init, Position
<1>8. /\ rclcpp_ok \in BOOLEAN /\ current_pos_is_valid \in BOOLEAN
      /\ has_active_goal \in BOOLEAN /\ timer_busy \in BOOLEAN
  BY DEF Init
<1> QED
  BY <1>3, <1>4, <1>5, <1>6, <1>7, <1>8 DEF TypeOK

\* So has every state a callback of the executor leads to.
LEMMA ExecutorTypes == TypeOK /\ Executor => TypeOK'
<1> SUFFICES ASSUME TypeOK, Executor PROVE TypeOK'
  OBVIOUS
<1> USE DEF TypeOK, world, shared, joint, timer, handles, locals
<1>1. ASSUME NEW g \in Goals, NEW p \in GoalPositions, HandleGoalAccept(g, p) PROVE TypeOK'
  BY <1>1, DataAssumption DEF HandleGoalAccept, Statuses, Phases
<1>2. ASSUME NEW g \in Goals, NEW p \in GoalPositions, HandleGoalReject(g, p) PROVE TypeOK'
  BY <1>2 DEF HandleGoalReject, Statuses
<1>3. ASSUME NEW g \in Goals, StartThread(g) PROVE TypeOK'
  BY <1>3 DEF StartThread, HandleAccepted, HandleAcceptedThrows, Statuses, Phases
<1>4. ASSUME NEW g \in Goals, HandleCancel(g) PROVE TypeOK'
  BY <1>4 DEF HandleCancel, Statuses
<1>5. ASSUME NEW msg \in JointStateMsgs, JointStateCb(msg) PROVE TypeOK'
  <2>1. PICK i \in DOMAIN msg.name :
          /\ IsFirstEntry(msg, i)
          /\ IF HasPosition(msg, i)
             THEN /\ current_pos' = msg.position[i]
                  /\ current_pos_is_valid' = TRUE
                  /\ last_joint_state_time' = clock
             ELSE /\ current_pos' = NaN
                  /\ current_pos_is_valid' = FALSE
                  /\ UNCHANGED last_joint_state_time
    BY <1>5 DEF JointStateCb
  <2>2. current_pos' \in Position /\ current_pos_is_valid' \in BOOLEAN /\ last_joint_state_time' \in Nat
    <3>1. CASE HasPosition(msg, i)
      <4>1. msg.position[i] \in Int
        BY <2>1, <3>1, MeasuredPosition
      <4> QED
        BY <2>1, <3>1, <4>1 DEF Position
    <3>2. CASE ~HasPosition(msg, i)
      BY <2>1, <3>2 DEF Position
    <3> QED
      BY <3>1, <3>2
  <2> QED
    BY <1>5, <2>2 DEF JointStateCb
<1>6. CASE TimerRead
  BY <1>6 DEF TimerRead
<1>7. CASE TimerPublish
  BY <1>7 DEF TimerPublish, Position
<1> QED
  BY <1>1, <1>2, <1>3, <1>4, <1>5, <1>6, <1>7 DEF Executor, HandleGoal

\* And every state a step of an execute() thread leads to.
LEMMA ExecuteTypes ==
  ASSUME TypeOK, ResultFollowsThread, NEW g \in Goals, Execute(g)
  PROVE  TypeOK'
<1> USE DEF TypeOK, Phases, Goto
<1>1. CASE ExecStart(g) \/ ExecReadClock(g)
  <2>1. CASE ExecStart(g)
    BY <2>1 DEF ExecStart, world, shared, timer, handles
  <2>2. CASE ExecReadClock(g)
    BY <2>2 DEF ExecReadClock, world, shared, timer, handles
  <2> QED
    BY <1>1, <2>1, <2>2
<1>8. CASE ExecExit(g) \/ ExecNotCanceling(g)
  <2>1. CASE ExecExit(g)
    BY <2>1 DEF ExecExit, world, shared, timer, handles, locals
  <2>2. CASE ExecNotCanceling(g)
    BY <2>2 DEF ExecNotCanceling, world, shared, timer, handles, locals
  <2> QED
    BY <1>8, <2>1, <2>2
<1>2. CASE ExecSnapshot(g)
  BY <1>2 DEF ExecSnapshot, world, shared, timer, handles
<1>3. CASE ExecAbortInvalid(g)
  BY <1>3, ReleaseTypes DEF ExecAbortInvalid, Terminal, Position
<1>4. CASE ExecAbortStale(g) \/ ExecAbortTimeout(g) \/ ExecCanceled(g) \/ ExecSucceed(g)
  BY <1>4, ReleaseTypes DEF ExecAbortStale, ExecAbortTimeout, ExecCanceled, ExecSucceed, Terminal
<1>5. CASE ExecCommand(g)
  BY <1>5 DEF ExecCommand, world, joint, timer, handles, locals
<1>6. CASE ExecFeedback(g)
  BY <1>6 DEF ExecFeedback, NoSnapshot, Position, world, shared, timer, handles
<1>7. CASE ExecFinish(g)
  <2>1. result[g].outcome \in Terminal
    BY <1>7 DEF ExecFinish, ResultFollowsThread
  <2> QED
    BY <1>7, <2>1 DEF ExecFinish, Statuses, world, shared, timer, locals
<1> QED
  BY <1>8, <1>1, <1>2, <1>3, <1>4, <1>5, <1>6, <1>7 DEF Execute

\* Types are kept by every step, given that a thread with a result to report has one.
LEMMA NextTypes == TypeOK /\ ResultFollowsThread /\ [Next]_vars => TypeOK'
<1> SUFFICES ASSUME TypeOK, ResultFollowsThread, [Next]_vars PROVE TypeOK'
  OBVIOUS
<1>1. CASE Executor
  BY <1>1, ExecutorTypes
<1>2. ASSUME NEW g \in Goals, Execute(g) PROVE TypeOK'
  BY <1>2, ExecuteTypes
<1>3. CASE Shutdown
  BY <1>3 DEF Shutdown, TypeOK, shared, timer, handles, locals
<1>5. CASE Tick
  BY <1>5 DEF Tick, TypeOK, shared, timer, handles, locals
<1>4. CASE Drained \/ UNCHANGED vars
  BY <1>4 DEF Drained, TypeOK, vars, world, shared, timer, handles, locals
<1> QED
  BY <1>1, <1>2, <1>3, <1>4, <1>5 DEF Next, Step

-----------------------------------------------------------------------------
LEMMA MeasurableFinite == Measurable \subseteq Int
<1> SUFFICES ASSUME NEW msg \in JointStateMsgs, NEW i \in Reports(msg) PROVE msg.position[i] \in Int
  BY DEF Measurable
<1>1. msg.position \in Seq(Position)
  BY DataAssumption
<1>2. i \in DOMAIN msg.position /\ msg.position[i] # NaN
  BY DEF Reports
<1>3. msg.position[i] \in Position
  BY <1>1, <1>2
<1> QED
  BY <1>2, <1>3 DEF Position

\* handle_accepted() runs, and the thread begins or cannot be started.
Begins(g) ==
  /\ pc[g] = "reserved"
  /\ \E next \in {"start", "exited"} : pc' = [pc EXCEPT ![g] = next]
  /\ status' = [status EXCEPT ![g] = "executing"]
  /\ UNCHANGED <<clock, shared, timer, target, result, locals>>

LEMMA StartThreadShape == ASSUME NEW g \in Goals, StartThread(g) PROVE Begins(g)
BY DEF StartThread, HandleAccepted, HandleAcceptedThrows, Begins, world

\* What the thread of g may do to the rest of the node, in three shapes.  It goes on:
\* only the command may change, and only to the target of g.
GoesOn(g) ==
  /\ pc[g] \in {"start", "loop", "read", "check", "converge", "feedback"}
  /\ \E next \in {"loop", "read", "check", "converge", "feedback", "exited"} :
       pc' = [pc EXCEPT ![g] = next]
  /\ pos_cmd' = pos_cmd \/ (pc[g] = "converge" /\ pos_cmd' = target[g])
  /\ UNCHANGED <<world, joint, has_active_goal, timer, handles>>

\* It ends the goal, with an outcome and a hold that its checks justify.
EndsWith(g, outcome, hold) ==
  /\ pc[g] \in {"check", "converge"}
  /\ hold = NaN \/ hold \in Measurable
  /\ outcome = "canceled" => status[g] = "canceling" /\ hold \in Measurable
  /\ outcome = "succeeded" => hold \in Measurable /\ AbsDiff(target[g], hold) <= position_tolerance
  /\ Release(g, outcome, hold)

Ends(g) == \E outcome \in Terminal, hold \in Position : EndsWith(g, outcome, hold)

LEMMA SharedParts == UNCHANGED shared => UNCHANGED joint /\ UNCHANGED pos_cmd /\ UNCHANGED has_active_goal
BY DEF shared, joint

EndingStep(g) ==
  \/ ExecAbortInvalid(g) \/ ExecAbortStale(g) \/ ExecAbortTimeout(g)
  \/ ExecCanceled(g) \/ ExecSucceed(g)

\* Each branch that ends the goal has checked what its outcome and its hold need.
LEMMA ExecuteEnds ==
  ASSUME TypeOK, MeasurementSound, NEW g \in Goals, EndingStep(g)
  PROVE  Ends(g)
<1> DEFINE hold == snapshot[g].pos
<1>1. hold \in Position
  BY DEF TypeOK
<1>2. snapshot[g].valid => hold \in Measurable
  BY DEF MeasurementSound
<1>3. CASE ExecAbortInvalid(g)
  <2>1. EndsWith(g, "aborted", NaN)
    BY <1>3 DEF ExecAbortInvalid, EndsWith
  <2> QED
    BY <2>1 DEF Ends, Terminal, Position
<1>4. CASE ExecAbortStale(g) \/ ExecAbortTimeout(g)
  <2>1. EndsWith(g, "aborted", hold)
    BY <1>2, <1>4 DEF ExecAbortStale, ExecAbortTimeout, EndsWith
  <2> QED
    BY <1>1, <2>1 DEF Ends, Terminal
<1>5. CASE ExecCanceled(g)
  <2>1. EndsWith(g, "canceled", hold)
    BY <1>2, <1>5 DEF ExecCanceled, Failed, EndsWith
  <2> QED
    BY <1>1, <2>1 DEF Ends, Terminal
<1>6. CASE ExecSucceed(g)
  <2>1. hold \in Measurable
    BY <1>6 DEF ExecSucceed, MeasurementSound
  <2>2. EndsWith(g, "succeeded", hold)
    BY <1>6, <2>1 DEF ExecSucceed, Converged, EndsWith
  <2> QED
    BY <1>1, <2>2 DEF Ends, Terminal
<1> QED
  BY <1>3, <1>4, <1>5, <1>6 DEF EndingStep

\* Every step of execute() has one of the shapes; the third is the last call on the handle.
LEMMA ExecuteShape ==
  ASSUME TypeOK, MeasurementSound, NEW g \in Goals, Execute(g)
  PROVE  GoesOn(g) \/ Ends(g) \/ ExecFinish(g)
<1>1. CASE ExecStart(g) \/ ExecReadClock(g) \/ ExecSnapshot(g) \/ ExecFeedback(g)
  <2>1. CASE ExecStart(g)
    BY <2>1, SharedParts DEF ExecStart, Goto, GoesOn
  <2>2. CASE ExecReadClock(g)
    BY <2>2, SharedParts DEF ExecReadClock, Goto, GoesOn
  <2>3. CASE ExecSnapshot(g)
    BY <2>3, SharedParts DEF ExecSnapshot, Goto, GoesOn
  <2>4. CASE ExecFeedback(g)
    BY <2>4, SharedParts DEF ExecFeedback, Goto, GoesOn
  <2> QED
    BY <1>1, <2>1, <2>2, <2>3, <2>4
<1>2. CASE ExecExit(g) \/ ExecNotCanceling(g) \/ ExecCommand(g)
  <2>1. CASE ExecExit(g)
    BY <2>1, SharedParts DEF ExecExit, Goto, GoesOn
  <2>2. CASE ExecNotCanceling(g)
    BY <2>2, SharedParts DEF ExecNotCanceling, Goto, GoesOn
  <2>3. CASE ExecCommand(g)
    BY <2>3 DEF ExecCommand, Goto, GoesOn
  <2> QED
    BY <1>2, <2>1, <2>2, <2>3
<1> QED
  BY <1>1, <1>2, ExecuteEnds DEF Execute, EndingStep

\* What the other steps of the node do not touch.
Elsewhere == (\E msg \in JointStateMsgs : JointStateCb(msg)) \/ TimerRead \/ TimerPublish
               \/ Shutdown \/ Drained \/ Tick \/ UNCHANGED vars

LEMMA ElsewhereShape ==
  ASSUME Elsewhere
  PROVE  UNCHANGED <<pos_cmd, has_active_goal, handles, pc, locals>>
BY DEF Elsewhere, JointStateCb, TimerRead, TimerPublish, Shutdown, Drained, Tick,
       vars, world, shared, joint, timer, handles, locals

\* A step of the node is one of these.
LEMMA StepCases ==
  ASSUME TypeOK, MeasurementSound, [Next]_vars
  PROVE  \/ \E g \in Goals, p \in GoalPositions : HandleGoalAccept(g, p)
         \/ \E g \in Goals, p \in GoalPositions : HandleGoalReject(g, p)
         \/ \E g \in Goals : Begins(g)
         \/ \E g \in Goals : HandleCancel(g)
         \/ \E g \in Goals : GoesOn(g)
         \/ \E g \in Goals : Ends(g)
         \/ \E g \in Goals : ExecFinish(g)
         \/ Elsewhere
BY ExecuteShape, StartThreadShape DEF Next, Step, Executor, HandleGoal, Elsewhere

\* The thread and the handle of a goal stay together.
LEMMA HandleStep == IInv /\ [Next]_vars => HandleFollowsThread'
<1> SUFFICES ASSUME IInv, [Next]_vars PROVE HandleFollowsThread'
  OBVIOUS
<1> USE DEF IInv, TypeOK, HandleFollowsThread, Terminal
<1>1. ASSUME NEW g \in Goals, NEW p \in GoalPositions, HandleGoalAccept(g, p) PROVE HandleFollowsThread'
  BY <1>1 DEF HandleGoalAccept
<1>2. ASSUME NEW g \in Goals, NEW p \in GoalPositions, HandleGoalReject(g, p) PROVE HandleFollowsThread'
  BY <1>2 DEF HandleGoalReject
<1>3. ASSUME NEW g \in Goals, Begins(g) PROVE HandleFollowsThread'
  BY <1>3 DEF Begins
<1>4. ASSUME NEW g \in Goals, HandleCancel(g) PROVE HandleFollowsThread'
  BY <1>4 DEF HandleCancel
<1>5. ASSUME NEW g \in Goals, GoesOn(g) PROVE HandleFollowsThread'
  BY <1>5 DEF GoesOn, handles
<1>6. ASSUME NEW g \in Goals, NEW outcome \in Terminal, NEW hold \in Position, EndsWith(g, outcome, hold) PROVE HandleFollowsThread'
  BY <1>6 DEF EndsWith, Release, FillResult
<1>7. ASSUME NEW g \in Goals, ExecFinish(g) PROVE HandleFollowsThread'
  BY <1>7 DEF ExecFinish, Goto, ResultFollowsThread
<1>8. CASE Elsewhere
  BY <1>8, ElsewhereShape DEF handles
<1> QED
  BY <1>1, <1>2, <1>3, <1>4, <1>5, <1>6, <1>7, <1>8, StepCases DEF IInv, MeasurementSound, Ends

\* A result appears when the slot is given back, and stays.
LEMMA ResultStep == IInv /\ [Next]_vars => ResultFollowsThread'
<1> SUFFICES ASSUME IInv, [Next]_vars PROVE ResultFollowsThread'
  OBVIOUS
<1> USE DEF IInv, TypeOK, HandleFollowsThread, ResultFollowsThread, Terminal
<1>1. ASSUME NEW g \in Goals, NEW p \in GoalPositions, HandleGoalAccept(g, p) PROVE ResultFollowsThread'
  BY <1>1 DEF HandleGoalAccept
<1>2. ASSUME NEW g \in Goals, NEW p \in GoalPositions, HandleGoalReject(g, p) PROVE ResultFollowsThread'
  BY <1>2 DEF HandleGoalReject
<1>3. ASSUME NEW g \in Goals, Begins(g) PROVE ResultFollowsThread'
  BY <1>3 DEF Begins
<1>4. ASSUME NEW g \in Goals, HandleCancel(g) PROVE ResultFollowsThread'
  BY <1>4 DEF HandleCancel
<1>5. ASSUME NEW g \in Goals, GoesOn(g) PROVE ResultFollowsThread'
  BY <1>5 DEF GoesOn, handles
<1>6. ASSUME NEW g \in Goals, NEW outcome \in Terminal, NEW hold \in Position, EndsWith(g, outcome, hold) PROVE ResultFollowsThread'
  BY <1>6 DEF EndsWith, Release, FillResult
<1>7. ASSUME NEW g \in Goals, ExecFinish(g) PROVE ResultFollowsThread'
  BY <1>7 DEF ExecFinish, Goto
<1>8. CASE Elsewhere
  BY <1>8, ElsewhereShape DEF handles
<1> QED
  BY <1>1, <1>2, <1>3, <1>4, <1>5, <1>6, <1>7, <1>8, StepCases DEF IInv, MeasurementSound, Ends

\* The slot is taken by one goal and given back by the same one.
LEMMA SlotStep == IInv /\ [Next]_vars => SlotHasOneOwner'
<1> SUFFICES ASSUME IInv, [Next]_vars PROVE SlotHasOneOwner'
  OBVIOUS
<1> USE DEF IInv, TypeOK, HandleFollowsThread, SlotHasOneOwner, Owns
<1>1. ASSUME NEW g \in Goals, NEW p \in GoalPositions, HandleGoalAccept(g, p) PROVE SlotHasOneOwner'
  BY <1>1 DEF HandleGoalAccept, Admissible
<1>2. ASSUME NEW g \in Goals, NEW p \in GoalPositions, HandleGoalReject(g, p) PROVE SlotHasOneOwner'
  BY <1>2 DEF HandleGoalReject, shared
<1>3. ASSUME NEW g \in Goals, Begins(g) PROVE SlotHasOneOwner'
  BY <1>3 DEF Begins, shared
<1>4. ASSUME NEW g \in Goals, HandleCancel(g) PROVE SlotHasOneOwner'
  BY <1>4 DEF HandleCancel, shared
<1>5. ASSUME NEW g \in Goals, GoesOn(g) PROVE SlotHasOneOwner'
  BY <1>5 DEF GoesOn
<1>6. ASSUME NEW g \in Goals, NEW outcome \in Terminal, NEW hold \in Position, EndsWith(g, outcome, hold) PROVE SlotHasOneOwner'
  BY <1>6 DEF EndsWith, Release, StoreHold
<1>7. ASSUME NEW g \in Goals, ExecFinish(g) PROVE SlotHasOneOwner'
  BY <1>7 DEF ExecFinish, Goto, shared
<1>8. CASE Elsewhere
  BY <1>8, ElsewhereShape
<1> QED
  BY <1>1, <1>2, <1>3, <1>4, <1>5, <1>6, <1>7, <1>8, StepCases DEF IInv, MeasurementSound, Ends

\* A target is the command only while its goal owns the slot.
LEMMA CommandStep == IInv /\ [Next]_vars => CommandProvenance'
<1> SUFFICES ASSUME IInv, [Next]_vars PROVE CommandProvenance'
  OBVIOUS
<1> USE DEF IInv, TypeOK, HandleFollowsThread, SlotHasOneOwner, CommandProvenance, Owns
<1>1. ASSUME NEW g \in Goals, NEW p \in GoalPositions, HandleGoalAccept(g, p) PROVE CommandProvenance'
  BY <1>1 DEF HandleGoalAccept, Admissible
<1>2. ASSUME NEW g \in Goals, NEW p \in GoalPositions, HandleGoalReject(g, p) PROVE CommandProvenance'
  BY <1>2 DEF HandleGoalReject, shared
<1>3. ASSUME NEW g \in Goals, Begins(g) PROVE CommandProvenance'
  BY <1>3 DEF Begins, shared
<1>4. ASSUME NEW g \in Goals, HandleCancel(g) PROVE CommandProvenance'
  BY <1>4 DEF HandleCancel, shared
<1>5. ASSUME NEW g \in Goals, GoesOn(g) PROVE CommandProvenance'
  BY <1>5 DEF GoesOn, handles
<1>6. ASSUME NEW g \in Goals, NEW outcome \in Terminal, NEW hold \in Position, EndsWith(g, outcome, hold) PROVE CommandProvenance'
  BY <1>6 DEF EndsWith, Release, StoreHold
<1>7. ASSUME NEW g \in Goals, ExecFinish(g) PROVE CommandProvenance'
  BY <1>7 DEF ExecFinish, Goto, shared
<1>8. CASE Elsewhere
  BY <1>8, ElsewhereShape DEF handles
<1> QED
  BY <1>1, <1>2, <1>3, <1>4, <1>5, <1>6, <1>7, <1>8, StepCases DEF IInv, MeasurementSound, Ends

\* A goal is accepted with a target within the limits, which does not change.
LEMMA TargetStep == IInv /\ [Next]_vars => TargetAdmitted'
<1> SUFFICES ASSUME IInv, [Next]_vars PROVE TargetAdmitted'
  OBVIOUS
<1> USE DEF IInv, TypeOK, HandleFollowsThread, TargetAdmitted
<1>1. ASSUME NEW g \in Goals, NEW p \in GoalPositions, HandleGoalAccept(g, p) PROVE TargetAdmitted'
  BY <1>1, DataAssumption, ParameterAssumption DEF HandleGoalAccept, Admissible, Position
<1>2. ASSUME NEW g \in Goals, NEW p \in GoalPositions, HandleGoalReject(g, p) PROVE TargetAdmitted'
  BY <1>2 DEF HandleGoalReject
<1>3. ASSUME NEW g \in Goals, Begins(g) PROVE TargetAdmitted'
  BY <1>3 DEF Begins
<1>4. ASSUME NEW g \in Goals, HandleCancel(g) PROVE TargetAdmitted'
  BY <1>4 DEF HandleCancel
<1>5. ASSUME NEW g \in Goals, GoesOn(g) PROVE TargetAdmitted'
  BY <1>5 DEF GoesOn, handles
<1>6. ASSUME NEW g \in Goals, NEW outcome \in Terminal, NEW hold \in Position, EndsWith(g, outcome, hold) PROVE TargetAdmitted'
  BY <1>6 DEF EndsWith, Release
<1>7. ASSUME NEW g \in Goals, ExecFinish(g) PROVE TargetAdmitted'
  BY <1>7 DEF ExecFinish, Goto
<1>8. CASE Elsewhere
  BY <1>8, ElsewhereShape DEF handles
<1> QED
  BY <1>1, <1>2, <1>3, <1>4, <1>5, <1>6, <1>7, <1>8, StepCases DEF IInv, MeasurementSound, Ends

\* The last call on the handle stays legal until it is made.
LEMMA TerminalStep == IInv /\ [Next]_vars => LegalTerminalTransition'
<1> SUFFICES ASSUME IInv, [Next]_vars PROVE LegalTerminalTransition'
  OBVIOUS
<1> USE DEF IInv, TypeOK, HandleFollowsThread, LegalTerminalTransition, Statuses, Terminal
<1>1. ASSUME NEW g \in Goals, NEW p \in GoalPositions, HandleGoalAccept(g, p) PROVE LegalTerminalTransition'
  BY <1>1 DEF HandleGoalAccept
<1>2. ASSUME NEW g \in Goals, NEW p \in GoalPositions, HandleGoalReject(g, p) PROVE LegalTerminalTransition'
  BY <1>2 DEF HandleGoalReject
<1>3. ASSUME NEW g \in Goals, Begins(g) PROVE LegalTerminalTransition'
  BY <1>3 DEF Begins
<1>4. ASSUME NEW g \in Goals, HandleCancel(g) PROVE LegalTerminalTransition'
  BY <1>4 DEF HandleCancel
<1>5. ASSUME NEW g \in Goals, GoesOn(g) PROVE LegalTerminalTransition'
  BY <1>5 DEF GoesOn, handles
<1>6. ASSUME NEW g \in Goals, NEW outcome \in Terminal, NEW hold \in Position, EndsWith(g, outcome, hold) PROVE LegalTerminalTransition'
  BY <1>6 DEF EndsWith, Release, FillResult
<1>7. ASSUME NEW g \in Goals, ExecFinish(g) PROVE LegalTerminalTransition'
  BY <1>7 DEF ExecFinish, Goto
<1>8. CASE Elsewhere
  BY <1>8, ElsewhereShape DEF handles
<1> QED
  BY <1>1, <1>2, <1>3, <1>4, <1>5, <1>6, <1>7, <1>8, StepCases DEF IInv, MeasurementSound, Ends

\* A result is coherent when it is filled in, and does not change.
LEMMA SoundStep == IInv /\ [Next]_vars => ResultSound'
<1> SUFFICES ASSUME IInv, [Next]_vars PROVE ResultSound'
  OBVIOUS
<1> USE DEF IInv, TypeOK, HandleFollowsThread, ResultFollowsThread, ResultSound, Terminal
<1>1. ASSUME NEW g \in Goals, NEW p \in GoalPositions, HandleGoalAccept(g, p) PROVE ResultSound'
  BY <1>1 DEF HandleGoalAccept
<1>2. ASSUME NEW g \in Goals, NEW p \in GoalPositions, HandleGoalReject(g, p) PROVE ResultSound'
  BY <1>2 DEF HandleGoalReject
<1>3. ASSUME NEW g \in Goals, Begins(g) PROVE ResultSound'
  BY <1>3 DEF Begins
<1>4. ASSUME NEW g \in Goals, HandleCancel(g) PROVE ResultSound'
  BY <1>4 DEF HandleCancel
<1>5. ASSUME NEW g \in Goals, GoesOn(g) PROVE ResultSound'
  BY <1>5 DEF GoesOn, handles
<1>6. ASSUME NEW g \in Goals, NEW outcome \in Terminal, NEW hold \in Position, EndsWith(g, outcome, hold) PROVE ResultSound'
  BY <1>6, MeasurableFinite, DataAssumption DEF EndsWith, Release, FillResult
<1>7. ASSUME NEW g \in Goals, ExecFinish(g) PROVE ResultSound'
  BY <1>7 DEF ExecFinish, Goto
<1>8. CASE Elsewhere
  BY <1>8, ElsewhereShape DEF handles
<1> QED
  BY <1>1, <1>2, <1>3, <1>4, <1>5, <1>6, <1>7, <1>8, StepCases DEF IInv, MeasurementSound, Ends

\* The measurement, and the copy a thread works with, stay sound.
LEMMA MeasurementStep == IInv /\ [Next]_vars => MeasurementSound'
<1> SUFFICES ASSUME IInv, [Next]_vars PROVE MeasurementSound'
  OBVIOUS
<1> USE DEF IInv, TypeOK, MeasurementSound
<1>1. ASSUME NEW g \in Goals, HandleGoal(g) \/ StartThread(g) \/ HandleCancel(g)
      PROVE  MeasurementSound'
  BY <1>1, StartThreadShape DEF HandleGoal, HandleGoalAccept, HandleGoalReject, Begins, HandleCancel,
     shared, joint, locals
<1>2. ASSUME NEW msg \in JointStateMsgs, JointStateCb(msg) PROVE MeasurementSound'
  <2>1. current_pos_is_valid' => current_pos' \in Measurable
    BY <1>2, MeasuredPosition DEF JointStateCb
  <2> QED
    BY <1>2, <2>1 DEF JointStateCb, locals
<1>3. ASSUME NEW g \in Goals, Execute(g) PROVE MeasurementSound'
  <2>1. CASE ExecSnapshot(g)
    BY <2>1 DEF ExecSnapshot, Goto, shared
  <2>2. CASE ExecFeedback(g)
    BY <2>2 DEF ExecFeedback, NoSnapshot, Goto, shared
  <2>3. CASE ExecStart(g) \/ ExecReadClock(g) \/ ExecExit(g)
    BY <2>3 DEF ExecStart, ExecReadClock, ExecExit, Goto, shared, locals
  <2>4. CASE ExecNotCanceling(g)
    BY <2>4 DEF ExecNotCanceling, Failed, Goto, shared, locals
  <2>5. CASE ExecCommand(g)
    BY <2>5 DEF ExecCommand, Goto, joint, locals
  <2>6. CASE ExecFinish(g)
    BY <2>6 DEF ExecFinish, Goto, shared, locals
  <2>7. CASE Ends(g)
    BY <2>7 DEF Ends, EndsWith, Release, NoSnapshot, joint
  <2> QED
    BY <1>3, <2>1, <2>2, <2>3, <2>4, <2>5, <2>6, <2>7, ExecuteEnds DEF Execute, EndingStep
<1>4. CASE TimerRead \/ TimerPublish \/ Shutdown \/ Drained \/ Tick \/ UNCHANGED vars
  BY <1>4 DEF TimerRead, TimerPublish, Shutdown, Drained, Tick, vars, shared, locals
<1> QED
  BY <1>1, <1>2, <1>3, <1>4 DEF Next, Step, Executor

-----------------------------------------------------------------------------
LEMMA InitInvariant == Init => IInv
<1> SUFFICES ASSUME Init PROVE IInv
  OBVIOUS
<1>1. TypeOK
  BY InitTypes
<1>2. HandleFollowsThread /\ ResultFollowsThread /\ SlotHasOneOwner
  BY DEF Init, HandleFollowsThread, ResultFollowsThread, SlotHasOneOwner, Owns, Terminal, NoResult
<1>3. MeasurementSound
  BY DEF Init, MeasurementSound, NoSnapshot
<1>4. CommandProvenance /\ LegalTerminalTransition
  BY DEF Init, CommandProvenance, LegalTerminalTransition
<1>5. ResultSound
  BY DEF Init, ResultSound, NoResult
<1>6. TargetAdmitted
  BY DEF Init, TargetAdmitted
<1> QED
  BY <1>1, <1>2, <1>3, <1>4, <1>5, <1>6 DEF IInv

LEMMA NextInvariant == IInv /\ [Next]_vars => IInv'
<1> SUFFICES ASSUME IInv, [Next]_vars PROVE IInv'
  OBVIOUS
<1>1. TypeOK'
  BY NextTypes DEF IInv
<1>2. HandleFollowsThread' /\ ResultFollowsThread' /\ SlotHasOneOwner'
  BY HandleStep, ResultStep, SlotStep
<1>3. MeasurementSound' /\ CommandProvenance' /\ TargetAdmitted'
  BY MeasurementStep, CommandStep, TargetStep
<1>4. LegalTerminalTransition' /\ ResultSound'
  BY TerminalStep, SoundStep
<1> QED
  BY <1>1, <1>2, <1>3, <1>4 DEF IInv

\* The inductive invariant holds in every reachable state of the server.
THEOREM Invariance == Spec => []IInv
<1>1. Init => IInv
  BY InitInvariant
<1>2. IInv /\ [Next]_vars => IInv'
  BY NextInvariant
<1> QED
  BY <1>1, <1>2, PTL DEF Spec

-----------------------------------------------------------------------------
\* Every variable of the server keeps its type.
THEOREM TypeCorrect == Spec => []TypeOK
<1>1. IInv => TypeOK
  BY DEF IInv
<1> QED
  BY <1>1, Invariance, PTL

\* The single-goal slot of has_active_goal_: at most one goal owns it in any interleaving
\* of handle_goal() with the threads of earlier goals, and the flag says so.
THEOREM SingleSlot == Spec => []SlotHasOneOwner
<1>1. IInv => SlotHasOneOwner
  BY DEF IInv
<1> QED
  BY <1>1, Invariance, PTL

\* pos_cmd_ is the target of the goal that owns the slot or a reported position: no
\* thread brings the target of a finished goal back.
THEOREM NoStrayTarget == Spec => []CommandProvenance
<1>1. IInv => CommandProvenance
  BY DEF IInv
<1> QED
  BY <1>1, Invariance, PTL

\* The terminal call of execute() never finds the handle in a state that refuses it.
THEOREM TerminalCallLegal == Spec => []LegalTerminalTransition
<1>1. IInv => LegalTerminalTransition
  BY DEF IInv
<1> QED
  BY <1>1, Invariance, PTL

\* What a client is told was measured, and a success is within the tolerance.
THEOREM ResultsCoherent == Spec => []ResultSound
<1>1. IInv => ResultSound
  BY DEF IInv
<1> QED
  BY <1>1, Invariance, PTL

\* The thread and the goal handle of every goal agree.
THEOREM HandleAgreesWithThread == Spec => []HandleFollowsThread
<1>1. IInv => HandleFollowsThread
  BY DEF IInv
<1> QED
  BY <1>1, Invariance, PTL

\* No slot is left to nobody while the node takes requests: a thread ends without freeing
\* its slot, or is never started, only in a node that is shutting down.
THEOREM NoOrphanedSlot == Spec => []SlotNotOrphaned
<1>1. Init => SlotNotOrphaned
  BY DEF Init, SlotNotOrphaned
<1>2. IInv /\ SlotNotOrphaned /\ [Next]_vars => SlotNotOrphaned'
  <2> SUFFICES ASSUME IInv, SlotNotOrphaned, [Next]_vars PROVE SlotNotOrphaned'
    OBVIOUS
  <2> USE DEF IInv, TypeOK, SlotNotOrphaned
  <2>1. ASSUME NEW g \in Goals, HandleGoal(g) \/ HandleAccepted(g) \/ HandleCancel(g) PROVE SlotNotOrphaned'
    BY <2>1 DEF HandleGoal, HandleGoalAccept, HandleGoalReject, HandleAccepted, HandleCancel, world
  <2>2. ASSUME NEW g \in Goals, HandleAcceptedThrows(g) PROVE SlotNotOrphaned'
    BY <2>2 DEF HandleAcceptedThrows
  <2>3. ASSUME NEW g \in Goals, Execute(g) PROVE SlotNotOrphaned'
    <3>1. CASE ExecExit(g)
      BY <3>1 DEF ExecExit, world
    <3>2. CASE ~ExecExit(g)
      BY <2>3, <3>2 DEF Execute, ExecStart, ExecReadClock, ExecSnapshot, ExecAbortInvalid,
         ExecAbortStale, ExecAbortTimeout, ExecCanceled, ExecNotCanceling, ExecSucceed,
         ExecCommand, ExecFeedback, ExecFinish, Release, Goto, world
    <3> QED
      BY <3>1, <3>2
  <2>4. ASSUME NEW msg \in JointStateMsgs, JointStateCb(msg) PROVE SlotNotOrphaned'
    BY <2>4 DEF JointStateCb, world
  <2>5. CASE TimerRead \/ TimerPublish \/ Shutdown \/ Drained \/ Tick \/ UNCHANGED vars
    BY <2>5 DEF TimerRead, TimerPublish, Shutdown, Drained, Tick, vars, world
  <2> QED
    BY <2>1, <2>2, <2>3, <2>4, <2>5 DEF Next, Step, Executor, StartThread
<1> QED
  BY <1>1, <1>2, Invariance, PTL DEF Spec

-----------------------------------------------------------------------------
\* A cancel that is sure to be seen: it came before the check of an iteration, or the thread
\* has decided on another end since.
CancelSeen(g) ==
  \/ status[g] = "canceling" /\ pc[g] \in {"start", "loop", "read", "check", "exited"}
  \/ status[g] = "canceling" /\ pc[g] = "finish" /\ result[g].outcome # "succeeded"
  \/ status[g] \in {"canceled", "aborted"}

\* No step of another goal touches the thread, the handle or the result of g.
LEMMA OthersApart ==
  ASSUME TypeOK, MeasurementSound, NEW g \in Goals, NEW h \in Goals \ {g},
         HandleGoal(h) \/ StartThread(h) \/ HandleCancel(h) \/ Execute(h)
  PROVE  pc'[g] = pc[g] /\ status'[g] = status[g] /\ result'[g] = result[g]
<1> USE DEF TypeOK
<1>1. CASE HandleGoal(h) \/ HandleCancel(h)
  BY <1>1 DEF HandleGoal, HandleGoalAccept, HandleGoalReject, HandleCancel
<1>2. CASE Begins(h)
  BY <1>2 DEF Begins
<1>3. CASE GoesOn(h)
  BY <1>3 DEF GoesOn, handles
<1>4. CASE Ends(h)
  BY <1>4 DEF Ends, EndsWith, Release, FillResult
<1>5. CASE ExecFinish(h)
  BY <1>5 DEF ExecFinish, Goto
<1> QED
  BY <1>1, <1>2, <1>3, <1>4, <1>5, StartThreadShape, ExecuteShape

\* The thread of g itself asks is_canceling() before it looks at convergence.
LEMMA CancelObeyed ==
  ASSUME IInv, NEW g \in Goals, CancelSeen(g), Execute(g)
  PROVE  CancelSeen(g)'
<1> USE DEF CancelSeen, IInv, TypeOK, Goto
<1>1. pc[g] \notin {"converge", "feedback"}
  BY DEF HandleFollowsThread, Terminal
<1>2. CASE ExecStart(g) \/ ExecReadClock(g) \/ ExecExit(g) \/ ExecSnapshot(g)
  BY <1>2 DEF ExecStart, ExecReadClock, ExecExit, ExecSnapshot, handles,
     HandleFollowsThread, Terminal
<1>3. CASE ExecNotCanceling(g)
  BY <1>3 DEF ExecNotCanceling, HandleFollowsThread, Terminal
<1>4. CASE EndingStep(g)
  BY <1>1, <1>4 DEF EndingStep, ExecAbortInvalid, ExecAbortStale, ExecAbortTimeout, ExecCanceled,
     ExecSucceed, Release, FillResult, HandleFollowsThread, Terminal
<1>5. CASE ExecFinish(g)
  BY <1>5 DEF ExecFinish, ResultFollowsThread, HandleFollowsThread, Terminal
<1> QED
  BY <1>1, <1>2, <1>3, <1>4, <1>5 DEF Execute, EndingStep, ExecCommand, ExecFeedback

LEMMA CancelStep ==
  ASSUME NEW g \in Goals
  PROVE  IInv /\ CancelSeen(g) /\ [Next]_vars => CancelSeen(g)'
<1> SUFFICES ASSUME IInv, CancelSeen(g), [Next]_vars PROVE CancelSeen(g)'
  OBVIOUS
<1>1. CASE Execute(g)
  BY <1>1, CancelObeyed
<1>2. CASE HandleGoal(g) \/ StartThread(g) \/ HandleCancel(g)
  BY <1>2, StartThreadShape
     DEF HandleGoal, HandleGoalAccept, HandleGoalReject, HandleCancel, Begins, CancelSeen,
         IInv, HandleFollowsThread
<1>3. ASSUME NEW h \in Goals \ {g}, HandleGoal(h) \/ StartThread(h) \/ HandleCancel(h) \/ Execute(h)
      PROVE  CancelSeen(g)'
  BY <1>3, OthersApart DEF IInv, CancelSeen
<1>4. CASE Elsewhere
  BY <1>4, ElsewhereShape DEF handles, CancelSeen
<1> QED
  BY <1>1, <1>2, <1>3, <1>4 DEF Next, Step, Executor, Elsewhere

\* A goal whose cancel was accepted before its thread asked is_canceling() is never reported
\* as succeeded, however its thread and the executor go on.
THEOREM CancelBeatsConvergence == Spec => CancelWins
<1> DEFINE Early(g) == status[g] = "canceling" /\ pc[g] \in {"start", "loop", "read", "check"}
<1>1. ASSUME NEW g \in Goals
      PROVE  Spec => [](Early(g) => [](status[g] # "succeeded"))
  <2>1. Early(g) => CancelSeen(g)
    BY DEF CancelSeen
  <2>2. CancelSeen(g) => status[g] # "succeeded"
    BY DEF CancelSeen
  <2>3. IInv /\ CancelSeen(g) /\ [Next]_vars => CancelSeen(g)'
    BY CancelStep
  <2> QED
    BY <2>1, <2>2, <2>3, Invariance, PTL DEF Spec
<1> QED
  BY <1>1 DEF CancelWins
==============================================================================
