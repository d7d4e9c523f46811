----------------------------- MODULE TimingProofs -----------------------------
(***************************************************************************)
(* Proofs of the time bounds of a goal, for every timeout and every lag.    *)
(***************************************************************************)
EXTENDS JointPositionControllerTiming, ServerProofs

\* The iteration has passed its checks, or none has begun; it has not reached them.
Checked(g)   == pc[g] \in {"loop", "converge", "feedback"}
Unchecked(g) == pc[g] \in {"read", "check"}

\* After an iteration the feedback is younger than the period; during one it may be late
\* by the lag of the loop.
FeedbackInv(g) ==
  /\ pc[g] \in {"none", "reserved", "start"} => last_feedback_time[g] = 0
  /\ pc[g] = "loop" => IterationStart(g) < LastFeedback(g) + feedback_period
  /\ pc[g] \in {"read", "check", "converge", "feedback"} =>
       /\ now[g] < LastFeedback(g) + feedback_period + MaxLag
       /\ goal_start_time[g] <= now[g]
  /\ Running(g) => last_feedback_time[g] <= clock

\* An iteration that passed its checks began in time; one that has not began one lag
\* later at most; and the clock is at most one lag past the beginning.
GoalTimeInv(g) ==
  /\ pc[g] \in {"none", "reserved", "start"} => now[g] = 0
  /\ pc[g] \in {"reserved", "start"} => clock <= last_joint_state_time + joint_state_timeout
  /\ Running(g) => /\ goal_start_time[g] <= clock /\ now[g] <= clock
                   /\ clock <= IterationStart(g) + MaxLag
  /\ Checked(g) => /\ IterationStart(g) <= goal_start_time[g] + goal_timeout
                   /\ IterationStart(g) <= last_joint_state_time + joint_state_timeout
  /\ Unchecked(g) => /\ goal_start_time[g] <= now[g]
                     /\ now[g] <= goal_start_time[g] + goal_timeout + MaxLag
                     /\ now[g] <= last_joint_state_time + joint_state_timeout + MaxLag
  /\ pc[g] = "check" => snapshot[g].time <= last_joint_state_time

TimedInv == last_joint_state_time <= clock /\ \A g \in Goals : GoalTimeInv(g)

\* What the invariant says of g is about its own thread, the clock and the measurement.
own(g) == <<pc[g], now[g], goal_start_time[g], snapshot[g]>>

LEMMA OthersKeep ==
  ASSUME NEW h \in Goals, GoalTimeInv(h), UNCHANGED own(h), UNCHANGED <<clock, last_joint_state_time>>
  PROVE  GoalTimeInv(h)'
BY DEF own, GoalTimeInv, Running, Checked, Unchecked, IterationStart

LEMMA Parameters ==
  /\ goal_timeout \in Nat /\ joint_state_timeout \in Nat /\ MaxLag \in Nat
BY ParameterAssumption, LagAssumption

LEMMA Relax ==
  \A x, y, t \in Int, d \in Nat : x <= y /\ t <= x + d => t <= y + d
OBVIOUS

LEMMA RelaxTwice ==
  \A x, y, t \in Int, d, e \in Nat : x <= y /\ t <= x + d + e => t <= y + d + e
OBVIOUS

\* A newer measurement only relaxes the bounds.
LEMMA NewerKeeps ==
  ASSUME NEW h \in Goals, GoalTimeInv(h), UNCHANGED own(h), UNCHANGED clock,
         clock \in Int, last_joint_state_time \in Int, last_joint_state_time' \in Int,
         now[h] \in Int, goal_start_time[h] \in Int, snapshot[h].time \in Int,
         last_joint_state_time <= last_joint_state_time'
  PROVE  GoalTimeInv(h)'
<1>1. /\ pc'[h] = pc[h] /\ now'[h] = now[h] /\ goal_start_time'[h] = goal_start_time[h]
      /\ snapshot'[h] = snapshot[h]
  BY DEF own
<1>2. IterationStart(h)' = IterationStart(h) /\ IterationStart(h) \in Int
  BY <1>1 DEF IterationStart
<1>3. (Running(h)' <=> Running(h)) /\ (Checked(h)' <=> Checked(h)) /\ (Unchecked(h)' <=> Unchecked(h))
  BY <1>1 DEF Running, Checked, Unchecked
<1>4. \A t \in Int : t <= last_joint_state_time => t <= last_joint_state_time'
  OBVIOUS
<1>5. \A t \in Int : t <= last_joint_state_time + joint_state_timeout
                       => t <= last_joint_state_time' + joint_state_timeout
  BY Relax, Parameters
<1>6. \A t \in Int : t <= last_joint_state_time + joint_state_timeout + MaxLag
                       => t <= last_joint_state_time' + joint_state_timeout + MaxLag
  BY RelaxTwice, Parameters
<1> QED
  BY <1>1, <1>2, <1>3, <1>4, <1>5, <1>6, Parameters DEF GoalTimeInv

-----------------------------------------------------------------------------
LEMMA InitTimed == Init => TimedInv
BY ClockAssumption DEF Init, TimedInv, GoalTimeInv, Running, Checked, Unchecked

\* A callback: the goal it admits has a fresh measurement, a measurement only gets newer.
LEMMA ExecutorTimed ==
  ASSUME IInv, TimedInv, Executor PROVE TimedInv'
<1> USE DEF IInv, TypeOK, TimedInv, own
<1>1. ASSUME NEW g \in Goals, NEW p \in GoalPositions, HandleGoalAccept(g, p) PROVE TimedInv'
  <2>1. pc[g] = "none"
    BY <1>1 DEF HandleGoalAccept, HandleFollowsThread
  <2>2. pc'[g] = "reserved" /\ now'[g] = 0 /\ clock' <= last_joint_state_time' + joint_state_timeout
    BY <1>1, <2>1, Parameters DEF HandleGoalAccept, Admissible, GoalTimeInv, joint, world, locals
  <2>3. GoalTimeInv(g)'
    BY <2>2 DEF GoalTimeInv, Running, Checked, Unchecked
  <2>4. ASSUME NEW h \in Goals, h # g PROVE GoalTimeInv(h)'
    BY <1>1, <2>4, OthersKeep DEF HandleGoalAccept, joint, world, locals
  <2> QED
    BY <1>1, <2>3, <2>4 DEF HandleGoalAccept, joint, world
<1>2. ASSUME NEW g \in Goals, NEW p \in GoalPositions, HandleGoalReject(g, p) PROVE TimedInv'
  BY <1>2, OthersKeep DEF HandleGoalReject, shared, world, locals
<1>6. ASSUME NEW g \in Goals, HandleCancel(g) PROVE TimedInv'
  BY <1>6, OthersKeep DEF HandleCancel, shared, world, locals
<1>3. ASSUME NEW g \in Goals, Begins(g) PROVE TimedInv'
  <2>1. GoalTimeInv(g)'
    BY <1>3 DEF Begins, GoalTimeInv, Running, Checked, Unchecked, shared, world, locals
  <2>2. ASSUME NEW h \in Goals, h # g PROVE GoalTimeInv(h)'
    BY <1>3, <2>2, OthersKeep DEF Begins, shared, world, locals
  <2> QED
    BY <1>3, <2>1, <2>2 DEF Begins, shared, world
<1>4. ASSUME NEW msg \in JointStateMsgs, JointStateCb(msg) PROVE TimedInv'
  <2>1. last_joint_state_time <= last_joint_state_time' /\ last_joint_state_time' <= clock
        /\ last_joint_state_time' \in Nat
    BY <1>4 DEF JointStateCb
  <2>2. UNCHANGED <<clock, pc, now, goal_start_time, snapshot>>
    BY <1>4 DEF JointStateCb, world, locals
  <2>3. ASSUME NEW h \in Goals PROVE GoalTimeInv(h)'
    BY <2>1, <2>2, NewerKeeps
  <2> QED
    BY <2>1, <2>2, <2>3
<1>5. CASE TimerRead \/ TimerPublish
  BY <1>5, OthersKeep DEF TimerRead, TimerPublish, shared, world, locals
<1> QED
  BY <1>1, <1>2, <1>3, <1>4, <1>5, <1>6, StartThreadShape DEF Executor, HandleGoal

\* A step of the thread of g leaves the clock, the measurement and the other threads alone.
LEMMA ExecuteLocal ==
  ASSUME IInv, NEW g \in Goals, Execute(g)
  PROVE  /\ UNCHANGED <<clock, last_joint_state_time>>
         /\ \A h \in Goals : h # g => UNCHANGED own(h)
<1> USE DEF IInv, TypeOK, own, Goto, world
<1>1. CASE GoesOn(g)
  <2>1. UNCHANGED <<clock, last_joint_state_time>>
    BY <1>1 DEF GoesOn, joint
  <2>2. CASE ExecStart(g) \/ ExecReadClock(g)
    BY <2>1, <2>2 DEF ExecStart, ExecReadClock
  <2>3. CASE ExecSnapshot(g) \/ ExecFeedback(g)
    BY <2>1, <2>3 DEF ExecSnapshot, ExecFeedback
  <2>4. CASE ExecExit(g) \/ ExecNotCanceling(g) \/ ExecCommand(g)
    BY <2>1, <2>4 DEF ExecExit, ExecNotCanceling, ExecCommand, locals
  <2>5. CASE Ends(g) \/ ExecFinish(g)
    BY <1>1, <2>5 DEF GoesOn, Ends, EndsWith, Release, ExecFinish, joint, locals
  <2> QED
    BY <2>2, <2>3, <2>4, <2>5, ExecuteEnds DEF Execute, EndingStep
<1>2. CASE Ends(g)
  BY <1>2 DEF Ends, EndsWith, Release, joint
<1>3. CASE ExecFinish(g)
  BY <1>3 DEF ExecFinish, shared, locals
<1> QED
  BY <1>1, <1>2, <1>3, ExecuteShape

\* The thread of g itself: the checks let an iteration go on only if it began in time.
LEMMA ExecuteTimed == ASSUME IInv, TimedInv, NEW g \in Goals, Execute(g) PROVE TimedInv'
<1> USE DEF IInv, TypeOK, TimedInv, GoalTimeInv, Running, Checked, Unchecked, IterationStart, Goto
<1>0. UNCHANGED <<clock, last_joint_state_time>>
  BY ExecuteLocal
<1>1. CASE ExecStart(g)
  <2>1. GoalTimeInv(g)'
    BY <1>0, <1>1, Parameters DEF ExecStart
  <2> QED
    BY <1>0, <2>1, ExecuteLocal, OthersKeep
<1>2. CASE ExecReadClock(g)
  <2>1. GoalTimeInv(g)'
    BY <1>0, <1>2, Parameters DEF ExecReadClock
  <2> QED
    BY <1>0, <2>1, ExecuteLocal, OthersKeep
<1>3. CASE ExecSnapshot(g)
  <2>1. GoalTimeInv(g)'
    BY <1>0, <1>3, Parameters DEF ExecSnapshot
  <2> QED
    BY <1>0, <2>1, ExecuteLocal, OthersKeep
<1>4. CASE ExecNotCanceling(g)
  <2>1. GoalTimeInv(g)'
    BY <1>0, <1>4, Parameters DEF ExecNotCanceling, Failed, Stale, TimedOut, locals
  <2> QED
    BY <1>0, <2>1, ExecuteLocal, OthersKeep
<1>5. CASE ExecCommand(g) \/ ExecFeedback(g)
  <2>1. UNCHANGED <<now, goal_start_time>> /\ Checked(g) /\ Checked(g)' /\ pc'[g] # "check"
    BY <1>5 DEF ExecCommand, ExecFeedback, locals
  <2>2. GoalTimeInv(g)'
    BY <1>0, <2>1
  <2> QED
    BY <1>0, <2>2, ExecuteLocal, OthersKeep
<1>6. CASE pc'[g] \in {"exited", "finish", "done"}
  <2>1. GoalTimeInv(g)'
    BY <1>6
  <2> QED
    BY <1>0, <2>1, ExecuteLocal, OthersKeep
<1> QED
  BY <1>1, <1>2, <1>3, <1>4, <1>5, <1>6
     DEF Execute, ExecExit, ExecFinish, Release, ExecAbortInvalid, ExecAbortStale,
         ExecAbortTimeout, ExecCanceled, ExecSucceed

\* The clock moves only while every running iteration is younger than the lag.
LEMMA TickTimed == ASSUME IInv, TimedInv, TimedTick PROVE TimedInv'
<1> USE DEF IInv, TypeOK, TimedInv
<1>1. clock' = clock + 1 /\ UNCHANGED <<last_joint_state_time, pc, now, goal_start_time, snapshot>>
  BY DEF TimedTick, Tick, shared, locals
<1>2. ASSUME NEW h \in Goals PROVE GoalTimeInv(h)'
  <2>1. pc[h] \notin {"reserved", "start"} /\ (Running(h) => clock - IterationStart(h) < MaxLag)
    BY DEF TimedTick, Prompt
  <2> QED
    BY <1>1, <2>1, Parameters DEF GoalTimeInv, Running, Checked, Unchecked, IterationStart
<1> QED
  BY <1>1, <1>2

LEMMA NextTimed == IInv /\ TimedInv /\ [TimedNext]_vars => TimedInv'
<1> SUFFICES ASSUME IInv, TimedInv, [TimedNext]_vars PROVE TimedInv'
  OBVIOUS
<1>1. CASE Executor
  BY <1>1, ExecutorTimed
<1>2. ASSUME NEW g \in Goals, Execute(g) PROVE TimedInv'
  BY <1>2, ExecuteTimed
<1>3. CASE TimedTick
  BY <1>3, TickTimed
<1>4. CASE Shutdown \/ Drained \/ UNCHANGED vars
  BY <1>4, OthersKeep DEF TimedInv, Shutdown, Drained, vars, own, world, shared, locals
<1> QED
  BY <1>1, <1>2, <1>3, <1>4 DEF TimedNext, TimedStep, Step

-----------------------------------------------------------------------------
\* The bounds follow from the invariant.
LEMMA BoundsFollow == IInv /\ TimedInv => GoalDeadline /\ BlindTime
<1> SUFFICES ASSUME IInv, TimedInv, NEW g \in Goals, Running(g)
             PROVE  /\ clock <= goal_start_time[g] + goal_timeout + 2 * MaxLag
                    /\ clock <= last_joint_state_time + joint_state_timeout + 2 * MaxLag
  BY DEF GoalDeadline, BlindTime
<1> USE Parameters DEF IInv, TypeOK, TimedInv, GoalTimeInv
<1>1. CASE Checked(g)
  BY <1>1 DEF IterationStart
<1>2. CASE Unchecked(g)
  BY <1>2 DEF IterationStart
<1> QED
  BY <1>1, <1>2 DEF Running, Checked, Unchecked

-----------------------------------------------------------------------------
LEMMA Period == feedback_period \in Nat \ {0}
BY ParameterAssumption

LEMMA FeedbackKept ==
  ASSUME NEW h \in Goals, FeedbackInv(h), UNCHANGED own(h), UNCHANGED <<clock, last_feedback_time[h]>>
  PROVE  FeedbackInv(h)'
BY DEF own, FeedbackInv, Running, IterationStart, LastFeedback

\* No thread touches the feedback of another goal.
LEMMA FeedbackLocal ==
  ASSUME IInv, NEW g \in Goals, Execute(g)
  PROVE  \A h \in Goals : h # g => UNCHANGED last_feedback_time[h]
BY DEF IInv, TypeOK, Execute, ExecStart, ExecReadClock, ExecExit, ExecSnapshot, ExecAbortInvalid,
       ExecAbortStale, ExecAbortTimeout, ExecCanceled, ExecNotCanceling, ExecSucceed, ExecCommand,
       ExecFeedback, ExecFinish, Release, locals

\* The thread of g: an iteration that sends no feedback is within the period.
LEMMA ExecuteFeedback ==
  ASSUME IInv, TimedInv, NEW g \in Goals, FeedbackInv(g), Execute(g)
  PROVE  FeedbackInv(g)'
<1> USE Period, Parameters DEF IInv, TypeOK, TimedInv, GoalTimeInv, FeedbackInv, Running, Checked,
        Unchecked, IterationStart, LastFeedback, Goto
<1>0. UNCHANGED clock
  BY ExecuteLocal
<1>1. CASE ExecStart(g)
  BY <1>0, <1>1 DEF ExecStart
<1>2. CASE ExecReadClock(g)
  BY <1>0, <1>2 DEF ExecReadClock
<1>3. CASE ExecSnapshot(g)
  BY <1>0, <1>3 DEF ExecSnapshot
<1>4. CASE ExecNotCanceling(g)
  BY <1>0, <1>4 DEF ExecNotCanceling, locals
<1>5. CASE ExecCommand(g)
  BY <1>0, <1>5 DEF ExecCommand, locals
<1>6. CASE ExecFeedback(g)
  BY <1>0, <1>6 DEF ExecFeedback, FeedbackDue
<1>7. CASE pc'[g] \in {"exited", "finish", "done"}
  BY <1>7
<1> QED
  BY <1>1, <1>2, <1>3, <1>4, <1>5, <1>6, <1>7
     DEF Execute, ExecExit, ExecFinish, Release, ExecAbortInvalid, ExecAbortStale,
         ExecAbortTimeout, ExecCanceled, ExecSucceed

LEMMA NextFeedback ==
  ASSUME IInv, TimedInv, [TimedNext]_vars, NEW g \in Goals, FeedbackInv(g)
  PROVE  FeedbackInv(g)'
<1> USE DEF IInv, TypeOK, own
<1>1. ASSUME NEW h \in Goals, NEW p \in GoalPositions, HandleGoalAccept(h, p) PROVE FeedbackInv(g)'
  <2>1. pc[h] = "none" /\ UNCHANGED <<clock, now, goal_start_time, snapshot, last_feedback_time>>
    BY <1>1 DEF HandleGoalAccept, HandleFollowsThread, world, locals
  <2>2. CASE h = g
    BY <1>1, <2>1, <2>2 DEF HandleGoalAccept, FeedbackInv, Running
  <2>3. CASE h # g
    BY <1>1, <2>1, <2>3, FeedbackKept DEF HandleGoalAccept
  <2> QED
    BY <2>2, <2>3
<1>2. ASSUME NEW h \in Goals, Begins(h) PROVE FeedbackInv(g)'
  <2>1. CASE h = g
    BY <1>2, <2>1 DEF Begins, FeedbackInv, Running, locals
  <2>2. CASE h # g
    BY <1>2, <2>2, FeedbackKept DEF Begins, locals
  <2> QED
    BY <2>1, <2>2
<1>3. ASSUME NEW h \in Goals, Execute(h) PROVE FeedbackInv(g)'
  <2>1. CASE h = g
    BY <1>3, <2>1, ExecuteFeedback
  <2>2. CASE h # g
    BY <1>3, <2>2, FeedbackKept, FeedbackLocal, ExecuteLocal
  <2> QED
    BY <2>1, <2>2
<1>4. ASSUME NEW h \in Goals, NEW p \in GoalPositions, HandleGoalReject(h, p) PROVE FeedbackInv(g)'
  BY <1>4, FeedbackKept DEF HandleGoalReject, world, locals
<1>5. ASSUME NEW h \in Goals, HandleCancel(h) PROVE FeedbackInv(g)'
  BY <1>5, FeedbackKept DEF HandleCancel, world, locals
<1>6. ASSUME NEW msg \in JointStateMsgs, JointStateCb(msg) PROVE FeedbackInv(g)'
  BY <1>6, FeedbackKept DEF JointStateCb, world, locals
<1>7. CASE TimerRead \/ TimerPublish \/ Shutdown \/ Drained \/ UNCHANGED vars
  BY <1>7, FeedbackKept DEF TimerRead, TimerPublish, Shutdown, Drained, vars, world, locals
<1>8. CASE TimedTick
  BY <1>8 DEF TimedTick, Tick, locals, FeedbackInv, Running, IterationStart, LastFeedback
<1> QED
  BY <1>1, <1>2, <1>3, <1>4, <1>5, <1>6, <1>7, <1>8, StartThreadShape
     DEF TimedNext, TimedStep, Step, Executor, HandleGoal

\* The bound follows: the clock is at most one lag past the beginning of the iteration.
LEMMA FeedbackFollows == IInv /\ TimedInv /\ (\A g \in Goals : FeedbackInv(g)) => FeedbackBound
<1> SUFFICES ASSUME IInv, TimedInv, NEW g \in Goals, FeedbackInv(g), Running(g)
             PROVE  clock < LastFeedback(g) + feedback_period + 2 * MaxLag
  BY DEF FeedbackBound
<1> USE Parameters, Period DEF IInv, TypeOK, LastFeedback
<1>1. clock <= IterationStart(g) + MaxLag
  BY DEF TimedInv, GoalTimeInv
<1>2. IterationStart(g) < LastFeedback(g) + feedback_period + MaxLag
  BY DEF FeedbackInv, Running, IterationStart
<1> QED
  BY <1>1, <1>2 DEF IterationStart

LEMMA TimedStepIsStep == [TimedNext]_vars => [Next]_vars
BY DEF TimedNext, TimedStep, TimedTick, Next

\* A loop that is late by MaxLag at most is one the untimed server allows, so that whatever
\* holds of the server for every scheduling of its threads holds of it.
THEOREM TimedServer == TimedSpec => Spec
BY TimedStepIsStep, PTL DEF TimedSpec, Spec

LEMMA TimedInvariance == TimedSpec => [](IInv /\ TimedInv)
<1>1. Init => IInv /\ TimedInv
  BY InitInvariant, InitTimed
<1>2. IInv /\ TimedInv /\ [TimedNext]_vars => (IInv /\ TimedInv)'
  BY TimedStepIsStep, NextInvariant, NextTimed
<1> QED
  BY <1>1, <1>2, PTL DEF TimedSpec

\* execute() drives a goal for goal_timeout and two loop iterations at most.
THEOREM DeadlineKept == TimedSpec => []GoalDeadline
BY TimedInvariance, BoundsFollow, PTL

\* execute() drives the joint for joint_state_timeout and two loop iterations at most
\* after the last valid measurement.
THEOREM BlindTimeBounded == TimedSpec => []BlindTime
BY TimedInvariance, BoundsFollow, PTL

\* A running goal is never without feedback for longer than the period and two iterations.
THEOREM FeedbackRegular == TimedSpec => []FeedbackBound
<1> DEFINE Inv == IInv /\ TimedInv /\ \A g \in Goals : FeedbackInv(g)
<1>1. Init => Inv
  BY InitInvariant, InitTimed DEF Init, FeedbackInv, Running
<1>2. Inv /\ [TimedNext]_vars => Inv'
  <2>1. [TimedNext]_vars => [Next]_vars
    BY DEF TimedNext, TimedStep, TimedTick, Next
  <2> QED
    BY <2>1, NextInvariant, NextTimed, NextFeedback
<1>3. Inv => FeedbackBound
  BY FeedbackFollows
<1> QED
  BY <1>1, <1>2, <1>3, PTL DEF TimedSpec
==============================================================================
