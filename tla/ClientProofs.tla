------------------------------ MODULE ClientProofs ------------------------------
(***************************************************************************)
(* Proofs about the two clients at one server, for every set of limits,      *)
(* measurements and targets, and any tolerance.                             *)
(***************************************************************************)
EXTENDS ClientSystem, TLAPS

Live == {"accepted", "executing", "canceling"}
Decided == Server!Terminal \cup {"rejected"}
Statuses == {"unknown"} \cup Live \cup Decided

\* What the services carry for a goal.
Yes(g) == [goal |-> g, accepted |-> TRUE]
No(g)  == [goal |-> g, accepted |-> FALSE]
Answered(g)  == Yes(g) \in responses \/ No(g) \in responses
ResultDue(g) ==
  g \in result_requests \/ \E code \in ResultCodes : [goal |-> g, code |-> code] \in results

Absent(g) == g \notin requests /\ ~Answered(g) /\ ~ResultDue(g)
Unsent(g) == Absent(g) /\ status[g] = "unknown"
Over(g)   == Absent(g) /\ status[g] \in Decided

-----------------------------------------------------------------------------
\* The owner of the slot is alive and has no verdict yet.
SlotInv ==
  /\ slot \subseteq Goals
  /\ status \in [Goals -> Statuses]
  /\ verdict \in [Goals -> [outcome : Server!Terminal \cup {"none"}, final_position : Measurable \cup {None}]]
  /\ \A g \in slot : status[g] \in Live /\ verdict[g].outcome = "none"
  /\ \A g \in Goals : status[g] = "unknown" => verdict[g].outcome = "none"

\* A message in flight agrees with the state of its goal.
NetworkInv ==
  \A g \in Goals :
    /\ g \in requests => status[g] = "unknown"
    /\ Yes(g) \in responses => status[g] \notin {"unknown", "rejected"}
    /\ No(g) \in responses => status[g] = "rejected"
    /\ \A code \in ResultCodes :
         [goal |-> g, code |-> code] \in results =>
           /\ status[g] \in Server!Terminal /\ code \in {status[g], "unknown"}
           /\ g \notin result_requests
           /\ \A other \in ResultCodes : [goal |-> g, code |-> other] \in results => other = code

SingleInv ==
  /\ single_main = "waiting" => Unsent("only_goal")
  /\ single_main = "requesting" => ~ResultDue("only_goal")
  /\ single_ret = 0 => status["only_goal"] = "succeeded"

\* The goal the client works on is being asked for, or held, or decided.
CurrentInv ==
  current_goal_label # NoGoal =>
    /\ goal_request_in_progress <=> current_goal_label \in requests \/ Answered(current_goal_label)
    /\ current_goal_handle = current_goal_label <=> ResultDue(current_goal_label)
    /\ current_goal_handle = current_goal_label => ~goal_request_in_progress
    /\ current_goal_handle = NoGoal /\ ~goal_request_in_progress =>
         status[current_goal_label] \in Decided

\* The goal before it is over, the one after it was not sent.
OtherInv ==
  \A g \in Labels \ {current_goal_label} :
    IF current_goal_label = "second_goal" THEN Over(g) ELSE Unsent(g)

\* The flags of the client.
FlagInv ==
  /\ main = "waiting" => current_goal_label = NoGoal
  /\ main = "spinning" => current_goal_label # NoGoal
  /\ current_goal_handle \in {NoGoal, current_goal_label}
  /\ pending_goal \in {NoGoal, "second_goal"}
  /\ pending_goal # NoGoal \/ timer_armed => current_goal_label = "first_goal"
  /\ pending_goal # NoGoal => ~timer_armed
  /\ completion # NoGoal =>
       current_goal_label # NoGoal /\ current_goal_handle = NoGoal /\ ~goal_request_in_progress
  /\ completion = 0 => status["second_goal"] = "succeeded"
  /\ ret = 0 => completion = 0

ClientInv ==
  TypeOK /\ SlotInv /\ NetworkInv /\ SingleInv /\ CurrentInv /\ OtherInv /\ FlagInv

-----------------------------------------------------------------------------
LEMMA Constants ==
  /\ NoGoal \notin Labels /\ NoGoal # 0 /\ NoGoal # 1
  /\ Labels \subseteq Goals /\ "only_goal" \in Goals \ Labels
  /\ "first_goal" \in Labels /\ "second_goal" \in Labels /\ "first_goal" # "second_goal"
BY NoGoalAssumption DEF Labels, Goals

LEMMA InitInvariant == Init => ClientInv
<1> SUFFICES ASSUME Init PROVE ClientInv
  OBVIOUS
<1> USE DEF Init, ClientInit, Single!Init, Server!Init
<1>1. TypeOK
  BY DEF TypeOK
<1>2. SlotInv
  BY DEF SlotInv, Statuses, Server!Undecided
<1>3. \A g \in Goals : Absent(g) /\ status[g] = "unknown"
  BY DEF Absent, Answered, ResultDue
<1>4. NetworkInv
  BY DEF NetworkInv
<1>5. SingleInv
  BY <1>3, Constants DEF SingleInv, Unsent, Absent
<1>6. CurrentInv /\ OtherInv
  BY <1>3, Constants DEF CurrentInv, OtherInv, Unsent
<1>7. FlagInv
  BY Constants DEF FlagInv
<1> QED
  BY <1>1, <1>2, <1>4, <1>5, <1>6, <1>7 DEF ClientInv

-----------------------------------------------------------------------------
(* The server's side.                                                       *)

\* The steps of the abstract server, whoever causes them.
ServerStep ==
  \/ \E g \in Goals :
       \/ Server!Accept(g) \/ Server!Reject(g) \/ Server!Start(g) \/ Server!Cancel(g)
       \/ Server!Chase(g) \/ Server!Report(g)
       \/ \E outcome \in Server!Terminal, hold \in Measurable \cup {None} :
            Server!Settle(g, outcome, hold)
  \/ UNCHANGED serverVars

LEMMA NextServerStep == [Next]_vars => ServerStep
<1> USE DEF ServerStep
<1> SUFFICES ASSUME [Next]_vars PROVE ServerStep
  OBVIOUS
<1>1. CASE Sequential(ClientNext) \/ OneGoal(Single!Next) \/ Exited \/ UNCHANGED vars
  BY <1>1 DEF Sequential, OneGoal, Exited, vars
<1>2. ASSUME NEW g \in Goals, ServeGoalAccept(g) \/ ServeGoalReject(g) \/ ServeCancel(g) \/ ServeResult(g)
      PROVE  ServerStep
  BY <1>2 DEF ServeGoalAccept, ServeGoalReject, ServeCancel, ServeResult
<1>3. ASSUME NEW g \in Goals, Begin(g) \/ Chase(g) \/ Settle(g) \/ Report(g)
      PROVE  ServerStep
  BY <1>3 DEF Begin, Chase, Settle, Report
<1> QED
  BY <1>1, <1>2, <1>3 DEF Next, ServerNext

LEMMA SlotStep == SlotInv /\ ServerStep => SlotInv'
<1> SUFFICES ASSUME SlotInv, ServerStep PROVE SlotInv'
  OBVIOUS
<1> USE DEF SlotInv, Statuses, Live, Decided, Server!Terminal
<1>1. ASSUME NEW g \in Goals, Server!Accept(g) PROVE SlotInv'
  BY <1>1 DEF Server!Accept
<1>2. ASSUME NEW g \in Goals, Server!Reject(g) PROVE SlotInv'
  BY <1>2 DEF Server!Reject
<1>3. ASSUME NEW g \in Goals, Server!Start(g) PROVE SlotInv'
  BY <1>3 DEF Server!Start
<1>4. ASSUME NEW g \in Goals, Server!Cancel(g) PROVE SlotInv'
  BY <1>4 DEF Server!Cancel
<1>5. ASSUME NEW g \in Goals, Server!Chase(g) PROVE SlotInv'
  BY <1>5 DEF Server!Chase
<1>6. ASSUME NEW g \in Goals, Server!Report(g) PROVE SlotInv'
  BY <1>6 DEF Server!Report
<1>7. ASSUME NEW g \in Goals, NEW outcome \in Server!Terminal, NEW hold \in Measurable \cup {None},
             Server!Settle(g, outcome, hold)
      PROVE  SlotInv'
  <2>1. verdict' \in [Goals -> [outcome : Server!Terminal \cup {"none"},
                                final_position : Measurable \cup {None}]]
    BY <1>7 DEF Server!Settle
  <2>2. slot' = {} /\ status' = status
    BY <1>7 DEF Server!Settle
  <2>3. \A h \in Goals : status[h] = "unknown" => verdict'[h] = verdict[h]
    BY <1>7 DEF Server!Settle
  <2> QED
    BY <2>1, <2>2, <2>3
<1>8. CASE UNCHANGED serverVars
  BY <1>8 DEF serverVars
<1> QED
  BY <1>1, <1>2, <1>3, <1>4, <1>5, <1>6, <1>7, <1>8 DEF ServerStep

\* A goal moves from unknown to accepted or rejected, and once decided it stays so.
LEMMA StatusStep ==
  ASSUME SlotInv, ServerStep, NEW g \in Goals
  PROVE  /\ status[g] \in Decided => status'[g] = status[g]
         /\ status[g] # "unknown" => status'[g] # "unknown"
         /\ status[g] # "rejected" /\ status[g] # "unknown" => status'[g] # "rejected"
<1> USE DEF SlotInv, Statuses, Live, Decided, Server!Terminal
<1>1. ASSUME NEW h \in Goals, NEW s \in Statuses, status' = [status EXCEPT ![h] = s],
             status[h] \notin Decided, s # "unknown", status[h] # "unknown" => s # "rejected"
      PROVE  /\ status[g] \in Decided => status'[g] = status[g]
             /\ status[g] # "unknown" => status'[g] # "unknown"
             /\ status[g] # "rejected" /\ status[g] # "unknown" => status'[g] # "rejected"
  BY <1>1
<1>2. ASSUME status' = status
      PROVE  /\ status[g] \in Decided => status'[g] = status[g]
             /\ status[g] # "unknown" => status'[g] # "unknown"
             /\ status[g] # "rejected" /\ status[g] # "unknown" => status'[g] # "rejected"
  BY <1>2
<1>3. ASSUME NEW h \in Goals, Server!Accept(h) \/ Server!Reject(h) \/ Server!Start(h) \/ Server!Cancel(h)
      PROVE  \E s \in Statuses : /\ status' = [status EXCEPT ![h] = s]
                                 /\ status[h] \notin Decided /\ s # "unknown"
                                 /\ status[h] # "unknown" => s # "rejected"
  BY <1>3 DEF Server!Accept, Server!Reject, Server!Start, Server!Cancel
<1>4. ASSUME NEW h \in Goals, Server!Report(h)
      PROVE  \E s \in Statuses : /\ status' = [status EXCEPT ![h] = s]
                                 /\ status[h] \notin Decided /\ s # "unknown"
                                 /\ status[h] # "unknown" => s # "rejected"
  BY <1>4 DEF Server!Report
<1>5. ASSUME NEW h \in Goals, NEW outcome, NEW hold,
             Server!Chase(h) \/ Server!Settle(h, outcome, hold)
      PROVE  status' = status
  BY <1>5 DEF Server!Chase, Server!Settle
<1>6. CASE UNCHANGED serverVars
  BY <1>2, <1>6 DEF serverVars
<1> QED
  BY <1>1, <1>2, <1>3, <1>4, <1>5, <1>6 DEF ServerStep

-----------------------------------------------------------------------------
(* Types.                                                                   *)

LEMMA ServerTypes == TypeOK /\ SlotInv /\ ServerNext => TypeOK'
<1> SUFFICES ASSUME TypeOK, SlotInv, NEW g \in Goals,
                    \/ ServeGoalAccept(g) \/ ServeGoalReject(g) \/ ServeCancel(g) \/ ServeResult(g)
                    \/ Begin(g) \/ Chase(g) \/ Settle(g) \/ Report(g)
             PROVE  TypeOK'
  BY DEF ServerNext
<1> USE DEF TypeOK, clientVars, singleVars, networkVars
<1>1. ASSUME ServeGoalAccept(g) \/ ServeGoalReject(g) \/ ServeCancel(g)
      PROVE  TypeOK'
  <2>1. responses' \subseteq responses \cup {[goal |-> g, accepted |-> TRUE], [goal |-> g, accepted |-> FALSE]}
    BY <1>1 DEF ServeGoalAccept, ServeGoalReject, ServeCancel
  <2>2. responses' \subseteq [goal : Goals, accepted : BOOLEAN]
    <3>1. /\ [goal |-> g, accepted |-> TRUE] \in [goal : Goals, accepted : BOOLEAN]
          /\ [goal |-> g, accepted |-> FALSE] \in [goal : Goals, accepted : BOOLEAN]
      OBVIOUS
    <3>2. responses \subseteq [goal : Goals, accepted : BOOLEAN]
      OBVIOUS
    <3> HIDE DEF TypeOK
    <3> QED
      BY <2>1, <3>1, <3>2
  <2>3. requests' \subseteq requests /\ cancels' \subseteq cancels
    BY <1>1 DEF ServeGoalAccept, ServeGoalReject, ServeCancel
  <2>4. UNCHANGED <<clientVars, singleVars, result_requests, results>>
    BY <1>1 DEF ServeGoalAccept, ServeGoalReject, ServeCancel
  <2> QED
    BY <2>2, <2>3, <2>4
<1>2. CASE ServeResult(g)
  <2>1. PICK code \in {status[g], "unknown"} :
          results' = results \cup {[goal |-> g, code |-> code]}
    BY <1>2 DEF ServeResult
  <2>2. code \in ResultCodes
    BY <1>2, <2>1 DEF ServeResult, Server!Terminal, ResultCodes
  <2>3. results' \subseteq [goal : Goals, code : ResultCodes]
    BY <2>1, <2>2
  <2> QED
    BY <1>2, <2>3 DEF ServeResult
<1>3. CASE Begin(g) \/ Chase(g) \/ Settle(g) \/ Report(g)
  BY <1>3 DEF Begin, Chase, Settle, Report
<1> QED
  BY <1>1, <1>2, <1>3

LEMMA SequentialTypes == TypeOK /\ Sequential(ClientNext) => TypeOK'
<1> SUFFICES ASSUME TypeOK, ClientNext, UNCHANGED singleVars PROVE TypeOK'
  BY DEF Sequential
<1> USE Constants DEF TypeOK, singleVars, networkVars
<1>1. CASE Start
  BY <1>1 DEF Start, SendGoal
<1>2. CASE ServerNotAvailable \/ Exit \/ Interrupted
  BY <1>2 DEF ServerNotAvailable, Exit, Interrupted
<1>3. CASE SecondGoalTimer
  BY <1>3 DEF SecondGoalTimer, SendGoal, ReplaceActive, NoActiveGoal
<1>4. ASSUME NEW g \in Labels, GoalAccepted(g) PROVE TypeOK'
  BY <1>4 DEF GoalAccepted, ReplaceActive, HasPending
<1>5. ASSUME NEW g \in Labels, GoalRejected(g) PROVE TypeOK'
  BY <1>5 DEF GoalRejected, SendPending, NothingSent, SendGoal, HasPending, CompleteOnce
<1>6. ASSUME NEW g \in Labels, NEW code \in ResultCodes, ResultCb(g, code) PROVE TypeOK'
  BY <1>6 DEF ResultCb, SendPending, NothingSent, SendGoal, HasPending, CompleteOnce, ForgetGoal
<1> QED
  BY <1>1, <1>2, <1>3, <1>4, <1>5, <1>6 DEF ClientNext, ClientCallback

LEMMA SingleTypes == TypeOK /\ OneGoal(Single!Next) => TypeOK'
<1> SUFFICES ASSUME TypeOK, Single!Next, UNCHANGED <<clientVars, cancels>> PROVE TypeOK'
  BY DEF OneGoal
<1> USE Constants DEF TypeOK, clientVars, Single!Finish, Single!ExitCode
<1>1. CASE Single!Start \/ Single!ServerNotAvailable \/ Single!Interrupted
  BY <1>1 DEF Single!Start, Single!ServerNotAvailable, Single!Interrupted
<1>2. CASE Single!GoalAccepted \/ Single!GoalRejected
  BY <1>2 DEF Single!GoalAccepted, Single!GoalRejected
<1>3. ASSUME NEW code, Single!Result(code) PROVE TypeOK'
  BY <1>3 DEF Single!Result
<1> QED
  BY <1>1, <1>2, <1>3 DEF Single!Next, Single!Spin

LEMMA TypeStep == TypeOK /\ SlotInv /\ [Next]_vars => TypeOK'
<1> SUFFICES ASSUME TypeOK, SlotInv, [Next]_vars PROVE TypeOK'
  OBVIOUS
<1>1. CASE Exited \/ UNCHANGED vars
  BY <1>1 DEF Exited, vars, clientVars, networkVars, singleVars, TypeOK
<1> QED
  BY <1>1, ServerTypes, SequentialTypes, SingleTypes DEF Next

-----------------------------------------------------------------------------
(* What a step does to the messages of a goal.                              *)

\* The server turns requests into answers and nothing else.
LEMMA ServerMessages ==
  ASSUME ClientInv, ServerNext, NEW g \in Goals
  PROVE  /\ (g \in requests \/ Answered(g))' <=> g \in requests \/ Answered(g)
         /\ ResultDue(g)' <=> ResultDue(g)
         /\ Unsent(g) => status'[g] = "unknown"
         /\ UNCHANGED <<clientVars, singleVars>>
<1> PICK h \in Goals :
      \/ ServeGoalAccept(h) \/ ServeGoalReject(h) \/ ServeCancel(h) \/ ServeResult(h)
      \/ Begin(h) \/ Chase(h) \/ Settle(h) \/ Report(h)
  BY DEF ServerNext
<1> USE DEF ClientInv, SlotInv, Answered, ResultDue, Unsent, Absent, Yes, No
<1>1. CASE ServeGoalAccept(h)
  BY <1>1 DEF ServeGoalAccept, Server!Accept
<1>2. CASE ServeGoalReject(h)
  BY <1>2 DEF ServeGoalReject, Server!Reject
<1>3. CASE ServeCancel(h)
  BY <1>3 DEF ServeCancel, Server!Cancel, serverVars
<1>4. CASE ServeResult(h)
  <2>1. UNCHANGED <<clientVars, singleVars, requests, responses, status>>
    BY <1>4 DEF ServeResult, serverVars
  <2>2. PICK code \in {status[h], "unknown"} :
          results' = results \cup {[goal |-> h, code |-> code]}
    BY <1>4 DEF ServeResult
  <2>3. code \in ResultCodes
    BY <1>4, <2>2 DEF ServeResult, Server!Terminal, ResultCodes
  <2>4. h \in result_requests /\ result_requests' = result_requests \ {h}
    BY <1>4 DEF ServeResult
  <2>5. ResultDue(g)' <=> ResultDue(g)
    BY <2>2, <2>3, <2>4
  <2> QED
    BY <2>1, <2>5
<1>5. CASE Begin(h) \/ Chase(h) \/ Report(h)
  BY <1>5 DEF Begin, Chase, Report, Server!Start, Server!Chase, Server!Report, networkVars
<1>6. CASE Settle(h)
  BY <1>6 DEF Settle, Server!Settle, networkVars
<1> QED
  BY <1>1, <1>2, <1>3, <1>4, <1>5, <1>6

\* Neither client touches the messages of the other.
LEMMA SingleMessages ==
  ASSUME OneGoal(Single!Next), NEW g \in Labels
  PROVE  /\ g \in requests' <=> g \in requests
         /\ Answered(g)' <=> Answered(g)
         /\ ResultDue(g)' <=> ResultDue(g)
         /\ UNCHANGED <<clientVars, serverVars>>
<1> USE Constants DEF Answered, ResultDue, Yes, No, OneGoal
<1>1. CASE Single!Start \/ Single!ServerNotAvailable \/ Single!Interrupted
  BY <1>1 DEF Single!Start, Single!ServerNotAvailable, Single!Interrupted
<1>2. CASE Single!GoalAccepted \/ Single!GoalRejected
  BY <1>2 DEF Single!GoalAccepted, Single!GoalRejected
<1>3. ASSUME NEW code, Single!Result(code)
      PROVE  /\ UNCHANGED <<requests, responses, result_requests>>
             /\ \A c : [goal |-> g, code |-> c] \in results' <=> [goal |-> g, code |-> c] \in results
  BY <1>3 DEF Single!Result
<1> QED
  BY <1>1, <1>2, <1>3 DEF Single!Next, Single!Spin

LEMMA SequentialMessages ==
  ASSUME ClientInv, Sequential(ClientNext)
  PROVE  /\ "only_goal" \in requests' => "only_goal" \in requests
         /\ Answered("only_goal")' => Answered("only_goal")
         /\ ResultDue("only_goal")' => ResultDue("only_goal")
<1> USE Constants DEF Sequential, Answered, ResultDue
<1>1. CASE Start \/ ServerNotAvailable \/ Exit \/ Interrupted
  BY <1>1 DEF Start, SendGoal, ServerNotAvailable, Exit, Interrupted, networkVars
<1>2. CASE SecondGoalTimer
  BY <1>2 DEF SecondGoalTimer, SendGoal
<1>3. ASSUME NEW g \in Labels, GoalAccepted(g)
      PROVE  /\ UNCHANGED <<requests, results>> /\ responses' \subseteq responses
             /\ result_requests' = result_requests \cup {g}
  BY <1>3 DEF GoalAccepted
<1>4. ASSUME NEW g \in Labels, GoalRejected(g) \/ \E code \in ResultCodes : ResultCb(g, code)
      PROVE  /\ responses' \subseteq responses /\ results' \subseteq results
             /\ UNCHANGED result_requests
             /\ "only_goal" \in requests' => "only_goal" \in requests
  BY <1>4 DEF GoalRejected, ResultCb, SendPending, SendGoal, NothingSent, HasPending, ClientInv, TypeOK
<1> QED
  BY <1>1, <1>2, <1>3, <1>4 DEF ClientNext, ClientCallback

\* Taking messages is safe; so is asking for a goal that is unknown, or for a result that
\* was not asked for.
LEMMA NetworkKept ==
  ASSUME NetworkInv, UNCHANGED status,
         responses' \subseteq responses, results' \subseteq results,
         \A g \in Goals : g \in requests' => g \in requests \/ status[g] = "unknown",
         \A g \in Goals : g \in result_requests' => g \in result_requests \/ ~ResultDue(g)
  PROVE  NetworkInv'
BY DEF NetworkInv, ResultDue, Yes, No

\* Serving a goal keeps its messages true to its state.
LEMMA ServerNetwork == ASSUME ClientInv, ServerNext PROVE NetworkInv'
<1> SUFFICES ASSUME NEW g \in Goals
             PROVE  /\ g \in requests' => status'[g] = "unknown"
                    /\ Yes(g) \in responses' => status'[g] \notin {"unknown", "rejected"}
                    /\ No(g) \in responses' => status'[g] = "rejected"
                    /\ \A code \in ResultCodes :
                         [goal |-> g, code |-> code] \in results' =>
                           /\ status'[g] \in Server!Terminal /\ code \in {status'[g], "unknown"}
                           /\ g \notin result_requests'
                           /\ \A other \in ResultCodes : [goal |-> g, code |-> other] \in results' => other = code
  BY DEF NetworkInv, Yes, No
<1>1. PICK h \in Goals :
        \/ ServeGoalAccept(h) \/ ServeGoalReject(h) \/ ServeCancel(h) \/ ServeResult(h)
        \/ Begin(h) \/ Chase(h) \/ Settle(h) \/ Report(h)
  BY DEF ServerNext
<1>2. ServerStep
  BY NextServerStep DEF Next
<1>3. /\ status[g] \in Decided => status'[g] = status[g]
      /\ status[g] # "unknown" => status'[g] # "unknown"
      /\ status[g] # "rejected" /\ status[g] # "unknown" => status'[g] # "rejected"
  BY <1>2, StatusStep DEF ClientInv
<1> USE DEF ClientInv, SlotInv, NetworkInv, Yes, No, Decided
<1>4. CASE ServeGoalAccept(h)
  BY <1>3, <1>4 DEF ServeGoalAccept, Server!Accept
<1>5. CASE ServeGoalReject(h)
  BY <1>3, <1>5 DEF ServeGoalReject, Server!Reject
<1>6. CASE ServeCancel(h)
  BY <1>3, <1>6 DEF ServeCancel, Server!Cancel, serverVars
<1>7. CASE ServeResult(h)
  BY <1>7 DEF ServeResult, serverVars
<1>8. CASE Begin(h) \/ Chase(h) \/ Settle(h) \/ Report(h)
  <2>1. UNCHANGED networkVars
    BY <1>8 DEF Begin, Chase, Settle, Report
  <2>2. status[g] = "unknown" => status'[g] = "unknown"
    BY <1>8 DEF Begin, Chase, Settle, Report, Server!Start, Server!Chase, Server!Settle, Server!Report
  <2> QED
    BY <1>3, <2>1, <2>2 DEF networkVars
<1> QED
  BY <1>1, <1>4, <1>5, <1>6, <1>7, <1>8

-----------------------------------------------------------------------------
(* The steps of the sequential client.                                      *)

LEMMA StartStep == ASSUME ClientInv, Start, UNCHANGED serverVars
                   PROVE NetworkInv' /\ CurrentInv' /\ OtherInv' /\ FlagInv'
<1>1. /\ current_goal_label = NoGoal /\ current_goal_handle = NoGoal /\ completion = NoGoal
      /\ pending_goal = NoGoal
  BY Constants DEF ClientInv, FlagInv, Start
<1>2. \A g \in Labels : Unsent(g)
  BY <1>1, Constants DEF ClientInv, OtherInv
<1>3. /\ current_goal_label' = "first_goal" /\ goal_request_in_progress' = TRUE
      /\ requests' = requests \cup {"first_goal"}
      /\ UNCHANGED <<current_goal_handle, pending_goal, completion, ret, responses, result_requests, results, status>>
      /\ main' = "spinning" /\ timer_armed' = TRUE
  BY DEF Start, SendGoal, serverVars
<1>4. NetworkInv'
  BY <1>2, <1>3, NetworkKept, Constants DEF ClientInv, Unsent
<1>5. CurrentInv'
  BY <1>1, <1>2, <1>3, Constants DEF CurrentInv, Unsent, Absent, Answered, ResultDue
<1>6. OtherInv'
  BY <1>2, <1>3, Constants DEF OtherInv, Unsent, Absent, Answered, ResultDue, Yes, No
<1>7. FlagInv'
  BY <1>1, <1>3, Constants DEF FlagInv, ClientInv
<1> QED
  BY <1>4, <1>5, <1>6, <1>7

\* Sending the second goal once the first is over.
LEMMA SecondSent ==
  ASSUME ClientInv, SendGoal("second_goal"),
         current_goal_label = "first_goal", main = "spinning", completion = NoGoal,
         UNCHANGED <<completion, ret, main, result_requests, serverVars>>,
         current_goal_handle' = NoGoal, pending_goal' = NoGoal, timer_armed' = FALSE,
         responses' \subseteq responses, results' \subseteq results,
         Over("first_goal")'
  PROVE  NetworkInv' /\ CurrentInv' /\ OtherInv' /\ FlagInv'
<1>1. Unsent("second_goal")
  BY Constants DEF ClientInv, OtherInv
<1>2. /\ current_goal_label' = "second_goal" /\ goal_request_in_progress' = TRUE
      /\ requests' = requests \cup {"second_goal"} /\ UNCHANGED status
  BY DEF SendGoal, serverVars
<1>3. NetworkInv'
  BY <1>1, <1>2, NetworkKept DEF ClientInv, Unsent
<1>4. ~ResultDue("second_goal")'
  BY <1>1 DEF Unsent, Absent, ResultDue
<1>5. CurrentInv'
  BY <1>2, <1>4, Constants DEF CurrentInv
<1>6. OtherInv'
  BY <1>2 DEF OtherInv, Labels
<1>7. FlagInv'
  BY <1>2, Constants DEF FlagInv, ClientInv
<1> QED
  BY <1>3, <1>5, <1>6, <1>7

LEMMA TimerStep == ASSUME ClientInv, SecondGoalTimer, UNCHANGED serverVars
                   PROVE NetworkInv' /\ CurrentInv' /\ OtherInv' /\ FlagInv'
<1>1. /\ current_goal_label = "first_goal" /\ pending_goal = NoGoal
      /\ main = "spinning" /\ completion = NoGoal
  BY DEF SecondGoalTimer, Spinning, ClientInv, FlagInv
<1>2. /\ timer_armed' = FALSE
      /\ UNCHANGED <<main, ret, current_goal_handle, completion, responses, result_requests, results, status>>
  BY DEF SecondGoalTimer, serverVars
<1>3. CASE SendGoal("second_goal") /\ NoActiveGoal /\ ~goal_request_in_progress /\ UNCHANGED pending_goal
  <2>1. Over("first_goal")
    BY <1>1, <1>3, Constants DEF NoActiveGoal, ClientInv, CurrentInv, Over, Absent
  <2>2. Over("first_goal")'
    BY <1>2, <1>3, <2>1, Constants DEF SendGoal, Over, Absent, Answered, ResultDue, Yes, No
  <2> QED
    BY <1>1, <1>2, <1>3, <2>2, SecondSent DEF NoActiveGoal
<1>4. CASE /\ pending_goal' = "second_goal"
           /\ UNCHANGED <<current_goal_label, goal_request_in_progress, requests>>
  <2>1. NetworkInv'
    BY <1>2, <1>4, NetworkKept DEF ClientInv
  <2>2. CurrentInv'
    BY <1>2, <1>4 DEF ClientInv, CurrentInv, Answered, ResultDue
  <2>3. OtherInv'
    BY <1>2, <1>4 DEF ClientInv, OtherInv, Unsent, Over, Absent, Answered, ResultDue
  <2>4. FlagInv'
    BY <1>1, <1>2, <1>4 DEF ClientInv, FlagInv
  <2> QED
    BY <2>1, <2>2, <2>3, <2>4
<1> QED
  BY <1>3, <1>4 DEF SecondGoalTimer, ReplaceActive

\* The client hears only about the goal it works on.
LEMMA AnswerIsCurrent ==
  ASSUME ClientInv, NEW g \in Labels, Answered(g) \/ ResultDue(g)
  PROVE  g = current_goal_label /\ current_goal_label # NoGoal
BY Constants DEF ClientInv, OtherInv, Unsent, Over, Absent

LEMMA AcceptedStep == ASSUME ClientInv, NEW g \in Labels, GoalAccepted(g), UNCHANGED serverVars
                      PROVE NetworkInv' /\ CurrentInv' /\ OtherInv' /\ FlagInv'
<1>1. g = current_goal_label /\ g # NoGoal
  BY AnswerIsCurrent DEF GoalAccepted, Answered, Yes
<1>2. goal_request_in_progress /\ ~ResultDue(g) /\ g \notin requests /\ No(g) \notin responses
  BY <1>1, Constants DEF GoalAccepted, ClientInv, CurrentInv, NetworkInv, Answered, Yes
<1>3. /\ responses' = responses \ {Yes(g)} /\ result_requests' = result_requests \cup {g}
      /\ goal_request_in_progress' = FALSE /\ current_goal_handle' = g
      /\ UNCHANGED <<main, ret, timer_armed, current_goal_label, completion, requests, results, status, pending_goal>>
  BY DEF GoalAccepted, ReplaceActive, HasPending, serverVars, Yes
<1>4. completion = NoGoal
  BY DEF GoalAccepted, Spinning
<1>5. NetworkInv'
  BY <1>2, <1>3, NetworkKept DEF ClientInv
<1>6. CurrentInv'
  BY <1>1, <1>2, <1>3 DEF CurrentInv, Answered, ResultDue
<1>7. OtherInv'
  BY <1>1, <1>3, Constants DEF ClientInv, OtherInv, Unsent, Over, Absent, Answered, ResultDue
<1>8. FlagInv'
  BY <1>1, <1>3, <1>4 DEF ClientInv, FlagInv
<1> QED
  BY <1>5, <1>6, <1>7, <1>8

LEMMA RejectedStep == ASSUME ClientInv, NEW g \in Labels, GoalRejected(g), UNCHANGED serverVars
                      PROVE NetworkInv' /\ CurrentInv' /\ OtherInv' /\ FlagInv'
<1>1. g = current_goal_label /\ g # NoGoal
  BY AnswerIsCurrent DEF GoalRejected, Answered, No
<1>2. /\ ~ResultDue(g) /\ g \notin requests /\ Yes(g) \notin responses
      /\ status[g] = "rejected"
  BY <1>1, Constants DEF GoalRejected, ClientInv, CurrentInv, NetworkInv, Answered, No
<1>3. /\ responses' = responses \ {No(g)} /\ current_goal_handle' = NoGoal
      /\ UNCHANGED <<main, ret, timer_armed, result_requests, results, status>>
  BY DEF GoalRejected, serverVars, No
<1>4. completion = NoGoal /\ main = "spinning"
  BY DEF GoalRejected, Spinning
<1>5. CASE SendPending
  <2>1. pending_goal = "second_goal" /\ g = "first_goal" /\ timer_armed = FALSE
    BY <1>1, <1>5 DEF SendPending, HasPending, ClientInv, FlagInv, TypeOK
  <2>2. Over("first_goal")'
    BY <1>2, <1>3, <1>5, <2>1 DEF SendPending, SendGoal, Over, Absent, Answered, ResultDue, Yes, No, Decided
  <2> QED
    BY <1>1, <1>3, <1>4, <1>5, <2>1, <2>2, SecondSent DEF SendPending
<1>6. CASE ~HasPending /\ NothingSent /\ goal_request_in_progress' = FALSE /\ CompleteOnce(1)
  <2>1. completion' = 1 /\ UNCHANGED <<pending_goal, current_goal_label, requests>>
    BY <1>4, <1>6 DEF NothingSent, CompleteOnce
  <2>2. NetworkInv'
    BY <1>3, <2>1, NetworkKept DEF ClientInv
  <2>3. CurrentInv'
    BY <1>1, <1>2, <1>3, <1>6, <2>1 DEF CurrentInv, Answered, ResultDue, Yes, No, Decided
  <2>4. OtherInv'
    BY <1>1, <1>3, <2>1, Constants DEF ClientInv, OtherInv, Unsent, Over, Absent, Answered, ResultDue, Yes, No
  <2>5. FlagInv'
    BY <1>1, <1>3, <1>4, <1>6, <2>1, Constants DEF ClientInv, FlagInv
  <2> QED
    BY <2>2, <2>3, <2>4, <2>5
<1> QED
  BY <1>5, <1>6 DEF GoalRejected

LEMMA ResultStep == ASSUME ClientInv, NEW g \in Labels, NEW code \in ResultCodes, ResultCb(g, code),
                           UNCHANGED serverVars
                    PROVE NetworkInv' /\ CurrentInv' /\ OtherInv' /\ FlagInv'
<1>1. g = current_goal_label /\ g # NoGoal
  BY AnswerIsCurrent DEF ResultCb, ResultDue
<1>2. /\ current_goal_handle = g /\ ~goal_request_in_progress
      /\ g \notin requests /\ ~Answered(g)
  BY <1>1 DEF ResultCb, ResultDue, ClientInv, CurrentInv
<1>3. /\ status[g] \in Server!Terminal /\ code \in {status[g], "unknown"}
      /\ g \notin result_requests
      /\ \A other \in ResultCodes : [goal |-> g, code |-> other] \in results => other = code
  BY Constants DEF ResultCb, ClientInv, NetworkInv
<1>4. /\ results' = results \ {[goal |-> g, code |-> code]} /\ current_goal_handle' = NoGoal
      /\ UNCHANGED <<main, ret, timer_armed, responses, result_requests, status>>
  BY DEF ResultCb, ForgetGoal, serverVars
<1>5. completion = NoGoal /\ main = "spinning"
  BY DEF ResultCb, Spinning
<1>6. ~ResultDue(g)'
  BY <1>3, <1>4 DEF ResultDue
<1>7. CASE SendPending
  <2>1. pending_goal = "second_goal" /\ g = "first_goal" /\ timer_armed = FALSE
    BY <1>1, <1>7 DEF SendPending, HasPending, ClientInv, FlagInv, TypeOK
  <2>2. Over("first_goal")'
    BY <1>2, <1>3, <1>4, <1>6, <1>7, <2>1 DEF SendPending, SendGoal, Over, Absent, Answered, Decided, Yes, No
  <2> QED
    BY <1>1, <1>4, <1>5, <1>7, <2>1, <2>2, SecondSent DEF SendPending
<1>8. CASE NothingSent /\ UNCHANGED goal_request_in_progress
  <2>1. UNCHANGED <<pending_goal, current_goal_label, requests>>
    BY <1>8 DEF NothingSent
  <2>2. completion' = 0 => status["second_goal"] = "succeeded"
    BY <1>1, <1>3, <1>5, <1>8, Constants
    DEF ResultCb, SendPending, NothingSent, CompleteOnce, IsSecond, HasPending
  <2>3. NetworkInv'
    BY <1>4, <2>1, NetworkKept DEF ClientInv
  <2>4. CurrentInv'
    BY <1>1, <1>2, <1>3, <1>4, <1>6, <1>8, <2>1 DEF CurrentInv, Answered, Decided, Yes, No
  <2>5. OtherInv'
    BY <1>1, <1>4, <2>1, Constants DEF ClientInv, OtherInv, Unsent, Over, Absent, Answered, ResultDue
  <2>6. FlagInv'
    BY <1>1, <1>2, <1>4, <1>5, <1>8, <2>1, <2>2, Constants DEF ClientInv, FlagInv
  <2> QED
    BY <2>3, <2>4, <2>5, <2>6
<1> QED
  BY <1>7, <1>8 DEF ResultCb

\* The steps of main() that touch no goal.
LEMMA ExitStep == ASSUME ClientInv, ServerNotAvailable \/ Exit \/ Interrupted, UNCHANGED serverVars
                  PROVE NetworkInv' /\ CurrentInv' /\ OtherInv' /\ FlagInv'
<1>1. /\ UNCHANGED <<timer_armed, current_goal_handle, current_goal_label, pending_goal,
                     goal_request_in_progress, completion, networkVars, status>>
      /\ main' = "exited" /\ ret' \in {1, completion}
  BY DEF ServerNotAvailable, Exit, Interrupted, serverVars
<1>2. NetworkInv'
  BY <1>1, NetworkKept DEF ClientInv, networkVars
<1>3. CurrentInv' /\ OtherInv'
  BY <1>1 DEF ClientInv, CurrentInv, OtherInv, Unsent, Over, Absent, Answered, ResultDue, networkVars
<1>4. FlagInv'
  BY <1>1 DEF ClientInv, FlagInv
<1> QED
  BY <1>2, <1>3, <1>4

LEMMA SequentialStep == ASSUME ClientInv, Sequential(ClientNext)
                        PROVE NetworkInv' /\ SingleInv' /\ CurrentInv' /\ OtherInv' /\ FlagInv'
<1>1. SingleInv'
  BY SequentialMessages DEF Sequential, ClientInv, SingleInv, Unsent, Absent, singleVars, serverVars
<1> QED
  BY <1>1, StartStep, ExitStep, TimerStep, AcceptedStep, RejectedStep, ResultStep
  DEF Sequential, ClientNext, ClientCallback

-----------------------------------------------------------------------------
(* The other steps.                                                         *)

LEMMA ServerInvStep == ASSUME ClientInv, ServerNext
                       PROVE NetworkInv' /\ SingleInv' /\ CurrentInv' /\ OtherInv' /\ FlagInv'
<1>1. /\ UNCHANGED <<clientVars, singleVars>>
      /\ \A g \in Goals :
           /\ (g \in requests \/ Answered(g))' <=> g \in requests \/ Answered(g)
           /\ ResultDue(g)' <=> ResultDue(g)
           /\ Unsent(g) => status'[g] = "unknown"
  BY ServerMessages, Constants
<1>2. \A g \in Goals : status[g] \in Decided => status'[g] = status[g]
  BY StatusStep, NextServerStep DEF ClientInv, Next
<1>3. SingleInv'
  BY <1>1, <1>2, Constants
  DEF ClientInv, SingleInv, Unsent, Absent, singleVars, Decided, Server!Terminal
<1>4. CurrentInv'
  BY <1>1, <1>2, Constants DEF ClientInv, CurrentInv, TypeOK, clientVars
<1>5. OtherInv'
  BY <1>1, <1>2, Constants DEF ClientInv, OtherInv, Unsent, Over, Absent, clientVars
<1>6. FlagInv'
  BY <1>1, <1>2, Constants DEF ClientInv, FlagInv, clientVars, Decided, Server!Terminal
<1> QED
  BY <1>3, <1>4, <1>5, <1>6, ServerNetwork

LEMMA SingleStep == ASSUME ClientInv, OneGoal(Single!Next)
                    PROVE NetworkInv' /\ SingleInv' /\ CurrentInv' /\ OtherInv' /\ FlagInv'
<1>1. /\ UNCHANGED <<clientVars, serverVars>>
      /\ \A g \in Labels : /\ g \in requests' <=> g \in requests
                           /\ Answered(g)' <=> Answered(g)
                           /\ ResultDue(g)' <=> ResultDue(g)
  BY SingleMessages DEF OneGoal
<1>2. CurrentInv'
  BY <1>1 DEF ClientInv, CurrentInv, TypeOK, clientVars, serverVars
<1>3. OtherInv'
  BY <1>1 DEF ClientInv, OtherInv, Unsent, Over, Absent, clientVars, serverVars
<1>4. FlagInv'
  BY <1>1 DEF ClientInv, FlagInv, clientVars, serverVars
<1>5. NetworkInv' /\ SingleInv'
  <2>1. CASE Single!Start
    BY <1>1, <2>1, NetworkKept, Constants
    DEF Single!Start, ClientInv, SingleInv, Unsent, Absent, ResultDue, serverVars
  <2>2. CASE Single!ServerNotAvailable \/ Single!Interrupted
    BY <1>1, <2>2, NetworkKept, Constants
    DEF Single!ServerNotAvailable, Single!Interrupted, Single!Finish, ClientInv, SingleInv, ResultDue, serverVars
  <2>3. CASE Single!GoalAccepted
    BY <1>1, <2>3, NetworkKept, Constants
    DEF Single!GoalAccepted, ClientInv, SingleInv, serverVars
  <2>4. CASE Single!GoalRejected
    BY <1>1, <2>4, NetworkKept, Constants
    DEF Single!GoalRejected, Single!Finish, ClientInv, SingleInv, serverVars
  <2>5. ASSUME NEW code \in ResultCodes, Single!Result(code) PROVE NetworkInv' /\ SingleInv'
    <3>1. /\ results' \subseteq results /\ UNCHANGED <<requests, responses, result_requests, status>>
          /\ single_main' = "exited" /\ single_ret' = Single!ExitCode(code)
      BY <1>1, <2>5 DEF Single!Result, Single!Finish, serverVars
    <3>2. code \in {status["only_goal"], "unknown"}
      BY <2>5, Constants DEF Single!Result, ClientInv, NetworkInv
    <3>3. SingleInv'
      BY <3>1, <3>2 DEF SingleInv, Single!ExitCode
    <3> QED
      BY <3>1, <3>3, NetworkKept DEF ClientInv
  <2> QED
    BY <2>1, <2>2, <2>3, <2>4, <2>5 DEF OneGoal, Single!Next, Single!Spin, ResultCodes
<1> QED
  BY <1>2, <1>3, <1>4, <1>5

LEMMA StutterStep == ASSUME ClientInv, UNCHANGED vars
                     PROVE NetworkInv' /\ SingleInv' /\ CurrentInv' /\ OtherInv' /\ FlagInv'
BY NetworkKept
DEF vars, clientVars, networkVars, serverVars, singleVars, ClientInv, SingleInv, CurrentInv, OtherInv,
    FlagInv, Unsent, Over, Absent, Answered, ResultDue

LEMMA Invariance == Spec => []ClientInv
<1>1. ClientInv /\ [Next]_vars => ClientInv'
  <2> SUFFICES ASSUME ClientInv, [Next]_vars PROVE ClientInv'
    OBVIOUS
  <2>1. TypeOK' /\ SlotInv'
    BY TypeStep, SlotStep, NextServerStep DEF ClientInv
  <2>2. NetworkInv' /\ SingleInv' /\ CurrentInv' /\ OtherInv' /\ FlagInv'
    BY SequentialStep, SingleStep, ServerInvStep, StutterStep DEF Next, Exited
  <2> QED
    BY <2>1, <2>2 DEF ClientInv
<1> QED
  BY <1>1, InitInvariant, PTL DEF Spec

-----------------------------------------------------------------------------
\* A goal of the client other than the one it works on is not in the server.
LEMMA OthersOut ==
  ASSUME ClientInv, NEW g \in Labels, g # current_goal_label
  PROVE  g \notin slot /\ status[g] \notin Live /\ g \notin requests
BY Constants DEF ClientInv, SlotInv, OtherInv, Unsent, Over, Absent, Live, Decided, Server!Terminal

\* The clients and what is in flight between them and the server have their types.
THEOREM TypeCorrect == Spec => []TypeOK
BY Invariance, PTL DEF ClientInv

\* The second goal of request_goal_change() is sent when the slot of the first is free.
THEOREM SecondGoalWelcome == Spec => []RequestFindsFreeSlot
<1>1. ClientInv => RequestFindsFreeSlot
  <2> SUFFICES ASSUME ClientInv, NEW g \in requests \cap Labels PROVE slot \cap Labels = {}
    BY DEF RequestFindsFreeSlot
  <2>1. g = current_goal_label /\ g \notin slot
    BY OthersOut, Constants DEF ClientInv, NetworkInv, SlotInv, Live
  <2> QED
    BY <2>1, OthersOut
<1> QED
  BY <1>1, Invariance, PTL

\* Timer, goal response, cancel and result in any order: one goal of the client at a time.
THEOREM OneGoalAtATime == Spec => []OneLiveGoal
<1>1. ClientInv => OneLiveGoal
  BY OthersOut DEF OneLiveGoal, Live
<1> QED
  BY <1>1, Invariance, PTL

\* complete_once() is called when the server has nothing of this client left.
THEOREM CompletionIsClean == Spec => []NothingLeftRunning
<1>1. ClientInv => NothingLeftRunning
  <2> SUFFICES ASSUME ClientInv, completion # NoGoal, NEW g \in Labels
               PROVE  g \notin slot /\ g \notin requests
    BY DEF NothingLeftRunning
  <2>1. CASE g = current_goal_label
    BY <2>1, Constants
    DEF ClientInv, FlagInv, CurrentInv, SlotInv, Live, Decided, Server!Terminal
  <2> QED
    BY <2>1, OthersOut
<1> QED
  BY <1>1, Invariance, PTL

\* Exit status 0 of either main() tells the truth.
THEOREM ExitStatusTrue == Spec => []ExitCodeSound
<1>1. ClientInv => ExitCodeSound
  BY DEF ClientInv, FlagInv, SingleInv, ExitCodeSound
<1> QED
  BY <1>1, Invariance, PTL
==============================================================================
