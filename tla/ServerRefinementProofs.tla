------------------------- MODULE ServerRefinementProofs -------------------------
(***************************************************************************)
(* Proof that the action server implements SingleGoalAction, for every set  *)
(* of goals and messages.                                                   *)
(***************************************************************************)
EXTENDS ServerRefinement, ServerProofs

slot == {g \in Goals : Owns(g)}

\* Leaving the slot and everything a client can see alone is invisible.
LEMMA Invisible ==
  ASSUME slot' = slot, UNCHANGED <<status, target, result, pos_cmd>>
  PROVE  UNCHANGED Abstract!vars
BY DEF Abstract!vars, slot

\* The slot is empty when has_active_goal is not set.
LEMMA FreeSlot == ASSUME IInv, ~has_active_goal PROVE slot = {}
BY DEF IInv, SlotHasOneOwner, slot

\* The slot holds the goal whose thread has not released it, and no other.
LEMMA TakenSlot == ASSUME IInv, NEW g \in Goals, Owns(g) PROVE slot = {g}
BY DEF IInv, SlotHasOneOwner, slot

LEMMA InitRefines == Init => Abstract!Init
BY DEF Init, Abstract!Init, Abstract!Undecided, NoResult, Owns

-----------------------------------------------------------------------------
\* handle_goal() accepts: the free slot goes to a goal with an admitted target.
LEMMA AcceptRefines ==
  ASSUME IInv, NEW g \in Goals, NEW p \in GoalPositions, HandleGoalAccept(g, p)
  PROVE  Abstract!Accept(g)
<1>1. slot = {}
  BY FreeSlot DEF HandleGoalAccept, Admissible
<1>2. p \in lower_limit..upper_limit
  BY DataAssumption, ParameterAssumption DEF HandleGoalAccept, Admissible, Position
<1>3. slot' = {g}
  BY <1>1 DEF HandleGoalAccept, slot, Owns, IInv, TypeOK
<1> QED
  BY <1>1, <1>2, <1>3 DEF HandleGoalAccept, Abstract!Accept, slot

\* A branch that ends the goal: the verdict, the hold and the slot in one step.
LEMMA EndsRefines ==
  ASSUME IInv, NEW g \in Goals, NEW outcome \in Terminal, NEW hold \in Position,
         EndsWith(g, outcome, hold)
  PROVE  Abstract!Settle(g, outcome, hold)
<1> USE DEF IInv, TypeOK
<1>1. slot = {g}
  BY TakenSlot DEF EndsWith, Owns
<1>2. status[g] \in {"executing", "canceling"}
  BY DEF EndsWith, HandleFollowsThread, Statuses, Terminal
<1>3. outcome = "succeeded" => hold \in Measurable /\ Abstract!Within(g, hold)
  <2> SUFFICES ASSUME outcome = "succeeded" PROVE hold \in Measurable /\ Abstract!Within(g, hold)
    OBVIOUS
  <2>1. hold \in Int /\ hold \in Measurable /\ AbsDiff(target[g], hold) <= position_tolerance
    BY MeasurableFinite DEF EndsWith
  <2>2. target[g] \in Int
    BY ParameterAssumption DEF EndsWith, TargetAdmitted
  <2> QED
    BY <2>1, <2>2, ParameterAssumption DEF AbsDiff, Abstract!Within
<1>4. slot' = {}
  BY <1>1 DEF EndsWith, Release, slot, Owns
<1> QED
  BY <1>1, <1>2, <1>3, <1>4 DEF EndsWith, Release, FillResult, StoreHold, Abstract!Settle, slot

\* The thread goes on: the command becomes the target, or nothing visible happens.
LEMMA GoesOnRefines ==
  ASSUME IInv, NEW g \in Goals, GoesOn(g)
  PROVE  Abstract!Chase(g) \/ UNCHANGED Abstract!vars
<1> USE DEF IInv, TypeOK
<1>1. slot = {g}
  BY TakenSlot DEF GoesOn, Owns
<1>2. slot' = slot
  BY <1>1 DEF GoesOn, slot, Owns
<1>3. status[g] \in {"executing", "canceling"}
  BY DEF GoesOn, HandleFollowsThread, Statuses, Terminal
<1>4. CASE UNCHANGED pos_cmd
  BY <1>2, <1>4, Invisible DEF GoesOn, handles
<1>5. CASE pos_cmd' = target[g]
  BY <1>1, <1>2, <1>3, <1>5 DEF GoesOn, handles, Abstract!Chase, slot
<1> QED
  BY <1>4, <1>5 DEF GoesOn

\* The last call on the handle reports what was decided.
LEMMA FinishRefines ==
  ASSUME IInv, NEW g \in Goals, ExecFinish(g)
  PROVE  Abstract!Report(g)
<1> USE DEF IInv, TypeOK
<1>1. result[g].outcome \in Terminal
  BY DEF ExecFinish, Goto, ResultFollowsThread
<1>2. status[g] \in {"executing", "canceling"} /\ (result[g].outcome = "canceled" => status[g] = "canceling")
  BY DEF ExecFinish, Goto, LegalTerminalTransition
<1>3. slot' = slot
  BY DEF ExecFinish, Goto, slot, Owns
<1> QED
  BY <1>1, <1>2, <1>3 DEF ExecFinish, shared, Abstract!Report, Abstract!Terminal, Terminal, slot

-----------------------------------------------------------------------------
\* Every step of the server is a step of the promise, or invisible.
LEMMA StepRefines == IInv /\ [Next]_vars => [Abstract!Next]_(Abstract!vars)
<1> SUFFICES ASSUME IInv, [Next]_vars PROVE Abstract!Next \/ UNCHANGED Abstract!vars
  OBVIOUS
<1> USE DEF IInv, TypeOK
<1>1. ASSUME NEW g \in Goals, NEW p \in GoalPositions, HandleGoalAccept(g, p) PROVE Abstract!Next
  BY <1>1, AcceptRefines DEF Abstract!Next
<1>2. ASSUME NEW g \in Goals, NEW p \in GoalPositions, HandleGoalReject(g, p) PROVE Abstract!Next
  <2>1. slot' = slot
    BY <1>2 DEF HandleGoalReject, slot, Owns
  <2>2. Abstract!Reject(g)
    BY <1>2, <2>1 DEF HandleGoalReject, shared, Abstract!Reject, slot
  <2> QED
    BY <2>2 DEF Abstract!Next
<1>3. ASSUME NEW g \in Goals, Begins(g) PROVE Abstract!Next
  <2>1. slot' = slot
    BY <1>3 DEF Begins, slot, Owns
  <2>2. Abstract!Start(g)
    BY <1>3, <2>1 DEF Begins, shared, HandleFollowsThread, Abstract!Start, slot
  <2> QED
    BY <2>2 DEF Abstract!Next
<1>4. ASSUME NEW g \in Goals, HandleCancel(g) PROVE Abstract!Next
  <2>1. slot' = slot
    BY <1>4 DEF HandleCancel, slot, Owns
  <2>2. Abstract!Cancel(g)
    BY <1>4, <2>1 DEF HandleCancel, shared, Abstract!Cancel, slot
  <2> QED
    BY <2>2 DEF Abstract!Next
<1>5. ASSUME NEW g \in Goals, GoesOn(g) PROVE Abstract!Next \/ UNCHANGED Abstract!vars
  BY <1>5, GoesOnRefines DEF Abstract!Next
<1>6. ASSUME NEW g \in Goals, Ends(g) PROVE Abstract!Next
  <2>1. PICK outcome \in Terminal, hold \in Position : EndsWith(g, outcome, hold)
    BY <1>6 DEF Ends
  <2>2. hold \in Measurable \cup {NaN} /\ outcome \in Abstract!Terminal
    BY <2>1 DEF EndsWith, Terminal, Abstract!Terminal
  <2> QED
    BY <2>1, <2>2, EndsRefines DEF Abstract!Next
<1>7. ASSUME NEW g \in Goals, ExecFinish(g) PROVE Abstract!Next
  BY <1>7, FinishRefines DEF Abstract!Next
<1>8. CASE Elsewhere
  <2>1. slot' = slot
    BY <1>8, ElsewhereShape DEF slot, Owns
  <2> QED
    BY <1>8, <2>1, ElsewhereShape, Invisible DEF handles
<1> QED
  BY <1>1, <1>2, <1>3, <1>4, <1>5, <1>6, <1>7, <1>8, StepCases

\* The action server, with its threads, mutex and clock, implements the single-goal
\* action its clients rely on.
THEOREM Refinement == Spec => ImplementsSingleGoalAction
<1>1. Init => Abstract!Init
  BY InitRefines
<1>2. IInv /\ [Next]_vars => [Abstract!Next]_(Abstract!vars)
  BY StepRefines
<1> QED
  BY <1>1, <1>2, Invariance, PTL DEF Spec, ImplementsSingleGoalAction, Abstract!Spec

-----------------------------------------------------------------------------
\* The target of the goal that owns the slot, and of no other.
LEMMA ActiveIs ==
  /\ \A g \in Goals : slot = {g} => ActiveTarget = target[g]
  /\ slot = {} => ActiveTarget = NaN
<1>1. ASSUME NEW g \in Goals, slot = {g} PROVE ActiveTarget = target[g]
  <2>1. Owns(g) /\ \A h \in Goals : Owns(h) => h = g
    BY <1>1 DEF slot
  <2> QED
    BY <2>1 DEF ActiveTarget
<1> QED
  BY <1>1 DEF slot, ActiveTarget

LEMMA ActiveIsNext ==
  /\ \A g \in Goals : slot' = {g} => ActiveTarget' = target'[g]
  /\ slot' = {} => ActiveTarget' = NaN
<1>1. ASSUME NEW g \in Goals, slot' = {g} PROVE ActiveTarget' = target'[g]
  <2>1. Owns(g)' /\ \A h \in Goals : Owns(h)' => h = g
    BY <1>1 DEF slot
  <2> QED
    BY <2>1 DEF ActiveTarget
<1> QED
  BY <1>1 DEF slot, ActiveTarget

LEMMA SlotCases == IInv => slot = {} \/ \E g \in Goals : slot = {g} /\ target[g] \in lower_limit..upper_limit
<1> SUFFICES ASSUME IInv, slot # {} PROVE \E g \in Goals : slot = {g} /\ target[g] \in lower_limit..upper_limit
  OBVIOUS
<1>1. PICK g \in Goals : Owns(g)
  BY DEF slot
<1>2. slot = {g} /\ target[g] \in lower_limit..upper_limit
  BY <1>1, TakenSlot DEF IInv, TargetAdmitted, Owns
<1> QED
  BY <1>2

\* Every step of the promise is one of the command source: clients, handles and verdicts
\* do not show.
LEMMA StepIsSource == IInv /\ [Abstract!Next]_(Abstract!vars) => [Source!Next]_<<ActiveTarget, pos_cmd>>
<1> SUFFICES ASSUME IInv, [Abstract!Next]_(Abstract!vars)
             PROVE  Source!Next \/ UNCHANGED <<ActiveTarget, pos_cmd>>
  OBVIOUS
<1>0. \A g \in Goals : slot = {g} => ActiveTarget = target[g] /\ target[g] \in lower_limit..upper_limit
  BY ActiveIs, SlotCases
<1>1. ASSUME NEW g \in Goals, Abstract!Accept(g) PROVE Source!Next
  <2>1. slot = {} /\ slot' = {g} /\ UNCHANGED pos_cmd
    BY <1>1 DEF Abstract!Accept, slot
  <2>2. target'[g] \in lower_limit..upper_limit
    BY <1>1 DEF Abstract!Accept, IInv, TypeOK
  <2> QED
    BY <2>1, <2>2, ActiveIs, ActiveIsNext DEF Source!Next, Source!Accept
<1>2. ASSUME NEW g \in Goals, Abstract!Chase(g) PROVE Source!Next
  <2>1. slot = {g} /\ slot' = {g} /\ target' = target /\ pos_cmd' = target[g]
    BY <1>2, SlotCases DEF Abstract!Chase, slot
  <2>2. ActiveTarget = target[g] /\ ActiveTarget' = target[g] /\ target[g] # NaN
    BY <2>1, <1>0, ActiveIsNext, DataAssumption, ParameterAssumption
  <2> QED
    BY <2>1, <2>2 DEF Source!Next, Source!Chase
<1>3. ASSUME NEW g \in Goals, NEW outcome \in Abstract!Terminal, NEW hold \in Measurable \cup {NaN},
             Abstract!Settle(g, outcome, hold)
      PROVE  Source!Next
  <2>1. slot = {g} /\ slot' = {} /\ pos_cmd' = hold
    BY <1>3, SlotCases DEF Abstract!Settle, slot
  <2>2. ActiveTarget # NaN /\ ActiveTarget' = NaN
    BY <2>1, <1>0, ActiveIsNext, DataAssumption, ParameterAssumption
  <2>3. Source!End(FALSE, hold)
    BY <2>1, <2>2 DEF Source!End
  <2> QED
    BY <2>3 DEF Source!Next
<1>4. ASSUME NEW g \in Goals, Abstract!Reject(g) \/ Abstract!Start(g) \/ Abstract!Cancel(g) \/ Abstract!Report(g)
      PROVE  UNCHANGED <<ActiveTarget, pos_cmd>>
  <2>1. UNCHANGED <<slot, target, pos_cmd>>
    BY <1>4 DEF Abstract!Reject, Abstract!Start, Abstract!Cancel, Abstract!Report, slot
  <2> QED
    BY <2>1, SlotCases, ActiveIs, ActiveIsNext
<1>5. CASE UNCHANGED Abstract!vars
  <2>1. UNCHANGED <<slot, target, pos_cmd>>
    BY <1>5 DEF Abstract!vars, slot
  <2> QED
    BY <2>1, SlotCases, ActiveIs, ActiveIsNext
<1> QED
  BY <1>1, <1>2, <1>3, <1>4, <1>5 DEF Abstract!Next

\* For the backend the server is a source of commands: one target at a time, and the hold
\* of the last goal in between.
THEOREM SourceRefinement == Spec => ImplementsCommandSource
<1>1. Init => Source!Init
  BY InitRefines, ActiveIs DEF Abstract!Init, Source!Init, slot
<1>2. IInv /\ [Next]_vars => [Source!Next]_<<ActiveTarget, pos_cmd>>
  BY StepRefines, StepIsSource
<1> QED
  BY <1>1, <1>2, Invariance, PTL DEF Spec, ImplementsCommandSource, Source!Spec
==============================================================================
