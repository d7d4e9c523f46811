--------------------------- MODULE SingleGoalAction ---------------------------
(***************************************************************************)
(* What the action server promises, without threads, clock or mutex: one    *)
(* goal at a time owns the command; the owner makes the command its target, *)
(* then settles on a verdict and a holding position and gives the slot back *)
(* in one step, and only later reports the verdict to its client.           *)
(***************************************************************************)
EXTENDS Integers

CONSTANTS
  Goals,
  Limits,      \* targets that may be accepted, a set of integers
  Measurable,  \* positions the joint may report, a set of integers
  Tolerance,
  None         \* no position, not an integer

VARIABLES
  slot,     \* the goals that own the command: none or one
  status,   \* of each goal, as its client can know it
  target, verdict,
  command

vars == <<slot, status, target, verdict, command>>

Terminal == {"succeeded", "canceled", "aborted"}
Undecided == [outcome |-> "none", final_position |-> None]

Init ==
  /\ slot = {}
  /\ status  = [g \in Goals |-> "unknown"]
  /\ target  = [g \in Goals |-> None]
  /\ verdict = [g \in Goals |-> Undecided]
  /\ command = None

Accept(g) ==
  /\ status[g] = "unknown" /\ slot = {}
  /\ \E p \in Limits : target' = [target EXCEPT ![g] = p]
  /\ slot' = {g}
  /\ status' = [status EXCEPT ![g] = "accepted"]
  /\ UNCHANGED <<verdict, command>>

Reject(g) ==
  /\ status[g] = "unknown"
  /\ status' = [status EXCEPT ![g] = "rejected"]
  /\ UNCHANGED <<slot, target, verdict, command>>

Start(g) ==
  /\ status[g] = "accepted"
  /\ status' = [status EXCEPT ![g] = "executing"]
  /\ UNCHANGED <<slot, target, verdict, command>>

Cancel(g) ==
  /\ status[g] = "executing"
  /\ status' = [status EXCEPT ![g] = "canceling"]
  /\ UNCHANGED <<slot, target, verdict, command>>

Chase(g) ==
  /\ g \in slot /\ status[g] \in {"executing", "canceling"}
  /\ command' = target[g]
  /\ UNCHANGED <<slot, status, target, verdict>>

Within(g, hold) == target[g] - hold \in (-Tolerance)..Tolerance

Settle(g, outcome, hold) ==
  /\ g \in slot /\ status[g] \in {"executing", "canceling"}
  /\ outcome = "canceled" => status[g] = "canceling" /\ hold \in Measurable
  /\ outcome = "succeeded" => hold \in Measurable /\ Within(g, hold)
  /\ slot' = {}
  /\ verdict' = [verdict EXCEPT ![g] = [outcome |-> outcome, final_position |-> hold]]
  /\ command' = hold
  /\ UNCHANGED <<status, target>>

Report(g) ==
  /\ verdict[g].outcome \in Terminal
  /\ status[g] \in {"executing", "canceling"}
  /\ verdict[g].outcome = "canceled" => status[g] = "canceling"
  /\ status' = [status EXCEPT ![g] = verdict[g].outcome]
  /\ UNCHANGED <<slot, target, verdict, command>>

Next ==
  \E g \in Goals :
    \/ Accept(g) \/ Reject(g) \/ Start(g) \/ Cancel(g) \/ Chase(g) \/ Report(g)
    \/ \E outcome \in Terminal, hold \in Measurable \cup {None} : Settle(g, outcome, hold)

Spec == Init /\ [][Next]_vars
==============================================================================
