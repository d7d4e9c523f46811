---------------------------- MODULE ServerInvariant ----------------------------
(***************************************************************************)
(* The inductive invariant of the action server: what relates the program   *)
(* counter of each execute() thread to its goal handle, its result and the  *)
(* measurement it looked at, next to the properties it is there to prove.   *)
(***************************************************************************)
EXTENDS JointPositionControllerServer

\* The handle and the thread of a goal go together although two threads move them: no
\* thread runs for a goal that is not accepted, the handle is not terminal before the
\* thread's last call, and it ends with the outcome the thread had decided on.
HandleFollowsThread ==
  \A g \in Goals :
    /\ pc[g] = "none" <=> status[g] \in {"unknown", "rejected"}
    /\ pc[g] = "reserved" <=> status[g] = "accepted"
    /\ pc[g] = "done" <=> status[g] \in Terminal
    /\ pc[g] = "done" => status[g] = result[g].outcome

\* A result exists exactly when the thread has given the slot back.
ResultFollowsThread ==
  \A g \in Goals :
    /\ pc[g] \in {"finish", "done"} <=> result[g].outcome \in Terminal
    /\ result[g].outcome = "none" => result[g].final_position = NaN

\* A valid measurement, and a thread's copy of one, is a position the joint reported,
\* and the thread goes past its checks with a valid copy only.
MeasurementSound ==
  /\ current_pos_is_valid => current_pos \in Measurable
  /\ \A g \in Goals : snapshot[g].valid => snapshot[g].pos \in Measurable
  /\ \A g \in Goals : pc[g] \in {"converge", "feedback"} => snapshot[g].valid

\* The target of an accepted goal lies within the limits.
TargetAdmitted == \A g \in Goals : pc[g] # "none" => target[g] \in lower_limit..upper_limit

IInv ==
  /\ TypeOK
  /\ HandleFollowsThread
  /\ ResultFollowsThread
  /\ SlotHasOneOwner
  /\ MeasurementSound
  /\ TargetAdmitted
  /\ CommandProvenance
  /\ LegalTerminalTransition
  /\ ResultSound
==============================================================================
