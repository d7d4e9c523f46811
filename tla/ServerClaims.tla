----------------------------- MODULE ServerClaims -----------------------------
(***************************************************************************)
(* Statements of the source's comments and of its header about the server   *)
(* that the code does not keep.                                             *)
(***************************************************************************)
EXTENDS JointPositionControllerServer

\* joint_position_controller_server.cpp:398-399, on an accepted cancel: "The execution
\* thread observes that state and publishes the terminal canceled result."
AcceptedCancelIsObserved ==
  [][\A g \in Goals : status[g] = "canceling" => status'[g] # "succeeded"]_vars

\* joint_position_controller_server.cpp:418: "The backend command topic should never
\* receive positions outside this package boundary."
CommandWithinBoundary == command # NaN => command \in lower_limit..upper_limit

\* joint_position_controller_server.cpp:208-211: on the first iteration "the feedback
\* publication condition triggers immediately and the goal does not sit silent for one
\* full period before sending its first feedback."
FirstFeedbackIsImmediate == [][\A g \in Goals : ExecFeedback(g) => feedback_sent'[g]]_vars
==============================================================================
