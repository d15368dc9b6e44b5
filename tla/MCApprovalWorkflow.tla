------------------------- MODULE MCApprovalWorkflow -------------------------
(***************************************************************************)
(* The child gate with three messages: enough for two to race in front of  *)
(* the deadline and one to come after the execution has closed.            *)
(***************************************************************************)
EXTENDS ApprovalWorkflow
=============================================================================
