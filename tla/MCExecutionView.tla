-------------------------- MODULE MCExecutionView --------------------------
(***************************************************************************)
(* One agent before the gate and the incident after it, two attempts each. *)
(***************************************************************************)
EXTENDS ExecutionView
=============================================================================
