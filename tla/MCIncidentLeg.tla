--------------------------- MODULE MCIncidentLeg ---------------------------
(***************************************************************************)
(* An order and a run of A2AWorkflow with three attempts each (the order's *)
(* RetryPolicy), so that an attempt's request can be handled after its     *)
(* successor's and both callers' requests interleave.                      *)
(***************************************************************************)
EXTENDS IncidentLeg
=============================================================================
