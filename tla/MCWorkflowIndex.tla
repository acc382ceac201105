--------------------------- MODULE MCWorkflowIndex ---------------------------
(***************************************************************************)
(* Instances of WorkflowIndex for TLC.                                      *)
(***************************************************************************)
EXTENDS WorkflowIndex, TLC

CONSTANTS r1, r2, relay, dashboard
=============================================================================
