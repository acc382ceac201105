-------------------------- MODULE MCWorkflowLedger --------------------------
(***************************************************************************)
(* An instance of WorkflowLedger for TLC.                                   *)
(***************************************************************************)
EXTENDS WorkflowLedger, TLC

CONSTANTS a1, a2, a3, r1, g1

(* One run, no group: what happens inside a run. *)
Alone == [r \in Run |-> NoGroup]

AttemptSymmetry == Permutations(Attempt)
=============================================================================
