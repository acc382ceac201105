--------------------------- MODULE MCTargetActions ---------------------------
(***************************************************************************)
(* Instances of TargetActions for TLC.                                      *)
(***************************************************************************)
EXTENDS TargetActions, TLC

CONSTANTS p1, p2, w1, w2, a1, a2, a3

Symmetric == Permutations(Process) \union Permutations(Target) \union Permutations(Attempt)
=============================================================================
