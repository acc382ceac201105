---------------------------- MODULE MCSupervision ----------------------------
(***************************************************************************)
(* Instances of Supervision for TLC.                                        *)
(***************************************************************************)
EXTENDS Supervision, TLC

CONSTANTS d1, d2, w1, w2, nobody
=============================================================================
