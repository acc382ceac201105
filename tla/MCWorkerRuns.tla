---------------------------- MODULE MCWorkerRuns ----------------------------
(***************************************************************************)
(* Instances of WorkerRuns for TLC.                                         *)
(***************************************************************************)
EXTENDS WorkerRuns

CONSTANTS i1, i2, relay, d1, d2, op

OneEach == [t \in Trigger |-> 1]
Owned   == [d \in Dispatcher |-> relay]
=============================================================================
