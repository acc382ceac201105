-------------------------- MODULE MCTriggerDelivery --------------------------
(***************************************************************************)
(* Instances of TriggerDelivery for TLC.                                    *)
(***************************************************************************)
EXTENDS TriggerDelivery, TLC

CONSTANTS p1, p2, s1, s2

Relays == Permutations({p1, p2})
=============================================================================
