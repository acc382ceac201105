-------------------------- MODULE AttemptOwnership --------------------------
(***************************************************************************)
(* What a ledger promises the processes that share it, for anything an      *)
(* attempt can own: a job of a workflow run.  A slot has at most one owner, *)
(* an owner is a token nobody has ever held before, a slot on hold or       *)
(* settled is not handed out, and only an operator reopens one.             *)
(* WorkflowLedger implements this specification.                            *)
(***************************************************************************)
CONSTANTS
  Slot,       (* what can be owned                                          *)
  Owner,      (* the tokens an owner can hold                               *)
  Nobody      (* no owner                                                   *)

VARIABLES
  owner,      (* the token in flight on each slot                           *)
  used,       (* every token a slot was ever handed out to                  *)
  hold,       (* the effect of some attempt is uncertain                    *)
  done        (* the slot has its final result                              *)

vars == <<owner, used, hold, done>>

Init ==
  /\ owner = [s \in Slot |-> Nobody]
  /\ used  = [s \in Slot |-> {}]
  /\ hold  = [s \in Slot |-> FALSE]
  /\ done  = [s \in Slot |-> FALSE]

Acquire(s, a) ==
  /\ owner[s] = Nobody /\ ~hold[s] /\ ~done[s]
  /\ \A q \in Slot : a \notin used[q]
  /\ owner'[s] = a
  /\ used'[s] = used[s] \union {a}
  /\ ~hold'[s] /\ ~done'[s]

(* The owner, or nobody in particular, reports: the slot ends without an    *)
(* owner, and a hold survives unless the report is final.                   *)
Report(s) ==
  /\ ~done[s]
  /\ owner'[s] = Nobody
  /\ used'[s] = used[s]
  /\ hold[s] => hold'[s] \/ done'[s]

(* The owner has gone silent: it keeps the slot, and nobody else gets it.   *)
Suspend(s) ==
  /\ owner[s] # Nobody
  /\ owner'[s] = owner[s]
  /\ used'[s] = used[s]
  /\ hold'[s]
  /\ done'[s] = done[s]

(* An operator has looked at what happened and allows another attempt. *)
Reopen(s) ==
  /\ hold[s] \/ done[s]
  /\ owner'[s] = Nobody
  /\ used'[s] = used[s]
  /\ ~hold'[s] /\ ~done'[s]

Keep(s) ==
  /\ owner'[s] = owner[s]
  /\ used'[s] = used[s]
  /\ hold'[s] = hold[s]
  /\ done'[s] = done[s]

SlotStep(s) ==
  \/ \E a \in Owner : Acquire(s, a)
  \/ Report(s)
  \/ Suspend(s)
  \/ Reopen(s)
  \/ Keep(s)

(* One transaction may touch several slots, each by a step of its own. *)
Next == \A s \in Slot : SlotStep(s)

Spec == Init /\ [][Next]_vars
=============================================================================
