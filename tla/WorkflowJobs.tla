---------------------------- MODULE WorkflowJobs ----------------------------
(***************************************************************************)
(* The durable state of one workflow job and the record-to-record functions *)
(* the ledger applies to it.  Each function is the body of one store method *)
(* of packages/storage-sqlite/src/index.ts, without its run-level guard and *)
(* without the transaction around it; the state machines that use them are  *)
(* WorkflowLedger and WorkflowEngine.                                       *)
(*                                                                         *)
(* Data that no decision reads is left out: timestamps, messages, inputs,   *)
(* outputs and the attempts counter.  `retryAt` is left out too: it only    *)
(* postpones the next claim, and the modules let any amount of time pass    *)
(* before a claim.                                                          *)
(***************************************************************************)
EXTENDS Integers, Sequences

CONSTANTS
  Attempt,      (* the random UUIDs handed out as attempt tokens            *)
  NoAttempt,    (* an undefined attemptId                                   *)
  LegacyToken   (* the literal "legacy" that reconciliation fences with     *)

ASSUME TokenAssumption ==
  /\ NoAttempt \notin Attempt
  /\ LegacyToken \notin Attempt
  /\ LegacyToken # NoAttempt

Token == Attempt \union {NoAttempt, LegacyToken}

Terminal  == {"succeeded", "failed", "skipped", "omitted"}
JobStatus == Terminal \union {"pending", "started"}

IsTerminal(s) == s \in Terminal

(***************************************************************************)
(* attemptHistory: one entry per claim.  "open" is an entry whose `outcome` *)
(* is still undefined.                                                      *)
(***************************************************************************)
Entry == [attempt : Attempt, outcome : {"open", "completed", "uncertain"}]

(***************************************************************************)
(* begun   -- startedAt is set; every write sets it and none clears it, so  *)
(*            it also says that run.jobs has an entry for the job            *)
(* attempt -- attemptId, the token of the invocation in flight               *)
(* lease   -- leaseExpiresAt: absent, in the future, or in the past          *)
(* handle  -- operation / runId / workerId: the attempt whose external       *)
(*            operation or worker the record points at                       *)
(***************************************************************************)
Job == [ status    : JobStatus,
         begun     : BOOLEAN,
         attempt   : Attempt \union {NoAttempt},
         lease     : {"none", "live", "lapsed"},
         attention : BOOLEAN,
         handle    : Attempt \union {NoAttempt},
         history   : Seq(Entry) ]

(* `run.jobs[jobId] ?? { status: "pending", attempts: 0 }` *)
NewJob == [ status |-> "pending", begun |-> FALSE, attempt |-> NoAttempt,
            lease |-> "none", attention |-> FALSE, handle |-> NoAttempt,
            history |-> << >> ]

(***************************************************************************)
(* A WorkflowJobTransition.  attention is "keep" when the caller leaves     *)
(* needsAttention undefined; handle is NoAttempt when it leaves operation,  *)
(* runId and workerId undefined.                                            *)
(***************************************************************************)
Transition == [ status    : JobStatus,
                expected  : Token,
                attention : {"keep", "set", "clear"},
                handle    : Attempt \union {NoAttempt} ]

Held(job) == job.attempt # NoAttempt

-----------------------------------------------------------------------------
(* claimWorkflowJob *)

(* Mutants: an uncertain job, or a job in flight, can be claimed again. *)
ClaimableDespiteAttention(job) ==
  /\ job.status = "pending"
  /\ job.attempt = NoAttempt
ClaimableInFlight(job) == job.status = "pending" /\ ~job.attention

Claimable(job) ==
  /\ job.status = "pending"
  /\ job.attempt = NoAttempt
  /\ ~job.attention

Claimed(job, a) ==
  [job EXCEPT !.attempt  = a,
              !.begun    = TRUE,
              !.lease    = "live",
              !.history  = Append(@, [attempt |-> a, outcome |-> "open"])]

-----------------------------------------------------------------------------
(* updateWorkflowJob *)

(* Mutant: only the token is compared. *)
AcceptedWhenSettled(job, t) == job.attempt \in {t.expected, NoAttempt}

UpdateAccepted(job, t) ==
  /\ ~IsTerminal(job.status)
  /\ job.attempt \in {t.expected, NoAttempt}

RecordOutcome(history, t) ==
  [i \in DOMAIN history |->
     IF history[i].attempt = t.expected /\ IsTerminal(t.status)
     THEN [history[i] EXCEPT !.outcome = "completed"]
     ELSE history[i]]

(* The fields every version of updateWorkflowJob below agrees on. *)
Merged(job, t, attempt, attention) ==
  [ status    |-> t.status,
    begun     |-> TRUE,
    attempt   |-> attempt,
    lease     |-> IF t.expected = NoAttempt THEN job.lease ELSE "none",
    attention |-> attention,
    handle    |-> IF t.handle = NoAttempt THEN job.handle ELSE t.handle,
    history   |-> IF t.expected = NoAttempt THEN job.history
                  ELSE RecordOutcome(job.history, t) ]

TokenAfter(job, t) == IF t.expected = NoAttempt THEN job.attempt ELSE NoAttempt

AttentionAfter(job, t) ==
  IF t.attention = "keep" THEN job.attention ELSE t.attention = "set"

(* Mutant: a transition that says nothing of needsAttention clears it.      *)
UpdatedDropsAttention(job, t) == Merged(job, t, TokenAfter(job, t), t.attention = "set")

Updated(job, t) == Merged(job, t, TokenAfter(job, t), AttentionAfter(job, t))

-----------------------------------------------------------------------------
(* markWorkflowJobNeedsAttention, and the sweep over expired leases *)

MarkUncertain(history, a) ==
  [i \in DOMAIN history |->
     IF history[i].attempt = a
     THEN [history[i] EXCEPT !.outcome = "uncertain"]
     ELSE history[i]]

(* Mutant: the sweep sets the flag and forgets the trail. *)
FlaggedOnly(job) == [job EXCEPT !.attention = TRUE]

Flagged(job) ==
  [job EXCEPT !.attention = TRUE,
              !.history   = MarkUncertain(@, job.attempt)]

Expired(job) ==
  /\ Held(job)
  /\ job.lease = "lapsed"
  /\ ~job.attention

-----------------------------------------------------------------------------
(* retryWorkflowJobs *)

Resettable(job) == IsTerminal(job.status) \/ job.attention

Reset(job) ==
  [job EXCEPT !.status    = "pending",
              !.attempt   = NoAttempt,
              !.lease     = "none",
              !.attention = FALSE,
              !.handle    = NoAttempt]
=============================================================================
