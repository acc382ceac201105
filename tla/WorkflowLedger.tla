--------------------------- MODULE WorkflowLedger ---------------------------
(***************************************************************************)
(* The workflow half of the SQLite repository ledger                       *)
(* (packages/storage-sqlite/src/index.ts), as the processes that share the  *)
(* file see it: every method runs in one BEGIN IMMEDIATE transaction, so it *)
(* is one action, and the transactions of all processes interleave.  A      *)
(* call the store rejects (it returns undefined, or throws) changes nothing *)
(* and is not a step.                                                      *)
(*                                                                         *)
(* The callers are the daemon, `relay once`, the dashboard supervisor and   *)
(* the operator's commands.  Here they are an environment: each transition  *)
(* any of them ever builds may arrive at any time, fenced with a token the  *)
(* caller may have read arbitrarily long ago.  WorkflowEngine restricts     *)
(* that environment to the engine's own control flow.                       *)
(***************************************************************************)
EXTENDS WorkflowJobs

CONSTANTS
  Run,          (* workflow run identities                                  *)
  JobId,        (* the jobs of the workflow                                 *)
  Group,        (* rendered concurrency groups                              *)
  NoGroup,      (* a run without concurrencyGroup                           *)
  GroupOf,      (* the group each run was opened with                       *)
  MaxResets     (* bound: operator retries of one job                       *)

ASSUME RunAssumption ==
  /\ NoGroup \notin Group
  /\ GroupOf \in [Run -> Group \union {NoGroup}]

ASSUME BoundAssumption == MaxResets \in Nat

VARIABLES
  status,       (* the status column of workflow_runs, "absent" before open *)
  jobs,         (* the jobs map of each run                                 *)
  resets,       (* history: how often an operator's retry reset the job     *)
  reopened      (* history: runs a retry has turned back to "running"       *)

vars == <<status, jobs, resets, reopened>>

RunStatus == {"absent", "running", "succeeded", "failed"}

Running(r) == status[r] = "running"

(* findRunningInGroup, for the group of r *)
RunningInGroup(r) ==
  {q \in Run : Running(q) /\ GroupOf[q] = GroupOf[r]}

(* randomUUID: a token no claim in this ledger has used before. *)
Fresh(a) ==
  \A r \in Run, j \in JobId :
    \A i \in DOMAIN jobs[r][j].history : jobs[r][j].history[i].attempt # a

-----------------------------------------------------------------------------
(***************************************************************************)
(* The transitions the program builds for updateWorkflowJob.                *)
(***************************************************************************)
Patch(s, expected, attention, handle) ==
  [status |-> s, expected |-> expected, attention |-> attention, handle |-> handle]

(* executeWorkflowJob, finishJob: the outcome of the invocation that holds  *)
(* token a.  A running operation or a launched worker leaves its handle.    *)
FinishJob(a) ==
  {Patch(s, a, "keep", NoAttempt) : s \in {"succeeded", "skipped", "pending", "failed"}}
    \union {Patch(s, a, "keep", a) : s \in {"started", "succeeded"}}

(* executeWorkflowJob, finishUncertain: the plugin threw, so the effect may  *)
(* or may not have happened.  A normalized legacy pipeline fails instead.   *)
FinishUncertain(a) ==
  {Patch("started", a, "set", NoAttempt), Patch("failed", a, "clear", NoAttempt)}

(* executeWorkflowJob, catch: inputs did not resolve, before or after claim. *)
CatchFailure(token) == {Patch("failed", token, "keep", NoAttempt)}

(* executeWorkflowJob: the recorded plugin revision is not installed. *)
RevisionHold == {Patch("pending", NoAttempt, "set", NoAttempt)}

(* AdvanceWorkflow: a job that may never run, fenced with what was read. *)
Settle(token) == {Patch(s, token, "keep", NoAttempt) : s \in {"skipped", "omitted"}}

(* refreshWorkflowJobs: the worker a "started" job launched has ended. *)
RefreshJob == {Patch(s, NoAttempt, "keep", NoAttempt) : s \in {"succeeded", "failed"}}

(* ReconcileOperations: what the plugin says of a saved operation; the      *)
(* jobs it lists are "started", which never keep a token, so the fence is   *)
(* always the literal "legacy".                                             *)
ReconcileJob ==
  {Patch(s, LegacyToken, "keep", NoAttempt) :
     s \in {"succeeded", "skipped", "pending", "started", "failed"}}
    \union {Patch("started", LegacyToken, "set", NoAttempt)}

(* CancelWorkflow.cancelJob: verified, or not. *)
CancelJob(token) ==
  {Patch(s, token, "clear", NoAttempt) : s \in {"omitted", "failed"}}
    \union {Patch("started", token, "set", NoAttempt)}

(* Tokens a caller may have read from job j of run r, now or earlier. *)
TokensRead(r, j) ==
  {NoAttempt} \union {jobs[r][j].history[i].attempt : i \in DOMAIN jobs[r][j].history}

TransitionsSent(r, j) ==
  RevisionHold \union RefreshJob \union ReconcileJob
    \union (UNION { CatchFailure(k) \union Settle(k) \union CancelJob(k)
                    : k \in TokensRead(r, j) })
    \union (UNION { FinishJob(a) \union FinishUncertain(a)
                    : a \in TokensRead(r, j) \ {NoAttempt} })

-----------------------------------------------------------------------------
Init ==
  /\ status   = [r \in Run |-> "absent"]
  /\ jobs     = [r \in Run |-> [j \in JobId |-> NewJob]]
  /\ resets   = [r \in Run |-> [j \in JobId |-> 0]]
  /\ reopened = {}

SaveJob(r, j, job) == jobs' = [jobs EXCEPT ![r][j] = job]

(* Throws when the group is occupied; returns the old record if there is one. *)
OpenWorkflowRun(r) ==
  /\ status[r] = "absent"
  /\ GroupOf[r] = NoGroup \/ RunningInGroup(r) = {}
  /\ status' = [status EXCEPT ![r] = "running"]
  /\ UNCHANGED <<jobs, resets, reopened>>

ClaimWorkflowJob(r, j, a) ==
  /\ Running(r)
  /\ Claimable(jobs[r][j])
  /\ Fresh(a)
  /\ SaveJob(r, j, Claimed(jobs[r][j], a))
  /\ UNCHANGED <<status, resets, reopened>>

UpdateWorkflowJob(r, j, t) ==
  /\ Running(r)
  /\ UpdateAccepted(jobs[r][j], t)
  /\ SaveJob(r, j, Updated(jobs[r][j], t))
  /\ UNCHANGED <<status, resets, reopened>>

(* The only job-level guard is the token; the run may be over. *)
MarkWorkflowJobNeedsAttention(r, j, a) ==
  /\ jobs[r][j].attempt = a
  /\ SaveJob(r, j, Flagged(jobs[r][j]))
  /\ UNCHANGED <<status, resets, reopened>>

(* One transaction over every running run. *)
MarkExpiredClaims ==
  /\ \E r \in Run, j \in JobId : Running(r) /\ Expired(jobs[r][j])
  /\ jobs' = [r \in Run |-> [j \in JobId |->
                IF Running(r) /\ Expired(jobs[r][j])
                THEN Flagged(jobs[r][j]) ELSE jobs[r][j]]]
  /\ UNCHANGED <<status, resets, reopened>>

(* A lease that has lapsed but was not swept yet can still be renewed. *)
RenewWorkflowJobLease(r, j, a) ==
  /\ Running(r)
  /\ jobs[r][j].attempt = a
  /\ ~jobs[r][j].attention
  /\ SaveJob(r, j, [jobs[r][j] EXCEPT !.lease = "live"])
  /\ UNCHANGED <<status, resets, reopened>>

(* Time passes leaseExpiresAt. *)
LeaseLapses(r, j) ==
  /\ jobs[r][j].lease = "live"
  /\ SaveJob(r, j, [jobs[r][j] EXCEPT !.lease = "lapsed"])
  /\ UNCHANGED <<status, resets, reopened>>

(* The store looks at no job: whether the run is done is the caller's view. *)
FinishWorkflowRun(r, outcome) ==
  /\ Running(r)
  /\ status' = [status EXCEPT ![r] = outcome]
  /\ UNCHANGED <<jobs, resets, reopened>>

(* wanted is the operator's selection; no selection means every job.  The   *)
(* run is reopened even when no job was reset, and no group is consulted.   *)
RetryWorkflowJobs(r, wanted) ==
  LET chosen == {j \in wanted : Resettable(jobs[r][j])}
  IN /\ status[r] # "absent"
     /\ \A j \in chosen : resets[r][j] < MaxResets
     /\ chosen # {} \/ ~Running(r)
     /\ jobs' = [jobs EXCEPT ![r] =
                   [j \in JobId |-> IF j \in chosen THEN Reset(jobs[r][j]) ELSE jobs[r][j]]]
     /\ resets' = [resets EXCEPT ![r] =
                   [j \in JobId |-> resets[r][j] + IF j \in chosen THEN 1 ELSE 0]]
     /\ reopened' = IF Running(r) THEN reopened ELSE reopened \union {r}
     /\ status' = [status EXCEPT ![r] = "running"]

-----------------------------------------------------------------------------
JobStep(r, j) ==
  \/ \E a \in Attempt : \/ ClaimWorkflowJob(r, j, a)
                        \/ MarkWorkflowJobNeedsAttention(r, j, a)
                        \/ RenewWorkflowJobLease(r, j, a)
  \/ \E t \in TransitionsSent(r, j) : UpdateWorkflowJob(r, j, t)
  \/ LeaseLapses(r, j)

Next ==
  \/ \E r \in Run : OpenWorkflowRun(r)
  \/ \E r \in Run, j \in JobId : JobStep(r, j)
  \/ MarkExpiredClaims
  \/ \E r \in Run, outcome \in {"succeeded", "failed"} : FinishWorkflowRun(r, outcome)
  \/ \E r \in Run, wanted \in SUBSET JobId : RetryWorkflowJobs(r, wanted)

Spec == Init /\ [][Next]_vars

-----------------------------------------------------------------------------
TypeOK ==
  /\ status   \in [Run -> RunStatus]
  /\ jobs     \in [Run -> [JobId -> Job]]
  /\ resets   \in [Run -> [JobId -> Nat]]
  /\ reopened \subseteq Run

LastEntry(job) == job.history[Len(job.history)]

(***************************************************************************)
(* The token of a job belongs to its newest claim, and only a pending job   *)
(* has one: no write of an older attempt, no cancellation and no retry can   *)
(* leave a started or settled job that still owns an invocation, or bring   *)
(* an older token back (claimWorkflowJob, updateWorkflowJob, retry).        *)
(***************************************************************************)
TokenIsNewestClaim ==
  \A r \in Run, j \in JobId :
    LET job == jobs[r][j] IN
      Held(job) => /\ job.status = "pending"
                   /\ job.history # << >>
                   /\ LastEntry(job).attempt = job.attempt

(***************************************************************************)
(* While an invocation is in flight the attempt trail and the flag agree:   *)
(* the operator sees "needs attention" exactly when the trail calls the     *)
(* newest attempt uncertain (both sweeps write both fields, a renewal       *)
(* writes neither and is refused afterwards).                               *)
(***************************************************************************)
AttentionMatchesTrail ==
  \A r \in Run, j \in JobId :
    LET job == jobs[r][j] IN
      Held(job) => (job.attention <=> LastEntry(job).outcome = "uncertain")

(***************************************************************************)
(* "expiry alone never authorizes an unsafe repeat" (domain/src/index.ts):  *)
(* an attempt whose outcome is uncertain is followed by another attempt     *)
(* only in a job that some retry has reset, whatever stale writes,          *)
(* cancellations and sweeps happen.  (That the retry lies between the two   *)
(* attempts is part of ImplementsOwnership.)                                *)
(***************************************************************************)
UncertainNeedsRetry ==
  \A r \in Run, j \in JobId :
    \A i \in DOMAIN jobs[r][j].history :
      (jobs[r][j].history[i].outcome = "uncertain" /\ i < Len(jobs[r][j].history))
        => resets[r][j] > 0

(***************************************************************************)
(* Two live runs of one concurrency group need a retry that reopened one of *)
(* them: opening a run can never produce the second one.                    *)
(***************************************************************************)
GroupSharedOnlyByRetry ==
  \A r \in Run : GroupOf[r] # NoGroup /\ Running(r) =>
    \A q \in RunningInGroup(r) : q = r \/ {q, r} \cap reopened # {}

(***************************************************************************)
(* A settled job keeps its record until a retry resets it: late results,     *)
(* sweeps and cancellations of other processes bounce off.                  *)
(***************************************************************************)
SettledUntilRetry ==
  [][\A r \in Run, j \in JobId :
       IsTerminal(jobs[r][j].status) /\ jobs'[r][j] # jobs[r][j]
         => resets'[r][j] > resets[r][j]]_vars

(***************************************************************************)
(* needsAttention is dropped only by a retry, or by the write that settles  *)
(* the job: no result, renewal or reconciliation takes it away and leaves   *)
(* the job runnable.                                                        *)
(***************************************************************************)
AttentionSticks ==
  [][\A r \in Run, j \in JobId :
       jobs[r][j].attention /\ ~jobs'[r][j].attention
         => \/ resets'[r][j] > resets[r][j]
            \/ IsTerminal(jobs'[r][j].status)]_vars

-----------------------------------------------------------------------------
(***************************************************************************)
(* Refinement: a job of a run is a slot of AttemptOwnership, its token the   *)
(* owner.  The tokens a slot has used are those of its attempt trail.       *)
(***************************************************************************)
Slot     == Run \X JobId
JobAt(s) == jobs[s[1]][s[2]]
Used(job) == {job.history[i].attempt : i \in DOMAIN job.history}

OwnerOf == [s \in Slot |-> JobAt(s).attempt]
UsedOf  == [s \in Slot |-> Used(JobAt(s))]
HeldFor == [s \in Slot |-> JobAt(s).attention]
Settled == [s \in Slot |-> IsTerminal(JobAt(s).status)]

Ownership ==
  INSTANCE AttemptOwnership WITH
    Owner <- Attempt, Nobody <- NoAttempt,
    owner <- OwnerOf, used <- UsedOf, hold <- HeldFor, done <- Settled

(***************************************************************************)
(* The ledger hands a job to one fresh attempt at a time, never while the    *)
(* job is held for attention or settled, and takes it back only through a    *)
(* report, a sweep or a retry - whichever process issues the transactions.  *)
(***************************************************************************)
ImplementsOwnership == Ownership!Spec
=============================================================================
