---------------------------- MODULE TargetActions ----------------------------
(***************************************************************************)
(* A job whose action runs once for each of several workers: the loop of     *)
(* ExecuteJob in packages/application/src/execute-job.ts, with the           *)
(* operations executeWorkflowJob in src/core/task-relay.ts gives it and the   *)
(* action_executions of packages/storage-sqlite.                            *)
(*                                                                         *)
(* The job is one record of WorkflowJobs in a run that goes on.  A relay that *)
(* lost its claim, to a sweep and an operator's retry, is still in its loop  *)
(* while the next attempt begins: the claim of each target is all that       *)
(* separates the two.  An attempt claims a target once, so the token of the  *)
(* job's attempt stands for the token of the target's.                      *)
(***************************************************************************)
EXTENDS WorkflowJobs

CONSTANTS
  Process,       (* relays                                                  *)
  Target,        (* workers an action may be about                          *)
  Outcomes,      (* what a plugin call may return                           *)
  MaxSetbacks,   (* bound: calls that throw, lists that fail, deaths        *)
  MaxResets      (* bound: retries of the job                               *)

ASSUME TargetAssumption ==
  /\ Outcomes \subseteq {"succeeded", "failed", "retryable", "skipped", "deferred", "running"}
  /\ MaxSetbacks \in Nat /\ MaxResets \in Nat

VARIABLES
  job,          (* the record of the job                                    *)
  action,       (* action_executions: target -> its record                  *)
  work,         (* process -> the await it is at, and what it holds         *)
  interrupted,  (* history: executions whose process died                   *)
  setbacks, resets

targetHistory == <<interrupted, setbacks, resets>>
targetVars == <<job, action, work, targetHistory>>

Execution == [ status  : {"none", "running", "succeeded", "failed", "skipped"},
               attempt : Attempt \union {NoAttempt},
               flagged : BOOLEAN,
               output  : Outcomes \union {"none"} ]

NoExecution == [status |-> "none", attempt |-> NoAttempt, flagged |-> FALSE, output |-> "none"]

(* todo, target -- the targets that are left, and the one it is at           *)
(* results      -- the outcomes so far                                       *)
Idle == [ pc |-> "idle", attempt |-> NoAttempt, todo |-> {},
          target |-> {}, output |-> "none", results |-> {} ]

TargetInit ==
  /\ job = NewJob
  /\ action = [t \in Target |-> NoExecution]
  /\ work = [p \in Process |-> Idle]
  /\ interrupted = {} /\ setbacks = 0 /\ resets = 0

At(p, pc) == work[p].pc = pc
Goto(p, pc) == work' = [work EXCEPT ![p].pc = pc]
Rest(p) == work' = [work EXCEPT ![p] = Idle]
Setback == setbacks < MaxSetbacks /\ setbacks' = setbacks + 1

Tokens == {job.history[i].attempt : i \in DOMAIN job.history}

Patch(status, expected, attention) ==
  [status |-> status, expected |-> expected, attention |-> attention, handle |-> NoAttempt]

(* updateWorkflowJob: a foreign or a late update changes nothing.            *)
Update(t) == job' = IF UpdateAccepted(job, t) THEN Updated(job, t) ELSE job
-----------------------------------------------------------------------------
(***************************************************************************)
(* THE LEDGER OF EXECUTIONS.                                                *)
(***************************************************************************)
(* Mutants: an expired execution is given to the next; only a running one is  *)
(* in the way.                                                              *)
VacantWhenFlagged(t) ==
  action[t].status \notin {"running", "succeeded"} \/ action[t].flagged
VacantWhenDone(t) == action[t].status # "running"

Vacant(t) == action[t].status \notin {"running", "succeeded"}

ClaimActionExecution(t, a) ==
  action' = [action EXCEPT ![t] = [NoExecution EXCEPT !.status = "running", !.attempt = a]]

(* "retryable" is a failure with a retryAt.                                  *)
Recorded(o) ==
  CASE o \in {"failed", "retryable"}  -> "failed"
    [] o \in {"skipped", "deferred"} -> "skipped"
    [] OTHER                       -> "succeeded"

(* Mutant: whoever finishes an execution is believed.                       *)
OwnedByAnyone(t, a) == action[t].status = "running"

Owned(t, a) == action[t].status = "running" /\ action[t].attempt = a

FinishActionExecution(t, a, status, output) ==
  action' = IF Owned(t, a) THEN [action EXCEPT ![t].status = status, ![t].output = output] ELSE action

(* markExpiredActionExecutionsNeedsAttention.  A lease may lapse at any time, *)
(* also under a relay in good health: renewActionExecutionLease gives up once *)
(* the first deadline has passed.                                           *)
FlagExpired(t) ==
  /\ action[t].status = "running" /\ ~action[t].flagged
  /\ action' = [action EXCEPT ![t].flagged = TRUE]
  /\ UNCHANGED <<job, work, targetHistory>>
-----------------------------------------------------------------------------
(***************************************************************************)
(* ExecuteJob.                                                              *)
(***************************************************************************)
ClaimJob(p) ==
  /\ At(p, "idle") /\ Claimable(job)
  /\ \E a \in Attempt \ Tokens :
       /\ job' = Claimed(job, a)
       /\ work' = [work EXCEPT ![p] = [Idle EXCEPT !.pc = "list", !.attempt = a]]
  /\ UNCHANGED <<action, targetHistory>>

ListTargets(p) ==
  /\ At(p, "list")
  /\ \E ts \in SUBSET Target :
       work' = [work EXCEPT ![p].pc = "next", ![p].todo = ts]
  /\ UNCHANGED <<job, action, targetHistory>>

(* The exception leaves ExecuteJob, and the job fails.                       *)
ListingFails(p) ==
  /\ At(p, "list") /\ Setback
  /\ Update(Patch("failed", work[p].attempt, "keep"))
  /\ Rest(p)
  /\ UNCHANGED <<action, interrupted, resets>>

(* getActionExecution: what has succeeded is not done again, its outcome      *)
(* counts once more.                                                        *)
Look(p) ==
  /\ At(p, "next")
  /\ \E t \in work[p].todo :
       work' = IF action[t].status = "succeeded"
               THEN [work EXCEPT ![p].todo = @ \ {t}, ![p].results = @ \union {action[t].output}]
               ELSE [work EXCEPT ![p].pc = "claim", ![p].target = {t}]
  /\ UNCHANGED <<job, action, targetHistory>>

(* "A target action has an unresolved prior invocation."                     *)
ClaimTarget(p) ==
  /\ At(p, "claim")
  /\ \E t \in work[p].target :
       IF Vacant(t) THEN ClaimActionExecution(t, work[p].attempt) /\ Goto(p, "call")
       ELSE UNCHANGED action /\ Goto(p, "uncertain")
  /\ UNCHANGED <<job, targetHistory>>

CallReturns(p) ==
  /\ At(p, "call")
  /\ \E o \in Outcomes : work' = [work EXCEPT ![p].pc = "record", ![p].output = o]
  /\ UNCHANGED <<job, action, targetHistory>>

(* The plugin or its output check throws, or a heartbeat failed meanwhile.    *)
CallThrows(p) ==
  /\ At(p, "call") /\ Setback
  /\ Goto(p, "uncertain")
  /\ UNCHANGED <<job, action, interrupted, resets>>

FinishTarget(p) ==
  /\ At(p, "record")
  /\ \E t \in work[p].target :
       /\ FinishActionExecution(t, work[p].attempt, Recorded(work[p].output), work[p].output)
       /\ work' = [work EXCEPT ![p].pc = "next", ![p].todo = @ \ {t}, ![p].target = {},
                               ![p].results = @ \union {work[p].output}]
  /\ UNCHANGED <<job, targetHistory>>

(* Mutant: what succeeded anywhere is good enough.                          *)
SelectBest(results) ==
  IF "succeeded" \in results THEN {"succeeded"} ELSE IF results = {} THEN {"skipped"} ELSE results

Unfinished == {"retryable", "running", "deferred"}

(* The most pressing outcome; the first of those that are to go on.          *)
Select(results) ==
  IF "failed" \in results THEN {"failed"}
  ELSE IF results \intersect Unfinished # {} THEN results \intersect Unfinished
  ELSE IF "succeeded" \in results THEN {"succeeded"} ELSE {"skipped"}

JobStatusOf(o) == CASE o = "running" -> "started" [] o \in {"deferred", "retryable"} -> "pending" [] OTHER -> o

FinishJob(p) ==
  /\ At(p, "next") /\ work[p].todo = {}
  /\ \E o \in Select(work[p].results) : Update(Patch(JobStatusOf(o), work[p].attempt, "keep"))
  /\ Rest(p)
  /\ UNCHANGED <<action, targetHistory>>

(* Mutant: only the job is told.                                            *)
LeaveClaim(p, t) == UNCHANGED action

FailClaim(p, t) == FinishActionExecution(t, work[p].attempt, "failed", "none")

(* finishUncertain: first the claims, of which every other one is settled.    *)
FinishUncertainTarget(p) ==
  /\ At(p, "uncertain")
  /\ \E t \in work[p].target : FailClaim(p, t)
  /\ Goto(p, "doubt")
  /\ UNCHANGED <<job, targetHistory>>

FinishUncertainJob(p) ==
  /\ At(p, "doubt")
  /\ Update(Patch("started", work[p].attempt, "set"))
  /\ Rest(p)
  /\ UNCHANGED <<action, targetHistory>>

Crash(p) ==
  /\ ~At(p, "idle") /\ Setback
  /\ interrupted' = interrupted \union {t \in Target : Owned(t, work[p].attempt)}
  /\ Rest(p)
  /\ UNCHANGED <<job, action, resets>>
-----------------------------------------------------------------------------
(***************************************************************************)
(* THE JOB BETWEEN ITS ATTEMPTS.                                            *)
(***************************************************************************)
(* The lease of an attempt that died, or whose relay cannot renew it.        *)
SweepExpired ==
  /\ Held(job) /\ ~job.attention
  /\ job' = Flagged([job EXCEPT !.lease = "lapsed"])
  /\ UNCHANGED <<action, work, targetHistory>>

(* reconcileWorkflowOperations: the operation a job was left with has ended.  *)
Observe ==
  /\ job.status = "started" /\ ~job.attention
  /\ \E s \in {"succeeded", "failed"} : Update(Patch(s, LegacyToken, "keep"))
  /\ UNCHANGED <<action, work, targetHistory>>

RetryJob ==
  /\ Resettable(job) /\ resets < MaxResets
  /\ job' = Reset(job) /\ resets' = resets + 1
  /\ UNCHANGED <<action, work, interrupted, setbacks>>

InLoop(p) ==
  \/ ListTargets(p) \/ ListingFails(p) \/ Look(p) \/ ClaimTarget(p)
  \/ CallReturns(p) \/ CallThrows(p) \/ FinishTarget(p) \/ FinishJob(p)
  \/ FinishUncertainTarget(p) \/ FinishUncertainJob(p)

TargetNext ==
  \/ \E p \in Process : ClaimJob(p) \/ InLoop(p) \/ Crash(p)
  \/ \E t \in Target : FlagExpired(t)
  \/ SweepExpired \/ Observe \/ RetryJob

TargetSpec == TargetInit /\ [][TargetNext]_targetVars
-----------------------------------------------------------------------------
(***************************************************************************)
(* PROPERTIES.                                                              *)
(***************************************************************************)
TargetTypeOK ==
  /\ job \in Job
  /\ action \in [Target -> Execution]
  /\ work \in [Process -> [ pc : {"idle", "list", "next", "claim", "call", "record", "uncertain", "doubt"},
                            attempt : Attempt \union {NoAttempt},
                            todo : SUBSET Target, target : SUBSET Target,
                            output : Outcomes \union {"none"}, results : SUBSET (Outcomes \union {"none"}) ]]
  /\ interrupted \subseteq Target
  /\ setbacks \in Nat /\ resets \in Nat

(* An action is at work on a worker once at a time, also when a relay that    *)
(* lost the job is still in its loop beside the next attempt.               *)
OneCallPerTarget ==
  \A p, q \in Process :
    At(p, "call") /\ At(q, "call") /\ p # q => work[p].target \intersect work[q].target = {}

(* An execution that is not settled is somebody's, or its relay died: no      *)
(* failure along the way leaves a worker blocked.                           *)
UnsettledHasOwner ==
  \A t \in Target : action[t].status = "running" =>
    \/ t \in interrupted
    \/ \E p \in Process : t \in work[p].target /\ work[p].attempt = action[t].attempt

(* What has succeeded for a worker is kept through the failures of others,    *)
(* retries of the job and attempts that overlap.                            *)
DoneForGood == [][\A t \in Target : action[t].status = "succeeded" => action'[t] = action[t]]_targetVars

(* Nobody knows what an interrupted call did: no sweep, no retry and no other *)
(* relay makes it again.                                                    *)
InterruptedStays ==
  [][\A t \in interrupted : action[t].status = "running"
       => action'[t].status = "running" /\ action'[t].attempt = action[t].attempt]_targetVars

(* The executions an attempt has made, some of which another may have taken over. *)
Made(p) == {t \in Target : action[t].status # "none" /\ action[t].attempt = work[p].attempt}

(* An attempt makes the job a success only when each execution it has made came *)
(* out as done or as skipped: none failed, is open, was put off (recorded as     *)
(* skipped) or left an operation behind (recorded as succeeded), whichever order *)
(* the workers came in and whoever worked on the others beside it.             *)
SuccessCoversTargets ==
  [][\A p \in Process : work'[p] = Idle /\ job' # job /\ job'.status = "succeeded"
       => \A t \in Made(p) : /\ action[t].status \in {"succeeded", "skipped"}
                            /\ action[t].output \notin {"failed"} \union Unfinished]_targetVars
=============================================================================
