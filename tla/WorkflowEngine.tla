--------------------------- MODULE WorkflowEngine ---------------------------
(***************************************************************************)
(* The processes that drive workflow runs over the shared ledger            *)
(* (packages/application/src/workflow-engine.ts, and the ports that         *)
(* src/core/task-relay.ts gives it): what each of them does between two     *)
(* transactions, from which stale copy of the run it decides, and where it  *)
(* may stop for good.                                                      *)
(*                                                                         *)
(* A process is one sequential activity: the poll of one workflow, or one   *)
(* operator command.  A tick that advances several runs, or starts several  *)
(* items at once, is several processes here.  Every `await` is a place where *)
(* the other processes run.  Worker sessions and plugins are external: a    *)
(* plugin returns, throws or is interrupted, a session ends by itself or is *)
(* stopped.  The legacy-pipeline mode is not modelled.                      *)
(***************************************************************************)
EXTENDS WorkflowLedger, WorkflowDecisions

CONSTANTS
  JobOrder,         (* workflow.jobs, in the order of the definition        *)
  Kind,             (* job -> what its plugin leaves behind                 *)
  Outcomes,         (* statuses a plugin call or an observation may yield   *)
  Faults,           (* failures that may happen, from FaultKind             *)
  Session,          (* launch jobs whose worker has stopWithWorkflowRun     *)
  Item, ItemOf,     (* run -> the work item it is about                     *)
  TimedRun,         (* runs with a timeoutAt                                *)
  TimedJob,         (* jobs with a timeoutMs                                *)
  CancelInProgress, (* concurrency.cancelInProgress                         *)
  Daemon, Operator, (* processes that poll, and that run commands           *)
  NoRun,            (* no run                                               *)
  MaxCrashes        (* bound: interrupted processes                         *)

FaultKind ==
  {"revision", "input", "targets", "throw", "refuse", "cancel", "stop", "observer", "abort"}

ASSUME EngineAssumption ==
  /\ JobId = DagJob
  /\ JobOrder \in Seq(JobId)
  /\ \A j \in JobId : \E i \in DOMAIN JobOrder : JobOrder[i] = j
  /\ \A i, k \in DOMAIN JobOrder : JobOrder[i] = JobOrder[k] => i = k
  /\ Kind \in [JobId -> {"plain", "operation", "launch"}]
  /\ Outcomes \subseteq {"succeeded", "skipped", "failed", "pending", "started"}
  /\ Faults \subseteq FaultKind
  /\ Session \subseteq {j \in JobId : Kind[j] = "launch"}
  /\ ItemOf \in [Run -> Item]
  /\ TimedRun \subseteq Run /\ TimedJob \subseteq JobId
  /\ CancelInProgress \in BOOLEAN
  /\ NoRun \notin Run
  /\ MaxCrashes \in Nat

Process == Daemon \union Operator

VARIABLES
  agent,        (* the worker-run record of each item and launch job        *)
  overdue,      (* runs past their timeoutAt                                *)
  late,         (* <<run, job>> past startedAt + timeoutMs                  *)
  proc,         (* what each process is doing                               *)
  endedBy,      (* history: who finished each run                           *)
  interrupted,  (* history: jobs whose plugin call never returned           *)
  crashes       (* history: interrupted processes                           *)

clock == <<overdue, late>>
trail == <<endedBy, interrupted, crashes>>
engineVars == <<agent, clock, proc, trail>>
allVars == <<vars, engineVars>>

AgentStatus == {"none", "live", "succeeded", "failed", "stopped"}

-----------------------------------------------------------------------------
(***************************************************************************)
(* A WorkflowRunRecord as a process holds it: what the engine reads of it.  *)
(***************************************************************************)
Seen(job) == [ status |-> job.status, begun |-> job.begun, attempt |-> job.attempt,
               attention |-> job.attention, handle |-> job.handle ]

SeenJob == [ status : JobStatus, begun : BOOLEAN, attempt : Attempt \union {NoAttempt},
             attention : BOOLEAN, handle : Attempt \union {NoAttempt} ]
View    == [JobId -> SeenJob]

Handled(seen) == seen.handle # NoAttempt

Copy(js)  == [j \in JobId |-> Seen(js[j])]
Stored(r) == Copy(jobs[r])

Statuses(view) == [j \in JobId |-> view[j].status]

(***************************************************************************)
(* pc     -- the await the process is at                                    *)
(* run, view -- the run it works on and its copy of it                      *)
(* left   -- the jobs its current loop has not reached; First is the current *)
(* attempt -- the token of the plugin call it is waiting for                *)
(* mode   -- why it cancels: a late job, an overdue run, a newer run of the *)
(*           group, an operator's command                                   *)
(* doubt, unsure -- this cancellation, or some earlier one, is not verified *)
(* target, others -- the run to open, and the live ones still to cancel     *)
(***************************************************************************)
Idle == [ pc |-> "idle", run |-> NoRun, view |-> Copy([j \in JobId |-> NewJob]),
          left |-> {}, attempt |-> NoAttempt, mode |-> "none", doubt |-> FALSE,
          unsure |-> FALSE, target |-> NoRun, others |-> {} ]

Mode == {"none", "late", "expire", "operator", "supersede"}

Activity ==
  [ pc : {"idle", "reconcile", "refresh", "jobs", "plugin", "launched", "reread", "cancel",
          "record", "sweep", "open"},
    run : Run \union {NoRun}, view : View, left : SUBSET JobId,
    attempt : Attempt \union {NoAttempt},
    mode : Mode,
    doubt : BOOLEAN, unsure : BOOLEAN,
    target : Run \union {NoRun}, others : SUBSET [run : Run, view : View] ]

(* Every loop over jobs follows the order of the definition. *)
Rank(j)   == CHOOSE i \in DOMAIN JobOrder : JobOrder[i] = j
First(js) == CHOOSE j \in js : \A k \in js : Rank(j) =< Rank(k)
Rest(js)  == js \ {First(js)}

At(p, pc) == proc[p].pc = pc
Turn(p, pc) == At(p, pc) /\ proc[p].left # {}
Current(p) == First(proc[p].left)

Become(p, me) == proc' = [proc EXCEPT ![p] = me]

(* The loop goes on with the next job and this copy of the run. *)
Onward(p, pc, view) ==
  Become(p, [proc[p] EXCEPT !.pc = pc, !.view = view, !.left = Rest(@),
                            !.attempt = NoAttempt, !.doubt = FALSE])

Launches == {j \in JobId : Kind[j] = "launch"}

(* The operations a poll observes: listed once, before the first of them. *)
Observable(view) ==
  {j \in JobId : /\ Kind[j] = "operation"
                 /\ view[j].status = "started"
                 /\ Handled(view[j])
                 /\ ~view[j].attention}

Refreshing(me, view) ==
  [me EXCEPT !.pc = IF Launches = {} THEN "jobs" ELSE "refresh", !.view = view,
             !.left = IF Launches = {} THEN JobId ELSE Launches]

(* AdvanceWorkflow.execute, entered with a copy of a running run. *)
Advancing(r, view) ==
  LET me == [Idle EXCEPT !.run = r, !.view = view]
  IN IF Observable(view) = {} THEN Refreshing(me, view)
     ELSE [me EXCEPT !.pc = "reconcile", !.left = Observable(view)]

(* CancelWorkflow.cancel: every job that is not terminal, recorded or not. *)
Cancelling(me, r, view, mode) ==
  [me EXCEPT !.pc = "cancel", !.run = r, !.view = view, !.mode = mode, !.unsure = FALSE,
             !.left = {j \in JobId : ~IsTerminal(view[j].status)}]

(* CancelWorkflow.expire: only the jobs with a record. *)
Expiring(me) ==
  [me EXCEPT !.pc = "cancel", !.mode = "expire", !.unsure = FALSE,
             !.left = {j \in JobId : me.view[j].begun /\ ~IsTerminal(me.view[j].status)}]

(* updateWorkflowJob, rejected or not: `?? run` keeps the caller's copy. *)
Accepted(r, j, t) == Running(r) /\ UpdateAccepted(jobs[r][j], t)

Send(r, j, t) ==
  \/ UpdateWorkflowJob(r, j, t)
  \/ ~Accepted(r, j, t) /\ UNCHANGED vars

Received(view, r, j, t) ==
  IF Accepted(r, j, t)
  THEN Copy([jobs[r] EXCEPT ![j] = Updated(@, t)])
  ELSE view

-----------------------------------------------------------------------------
(* runWorkflow: one of the running runs it listed. *)
Poll(p, r) ==
  /\ p \in Daemon /\ At(p, "idle")
  /\ Running(r)
  /\ Become(p, Advancing(r, Stored(r)))
  /\ UNCHANGED <<vars, agent, clock, trail>>

(* ReconcileWorkflowOperations: what the plugin says of a saved operation,  *)
(* or that it cannot say.                                                   *)
Observed ==
  {t \in ReconcileJob : t.attention = "keep" /\ t.status \in Outcomes}
    \union {t \in ReconcileJob : t.attention = "set" /\ "observer" \in Faults}

Reconcile(p) ==
  /\ Turn(p, "reconcile")
  /\ \E t \in Observed :
       LET r == proc[p].run
           view == Received(proc[p].view, r, Current(p), t)
       IN /\ Send(r, Current(p), t)
          /\ IF Rest(proc[p].left) = {}
             THEN Become(p, Refreshing(proc[p], view))
             ELSE Onward(p, "reconcile", view)
  /\ UNCHANGED <<agent, clock, trail>>

(* refreshWorkflowJobs: a started launch whose worker run is over. *)
AgentOf(r, j) == agent[ItemOf[r]][j]

RefreshStatus(s) == IF s \in {"succeeded", "stopped"} THEN "succeeded" ELSE "failed"

Refreshed(p) ==
  IF Rest(proc[p].left) = {}
  THEN [proc[p] EXCEPT !.pc = "jobs", !.left = JobId]
  ELSE [proc[p] EXCEPT !.left = Rest(@)]

Refresh(p) ==
  /\ Turn(p, "refresh")
  /\ LET r == proc[p].run
         j == Current(p)
         seen == proc[p].view[j]
         t == Patch(RefreshStatus(AgentOf(r, j)), seen.attempt, "keep", NoAttempt)
     IN IF seen.status = "started" /\ Handled(seen) /\ AgentOf(r, j) \notin {"none", "live"}
        THEN /\ Send(r, j, t)
             /\ Become(p, [Refreshed(p) EXCEPT !.view = Received(@, r, j, t)])
        ELSE /\ Become(p, Refreshed(p))
             /\ UNCHANGED vars
  /\ UNCHANGED <<agent, clock, trail>>

-----------------------------------------------------------------------------
(* AdvanceWorkflow, the loop over the jobs.  The run's own deadline is       *)
(* checked once, before it.                                                 *)
Expire(p) ==
  /\ At(p, "jobs") /\ proc[p].left = JobId
  /\ proc[p].run \in overdue
  /\ Become(p, Expiring(proc[p]))
  /\ UNCHANGED <<vars, agent, clock, trail>>

JobTurn(p) ==
  /\ Turn(p, "jobs")
  /\ ~(proc[p].left = JobId /\ proc[p].run \in overdue)

TimedOut(p) ==
  LET seen == proc[p].view[Current(p)]
  IN <<proc[p].run, Current(p)>> \in late /\ seen.begun /\ ~IsTerminal(seen.status)

TimeOutJob(p) ==
  /\ JobTurn(p) /\ TimedOut(p)
  /\ Become(p, [proc[p] EXCEPT !.pc = "cancel", !.mode = "late"])
  /\ UNCHANGED <<vars, agent, clock, trail>>

Deciding(p) == JobTurn(p) /\ ~TimedOut(p)
Situation(p) == Statuses(proc[p].view)

(* A deferred job keeps a retryAt, and is passed over until then. *)
Postponed(p) == "pending" \in Outcomes /\ proc[p].view[Current(p)].begun

Pass(p) ==
  /\ Deciding(p)
  /\ Hold(Current(p), Situation(p)) \/ Postponed(p)
  /\ Onward(p, "jobs", proc[p].view)
  /\ UNCHANGED <<vars, agent, clock, trail>>

(* The signal of a stopping relay: the jobs that are left wait. *)
Abort(p) ==
  /\ Turn(p, "jobs") /\ "abort" \in Faults
  /\ Become(p, [proc[p] EXCEPT !.left = {}])
  /\ UNCHANGED <<vars, agent, clock, trail>>

(* One write of this process, and the next job. *)
Write(p, t) ==
  LET r == proc[p].run
  IN /\ Send(r, Current(p), t)
     /\ Onward(p, "jobs", Received(proc[p].view, r, Current(p), t))
     /\ UNCHANGED <<agent, clock, trail>>

(* A job that may never run, or whose condition is false. *)
SettleJob(p) ==
  LET token == proc[p].view[Current(p)].attempt
  IN /\ Deciding(p)
     /\ \/ Omit(Current(p), Situation(p)) /\ Write(p, Patch("omitted", token, "keep", NoAttempt))
        \/ Skip(Current(p), Situation(p)) /\ Write(p, Patch("skipped", token, "keep", NoAttempt))

(* executeWorkflowJob, before the claim. *)
Executing(p) == Deciding(p) /\ MayRun(Current(p), Situation(p))

HoldRevision(p) ==
  /\ Executing(p) /\ "revision" \in Faults
  /\ \E t \in RevisionHold : Write(p, t)

FailInputs(p) ==
  /\ Executing(p) /\ "input" \in Faults
  /\ \E t \in CatchFailure(NoAttempt) : Write(p, t)

(* ExecuteJob: the plugin is called only by the process whose claim won. *)
ClaimJob(p) ==
  /\ Executing(p)
  /\ \E a \in Attempt :
       /\ ClaimWorkflowJob(proc[p].run, Current(p), a)
       /\ Become(p, [proc[p] EXCEPT !.pc = "plugin", !.attempt = a])
  /\ UNCHANGED <<agent, clock, trail>>

LoseClaim(p) ==
  /\ Executing(p)
  /\ ~(Running(proc[p].run) /\ Claimable(jobs[proc[p].run][Current(p)]))
  /\ Become(p, [proc[p] EXCEPT !.pc = "reread"])
  /\ UNCHANGED <<vars, agent, clock, trail>>

(* findWorkflowRun, after a lost claim and after a job timeout. *)
Reread(p) ==
  /\ At(p, "reread")
  /\ Onward(p, "jobs", Stored(proc[p].run))
  /\ UNCHANGED <<vars, agent, clock, trail>>

-----------------------------------------------------------------------------
(* The plugin call.  A launch plugin dispatches a worker first, unless its   *)
(* own worker is still active or the dispatch is refused.                   *)
Calling(p) == At(p, "plugin") \/ At(p, "launched")
CallOf(p)  == <<proc[p].run, Current(p)>>
CallKind(p) == Kind[Current(p)]

Launch(p) ==
  /\ At(p, "plugin") /\ CallKind(p) = "launch"
  /\ AgentOf(proc[p].run, Current(p)) # "live"
  /\ agent' = [agent EXCEPT ![ItemOf[proc[p].run]][Current(p)] = "live"]
  /\ Become(p, [proc[p] EXCEPT !.pc = "launched"])
  /\ UNCHANGED <<vars, clock, trail>>

(* jobOutcome: what the call's result means for the job.  The plugins that    *)
(* launch a worker have no API version, as those of Relay have none: their    *)
(* success is a job that is started.                                        *)
Refusal(p, a) ==
  IF AgentOf(proc[p].run, Current(p)) = "live" \/ "refuse" \in Faults
  THEN {Patch("pending", a, "keep", NoAttempt)} ELSE {}

Returned(a) == {Patch(s, a, "keep", NoAttempt) : s \in Outcomes \ {"started"}}

Result(p, a) ==
  CASE CallKind(p) = "plain"     -> Returned(a)
    [] CallKind(p) = "operation" -> {Patch("started", a, "keep", a)} \union Returned(a)
    [] CallKind(p) = "launch"    -> IF At(p, "launched") THEN {Patch("started", a, "keep", a)}
                                    ELSE Refusal(p, a)

FinishJobOf(p) ==
  /\ Calling(p)
  /\ \E t \in Result(p, proc[p].attempt) : Write(p, t)

(* The call threw, or a heartbeat failed: nothing says what happened. *)
(* Mutant: the job is simply made available again. *)
UncertainRetried(a) == Patch("pending", a, "clear", NoAttempt)
Uncertain(a) == Patch("started", a, "set", NoAttempt)

PluginThrows(p) ==
  LET r == proc[p].run
      t == Uncertain(proc[p].attempt)
  IN /\ Calling(p) /\ "throw" \in Faults
     /\ Send(r, Current(p), t)
     /\ Onward(p, "jobs", Received(proc[p].view, r, Current(p), t))
     /\ interrupted' = interrupted \union {CallOf(p)}
     /\ UNCHANGED <<agent, clock, endedBy, crashes>>

(* The claim was won, and the worker targets could not be listed. *)
FailTargets(p) ==
  /\ At(p, "plugin") /\ "targets" \in Faults
  /\ \E t \in CatchFailure(proc[p].attempt) : Write(p, t)

Heartbeat(p) ==
  /\ Calling(p)
  /\ RenewWorkflowJobLease(proc[p].run, Current(p), proc[p].attempt)
  /\ UNCHANGED engineVars
-----------------------------------------------------------------------------
(* The end of the loop: stopAbandonedSessionWorkers, then runOutcome. *)
StopWorkers(i, js) ==
  agent' = [agent EXCEPT ![i] =
              [j \in JobId |-> IF j \in js /\ @[j] = "live" THEN "stopped" ELSE @[j]]]

(* The workers are stopped one by one; a stop that fails is logged, forgotten *)
(* and keeps no other from being stopped.                                   *)
SweepWorkers(i, js) ==
  \E stopped \in SUBSET js :
    /\ stopped = js \/ "stop" \in Faults
    /\ StopWorkers(i, stopped)

StillOpen(view) ==
  {j \in JobId : /\ Kind[j] = "launch" /\ Handled(view[j])
                 /\ view[j].status = "started"}

Abandoned(view) ==
  /\ StillOpen(view) # {}
  /\ \A j \in JobId \ StillOpen(view) : IsTerminal(view[j].status)

LoopOver(p) == At(p, "jobs") /\ proc[p].left = {}

(* Mutant: nothing looks at the sessions once the other jobs are settled. *)
LeaveAbandoned(p) ==
  /\ LoopOver(p) /\ ~Done(Situation(p))
  /\ Become(p, Idle)
  /\ UNCHANGED <<vars, agent, clock, trail>>

LeaveOpen(p) ==
  /\ LoopOver(p) /\ ~Done(Situation(p))
  /\ IF Abandoned(proc[p].view)
     THEN SweepWorkers(ItemOf[proc[p].run], StillOpen(proc[p].view) \intersect Session)
     ELSE UNCHANGED agent
  /\ Become(p, Idle)
  /\ UNCHANGED <<vars, clock, trail>>

(* finishWorkflowRun, rejected when the run is over already. *)
End(r, outcome, who) ==
  \/ /\ FinishWorkflowRun(r, outcome)
     /\ endedBy' = [endedBy EXCEPT ![r] = who]
  \/ ~Running(r) /\ UNCHANGED <<vars, endedBy>>

FinishRun(p) ==
  LET r == proc[p].run
  IN /\ LoopOver(p) /\ Done(Situation(p))
     /\ End(r, Outcome(Situation(p)), "advance")
     /\ Become(p, [proc[p] EXCEPT !.pc = "sweep",
                      !.view = IF Running(r) THEN Stored(r) ELSE @])
     /\ UNCHANGED <<agent, clock, interrupted, crashes>>

-----------------------------------------------------------------------------
(* CancelWorkflow.cancelJob: stop what the job started, then write. *)
CancelEffect(p) ==
  LET seen == proc[p].view[Current(p)]
      r    == proc[p].run
      Recording(doubt) == Become(p, [proc[p] EXCEPT !.pc = "record", !.doubt = doubt])
  IN /\ Turn(p, "cancel")
     /\ \/ /\ seen.status = "started" /\ Handled(seen)
           /\ \/ Recording(FALSE) /\ StopWorkers(ItemOf[r], {Current(p)})
              \/ "cancel" \in Faults /\ Recording(TRUE) /\ UNCHANGED agent
        \/ /\ ~(seen.status = "started" /\ Handled(seen))
           /\ Recording(FALSE) /\ UNCHANGED agent
     /\ UNCHANGED <<vars, clock, trail>>

(* Mutant: a job that is late is put back to be tried again. *)
CancelRequeues(mode, doubt, token) ==
  IF doubt THEN Patch("started", token, "set", NoAttempt)
  ELSE Patch(IF mode = "late" THEN "pending" ELSE "omitted", token, "clear", NoAttempt)

CancelPatch(mode, doubt, token) ==
  IF doubt THEN Patch("started", token, "set", NoAttempt)
  ELSE Patch(IF mode = "late" THEN "failed" ELSE "omitted", token, "clear", NoAttempt)

(* A timed-out job lets the loop go on.  An overdue run is given up at the  *)
(* first doubt, the other cancellations note it and go on with the rest.    *)
RecordCancel(p) ==
  LET j == Current(p)
      me == proc[p]
  IN /\ At(p, "record")
     /\ Send(me.run, j, CancelPatch(me.mode, me.doubt, me.view[j].attempt))
     /\ Become(p, CASE me.mode = "late" -> [me EXCEPT !.pc = "reread", !.mode = "none",
                                                      !.doubt = FALSE]
                    [] me.mode = "expire" /\ me.doubt -> Idle
                    [] OTHER -> [me EXCEPT !.pc = "cancel", !.left = Rest(@), !.doubt = FALSE,
                                           !.unsure = @ \/ me.doubt])
     /\ UNCHANGED <<agent, clock, trail>>

GiveUp(p) ==
  /\ At(p, "cancel") /\ proc[p].left = {} /\ proc[p].unsure
  /\ Become(p, Idle)
  /\ UNCHANGED <<vars, agent, clock, trail>>

(* Mutants: the doubt of an earlier job is forgotten; an overdue run is left *)
(* to the ordinary loop once its jobs are cancelled.                        *)
EndDespiteDoubt(p) ==
  /\ At(p, "cancel") /\ proc[p].left = {}
  /\ End(proc[p].run, "failed", proc[p].mode)
  /\ Become(p, [proc[p] EXCEPT !.pc = "sweep"])
  /\ UNCHANGED <<agent, clock, interrupted, crashes>>
EndUnlessExpired(p) ==
  /\ At(p, "cancel") /\ proc[p].left = {} /\ ~proc[p].unsure
  /\ IF proc[p].mode = "expire" THEN UNCHANGED <<vars, endedBy>>
     ELSE End(proc[p].run, "failed", proc[p].mode)
  /\ Become(p, [proc[p] EXCEPT !.pc = "sweep"])
  /\ UNCHANGED <<agent, clock, interrupted, crashes>>

EndCancelled(p) ==
  /\ At(p, "cancel") /\ proc[p].left = {} /\ ~proc[p].unsure
  /\ End(proc[p].run, "failed", proc[p].mode)
  /\ Become(p, [proc[p] EXCEPT !.pc = "sweep"])
  /\ UNCHANGED <<agent, clock, interrupted, crashes>>

(* stopWorkersLeftByJobs, with the copy the caller holds; a superseding      *)
(* process then turns to the next live run, or opens its own.               *)
NextOf(me) ==
  IF me.mode # "supersede" THEN {Idle}
  ELSE IF me.others = {} THEN {[Idle EXCEPT !.pc = "open", !.target = me.target]}
  ELSE {Cancelling([me EXCEPT !.others = @ \ {o}], o.run, o.view, "supersede") : o \in me.others}

StopWorkersLeft(p) ==
  LET me == proc[p]
      left == {j \in Session : Handled(me.view[j])}
  IN /\ At(p, "sweep")
     /\ SweepWorkers(ItemOf[me.run], left)
     /\ \E next \in NextOf(me) : Become(p, next)
     /\ UNCHANGED <<vars, clock, trail>>

-----------------------------------------------------------------------------
(* StartWorkflow, for an item whose run is not open.  The group is looked at,  *)
(* and the run is opened, in two transactions; the second may find the run or  *)
(* the group taken.  An item whose run has ended is discovered again as long   *)
(* as it matches: the group makes room for it, and nothing is opened.         *)
LiveInGroup(r) == IF GroupOf[r] = NoGroup THEN {} ELSE RunningInGroup(r) \ {r}

Discover(p, r) ==
  /\ p \in Daemon /\ At(p, "idle")
  /\ ~Running(r)
  /\ LiveInGroup(r) = {} \/ CancelInProgress
  /\ LET me == [Idle EXCEPT !.mode = "supersede", !.target = r,
                   !.others = {[run |-> q, view |-> Stored(q)] : q \in LiveInGroup(r)}]
     IN \E next \in NextOf(me) : Become(p, next)
  /\ UNCHANGED <<vars, agent, clock, trail>>

Open(p) ==
  LET r == proc[p].target
  IN /\ At(p, "open")
     /\ \/ OpenWorkflowRun(r) /\ Become(p, Advancing(r, Stored(r)))
        \/ /\ Running(r)
           /\ Become(p, Advancing(r, Stored(r)))
           /\ UNCHANGED vars
        \/ /\ ~Running(r) /\ (status[r] = "absent" => LiveInGroup(r) # {})
           /\ Become(p, Idle)
           /\ UNCHANGED vars
     /\ UNCHANGED <<agent, clock, trail>>

-----------------------------------------------------------------------------
(* relay workflow cancel, and retry of any selection of jobs. *)
CancelRun(p, r) ==
  /\ p \in Operator /\ At(p, "idle")
  /\ Running(r)
  /\ Become(p, Cancelling(Idle, r, Stored(r), "operator"))
  /\ UNCHANGED <<vars, agent, clock, trail>>

Retry(p, r) ==
  /\ p \in Operator /\ At(p, "idle")
  /\ \E wanted \in SUBSET JobId : RetryWorkflowJobs(r, wanted)
  /\ UNCHANGED engineVars

-----------------------------------------------------------------------------
(* What happens around the processes. *)
Crash(p) ==
  /\ ~At(p, "idle")
  /\ crashes < MaxCrashes
  /\ crashes' = crashes + 1
  /\ interrupted' = interrupted \union (IF Calling(p) THEN {CallOf(p)} ELSE {})
  /\ Become(p, Idle)
  /\ UNCHANGED <<vars, agent, clock, endedBy>>

(* markExpiredAttempts, at the start of every poll. *)
SweepExpired == MarkExpiredClaims /\ UNCHANGED engineVars

Lapse(r, j) == LeaseLapses(r, j) /\ UNCHANGED engineVars

RunBecomesOverdue(r) ==
  /\ r \in TimedRun \ overdue
  /\ status[r] # "absent"
  /\ overdue' = overdue \union {r}
  /\ UNCHANGED <<vars, agent, late, proc, trail>>

JobBecomesLate(r, j) ==
  /\ j \in TimedJob /\ <<r, j>> \notin late
  /\ jobs[r][j].begun
  /\ late' = late \union {<<r, j>>}
  /\ UNCHANGED <<vars, agent, overdue, proc, trail>>

(* The observer of a worker, or the next reconcilePersistedRuns, records    *)
(* how it ended.                                                            *)
SessionEnds(i, j) ==
  /\ agent[i][j] = "live"
  /\ \E s \in {"succeeded", "failed"} : agent' = [agent EXCEPT ![i][j] = s]
  /\ UNCHANGED <<vars, clock, proc, trail>>

-----------------------------------------------------------------------------
EngineInit ==
  /\ Init
  /\ agent    = [i \in Item |-> [j \in JobId |-> "none"]]
  /\ overdue  = {}
  /\ late     = {}
  /\ proc     = [p \in Process |-> Idle]
  /\ endedBy  = [r \in Run |-> "nobody"]
  /\ interrupted = {}
  /\ crashes  = 0

(* The steps a process takes on its own once it has begun something. *)
Continue(p) ==
  \/ Reconcile(p) \/ Refresh(p)
  \/ Expire(p) \/ TimeOutJob(p) \/ Pass(p) \/ Abort(p) \/ SettleJob(p)
  \/ HoldRevision(p) \/ FailInputs(p) \/ ClaimJob(p) \/ LoseClaim(p) \/ Reread(p)
  \/ Launch(p) \/ FinishJobOf(p) \/ PluginThrows(p) \/ FailTargets(p)
  \/ LeaveOpen(p) \/ FinishRun(p)
  \/ CancelEffect(p) \/ RecordCancel(p) \/ GiveUp(p) \/ EndCancelled(p)
  \/ StopWorkersLeft(p) \/ Open(p)

Around ==
  \/ SweepExpired
  \/ \E r \in Run : RunBecomesOverdue(r)
  \/ \E r \in Run, j \in JobId : Lapse(r, j) \/ JobBecomesLate(r, j)
  \/ \E i \in Item, j \in JobId : SessionEnds(i, j)

EngineNext ==
  \/ \E p \in Process : Continue(p) \/ Heartbeat(p) \/ Crash(p)
  \/ \E p \in Process, r \in Run : Poll(p, r) \/ Discover(p, r) \/ CancelRun(p, r) \/ Retry(p, r)
  \/ Around

EngineSpec == EngineInit /\ [][EngineNext]_allVars

(***************************************************************************)
(* A process that has begun goes on (a plugin call returns or throws), the  *)
(* daemons keep polling, sweeping and observing, and time passes.  Nothing  *)
(* is assumed of session workers, which may stay open for good, nor of      *)
(* operators, crashes and faults.                                           *)
(***************************************************************************)
Fairness ==
  /\ \A p \in Process : WF_allVars(Continue(p))
  /\ \A p \in Daemon, r \in Run : WF_allVars(Poll(p, r))
  /\ WF_allVars(SweepExpired)
  /\ \A r \in Run, j \in JobId : WF_allVars(Lapse(r, j))
  /\ \A r \in Run : WF_allVars(RunBecomesOverdue(r))

FairEngine == EngineSpec /\ Fairness

-----------------------------------------------------------------------------
EngineTypeOK ==
  /\ TypeOK
  /\ agent \in [Item -> [JobId -> AgentStatus]]
  /\ overdue \subseteq Run /\ late \subseteq Run \X JobId
  /\ proc \in [Process -> Activity]
  /\ endedBy \in [Run -> {"nobody", "advance"} \union Mode]
  /\ interrupted \subseteq Run \X JobId
  /\ crashes \in 0..MaxCrashes

Untouched(r) == \A j \in JobId : resets[r][j] = 0

Ended(r) == status[r] \in {"succeeded", "failed"}

LedgerStatuses(r) == [j \in JobId |-> jobs[r][j].status]

(***************************************************************************)
(* Whatever is read before an await and used after it, two processes are    *)
(* never inside the plugin call of one job at once, unless an operator      *)
(* retried that job (claimWorkflowJob decides, not the stale copy).         *)
(***************************************************************************)
OneExecutionPerJob ==
  \A p, q \in Process :
    (p # q /\ Calling(p) /\ Calling(q) /\ proc[p].run = proc[q].run /\ Current(p) = Current(q))
      => resets[proc[p].run][Current(p)] > 0

(***************************************************************************)
(* "A thrown plugin call is never assumed safe to retry: the action may     *)
(* have made its external effect before it threw" (execute-job.ts).  The    *)
(* same goes for a call whose process died: without a retry nobody calls    *)
(* the plugin for that job again, whatever sweeps and cancellations do.     *)
(***************************************************************************)
InterruptedNotRepeated ==
  \A p \in Process :
    Calling(p) /\ CallOf(p) \in interrupted => resets[proc[p].run][Current(p)] > 0

(***************************************************************************)
(* A job is claimed from a copy of the run that may be old, yet its needs   *)
(* hold in the ledger at that moment.  A need on "started" is the exception *)
(* it may have passed by; a retry of another job is excluded.               *)
(***************************************************************************)
ClaimFollowsNeeds ==
  [][\A r \in Run, j \in JobId :
       (Len(jobs'[r][j].history) > Len(jobs[r][j].history) /\ Untouched(r))
         => NeedsAllow(j, LedgerStatuses(r))]_allVars

(***************************************************************************)
(* A job the engine omits had, in the ledger at that moment and not only in  *)
(* the copy, a need that can never be met and no `if:` to rescue it.        *)
(***************************************************************************)
OmittedForGood ==
  [][\A r \in Run, j \in JobId :
       (jobs[r][j].status # "omitted" /\ jobs'[r][j].status = "omitted" /\ Untouched(r))
         => \/ \E q \in Process : At(q, "record") /\ proc'[q] # proc[q]
            \/ \E need \in Needs[j] :
                 ~Known(need) \/ (Condition[j] = "none" /\ GroupImpossible(need, LedgerStatuses(r)))]_allVars

(***************************************************************************)
(* A job in flight is settled by the process that called its plugin, by a   *)
(* cancellation or by a deadline: no other process decides, from what it    *)
(* once read, that the job may never run.  Retries are excluded, and the    *)
(* jobs whose needs do not outlive the claim (Steady).                      *)
(***************************************************************************)
CallSettledByCaller ==
  [][\A p \in Process :
       (Calling(p) /\ proc'[p] = proc[p] /\ Untouched(proc[p].run) /\ Steady(Current(p)))
         => LET r == proc[p].run
                j == Current(p)
            IN \/ ~IsTerminal(jobs'[r][j].status) \/ IsTerminal(jobs[r][j].status)
               \/ \E q \in Process : At(q, "record") /\ proc'[q] # proc[q]]_allVars

(***************************************************************************)
(* A run that the engine finished in the normal way has every job settled   *)
(* and the outcome its jobs add up to, although the finish is decided on a  *)
(* copy and the ledger checks nothing (finishWorkflowRun, runOutcome).      *)
(***************************************************************************)
FinishedMeansSettled ==
  \A r \in Run : (Ended(r) /\ endedBy[r] = "advance" /\ Untouched(r)) =>
    /\ AllSettled(LedgerStatuses(r))
    /\ status[r] = Outcome(LedgerStatuses(r))

(***************************************************************************)
(* Every step of the engine is a step of the ledger's environment, so what  *)
(* holds of WorkflowLedger holds of the composition.                        *)
(***************************************************************************)
EngineUsesLedger == Spec

(***************************************************************************)
(* A run comes to rest: it ends, or waits for an operator with a job that   *)
(* needs attention.  Crashes, lost claims, stale copies, sessions nobody    *)
(* closes and the deadline may not leave it running for ever.               *)
(***************************************************************************)
AtRest(r) == ~Running(r) \/ \E j \in JobId : jobs[r][j].attention

RunsComeToRest == \A r \in Run : Running(r) ~> AtRest(r)

(***************************************************************************)
(* A newer run of a group is opened only when every worker an older run      *)
(* recorded has been stopped, or has ended: an unverified cancellation      *)
(* keeps the newer run out.  (With one polling process: a launch of another  *)
(* process, after the copy was read, is overlooked.)                        *)
(***************************************************************************)
SupersededWorkersStopped ==
  [][\A r, q \in Run :
       (/\ status[r] = "absent" /\ status'[r] = "running"
        /\ GroupOf[r] # NoGroup /\ GroupOf[q] = GroupOf[r])
         => \A j \in JobId : jobs[q][j].handle # NoAttempt => AgentOf(q, j) # "live"]_allVars
=============================================================================
