# Relay: specifications of the workflow core

Relay polls work sources (Linear, commands, plugins), runs workflows - a DAG of
jobs, each of which executes an action plugin - and launches agent workers. All
durable state is one SQLite ledger per repository, and several processes may
share it: the daemon, `relay once`, the dashboard's supervisor and the
operator's commands. These specifications say what those processes may do to
the ledger and to each other, which of the promises of the documentation hold
for it, and which do not.

## Inventory

| Component | State it keeps | Operations | Interacts with |
| --- | --- | --- | --- |
| Workflow ledger (`packages/storage-sqlite`) | one `WorkflowRunRecord` per occurrence: run status, a job record per job with status, attempt token, lease, flag, handle, attempt trail | open, claim, update, sweep, renew, finish, retry; each one `BEGIN IMMEDIATE` transaction | every process |
| Workflow decisions (`src/workflows/reconciler.ts`) | none (pure) | `decideJob`, `runOutcome`, `needSatisfaction` | engine |
| Workflow engine (`packages/application/src/workflow-engine.ts`, ports in `src/core/task-relay.ts`) | a process-local copy of the run it works on | start, advance, reconcile, cancel (superseded, overdue, late, operator), sweep sessions | ledger, decisions, job execution, workers |
| Job execution (`execute-job.ts`, `executeWorkflowJob`) | the attempt in flight, the targets left | claim, call, heartbeat, finish, finish uncertain, loop over targets | ledger, plugins, action ledger |
| Worker runs (`manage-workers.ts`, run half of the store) | one `RunRecord` per (repository, source, item, trigger) | dispatch, observe, stop, reconcile, clean up | engine, agents, workspaces |
| Action execution ledger (`action_executions`) | one record per job and target | claim, renew, finish, sweep | job execution |
| Trigger events and checkpoints (`poll-trigger.ts`, `trigger_events`, `trigger_checkpoints`) | the events of a provider, a cursor per workflow | accept a page, list, acknowledge | providers, engine |
| Polling and schedules (`poll-triggers.ts`, `runWorkflow`) | next-due times, the queue of one poll | poll every binding; one workflow: open runs, discovery, items | all of the above |
| Projection: outbox, indexed store, global registry | revisions and queued copies in the ledger; the machine-wide index, its events, receipts and folders | save, drain, index, append, acknowledge, import, register, remove | ledger, dashboards |
| Runtime supervisor and daemon | controllers, a lease per folder; a pid record | start, tick, stop; start, stop, `relay watch` | polling |
| Legacy migration | a lock directory with its owner, a mark in the metadata | lock, inspect, clear, compare, import, unlock | ledger |
| Dashboard server | - | register, sync, remove a folder, retry a run, start and stop supervision | projection, supervisor |
| Expressions and inputs, plugin host and plugins, adapters and agents, Codex client, workspaces, in-memory store, dashboard client, CLI, configuration | - | parsing, processes, files, views | see "Not modelled" |

What is hard here:

- *Every `await` is a scheduling point.* The engine decides from a copy read
  before the reconciliation, the refresh and every earlier job of its loop. Two
  processes always may hold copies of the same run; only the guards of the
  ledger's transactions separate them.
- *External effects.* A plugin call cannot be rolled back. If it throws, if the
  process dies, or if its lease lapses, nobody knows whether the effect
  happened, and "expiry alone never authorizes an unsafe repeat".
- *Late answers.* Completions, observations of operations, cancellations and
  worker endings arrive in any order after retries and other writes.
- *Things nobody ends.* A session worker stays open until somebody closes it;
  its job holds the run open; the run holds its concurrency group.

What makes each part correct:

- ledger: one attempt at a time per job, with a token never used before; a
  settled job and an uncertain one change only through an operator's retry;
- decisions: verdicts reached on an old copy stay right;
- engine: no plugin call runs twice without a retry; claims follow the needs;
  a finished run agrees with its jobs; a superseded run leaves no worker; every
  run comes to rest;
- targets of a job: one call per target at a time, what succeeded or was
  interrupted is not repeated, a job succeeds only if no execution of its attempt
  failed, was put off or is still at work;
- worker runs: limits are respected, an ended run stays ended, an agent that
  lives is on record, a run without an agent is ended;
- trigger events: none is passed over by the cursor, acknowledged without its
  run or started twice, and each is acted upon in the end;
- projection: no copy is lost between the two databases and the index catches up,
  as far as the times of the saves allow; every save has its event, in order;
- supervisor: one poller of the dashboards per folder, a controller that says it
  is stopped is over, polling that goes on;
- migration: what the new Relay wrote gives way only to what the old one wrote
  later, and a death does not block it.

## Modules

| Module | What it is |
| --- | --- |
| `WorkflowJobs` | the job record, and the record-to-record function of every store method |
| `AttemptOwnership` | abstract: what a ledger promises about who owns a slot |
| `WorkflowLedger` | the ledger as a state machine; callers are an environment that sends every transition the program ever builds, fenced with any token it may have read |
| `WorkflowDecisions` | the pure decisions |
| `WorkflowEngine` | processes that run the engine's control flow over the ledger: it EXTENDS `WorkflowLedger` and `WorkflowDecisions` and uses the ledger's actions as its own transactions |
| `TargetActions` | one job over several worker targets: it EXTENDS `WorkflowJobs` and composes overlapping attempts of the job with the ledger of action executions |
| `WorkerRuns` | the dispatch, observation and stopping of agent workers over the run half of the store |
| `TriggerDelivery` | from a provider's events and items to opened runs: inbox, fire policies, concurrency groups |
| `WorkflowIndex` | the outbox, its drainers, and the machine-wide index they and the dashboard write |
| `Supervision` | who polls a folder: dashboards with leases beside the daemon and its commands |
| `LegacyMigration` | the import of an older Relay's state behind a directory lock |
| `*_proofs` | the theorems about `WorkflowJobs`, `WorkflowLedger`, `WorkflowEngine` (with `WorkflowDecisions`), `TargetActions`, `WorkerRuns`, `TriggerDelivery`, `WorkflowIndex` and `Supervision` |
| `MC*` | instances for TLC; `MC<Module>_<name>.cfg` is the run's configuration |

The modules meet where the code does. `WorkflowEngine` and `TargetActions` share
`WorkflowJobs`; `EngineUsesLedger` makes everything proved of `WorkflowLedger`
hold under the engine. The run that `TriggerDelivery` opens is the one
`WorkflowEngine` advances, seen there as open until it ends; the `agent` of a
launch job of the engine is one run of `WorkerRuns`; a revision of
`WorkflowIndex` is any save of the ledger; and the processes all of them call
relays are admitted by `Supervision`.

### WorkflowJobs, WorkflowLedger

A state is the status of each run and its jobs map (`status`, `jobs`); `resets`
and `reopened` are history, read only by properties. Every store method is one
action because it is one transaction, and a call the store rejects is not a
step. The functions of `WorkflowJobs` are the bodies: `Claimable`/`Claimed` is
`claimWorkflowJob`, `UpdateAccepted`/`Updated` is `updateWorkflowJob`,
`Flagged` and `Expired` are the two needs-attention sweeps, `Resettable`/`Reset`
is `retryWorkflowJobs`. The sets `FinishJob`, `FinishUncertain`, `CatchFailure`,
`RevisionHold`, `Settle`, `RefreshJob`, `ReconcileJob` and `CancelJob` list the
transitions the callers build, one set per caller. A `handle` stands for
`operation`, `runId` and `workerId` together and is the attempt that made it.
Timestamps, messages, inputs and outputs are left out; `retryAt` too, since the
specification lets any time pass before a claim.

### WorkflowDecisions

`st` is a function from jobs to statuses. `Omit`, `Skip`, `Hold` and `MayRun`
are the four verdicts of `decideJob`; `Done` and `Outcome` are `runOutcome`. The
condition language is reduced to what depends on statuses: no `if:`, `success()`,
`failure()`, and conditions that always hold.

### WorkflowEngine

A process (`Daemon` or `Operator`) is one sequential activity: the poll of one
workflow, or one command. `proc[p].pc` is the await it is at, `view` its copy of
the run, `left` the jobs its loop has not reached. `Poll` or `Discover` begins a
poll; `Reconcile`, `Refresh`, the loop (`Pass`, `SettleJob`, `ClaimJob`,
`LoseClaim`, `TimeOutJob`, `Expire`, ...), the call (`Launch`, `FinishJobOf`,
`PluginThrows`, `Heartbeat`) and the end (`LeaveOpen`, `FinishRun`) follow
`AdvanceWorkflow.execute` and `executeWorkflowJob` await by await. Cancellation
is `CancelEffect` (stop the worker or cancel the operation), `RecordCancel` (the
write), `GiveUp` or `EndCancelled`, and `StopWorkersLeft`; `mode` says which of
the four callers it is. `Received` is `updateWorkflowJob(...) ?? run`: after a
rejected write the process goes on with the copy it has. `agent` is the worker
run of a launch job, one per item and job, as `findWorkerTargets` sees it.
`Crash` returns a process to "idle" at any await and loses everything it held.
`FaultKind` names the failures a configuration may switch on.

### WorkerRuns

`runs` is one record per (item, trigger) and `gen` its generation, the
`claimedAt` that fences every later transaction. `dispatch[d]` is the await at
which `ManageWorkers.dispatch` is (`findActive` and the look for a sibling are
two) and its copy of the record, which `Save` writes back whole (`update`
compares nothing). `RecordFails` is the write that puts a launched worker on
record and throws. `tick[r]` is where `PollTriggers.execute` is: the
reconciliation of what was on record at its beginning, one record after another,
and then the bindings, whose dispatches run side by side; the next tick waits
for all of them (`activeTick`). `watched` is `locallyObservedRuns`. `command` is
`stopWorker`, `cleanup` or `handoff` between its read, its effect on the agent
and its write. Agents outlive their relay; `StartAgent` and `RecordWorker` are
apart because a relay can die between them. The workflow engine's `agent` is
this module seen from one launch job.

### TargetActions

`job` is one record of `WorkflowJobs`, `action[t]` the row of `action_executions`
for a target, `work[p]` the await of the loop in `ExecuteJob`: the claim of the
job, the list of targets, and for each of them the look at what has succeeded
before (`Look`), the claim (`ClaimTarget`), the call and its record
(`FinishTarget`), then the selection of the job's outcome (`Select`,
`FinishJob`). `finishUncertain` is `FinishUncertainTarget` and
`FinishUncertainJob`. `SweepExpired`, `Observe` and `RetryJob` are what other
processes do to the job meanwhile, so that an attempt which lost its job goes on
beside the next one. `FlagExpired` is the sweep over executions; any of them may
be flagged, because `renewActionExecutionLease` compares with the deadline of the
claim and stops renewing after it (`src/core/task-relay.ts:746`).

### TriggerDelivery

`published` is the provider, an environment; `events` and `checkpoint` are the
two tables, written together by `AcceptTriggerEvents`. `work[p]` is one poll of
the workflow: the runs that were open at its beginning (`AdvanceRun`), the
interval (`Due`, `NotDue`), the page between its cursor and its storage
(`Fetch`, `Accept`, `Offline`), the queue (`ListPending`, `Discover`), and for
each item `StartWorkflow`: the occurrence the fire policy gives
(`WorkflowOccurrence`), the concurrency group (`CheckGroup`, `CancelOther`,
`Yield`), `OpenRun` and `AcknowledgeItem`. `ItemFails` and `Crash` end an item or
the poll at any await. `workflow` is chosen in the initial state, so that one run
of TLC covers every policy with every grouping.

### WorkflowIndex

`ledger[r]` is the revision and `updatedAt` of a run, `outbox` the copies queued
with it, `delivered` the acknowledged rows; `index`, `log`, `receipts` and
`folder` are the tables of the registry, another database. A drain is
`ReadOutbox` and, row by row in the order of the ids, `IndexRow`, `EventRow` and
`AcknowledgeRow`, three transactions; `RowFails` is `EndRound`. The dashboard
imports (`Sync`, `Register`, `ImportRun`, `ImportEnds`), retries a run past the
outbox (`RetryExecution`, `IndexRetried`, `LogRetried`) and removes the folder.
All processes read one `clock`, which is right. `ReadClock` is the `now()` a caller
passes to the store, and `TransitionSaved` and `RetrySaved` the transaction, which
begins by waiting for the write lock (`BEGIN IMMEDIATE`, `busy_timeout`): two saves
may commit in an other order than they were stamped. `Straddled` says that this
happened to a run across a revision.

### Supervision

`starting[d]` counts the start requests at each await, `controllers[d]` has the
controller in the map and the one that still holds the lease although another has
taken its place there (`Install`); `stops` of a controller counts the stop requests
that wait for its tick. A dashboard handles up to `MaxRequests` requests at a time,
any of them starts or stops. `CheckDaemon` and `Acquire`/`Refused` are the two
awaits of `start`, `RequestStop` and `FinishStop` the two halves of `stop`, and
`StopFails` one whose runtime does not close; `TickSucceeds`, `TickFails` and
`TimerFires` are `tick` and `schedule`.
The daemon is `record` and `watch`; `Types` makes the commands of one terminal
exclude each other. A lease "left" by a dead process is one that can be taken
over as stale; a live dashboard refreshes its own.

### LegacyMigration

`lock` is the directory and its `owner.json`, two writes (`MakeLock`,
`MarkLock`); `import[t]` is the step of a command and the hash it read. `legacy`
and `ledger` are versions: the import preserves what is newer (`Preserved`) and
fails if the hash has changed (`CommitImport`). `OldRelayWrites` is a Relay of
the old kind that was not stopped, and goes on after the import.

## Runs

| Run | Instance | What it shows |
| --- | --- | --- |
| `ledger_jobs` | one run, one job, 3 attempts, 2 retries, all transitions with all tokens read so far | `AttentionMatchesTrail`, `UncertainNeedsRetry`, `SettledUntilRetry`, `AttentionSticks`; the ledger implements `AttemptOwnership` |
| `race` | two daemons, a matrix of two, a job that needs all of it, a `failure()` job, exceptions, an abort, one crash | `OneExecutionPerJob`, `ClaimFollowsNeeds`, `OmittedForGood`, `CallSettledByCaller`, `FinishedMeansSettled` |
| `operator` | a daemon, an operator, one job with an operation and a timeout, one retry, one crash, failing cancellations and observations | `InterruptedNotRepeated`; everything the engine writes is a step of `WorkflowLedger` (`EngineUsesLedger`) |
| `group` | one daemon, two runs of a group with `cancelInProgress` and deadlines, failing stops, cancellations and launches, one crash; fair | `SupersededWorkersStopped`, `RunsComeToRest` |
| `session` | one daemon, a session worker nobody closes and a job that needs it started, exceptions, unresolved inputs, a held plugin revision, one crash; fair | `RunsComeToRest` without any deadline |
| `targets` | two relays, two targets, three attempts, one exception or death, one retry | `OneCallPerTarget`, `UnsettledHasOwner`, `DoneForGood`, `InterruptedStays`, `SuccessCoversTargets` |
| `workers` | one relay with two dispatches at once, two items, room for one, two generations, an operator, every fault, one crash; fair | `LimitRespected`, `EndedForGood`, `AgentsOnRecord`, `SlotsAreFreed` |
| `triggers` | two relays, one item with two changes, four policies with three groupings, one fault, one retry | `CursorCoversInbox`, `AcknowledgedHasRun`, `StartedOnce`, `EveryPollAlone`, `GroupSharedOnlyByRetry` |
| `trigger_progress` | one relay, two items, two changes, one fault; fair | `EventsStart`, `LastChangeStarts` |
| `index` | a relay and a dashboard, one run with three saves stamped before they commit, a failure or a death, one import; fair | `DeliveredIsIndexed`, `EventsTellTheSaves`, `IndexCatchesUp` |
| `supervision` | two dashboards with two requests each at a time, one `relay watch` process, two deaths or failing stops; fair | `OneSupervisor`, `StoppedIsOver`, `PollingGoesOn` |
| `migration` | three commands, an old Relay that goes on writing, three writes, two deaths; fair | `ImportKeepsOurs`, `ImportResumes` |

The type invariants (`TypeOK`, `WorkerTypeOK`, `TriggerTypeOK`, `IndexTypeOK`,
`TargetTypeOK`, `EngineTypeOK`), `TokenIsNewestClaim` and `RemovedUntilRegistered`
are proved instead of run.

### Bounds and why they are enough

`Attempt` bounds the claims, `MaxResets` the retries, `MaxCrashes`, `MaxFaults`
and `MaxSetbacks` what goes wrong. `MaxClaims` bounds the generations of worker
runs; an old and a new one are the two roles a late writer tells apart, and one
place for two items makes every claim reach the limit. A job record remembers
its own past only through its trail, its flag and one token, so two attempts
(the late one and the newer one) and a third that follows an uncertain one are
all the roles there are; the proofs remove this bound for the ledger and the
engine's safety. Two daemons are enough for one to hold a copy while the other
moves on; a third behaves like a crashed and restarted second. The workflows
have one instance of each edge: a matrix, an unset need, a need on "started", a
`failure()` condition.

Two changes make an older and a newer event, page, state or occurrence
(`MaxPublished`, `MaxOccurrence`), and two relays fetch from an old and a new
cursor. Three revisions (`MaxRevision`) let a late copy, a newer one and the
newest be under way at once and committed in an other order than stamped, with a
failure to hold one of them up; runs do not touch each other's rows, so one is
enough. Two dashboards contend for one lease; two requests of a dashboard are a
start that finds the lease held by the controller it then replaces, and a stop, or
a second stop beside the first. One `relay watch` process is started, stopped and
started again. A
third migration command inspects the lock that the second has cleared from the
first. Where a module has proofs they hold for every bound.

CHECK_DEADLOCK is off where the processes may really stop: in the engine's runs
when all runs are over and nothing is left to poll, in `workers` when the bound
on generations is reached, in `targets` when the attempts are used up, in
`migration` when everything is imported.

### Fairness

`Fairness` of `WorkflowEngine` assumes that a process that has begun something
goes on - an await returns, a plugin call returns or throws, an `Abort` is not
repeated for ever (it is not among the faults of the fair runs) - since each is a
promise the process awaits; that daemons keep polling every running run and
sweeping expired leases (`pollTriggers.execute` does both on each tick, and the
supervisor and the daemon rearm their timer after success and failure alike); and
that time passes (leases lapse, deadlines come). Nothing is assumed of session
workers, which may stay open for good, of operators, or of `Discover`.

`WorkerFairness` assumes the same of the dispatches, ticks and observations of
worker runs, that a relay which died is started again, and nothing of agents,
operators or of items that wait.

`TriggerFairness` assumes that a relay goes on and polls again without a task,
that its interval passes again and again while it is asked about, that the
provider shows now and then all it has (strong fairness: a poll may be cut short
by a fault in between), and that a run others wait for in a group ends. The last
is the engine's `RunsComeToRest` plus an operator who inspects what is held;
without a group nothing is assumed of runs.

`IndexFairness` assumes that a relay lists the runs again and again, as each poll
does, and that a process runs on until it dies; a dashboard need not list. A wait
for the write lock ends, as its holder is at one synchronous transaction.
`SupervisionFairness` assumes that requests are answered, polls return and timers
fire; nothing of users or daemons. `FairMigration` assumes that the command is
typed again until it has imported.

## Where code and documentation disagree

Each of these was reached by a model. None is a run here, since the properties of
the runs say what the code does guarantee; the line numbers are for a reader who
wants to decide which side is right.

| Sentence | What the code does |
| --- | --- |
| "At most one run per group is live at a time." (`packages/domain/src/index.ts:133`, `README.md:530`) | a retry reopens a finished run and looks at no group (`storage-sqlite:550`); hence `GroupSharedOnlyByRetry` |
| "stale completion cannot overwrite a newer attempt" (`docs/local-architecture-refactoring-plan.md:165`) | the fence is open while the job has no token, so a late result writes over what a newer attempt left behind (`storage-sqlite:498`) |
| "A run is finished only when every job is terminal." (`src/workflows/reconciler.ts:171`) | the end is decided on a copy; a retry in between leaves a pending job in a finished run (`workflow-engine.ts:218`) |
| "Stop the older run rather than skipping the new one." (`packages/domain/src/index.ts:137`, `README.md:531`) | an item that still matches is discovered again after its run has ended, and clears its group once more although its run is not opened anew (`workflow-engine.ts:122`): the older item ends the newer run, and two items of one group leave no run alive |
| "it stops any active worker its jobs launched" (`README.md:555`) | the cancellation decides from a copy taken before the launch, omits the job and leaves the worker (`workflow-engine.ts:390`) |
| "A job whose worker is still live keeps its state" (`README.md:546`) | the retry resets every job that needs attention, live worker or not (`storage-sqlite:550`) |
| "Refuse a launch when the ticket already has a live worker" (`src/core/task-relay.ts:61`) | two dispatches of one tick, for two triggers, both pass the check before either is on record, and both launch |
| "an older state.json snapshot cannot regress the index" (`packages/global-registry/src/index.ts:659`) | a copy is passed over only if both its time and its revision are not newer, and a save takes its time before it waits for the write lock (`storage-sqlite:134`), so revision 3 may be stamped before revision 2, with one correct clock. A drainer that holds the row of revision 2 then writes it over revision 3, also when that one is ticked off; nothing brings the index forward again until the next save or import. Hence the exception (`Straddled`) in `DeliveredIsIndexed` and `IndexCatchesUp`, and no property that the index never goes back |
| "a lease prevents the two modes from supervising one folder at the same time" (`src/dashboard/runtime-supervisor.ts:36`, `README.md:1108`) | the supervisor looks for the daemon, but `relay daemon start` and `relay watch` never look at the lease; hence `OneSupervisor` is about dashboards |

Other behaviour worth knowing, for which nobody promises otherwise:

- With two relays over one ledger, the reconciliation of one ends a worker run the
  other is still launching, and the unfenced update of the other brings it back:
  none of the properties of `workers` holds then, and two agents work on one item.
- An observation of an old operation is written over the next one, since all are
  fenced with the literal "legacy"; a cancellation that loses against a claim
  finishes the run with that job unsettled.
- A verdict "run" may be overtaken while the call is out: a need on "started" has
  ended, or with `success()` beside a need that can no longer be met because one
  instance of its matrix went another way. Another process then omits the job in
  flight. `Steady` names the jobs to which this cannot happen, and
  `CallSettledByCaller` is about them.
- One invalid event rejects its whole page, so the cursor stands still until the
  provider drops it. With a group, an older event that was passed over because the
  group was busy may start after a newer one, or supersede it.
- "stopped" is what one controller says, not the folder. Nothing serialises the
  requests of a dashboard (`runtime-supervisor.ts:55`): of two starts that both got
  past the first check, the loser's "blocked" controller replaces the running one
  in the map, and a start during a stop does the same to the controller that is
  being stopped. A stop then answers "stopped" at once while the other controller's
  tick is out or its timer set, and the lease is not given up. A stop whose runtime
  does not close (`runtime-supervisor.ts:92`) leaves the lease with its controller,
  until a second stop takes that same controller. `OneSupervisor` and
  `StoppedIsOver` hold through all of this, for any number of requests.
- A write that fails after the launch, and another that then records the run as
  failed, leave an agent at work under a run that has ended
  (`manage-workers.ts:151`); nobody stops it, and the item may be claimed again.
- An item without a revision whose state goes from A to B and back to A has the
  on-change occurrence of the first A (`workflow-engine.ts:445`), which has been
  run: nothing starts. `TriggerDelivery` gives every change a state of its own, so
  `LastChangeStarts` is about sources whose items do so.
- An old Relay that keeps running may write after the import; a second import that
  got past the check of the metadata replaces what this Relay wrote before that.
- A death between `mkdir` and `owner.json` leaves a migration lock nobody may
  clear (the exception in `ImportResumes`); the pid of a dead owner that is in use
  again counts as live. A write of an old Relay between the comparison of hashes
  and the commit is left behind.
- A call whose lease could not be renewed is flagged while it is still at work,
  and the flag stays on the record when it succeeds. An execution that was
  interrupted stays "running" for good, and no command clears it: a retry of its
  job always ends at "unresolved prior invocation".
- A target recorded as succeeded with a `running` outcome gives its old operation
  back when the job is retried. An attempt that lost its job goes on claiming
  targets.

## Proofs

TLAPS proves the following for any constants the modules' assumptions allow: any
number of runs, jobs, relays, dashboards, events, targets and tokens, and any
bound. None of the invariants is inductive by itself; each module of proofs
strengthens them, shows that the initial states have the strengthening and that
every action keeps it (one lemma per action or group of actions), and concludes.

`WorkflowLedger_proofs`: every property `ledger_jobs` checks, the type invariant,
`TokenIsNewestClaim`, the group rule, and the refinement of `AttemptOwnership`
(one lemma per action that maps it to a step of every slot). The lemmas about
records are in `WorkflowJobs_proofs`. `IInv` is `TypeOK` with `WellOwned`:

- `TokenBacked`: a token in flight belongs to the last entry of the trail, the
  job is pending, and the flag agrees with that entry's outcome;
- `TokensDistinct`: no attempt occurs twice in the trails of the ledger, which
  is what makes "the entry of this attempt" unique when an outcome is recorded;
- `UncertainBlocks`: an uncertain last entry means a flagged job, a settled one,
  or a job an operator has reset - without it nothing stops the next claim from
  following an uncertain attempt;
- `LeaseBacked`: only a job with a token has a lease, so the sweep marks an
  entry that exists.

`WorkflowEngine_proofs` begins with the decisions: for any workflow, the three
facts the engine relies on when it decides from a copy - an omission stays
right, readiness outlives the copy (up to needs on "started"), and the outcome
of a finished run does not change - as long as settled jobs keep their status
(`Later`). That is why the properties of the engine exclude retried jobs
(`Untouched`). Then, for any workflow, any number of runs, daemons and operators
and every fault:

- `EngineTypeCorrect`, and `EngineUsesLedgerHolds`: every step of the engine is a
  step of `WorkflowLedger`, so that all theorems of the ledger hold of the
  composition (`EngineNeverRepeats` and `EngineImplementsOwnership` are two). The
  ledger lets a caller send only tokens it may have read; hence the invariant
  `CopiesInv`, which says of every copy a process holds, however old, that it is
  `Faithful`: a token in it was handed out for that job, and, as long as nobody
  retried the run, what it shows as settled still is and a job it shows in flight
  had its needs. `HeldIsReady` says the last of the ledger itself.
- Every step either moves no process (`Stays`) or moves one (`Advances`), which
  then does one of three things to the jobs: nothing but flags, leases and
  retries (`Quiet`), a claim of a job it found allowed (`Begins`), or one report
  it is entitled to (`Warranted`): by its own call, by a verdict on its copy, by
  a cancellation, or without any token, in which case the ledger's fence rejects
  it while a call is out. There is one lemma per action that says so.
- `CallsInv`: of a job nobody has retried, at most one process is inside the call,
  it has the token the ledger holds until the job is settled, and a call that
  was interrupted leaves the job taken for good. From it follow
  `OneExecutionPerJobHolds`, `InterruptedNotRepeatedHolds` and
  `CallSettledByCallerHolds`; from `CopiesInv` and the facts about decisions
  follow `FinishedMeansSettledHolds`, `ClaimFollowsNeedsHolds` and
  `OmittedForGoodHolds`.
- `SupersededWorkersStoppedHolds` assumes `OnePoller`: one process that polls, no
  operator command, no two runs about one item. `OnRecord` says of the ledger that
  a worker on record which is alive belongs to a started job of a running run, so
  that a run which has ended records none; `RunningInGroup(r)` is empty when `r`
  opens, and the theorem follows. `OnTop` is what makes it inductive: the copies
  the process decides from are what the ledger holds (`UpToDate`), also those of
  the runs it has yet to cancel (`OthersUpToDate`), and a cancellation that is
  not in doubt has left no worker at the jobs it is through with (`Undoing`) - so
  `EndCancelled` ends nothing that lives. Each hypothesis is needed: another
  process can launch after the copy was read (the hazard at
  `workflow-engine.ts:388`), a retry may reset a job whose worker lives, and two
  runs about one item share its worker record.

`TargetActions_proofs`: all five properties of `targets`. Tokens are never used
twice, a process in a call owns the execution it is at
(`AtItsTarget`), whatever runs is owned or was interrupted (`RunningIsOwned`,
`InterruptedIsAlone`), and what an attempt has made of a target is among its outcomes
(`OutcomesCount`), from which `SuccessCoversTargets` follows through `Select`.

`WorkerRuns_proofs`: type correctness with any number of relays; and for one
relay (`\A r, s \in Relay : r = s`, an assumption of the theorems)
`LimitRespected`, `EndedForGood` and `AgentsOnRecord`. The argument is why the
unfenced update is harmless: `QuietInv` (nothing is dispatched while a tick
reconciles) and `NamedInv` (whatever an observer, an operator or a finished
dispatch holds names a run that already had its worker, or one claimed again
since) keep every other writer away from the run of a dispatch on its way, so
that its copy is what is on record (`FlightInv`). `GenInv` makes generations
unique, `GoneInv` says that a command past its stop has nobody left to lose.

`TriggerDelivery_proofs`: the five safety properties of `triggers`. `PageCovers`
is what a page in hand promises - with the inbox it covers everything up to its
cursor - and survives whatever another relay stores meanwhile; acknowledgements
hang on `RunBeforeAcknowledgement`, the policy on `EveryPollInTurn`.

`WorkflowIndex_proofs`: `DeliveredIsIndexed` and `RemovedUntilRegistered`, in
whatever order saves commit after they read the clock. `KnownVersions` says that
copies anywhere are queued saves of the ledger, so that a copy which takes the place
of a later revision shows the queue to be straddled there (`SyncCovers`); that never
stops being so. `RowIsIndexed` carries a row from its first transaction to its
acknowledgement. `EventsAreTheSaves` proves
`EventsTellTheSaves` besides: the queue lists every save in order
(`QueueIsHistory`), a receipt stands for an event (`ReceiptsAreEvents`), the
events told are in order (`EventsAreInOrder`), and no drainer has gone
past a row whose event is missing (`NoRowIsPassedOver`), which is what ending the
round at the first failure gives.

`Supervision_proofs`: `OneSupervisor` and `StoppedIsOver` for any number of
dashboards, of starts and stops at a time, of crashes and of stops that fail, from
`LeaseIsExclusive` (who polls has the lease, and one controller knows) and
`StopsAreObeyed` (a controller a stop waits for plans no tick, and one that says
"stopped" is over).

Assumed are the named ASSUMEs of the modules and the assumptions the theorems
state. Model-checked only: all liveness (fairness and ENABLED are beyond the
prover), and `LegacyMigration`.

## Not modelled, and why

- Codex app server client and agent harness (`src/src/codex`, `src/src/agents`):
  one process per session that speaks to a child over a pipe. Its hazards are
  known (two concurrent `requireSession` calls start two servers and keep one;
  `closeAll` passes over a server that is being started; waiting for a turn that
  has ended hangs until the timeout), but it shares no state with the ledger, and
  the questions asked of the parts that do come first.
- Reporting to Linear (labels, comments): external calls, whose failures are the
  faults "report" of `WorkerRuns` and exceptions of a plugin call elsewhere.
- In `WorkflowEngine`: launch plugins with an API version, whose success settles
  the job while its worker lives (`action-outcome.ts:26`; those of Relay have none);
  the awaits between the stops of one sweep, which are one step although each stop
  may fail alone.
- Legacy-pipeline mode, `runTrigger`, adoption of legacy holds, and plugins that
  are not versioned (whose "skipped" goes back to pending): kept for old state,
  with retry rules of their own.
- The queue of eight bindings of `PollTriggers`, two `relay daemon start` at
  once, a poll that is composing its runtime while the stop waits, several
  checkouts of one repository in the index, database failures while an uncertain
  outcome is written.
- Worker-run rows and preferences of the index, config editing, the read model's
  queries, the dashboard client (about a third of the lines), the CLI, adapters,
  workspaces, expressions, schemas, templates, prompts, the in-memory store: data,
  views, files and processes without shared state that could go wrong between
  steps.

## Plan

1. (done) ledger, ownership, decisions, engine, worker runs; theorems of the
   ledger and the decisions.
2. (done) targets, triggers, index, supervision, migration; theorems of the
   targets, worker runs, triggers, index and supervision.
3. (done) theorems of the engine over the ledger, of the workers of superseded
   runs, and of the index's events.
4. The migration's lock as a mutual exclusion of the commands that do not clear
   it; two relays in `WorkerRuns`, from the weaker promise the unfenced update
   leaves; the worker-run rows of the index; sources whose items return to an
   earlier state.
