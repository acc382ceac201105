---------------------------- MODULE WorkflowIndex ----------------------------
(***************************************************************************)
(* The machine-wide index of workflow runs (packages/global-registry) and    *)
(* the outbox that feeds it (packages/storage-sqlite and                     *)
(* src/state/indexed-workflow-run-store.ts).                                 *)
(*                                                                         *)
(* Every save of a run in the repository's ledger raises its revision and    *)
(* queues a copy of it in the same transaction.  Whichever process comes by  *)
(* drains the queue into the index, a second database: it saves the copy,    *)
(* appends an event and acknowledges the row, three transactions between     *)
(* which it may fail or die, beside other processes that drain the same      *)
(* rows.  The dashboard also writes the index without the queue: it imports  *)
(* every run when it synchronises the folder, and saves a run it retried.    *)
(*                                                                         *)
(* A run is its revision and its updatedAt; what else a copy holds travels   *)
(* with them.  One checkout, so one project folder.  All processes read the   *)
(* same clock, which is right; a save reads it before it waits for the        *)
(* ledger's write lock, so saves may commit in an other order than they were  *)
(* stamped.                                                                 *)
(***************************************************************************)
EXTENDS Integers, Sequences, FiniteSets

CONSTANTS
  Run,           (* workflow runs of the ledger                             *)
  Process,       (* processes that drain the queue                          *)
  Dashboard,     (* those of them that also serve the dashboard             *)
  MaxRevision,   (* bound: saves of a run                                   *)
  MaxFaults,     (* bound: database calls that throw, processes that die    *)
  MaxImports     (* bound: imports of the dashboard                         *)

ASSUME IndexAssumption ==
  /\ Dashboard \subseteq Process
  /\ MaxRevision \in Nat /\ MaxFaults \in Nat /\ MaxImports \in Nat

VARIABLES
  ledger,     (* run -> its revision and updatedAt in the repository        *)
  outbox,     (* projection_outbox: the queued copies, by row id            *)
  delivered,  (* row ids with a delivered_at                                *)
  index,      (* run -> revision and updatedAt of the copy in the index     *)
  log,        (* run -> its workflow_events                                 *)
  receipts,   (* workflow_projection_receipts                               *)
  folder,     (* the row of the project folder                              *)
  work,       (* process -> the await it is at, and what it has read        *)
  clock,      (* the time                                                  *)
  faults, imports  (* history                                               *)

repository == <<ledger, outbox, delivered>>
registry == <<index, log, receipts, folder>>
history == <<faults, imports>>
indexVars == <<repository, registry, work, clock, history>>

Version == [rev : Nat, at : Nat]
Copy == [run : Run, rev : Nat, at : Nat]
Save == [run : Run, at : Nat]

Unsaved == [rev |-> 0, at |-> 0]
NoFolder == [known |-> FALSE, removed |-> FALSE]
Idle == [pc |-> "idle", rows |-> {}, copies |-> {}, saves |-> {}]

IndexInit ==
  /\ ledger = [r \in Run |-> Unsaved] /\ outbox = <<>> /\ delivered = {}
  /\ index = [r \in Run |-> Unsaved] /\ log = [r \in Run |-> <<>>]
  /\ receipts = {} /\ folder = NoFolder
  /\ work = [p \in Process |-> Idle] /\ clock = 0
  /\ faults = 0 /\ imports = 0

At(p, pc) == work[p].pc = pc
Goto(p, pc) == work' = [work EXCEPT ![p].pc = pc]
Rest(p) == work' = [work EXCEPT ![p] = Idle]
-----------------------------------------------------------------------------
(***************************************************************************)
(* THE LEDGER.                                                              *)
(***************************************************************************)
CopyOf(r) == [run |-> r, rev |-> ledger[r].rev, at |-> ledger[r].at]

(* The callers pass now() to the store, whose transaction then begins by     *)
(* waiting for the write lock (BEGIN IMMEDIATE with a busy timeout).  Two     *)
(* readings may give the same time.  A run is opened once: who waits to open   *)
(* it meanwhile gets the open one, and saves nothing.                        *)
Waiting(r) == {p \in Process : \E save \in work[p].saves : save.run = r}

ReadClock(p, r, pc) ==
  /\ ledger[r].rev + Cardinality(Waiting(r)) < MaxRevision
  /\ ledger[r].rev = 0 => Waiting(r) = {}
  /\ clock' \in {clock, clock + 1}
  /\ work' = [work EXCEPT ![p] = [Idle EXCEPT !.pc = pc, !.saves = {[run |-> r, at |-> clock']}]]

(* saveWorkflow: the row and its projection in one transaction.             *)
SaveWorkflow(r, at) ==
  /\ ledger' = [ledger EXCEPT ![r] = [rev |-> @.rev + 1, at |-> at]]
  /\ outbox' = Append(outbox, [run |-> r, rev |-> ledger[r].rev + 1, at |-> at])
  /\ UNCHANGED delivered

PendingProjections == DOMAIN outbox \ delivered

(* Mutant: everything that is pending is acknowledged. *)
AcknowledgeAll(id) ==
  /\ delivered' = DOMAIN outbox
  /\ UNCHANGED <<ledger, outbox>>

AcknowledgeProjection(id) ==
  /\ delivered' = delivered \union {id}
  /\ UNCHANGED <<ledger, outbox>>
-----------------------------------------------------------------------------
(***************************************************************************)
(* THE INDEX.                                                               *)
(***************************************************************************)
(* Mutant: only the timestamp decides. *)
OutdatedByTime(copy) == index[copy.run].at >= copy.at

(* syncRun keeps its row if it is neither older nor of an earlier revision. *)
Outdated(copy) ==
  /\ index[copy.run].at >= copy.at
  /\ index[copy.run].rev >= copy.rev

(* upsertProjectFolder without `restore`.                                   *)
FolderSeen == [folder EXCEPT !.known = TRUE]

SyncRun(copy) ==
  /\ folder' = FolderSeen
  /\ index' = IF Outdated(copy) THEN index
              ELSE [index EXCEPT ![copy.run] = [rev |-> copy.rev, at |-> copy.at]]

(* appendProjectedEvent: a receipt per revision makes it idempotent.        *)
AppendProjectedEvent(copy) ==
  IF <<copy.run, copy.rev>> \in receipts THEN UNCHANGED <<log, receipts>>
  ELSE /\ log' = [log EXCEPT ![copy.run] = Append(@, [rev |-> copy.rev, projected |-> TRUE])]
       /\ receipts' = receipts \union {<<copy.run, copy.rev>>}
-----------------------------------------------------------------------------
(***************************************************************************)
(* DRAINING: drainOutbox, after every transition of the process's own and    *)
(* whenever it lists the runs.                                               *)
(***************************************************************************)
(* A transition through IndexedWorkflowRunStore: the ledger commits first.  *)
Transition(p, r) ==
  /\ At(p, "idle")
  /\ ReadClock(p, r, "save")
  /\ UNCHANGED <<repository, registry, history>>

TransitionSaved(p) ==
  /\ At(p, "save")
  /\ \E save \in work[p].saves : SaveWorkflow(save.run, save.at)
  /\ work' = [work EXCEPT ![p] = [Idle EXCEPT !.pc = "list"]]
  /\ UNCHANGED <<registry, clock, history>>

ListWorkflowRuns(p) ==
  /\ At(p, "idle")
  /\ Goto(p, "list")
  /\ UNCHANGED <<repository, registry, clock, history>>

ReadOutbox(p) ==
  /\ At(p, "list")
  /\ work' = [work EXCEPT ![p] =
       IF PendingProjections = {} THEN Idle
       ELSE [Idle EXCEPT !.pc = "index", !.rows = PendingProjections]]
  /\ UNCHANGED <<repository, registry, clock, history>>

(* The rows are handled in the order of their ids.                          *)
IsNext(p, id) == id \in work[p].rows /\ \A other \in work[p].rows : id <= other

IndexRow(p) ==
  /\ At(p, "index")
  /\ \E id \in work[p].rows : IsNext(p, id) /\ SyncRun(outbox[id])
  /\ Goto(p, "event")
  /\ UNCHANGED <<repository, log, receipts, clock, history>>

EventRow(p) ==
  /\ At(p, "event")
  /\ \E id \in work[p].rows : IsNext(p, id) /\ AppendProjectedEvent(outbox[id])
  /\ Goto(p, "acknowledge")
  /\ UNCHANGED <<repository, index, folder, clock, history>>

RowDone(p, id) ==
  work' = [work EXCEPT ![p] =
    IF work[p].rows = {id} THEN Idle
    ELSE [work[p] EXCEPT !.pc = "index", !.rows = work[p].rows \ {id}]]

AcknowledgeRow(p) ==
  /\ At(p, "acknowledge")
  /\ \E id \in work[p].rows : IsNext(p, id) /\ AcknowledgeProjection(id) /\ RowDone(p, id)
  /\ UNCHANGED <<registry, clock, history>>

(* Mutant: a row that fails is skipped. *)
GiveUpOnRow(p, id) == RowDone(p, id)

(* The first call that throws ends the round: later rows wait for the next  *)
(* one, so that no event overtakes an earlier one.                          *)
EndRound(p, id) == Rest(p)

RowFails(p) ==
  /\ work[p].pc \in {"index", "event", "acknowledge"}
  /\ faults < MaxFaults /\ faults' = faults + 1
  /\ \E id \in work[p].rows : IsNext(p, id) /\ EndRound(p, id)
  /\ UNCHANGED <<repository, registry, clock, imports>>
-----------------------------------------------------------------------------
(***************************************************************************)
(* THE DASHBOARD.                                                           *)
(***************************************************************************)
(* ProjectManager.sync reads the ledger first, and then saves run by run.   *)
Snapshot(d) ==
  work' = [work EXCEPT ![d] = [Idle EXCEPT !.pc = "import",
             !.copies = {CopyOf(r) : r \in {r \in Run : ledger[r].rev > 0}}]]

Sync(d) ==
  /\ At(d, "idle") /\ folder.known
  /\ imports < MaxImports /\ imports' = imports + 1
  /\ Snapshot(d)
  /\ UNCHANGED <<repository, registry, clock, faults>>

ImportRun(d) ==
  /\ At(d, "import")
  /\ \E copy \in work[d].copies :
       /\ SyncRun(copy)
       /\ work' = [work EXCEPT ![d].copies = @ \ {copy}]
  /\ UNCHANGED <<repository, log, receipts, clock, history>>

(* It ends when all runs are in, or with a configStatus that names the error. *)
ImportEnds(d) ==
  /\ At(d, "import")
  /\ \/ work[d].copies = {} /\ UNCHANGED faults
     \/ faults < MaxFaults /\ faults' = faults + 1
  /\ Rest(d)
  /\ UNCHANGED <<repository, registry, clock, imports>>

(* retryExecution saves the run in the bare ledger, puts its copy into the   *)
(* index itself, and then polls.                                             *)
RetryExecution(d, r) ==
  /\ At(d, "idle") /\ index[r].rev > 0 /\ ledger[r].rev > 0
  /\ ReadClock(d, r, "retry")
  /\ UNCHANGED <<repository, registry, history>>

RetrySaved(d) ==
  /\ At(d, "retry")
  /\ \E save \in work[d].saves :
       /\ SaveWorkflow(save.run, save.at)
       /\ work' = [work EXCEPT ![d] = [Idle EXCEPT !.pc = "retried",
                     !.copies = {[run |-> save.run, rev |-> ledger[save.run].rev + 1, at |-> save.at]}]]
  /\ UNCHANGED <<registry, clock, history>>

IndexRetried(d) ==
  /\ At(d, "retried")
  /\ \E copy \in work[d].copies : SyncRun(copy)
  /\ Goto(d, "logged")
  /\ UNCHANGED <<repository, log, receipts, clock, history>>

LogRetried(d) ==
  /\ At(d, "logged")
  /\ \E copy \in work[d].copies :
       log' = [log EXCEPT ![copy.run] = Append(@, [rev |-> copy.rev, projected |-> FALSE])]
  /\ work' = [work EXCEPT ![d] = [Idle EXCEPT !.pc = "list"]]
  /\ UNCHANGED <<repository, index, receipts, folder, clock, history>>

RetriedFails(d) ==
  /\ work[d].pc \in {"retried", "logged"}
  /\ faults < MaxFaults /\ faults' = faults + 1
  /\ Rest(d)
  /\ UNCHANGED <<repository, registry, clock, imports>>

(* Registering a folder restores it, and ends with an import.               *)
Register(d) ==
  /\ At(d, "idle")
  /\ imports < MaxImports /\ imports' = imports + 1
  /\ folder' = [known |-> TRUE, removed |-> FALSE]
  /\ Snapshot(d)
  /\ UNCHANGED <<repository, index, log, receipts, clock, faults>>

RemoveFolder(d) ==
  /\ At(d, "idle") /\ folder.known
  /\ folder' = [folder EXCEPT !.removed = TRUE]
  /\ UNCHANGED <<repository, index, log, receipts, work, clock, history>>
-----------------------------------------------------------------------------
Crash(p) ==
  /\ ~At(p, "idle")
  /\ faults < MaxFaults /\ faults' = faults + 1
  /\ Rest(p)
  /\ UNCHANGED <<repository, registry, clock, imports>>

Drain(p) == ReadOutbox(p) \/ IndexRow(p) \/ EventRow(p) \/ AcknowledgeRow(p)

DashboardStep(d) ==
  \/ Sync(d) \/ ImportRun(d) \/ ImportEnds(d)
  \/ \E r \in Run : RetryExecution(d, r)
  \/ RetrySaved(d) \/ IndexRetried(d) \/ LogRetried(d) \/ RetriedFails(d)
  \/ Register(d) \/ RemoveFolder(d)

IndexNext ==
  \/ \E p \in Process :
       \/ \E r \in Run : Transition(p, r)
       \/ TransitionSaved(p) \/ ListWorkflowRuns(p) \/ Drain(p) \/ RowFails(p) \/ Crash(p)
  \/ \E d \in Dashboard : DashboardStep(d)

IndexSpec == IndexInit /\ [][IndexNext]_indexVars

(* A relay lists the runs in every poll, and each process runs on until it   *)
(* dies; it is a relay that polls again, not every process.  The write lock   *)
(* is held for one synchronous transaction, so a wait for it ends.           *)
Relay == Process \ Dashboard
IndexFairness ==
  \A p \in Process :
    /\ WF_indexVars(TransitionSaved(p)) /\ WF_indexVars(Drain(p))
    /\ WF_indexVars(p \in Relay /\ ListWorkflowRuns(p))
    /\ WF_indexVars(p \in Dashboard /\ (ImportRun(p) \/ ImportEnds(p) \/ RetrySaved(p) \/ IndexRetried(p) \/ LogRetried(p)))

FairIndex == IndexSpec /\ IndexFairness
-----------------------------------------------------------------------------
(***************************************************************************)
(* PROPERTIES.                                                              *)
(***************************************************************************)
IndexTypeOK ==
  /\ ledger \in [Run -> Version] /\ index \in [Run -> Version]
  /\ outbox \in Seq(Copy) /\ delivered \subseteq DOMAIN outbox
  /\ log \in [Run -> Seq([rev : Nat, projected : BOOLEAN])]
  /\ receipts \subseteq Run \X Nat
  /\ folder \in [known : BOOLEAN, removed : BOOLEAN]
  /\ work \in [Process -> [ pc : {"idle", "list", "index", "event", "acknowledge",
                                  "import", "retried", "logged", "save", "retry"},
                            rows : SUBSET (DOMAIN outbox), copies : SUBSET Copy, saves : SUBSET Save ]]
  /\ clock \in Nat /\ faults \in Nat /\ imports \in Nat

(* A save of the run before revision rev has a later timestamp than one of    *)
(* that revision or after it: the two committed in an other order than they    *)
(* were stamped.                                                            *)
Straddled(r, rev) ==
  \E i, k \in DOMAIN outbox :
    /\ outbox[i].run = r /\ outbox[k].run = r
    /\ outbox[i].rev < rev /\ rev <= outbox[k].rev
    /\ outbox[i].at > outbox[k].at

(* What the queue has ticked off is in the index, at least as new, unless the  *)
(* run's saves were stamped in an other order than they committed, across     *)
(* that very revision: no failure, crash, import or second drainer loses a     *)
(* copy between the two databases.                                          *)
DeliveredIsIndexed ==
  \A id \in delivered :
    \/ index[outbox[id].run].rev >= outbox[id].rev
    \/ Straddled(outbox[id].run, outbox[id].rev)

(* Where the events of a run's projected copies are in its log.              *)
Told(r) == {n \in DOMAIN log[r] : log[r][n].projected}

(* The projected events of a run are its saves, each once, in their order,   *)
(* however many processes drain the queue and wherever they fail.            *)
EventsTellTheSaves ==
  \A r \in Run : \A n \in Told(r) :
    /\ log[r][n].rev > 0
    /\ {log[r][m].rev : m \in {m \in Told(r) : m < n}} = 1 .. log[r][n].rev - 1

(* A removed folder comes back only when somebody registers it: not because  *)
(* a process that still polls it indexes another run.                        *)
RemovedUntilRegistered ==
  [][folder.removed /\ ~folder'.removed => \E d \in Dashboard : Register(d)]_indexVars

(* In the end the index has every save of the ledger, through failures and   *)
(* crashes, if somebody keeps polling; a run can stay behind only if an        *)
(* earlier save of it is stamped later than its last one.                    *)
IndexCatchesUp ==
  \A r \in Run : <>[](index[r] = ledger[r] \/ Straddled(r, ledger[r].rev))
=============================================================================
