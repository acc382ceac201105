---------------------------- MODULE TriggerDelivery ----------------------------
(***************************************************************************)
(* From what a provider observes to the workflow runs it starts:             *)
(* src/application/poll-trigger.ts (events, cursors, acknowledgements), the   *)
(* trigger tables of packages/storage-sqlite, the poll of one workflow in    *)
(* src/core/task-relay.ts and StartWorkflow of packages/application.         *)
(*                                                                         *)
(* Several relays poll one workflow.  Its source either reports events, which *)
(* are kept until a run has been opened for them, or shows the items as they  *)
(* are now; then the fire policy says which occurrence of an item is due.    *)
(* What happens inside a run is the subject of WorkflowEngine: here it is     *)
(* open until it ends.                                                      *)
(***************************************************************************)
EXTENDS Integers, Sequences, FiniteSets

CONSTANTS
  Process,       (* relays and one-shot polls of the workflow               *)
  Subject,       (* work items                                              *)
  Policy,        (* fire policies of the workflow to choose from            *)
  Grouping,      (* concurrency settings to choose from                     *)
  MaxPublished,  (* bound: changes the provider observes                    *)
  MaxOccurrence, (* bound: runs of an item                                  *)
  MaxFaults,     (* bound: calls that throw, cancellations in doubt, crashes *)
  MaxRetries     (* bound: retries by operators                             *)

ASSUME TriggerAssumption ==
  /\ Policy \subseteq {"event", "once-per-match", "on-change", "every-poll"}
  /\ Grouping \subseteq {"none", "wait", "cancel"}
  /\ MaxPublished \in Nat /\ MaxOccurrence \in Nat
  /\ MaxFaults \in Nat /\ MaxRetries \in Nat

VARIABLES
  workflow,    (* the configuration: fire policy and concurrency group      *)
  published,   (* the provider: the subject of every change, oldest first   *)
  events,      (* trigger_events: event -> its status                       *)
  checkpoint,  (* trigger_checkpoints: the cursor, 0 for none               *)
  runs,        (* <<item, occurrence>> -> status of the run                 *)
  work,        (* process -> the await it is at, and what it has read       *)
  faults, retries, opened, resumed  (* history                            *)

source == <<workflow, published>>
inbox == <<events, checkpoint>>
triggerHistory == <<faults, retries, opened, resumed>>
triggerVars == <<source, inbox, runs, work, triggerHistory>>

Max(a, b) == IF a >= b THEN a ELSE b
Event == 1 .. MaxPublished
Occurrence == Subject \X (1 .. Max(MaxPublished, MaxOccurrence))

Awaits == {"rest", "advance", "fetch", "accept", "list", "discover", "item",
           "group", "cancel", "open", "acknowledge"}

(* What a process holds while it polls: the await it is at, the task it was   *)
(* given, the runs that were open at the beginning, the runs or items that    *)
(* are left, the cursor and the page of a fetch, and for the item it is at    *)
(* the occurrence and the runs in the way.                                   *)
Poll == [ pc : Awaits,
          task : SUBSET Subject, observed : SUBSET Occurrence, todo : SUBSET Occurrence,
          cursor : 0 .. MaxPublished, page : SUBSET Event,
          occurrence : Occurrence \union {<<>>}, live : SUBSET Occurrence ]

(* The process is not polling.                                              *)
AtRest == [ pc |-> "rest", task |-> Subject, observed |-> {}, todo |-> {},
            cursor |-> 0, page |-> {}, occurrence |-> <<>>, live |-> {} ]

TriggerInit ==
  /\ workflow \in [policy : Policy, group : Grouping]
  /\ published = <<>> /\ events = [n \in Event |-> "unseen"] /\ checkpoint = 0
  /\ runs = [o \in Occurrence |-> "none"]
  /\ work = [p \in Process |-> AtRest]
  /\ faults = 0 /\ retries = 0
  /\ opened = [o \in Occurrence |-> 0] /\ resumed = {}

EventSource == workflow.policy = "event"
Running == {o \in Occurrence : runs[o] = "running"}

At(p, pc) == work[p].pc = pc
Set(p, change) == work' = [work EXCEPT ![p] = change]
Fault == faults < MaxFaults /\ faults' = faults + 1
-----------------------------------------------------------------------------
(***************************************************************************)
(* THE PROVIDER: an external service.  A page goes from at most the event     *)
(* after the cursor up to any later one; it may repeat events, and a plugin   *)
(* may have no cursor at all.                                               *)
(***************************************************************************)
Publish(s) ==
  /\ Len(published) < MaxPublished
  /\ published' = Append(published, s)
  /\ UNCHANGED <<workflow, inbox, runs, work, triggerHistory>>

(* The state an item is in, as its on-change occurrence names it: the whole   *)
(* item as JSON.  Each change gives a new one, which holds of a source whose  *)
(* items carry a revision; one without that returns to an earlier state gives *)
(* the occurrence that has been run, and starts nothing.                     *)
Revision(s) == Cardinality({n \in DOMAIN published : published[n] = s})

Page(lo, hi, numbered) == [ids |-> lo .. hi, cursor |-> IF numbered THEN hi ELSE 0]

Pages(cursor) ==
  {Page(lo, hi, numbered) :
     lo \in 1 .. cursor + 1, hi \in cursor .. Len(published), numbered \in BOOLEAN}

(* All there is.                                                            *)
LatestPages(cursor) == {page \in Pages(cursor) : cursor + 1 .. Len(published) \subseteq page.ids}
-----------------------------------------------------------------------------
(***************************************************************************)
(* THE INBOX.                                                               *)
(***************************************************************************)
Seen(status) == {n \in Event : events[n] = status}
Stored(ids) == [n \in Event |-> IF n \in ids /\ events[n] = "unseen" THEN "pending" ELSE events[n]]

(* Mutant: an event of the page may be refused on its own.                  *)
AcceptWhatPasses(page) ==
  \E refused \in SUBSET page.ids : events' = Stored(page.ids \ refused) /\ checkpoint' = page.cursor

(* acceptTriggerEvents: INSERT OR IGNORE, and the cursor, in one transaction. *)
AcceptTriggerEvents(page) ==
  /\ events' = Stored(page.ids)
  /\ checkpoint' = page.cursor

AcknowledgeTriggerEvent(n) ==
  /\ events' = [events EXCEPT ![n] = IF @ = "pending" THEN "accepted" ELSE @]
  /\ UNCHANGED checkpoint
-----------------------------------------------------------------------------
(***************************************************************************)
(* THE POLL OF THE WORKFLOW: runWorkflow.                                    *)
(***************************************************************************)
(* Open runs are looked after first, wherever the source stands.  A `task`    *)
(* of the command line filters what is discovered, not these.                *)
BeginPoll(p, task) ==
  /\ At(p, "rest")
  /\ Set(p, [AtRest EXCEPT !.pc = "advance", !.task = task, !.observed = Running, !.todo = Running])
  /\ UNCHANGED <<source, inbox, runs, triggerHistory>>

(* The engine acknowledges the event of a run it was handed, again.          *)
Acknowledged(o) ==
  IF EventSource THEN AcknowledgeTriggerEvent(o[2]) ELSE UNCHANGED inbox

AdvanceRun(p) ==
  /\ At(p, "advance")
  /\ \E o \in work[p].todo :
       /\ Acknowledged(o)
       /\ Set(p, [work[p] EXCEPT !.todo = @ \ {o}])
  /\ UNCHANGED <<source, runs, triggerHistory>>

NotDue(p) ==
  /\ At(p, "advance") /\ work[p].todo = {}
  /\ Set(p, AtRest)
  /\ UNCHANGED <<source, inbox, runs, triggerHistory>>

Due(p) ==
  /\ At(p, "advance") /\ work[p].todo = {}
  /\ Set(p, [work[p] EXCEPT !.pc = IF EventSource THEN "fetch" ELSE "discover", !.cursor = checkpoint])
  /\ UNCHANGED <<source, inbox, runs, triggerHistory>>

FetchPage(p, pages) ==
  /\ At(p, "fetch")
  /\ \E page \in pages :
       Set(p, [work[p] EXCEPT !.pc = "accept", !.page = page.ids, !.cursor = page.cursor])
  /\ UNCHANGED <<source, inbox, runs, triggerHistory>>

Fetch(p) == FetchPage(p, Pages(work[p].cursor))

Accept(p) ==
  /\ At(p, "accept")
  /\ AcceptTriggerEvents([ids |-> work[p].page, cursor |-> work[p].cursor])
  /\ Set(p, [work[p] EXCEPT !.pc = "list", !.page = {}, !.cursor = 0])
  /\ UNCHANGED <<source, runs, triggerHistory>>

(* Without the provider, what is pending still counts.                       *)
Offline(p) ==
  /\ work[p].pc \in {"fetch", "accept"}
  /\ Fault
  /\ Set(p, IF Seen("pending") = {} THEN AtRest
            ELSE [work[p] EXCEPT !.pc = "list", !.page = {}, !.cursor = 0])
  /\ UNCHANGED <<source, inbox, runs, retries, opened, resumed>>

(* The queue of the poll: when it is empty, the poll is over.               *)
Queue(p, items) ==
  Set(p, IF items = {} THEN AtRest
         ELSE [work[p] EXCEPT !.pc = "item", !.cursor = 0, !.occurrence = <<>>, !.live = {}, !.todo = items])

Handed(p, items) == Queue(p, {i \in items : i[1] \in work[p].task} \ work[p].observed)

ListPending(p) ==
  /\ At(p, "list")
  /\ Handed(p, {<<published[n], n>> : n \in Seen("pending")})
  /\ UNCHANGED <<source, inbox, runs, triggerHistory>>

(* Mutant: the policy makes no difference.                                  *)
CoveredInAnyState(p, s) == \E o \in work[p].observed : o[1] = s

(* occurrenceKey compares an item as it is now, named by its revision, with   *)
(* the open runs: only by item, unless the policy is on-change.              *)
Covered(p, s) ==
  \E o \in work[p].observed : o[1] = s /\ (workflow.policy = "on-change" => o[2] = Revision(s))

Discover(p) ==
  /\ At(p, "discover")
  /\ Handed(p, {<<s, Revision(s)>> :
       s \in {s \in Subject : Revision(s) > 0 /\ ~Covered(p, s)}})
  /\ UNCHANGED <<source, inbox, runs, triggerHistory>>
-----------------------------------------------------------------------------
(***************************************************************************)
(* ONE ITEM: StartWorkflow.                                                 *)
(***************************************************************************)
(* latestWorkflowRun. *)
LatestOf(s) == {n \in 1 .. MaxOccurrence : runs[<<s, n>>] # "none"
                  /\ \A m \in 1 .. MaxOccurrence : runs[<<s, m>>] # "none" => m <= n}

(* Mutant: the next run, whether or not the latest has ended.               *)
NextRunAnyway(s) ==
  IF LatestOf(s) = {} THEN {1} ELSE {n + 1 : n \in LatestOf(s)}

(* every-poll: the latest run while it is open, the next one afterwards.    *)
EveryPoll(s) ==
  IF LatestOf(s) = {} THEN {1}
  ELSE {IF runs[<<s, n>>] = "running" THEN n ELSE n + 1 : n \in LatestOf(s)}

(* workflowOccurrence.                                                      *)
WorkflowOccurrence(i) ==
  CASE workflow.policy \in {"event", "on-change"} -> {i}
    [] workflow.policy = "once-per-match" -> {<<i[1], 1>>}
    [] workflow.policy = "every-poll" -> {<<i[1], n>> : n \in EveryPoll(i[1])}

(* Items of a concurrency group are handled one by one; events in the order  *)
(* they were observed.                                                      *)
Turn(p, i) == EventSource /\ workflow.group # "none" => \A j \in work[p].todo : i[2] <= j[2]

TakeItem(p) ==
  /\ At(p, "item")
  /\ \E i \in work[p].todo :
       /\ Turn(p, i)
       /\ \/ \E o \in WorkflowOccurrence(i) \intersect Occurrence :
               Set(p, [work[p] EXCEPT !.pc = IF workflow.group = "none" THEN "open" ELSE "group",
                         !.todo = @ \ {i}, !.occurrence = o])
          \/ /\ WorkflowOccurrence(i) \intersect Occurrence = {}  (* MaxOccurrence *)
             /\ Queue(p, work[p].todo \ {i})
  /\ UNCHANGED <<source, inbox, runs, triggerHistory>>

NextItem(p) == Queue(p, work[p].todo)

(* Mutant: an item that yields is done with.                                *)
YieldForGood(p) == Acknowledged(work[p].occurrence) /\ NextItem(p)

(* Its event stays pending.                                                 *)
Yield(p) == NextItem(p) /\ UNCHANGED inbox

(* The runs that hold the group; without cancelInProgress the item yields.   *)
CheckGroup(p) ==
  /\ At(p, "group")
  /\ LET live == Running \ {work[p].occurrence} IN
       IF live # {} /\ workflow.group = "wait" THEN Yield(p)
       ELSE UNCHANGED inbox /\ Set(p, [work[p] EXCEPT !.pc = IF live = {} THEN "open" ELSE "cancel", !.live = live])
  /\ UNCHANGED <<source, runs, triggerHistory>>

CancelOther(p) ==
  /\ At(p, "cancel")
  /\ \E o \in work[p].live :
       /\ runs' = [runs EXCEPT ![o] = "ended"]
       /\ Set(p, [work[p] EXCEPT !.live = @ \ {o}, !.pc = IF work[p].live = {o} THEN "open" ELSE "cancel"])
  /\ UNCHANGED <<source, inbox, triggerHistory>>

GroupOccupied == workflow.group # "none" /\ Running # {}

(* Mutant: a new run, also over an existing one.                            *)
OpenAnew(p, o) ==
  /\ runs' = [runs EXCEPT ![o] = "running"]
  /\ opened' = [opened EXCEPT ![o] = @ + 1]
  /\ Set(p, [work[p] EXCEPT !.pc = "acknowledge"])

(* Mutant: only the process that looked at the group minds it.              *)
OpenBeside(p, o) ==
  /\ IF runs[o] # "none" THEN UNCHANGED <<runs, opened>>
     ELSE /\ runs' = [runs EXCEPT ![o] = "running"]
          /\ opened' = [opened EXCEPT ![o] = @ + 1]
  /\ Set(p, [work[p] EXCEPT !.pc = "acknowledge"])

(* Mutant: an occupied group is passed over in silence.                     *)
OpenQuietly(p, o) ==
  /\ IF runs[o] # "none" \/ GroupOccupied THEN UNCHANGED <<runs, opened>>
     ELSE /\ runs' = [runs EXCEPT ![o] = "running"]
          /\ opened' = [opened EXCEPT ![o] = @ + 1]
  /\ Set(p, [work[p] EXCEPT !.pc = "acknowledge"])

(* findWorkflowRun and openWorkflowRun, which looks for the run once more, so  *)
(* that nothing between the two calls makes a difference: the run there is,   *)
(* or a new one, or an error.                                               *)
OpenWorkflowRun(p, o) ==
  IF runs[o] # "none" THEN UNCHANGED <<runs, opened>> /\ Set(p, [work[p] EXCEPT !.pc = "acknowledge"])
  ELSE IF GroupOccupied THEN UNCHANGED <<runs, opened>> /\ NextItem(p)
  ELSE /\ runs' = [runs EXCEPT ![o] = "running"]
       /\ opened' = [opened EXCEPT ![o] = @ + 1]
       /\ Set(p, [work[p] EXCEPT !.pc = "acknowledge"])

OpenRun(p) ==
  /\ At(p, "open")
  /\ OpenWorkflowRun(p, work[p].occurrence)
  /\ UNCHANGED <<source, inbox, faults, retries, resumed>>

AcknowledgeItem(p) ==
  /\ At(p, "acknowledge")
  /\ Acknowledged(work[p].occurrence)
  /\ NextItem(p)
  /\ UNCHANGED <<source, runs, triggerHistory>>

(* A call that throws, or a cancellation nobody can verify, is the end of    *)
(* this item for this poll.                                                 *)
ItemFails(p) ==
  /\ work[p].pc \in {"group", "cancel", "open", "acknowledge"}
  /\ Fault
  /\ NextItem(p)
  /\ UNCHANGED <<source, inbox, runs, retries, opened, resumed>>

Crash(p) ==
  /\ ~At(p, "rest")
  /\ Fault
  /\ Set(p, AtRest)
  /\ UNCHANGED <<source, inbox, runs, retries, opened, resumed>>
-----------------------------------------------------------------------------
(* A run comes to its end; an operator may retry it.                        *)
RunEnds(o) ==
  /\ runs[o] = "running"
  /\ runs' = [runs EXCEPT ![o] = "ended"]
  /\ UNCHANGED <<source, inbox, work, triggerHistory>>

RetryRun(o) ==
  /\ runs[o] = "ended"
  /\ retries < MaxRetries /\ retries' = retries + 1
  /\ runs' = [runs EXCEPT ![o] = "running"]
  /\ resumed' = resumed \union {o}
  /\ UNCHANGED <<source, inbox, work, faults, opened>>

Awaited(p) ==
  \/ AdvanceRun(p) \/ Fetch(p) \/ Accept(p) \/ ListPending(p) \/ Discover(p)
  \/ TakeItem(p) \/ CheckGroup(p) \/ CancelOther(p)
  \/ OpenRun(p) \/ AcknowledgeItem(p)

TriggerNext ==
  \/ \E s \in Subject : Publish(s)
  \/ \E p \in Process :
       \/ BeginPoll(p, Subject) \/ \E s \in Subject : BeginPoll(p, {s})
       \/ NotDue(p) \/ Due(p) \/ Awaited(p)
       \/ Offline(p) \/ ItemFails(p) \/ Crash(p)
  \/ \E o \in Occurrence : RunEnds(o) \/ RetryRun(o)

TriggerSpec == TriggerInit /\ [][TriggerNext]_triggerVars

(* A relay polls for ever and without a task, its interval passes again and   *)
(* again, the provider shows now and then all it has.  A run may be held for  *)
(* an operator and stay open; only where others wait for it is it assumed to *)
(* end (RunsComeToRest of WorkflowEngine, and somebody inspects what is held). *)
TriggerFairness ==
  /\ \A p \in Process :
       /\ WF_triggerVars(Awaited(p) \/ NotDue(p))
       /\ SF_triggerVars(BeginPoll(p, Subject))
       /\ SF_triggerVars(Due(p) /\ work[p].task = Subject)
       /\ SF_triggerVars(FetchPage(p, LatestPages(work[p].cursor)) /\ work[p].task = Subject)
  /\ \A o \in Occurrence : WF_triggerVars(workflow.group = "wait" /\ RunEnds(o))

FairTrigger == TriggerSpec /\ TriggerFairness
-----------------------------------------------------------------------------
(***************************************************************************)
(* PROPERTIES.                                                              *)
(***************************************************************************)
TriggerTypeOK ==
  /\ workflow \in [policy : Policy, group : Grouping]
  /\ published \in Seq(Subject) /\ Len(published) <= MaxPublished
  /\ events \in [Event -> {"unseen", "pending", "accepted"}]
  /\ checkpoint \in 0 .. MaxPublished
  /\ runs \in [Occurrence -> {"none", "running", "ended"}]
  /\ work \in [Process -> Poll]
  /\ \A p \in Process :
       work[p].pc \in {"group", "cancel", "open", "acknowledge"} => work[p].occurrence \in Occurrence
  /\ opened \in [Occurrence -> Nat] /\ resumed \subseteq Occurrence
  /\ faults \in Nat /\ retries \in Nat

(* The cursor never passes an event that is not in the inbox, although two   *)
(* relays read it, fetch and store in any order: what it passes is never      *)
(* fetched again.                                                           *)
CursorCoversInbox == \A n \in 1 .. checkpoint : events[n] # "unseen"

(* An event is ticked off only when its run is on record.                   *)
AcknowledgedHasRun ==
  EventSource => \A n \in Seen("accepted") : runs[<<published[n], n>>] # "none"

(* An occurrence is started once, however often its event is delivered and    *)
(* by however many relays.                                                  *)
StartedOnce == \A o \in Occurrence : opened[o] <= 1

(* Two runs of a group are live only after a retry of one of them, although    *)
(* the group is read, cleared and entered in three steps.                   *)
GroupSharedOnlyByRetry ==
  workflow.group # "none" =>
    \A o, q \in Running : o # q => {o, q} \intersect resumed # {}

(* every-poll: the runs of an item follow one another.  Only a retry makes a  *)
(* second one live.                                                         *)
EveryPollAlone ==
  workflow.policy = "every-poll" =>
    \A o, q \in Running : o[1] = q[1] /\ o # q => {o, q} \intersect resumed # {}

(* Every event has a run in the end, and is ticked off: through outages,      *)
(* crashes, runs in the way and polls of another task.                       *)
EventsStart ==
  \A n \in Event :
    EventSource /\ n \in DOMAIN published
      ~> events[n] = "accepted" /\ runs[<<published[n], n>>] # "none"

(* With on-change, the state in which an item comes to rest is acted upon,    *)
(* also while the run of an earlier state is held.  (If it is a state the     *)
(* item was not in before.)                                                 *)
LastChangeStarts ==
  \A s \in Subject :
    workflow.policy = "on-change" /\ Len(published) = MaxPublished /\ Revision(s) > 0
      ~> (Revision(s) > 0 /\ runs[<<s, Revision(s)>>] # "none")
=============================================================================
