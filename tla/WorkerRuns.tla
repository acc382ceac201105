----------------------------- MODULE WorkerRuns -----------------------------
(***************************************************************************)
(* The runs of agent workers (packages/application/src/manage-workers.ts)   *)
(* over the run half of the store (packages/storage-sqlite/src/index.ts).   *)
(*                                                                         *)
(* A run record belongs to one (item, trigger); a claim starts a new        *)
(* generation of it.  The claim and the end of a run are fenced             *)
(* transactions, but between them the dispatch writes its whole copy of the *)
(* record back, so the order of a relay's tick - first reconcile what is on *)
(* record, then dispatch, and no tick beside another - carries a part of    *)
(* the guarantees.  Agents are external: they end by themselves or are      *)
(* stopped, and outlive the relay that launched them.                      *)
(*                                                                         *)
(* One repository and one source.  Workspaces appear only as `cleaned`.     *)
(***************************************************************************)
EXTENDS Integers, FiniteSets

CONSTANTS
  Item, Trigger,
  MaxConcurrent,     (* trigger.maxConcurrent                               *)
  Sidecar,           (* triggers that launch beside other workers           *)
  OneWorkerPerItem,  (* execution.oneWorkerPerItem                          *)
  Waits,             (* triggers whose harness implements wait              *)
  Reconciles,        (* triggers whose harness implements reconcile         *)
  Relay, Operator,   (* processes that tick, and that address workers       *)
  Dispatcher,        (* dispatches a relay has at once in a tick ...        *)
  RelayOf,           (* ... and whose they are                              *)
  Faults,            (* failures that may happen, from FaultKind            *)
  MaxClaims,         (* bound: generations                                  *)
  MaxCrashes         (* bound: crashes of relays                            *)

FaultKind == {"report", "resolve", "provision", "launch", "record", "observe", "stop", "quit"}

ASSUME WorkerAssumption ==
  /\ Item # {} /\ Trigger # {}
  /\ MaxConcurrent \in [Trigger -> Nat \ {0}]
  /\ Sidecar \subseteq Trigger /\ Waits \subseteq Trigger /\ Reconciles \subseteq Trigger
  /\ OneWorkerPerItem \in BOOLEAN
  /\ RelayOf \in [Dispatcher -> Relay]
  /\ Faults \subseteq FaultKind
  /\ MaxClaims \in Nat /\ MaxCrashes \in Nat

VARIABLES
  runs,       (* the record of each key                                     *)
  claims,     (* generations so far (claimedAt)                             *)
  agents,     (* generations whose agent is alive                           *)
  tick,       (* relay -> where its poll is, and the copies to reconcile    *)
  dispatch,   (* dispatcher -> the await it is at, and its copy             *)
  watched,    (* relay -> locallyObservedRuns                               *)
  command,    (* operator -> the worker it acts on                          *)
  forgotten,  (* history: agents that a crash, a failed write or a failed      *)
              (* observation left behind                                    *)
  crashes     (* history                                                    *)

workerVars == <<runs, claims, agents, tick, dispatch, watched, command, forgotten, crashes>>

Key == Item \X Trigger
Generation == 1 .. MaxClaims

ActiveStatus == {"claimed", "provisioning", "launching", "running"}
FinalStatus  == {"succeeded", "failed", "stopped"}

NoRecord == [status |-> "none", gen |-> 0, worker |-> FALSE, cleaned |-> FALSE]
RunRecord == [status : ActiveStatus \union FinalStatus \union {"none"}, gen : 0 .. MaxClaims,
              worker : BOOLEAN, cleaned : BOOLEAN]

IsActive(run) == run.status \in ActiveStatus
Active(t) == {k \in Key : k[2] = t /\ IsActive(runs[k])}

(* A record, and the key it was read under. *)
CopyOf(k) == [key |-> k, run |-> runs[k]]
NoCopy == [key |-> <<CHOOSE i \in Item : TRUE, CHOOSE t \in Trigger : TRUE>>, run |-> NoRecord]
Copies == [key : Key, run : RunRecord]

IdleDispatch == [pc |-> "idle", copy |-> NoCopy]
IdleCommand  == [pc |-> "idle", kind |-> "stop", copy |-> NoCopy]

WorkerInit ==
  /\ runs = [k \in Key |-> NoRecord]
  /\ claims = 0
  /\ agents = {}
  /\ tick = [r \in Relay |-> [phase |-> "off", left |-> {}]]
  /\ dispatch = [d \in Dispatcher |-> IdleDispatch]
  /\ watched = [r \in Relay |-> {}]
  /\ command = [o \in Operator |-> IdleCommand]
  /\ forgotten = {}
  /\ crashes = 0

-----------------------------------------------------------------------------
Fenced(c) == runs[c.key].gen = c.run.gen

(* Mutant: an ending is recorded over an earlier one. *)
FinishAnyway(c, status) ==
  runs' = [runs EXCEPT ![c.key] = IF Fenced(c) THEN [@ EXCEPT !.status = status] ELSE @]

(* finishActive: only this generation, and only while it is active. *)
FinishActive(c, status) ==
  runs' = [runs EXCEPT ![c.key] =
             IF Fenced(c) /\ IsActive(@) THEN [@ EXCEPT !.status = status] ELSE @]

(* update: whatever is on record, this copy replaces it. *)
Update(c) == runs' = [runs EXCEPT ![c.key] = c.run]

DispatchAt(d, pc) == dispatch[d].pc = pc
Go(d, pc, c) == dispatch' = [dispatch EXCEPT ![d] = [pc |-> pc, copy |-> c]]

(* A dispatch writes its copy, changed in place, and goes on from there. *)
Save(d, pc, status, worker) ==
  LET c == [dispatch[d].copy EXCEPT !.run.status = status, !.run.worker = worker]
  IN Update(c) /\ Go(d, pc, c)

GiveUp(d) ==
  /\ Save(d, "done", "failed", FALSE)
  /\ UNCHANGED <<claims, agents, tick, watched, command, forgotten, crashes>>

-----------------------------------------------------------------------------
(* The checks before the claim: findActive, ...                              *)
Consider(d, k) ==
  /\ DispatchAt(d, "idle") /\ tick[RelayOf[d]].phase = "poll"
  /\ claims < MaxClaims
  /\ ~IsActive(runs[k])
  /\ Go(d, "free", [key |-> k, run |-> NoRecord])
  /\ UNCHANGED <<runs, claims, agents, tick, watched, command, forgotten, crashes>>

(* ... and activeWorkerForItem, of a trigger that is no sidecar.             *)
SiblingWorker(k) ==
  \E t \in Trigger : LET run == runs[<<k[1], t>>] IN IsActive(run) /\ run.worker

FindSibling(d) ==
  /\ DispatchAt(d, "free")
  /\ LET k == dispatch[d].copy.key
     IN IF OneWorkerPerItem /\ k[2] \notin Sidecar /\ SiblingWorker(k)
        THEN Go(d, "done", NoCopy) ELSE Go(d, "considered", dispatch[d].copy)
  /\ UNCHANGED <<runs, claims, agents, tick, watched, command, forgotten, crashes>>

(* agentLauncher.resolve throws *)
ResolveFails(d) ==
  /\ DispatchAt(d, "considered")
  /\ "resolve" \in Faults \/ claims = MaxClaims
  /\ Go(d, "done", NoCopy)
  /\ UNCHANGED <<runs, claims, agents, tick, watched, command, forgotten, crashes>>

(* Mutant: the claim does not count. *)
AdmittedUncounted(k) == ~IsActive(runs[k])

Admitted(k) == ~IsActive(runs[k]) /\ Cardinality(Active(k[2])) < MaxConcurrent[k[2]]

Claim(d) ==
  /\ DispatchAt(d, "considered") /\ claims < MaxClaims
  /\ LET k == dispatch[d].copy.key
         c == [key |-> k, run |-> [NoRecord EXCEPT !.status = "claimed", !.gen = claims + 1]]
     IN IF Admitted(k)
        THEN Update(c) /\ Go(d, "claimed", c) /\ claims' = claims + 1
        ELSE Go(d, "done", NoCopy) /\ UNCHANGED <<runs, claims>>
  /\ UNCHANGED <<agents, tick, watched, command, forgotten, crashes>>

ReportClaim(d) ==
  /\ DispatchAt(d, "claimed")
  /\ Save(d, "provisioning", "provisioning", FALSE)
  /\ UNCHANGED <<claims, agents, tick, watched, command, forgotten, crashes>>

Provision(d) ==
  /\ DispatchAt(d, "provisioning")
  /\ Save(d, "launching", "launching", FALSE)
  /\ UNCHANGED <<claims, agents, tick, watched, command, forgotten, crashes>>

(* The agent starts before its relay knows of it. *)
StartAgent(d) ==
  /\ DispatchAt(d, "launching")
  /\ agents' = agents \union {dispatch[d].copy.run.gen}
  /\ Go(d, "started", dispatch[d].copy)
  /\ UNCHANGED <<runs, claims, tick, watched, command, forgotten, crashes>>

RecordWorker(d) ==
  /\ DispatchAt(d, "started")
  /\ Save(d, "running", "running", TRUE)
  /\ UNCHANGED <<claims, agents, tick, watched, command, forgotten, crashes>>

(* The store fails as the worker is written down, and takes the second report:  *)
(* the agent lives, under a run that has failed.                            *)
RecordFails(d) ==
  /\ DispatchAt(d, "started") /\ "record" \in Faults
  /\ Save(d, "done", "failed", TRUE)
  /\ forgotten' = forgotten \union {dispatch[d].copy.run.gen}
  /\ UNCHANGED <<claims, agents, tick, watched, command, crashes>>

(* startObservingWorker; a harness without wait answers at once. *)
StartObserving(d) ==
  /\ DispatchAt(d, "running")
  /\ LET c == dispatch[d].copy
     IN watched' = IF c.key[2] \in Waits
                   THEN [watched EXCEPT ![RelayOf[d]] = @ \union {c}] ELSE watched
  /\ Go(d, "done", NoCopy)
  /\ UNCHANGED <<runs, claims, agents, tick, command, forgotten, crashes>>

(* The source rejects the claim, no workspace can be had, no agent starts. *)
DispatchFails(d) ==
  /\ \/ DispatchAt(d, "claimed") /\ "report" \in Faults
     \/ DispatchAt(d, "provisioning") /\ "provision" \in Faults
     \/ DispatchAt(d, "launching") /\ "launch" \in Faults
  /\ GiveUp(d)

-----------------------------------------------------------------------------
(* Mutant: a tick begins beside the one before it. *)
BeginTickAnyway(r) ==
  /\ tick[r].phase \in {"off", "poll"}
  /\ tick' = [tick EXCEPT ![r] = [ phase |-> "reconcile",
                                   left |-> {CopyOf(k) : k \in {x \in Key : IsActive(runs[x])}} ]]
  /\ dispatch' = [d \in Dispatcher |-> IF RelayOf[d] = r /\ DispatchAt(d, "done")
                                        THEN IdleDispatch ELSE dispatch[d]]
  /\ UNCHANGED <<runs, claims, agents, watched, command, forgotten, crashes>>

(* PollTriggers.execute: everything on record first, then the bindings. *)
BeginTick(r) ==
  /\ tick[r].phase \in {"off", "poll"}
  /\ \A d \in Dispatcher : RelayOf[d] = r => dispatch[d].pc \in {"idle", "done"}
  /\ tick' = [tick EXCEPT ![r] = [ phase |-> "reconcile",
                                   left |-> {CopyOf(k) : k \in {x \in Key : IsActive(runs[x])}} ]]
  /\ dispatch' = [d \in Dispatcher |-> IF RelayOf[d] = r THEN IdleDispatch ELSE dispatch[d]]
  /\ UNCHANGED <<runs, claims, agents, watched, command, forgotten, crashes>>

Alive(c) == c.run.gen \in agents
Watching(r, c) == \E w \in watched[r] : w.key = c.key /\ w.run.gen = c.run.gen

(* Mutant: a run that never got a worker is left to itself. *)
VerdictsOfWorkers(c) ==
  IF ~c.run.worker THEN {"none"}
  ELSE IF Alive(c) THEN {"none"} ELSE {"succeeded", "failed"}

(* finishObservedRun: a living agent that is given up is nobody's any more. *)
EndOnRecord(c, v) ==
  /\ FinishActive(c, v)
  /\ forgotten' = forgotten \union ({c.run.gen} \intersect agents)

(* What the launcher says of a worker on record; "none" is no completion. *)
Verdicts(c) ==
  IF ~c.run.worker THEN {"failed"}
  ELSE (IF c.key[2] \notin Reconciles THEN {"failed"}
        ELSE IF Alive(c) THEN {"none"} ELSE {"succeeded", "failed"})
       \union (IF "observe" \in Faults THEN {"failed"} ELSE {})

ReconcilePersistedRun(r, c) ==
  /\ tick[r].phase = "reconcile" /\ c \in tick[r].left
  /\ \/ Watching(r, c) /\ UNCHANGED <<runs, forgotten>>
     \/ /\ ~Watching(r, c)
        /\ \E v \in Verdicts(c) :
             IF v = "none" THEN UNCHANGED <<runs, forgotten>> ELSE EndOnRecord(c, v)
  /\ tick' = [tick EXCEPT ![r].left = @ \ {c}]
  /\ UNCHANGED <<claims, agents, dispatch, watched, command, crashes>>

BeginPoll(r) ==
  /\ tick[r].phase = "reconcile" /\ tick[r].left = {}
  /\ tick' = [tick EXCEPT ![r].phase = "poll"]
  /\ UNCHANGED <<runs, claims, agents, dispatch, watched, command, forgotten, crashes>>

(* observeWorker: the wait returns, or throws while the agent lives. *)
ObserveWorker(r, c) ==
  /\ c \in watched[r]
  /\ \/ ~Alive(c) /\ \E v \in {"succeeded", "failed"} : EndOnRecord(c, v)
     \/ Alive(c) /\ "observe" \in Faults /\ EndOnRecord(c, "failed")
  /\ watched' = [watched EXCEPT ![r] = @ \ {c}]
  /\ UNCHANGED <<claims, agents, tick, dispatch, command, crashes>>

-----------------------------------------------------------------------------
(***************************************************************************)
(* stopWorker, cleanup and handoff: from a relay's own workflow jobs or from *)
(* an operator's command.                                                   *)
(***************************************************************************)
CommandAt(o, pc) == command[o].pc = pc
Proceed(o, pc) == command' = [command EXCEPT ![o].pc = pc]
Finished(o) == command' = [command EXCEPT ![o] = IdleCommand]

(* Only a cleanup has anything to do with a worker that is not active. *)
Address(o, k, kind) ==
  /\ CommandAt(o, "idle")
  /\ runs[k].worker
  /\ IsActive(runs[k]) \/ kind = "clean"
  /\ command' = [command EXCEPT ![o] = [ kind |-> kind, copy |-> CopyOf(k),
                   pc |-> IF IsActive(runs[k]) THEN "stop" ELSE "clean" ]]
  /\ UNCHANGED <<runs, claims, agents, tick, dispatch, watched, forgotten, crashes>>

TakeDown(o) ==
  /\ CommandAt(o, "stop")
  /\ agents' = agents \ {command[o].copy.run.gen}
  /\ Proceed(o, "finish")
  /\ UNCHANGED <<runs, claims, tick, dispatch, watched, forgotten, crashes>>

RecordEnd(o) ==
  /\ CommandAt(o, "finish")
  /\ \E v \in IF command[o].kind = "handoff" THEN {"succeeded", "failed"} ELSE {"stopped"} :
       FinishActive(command[o].copy, v)
  /\ IF command[o].kind = "clean" THEN Proceed(o, "clean") ELSE Finished(o)
  /\ UNCHANGED <<claims, agents, tick, dispatch, watched, forgotten, crashes>>

(* markWorkspaceCleaned: fenced by the generation alone. *)
MarkWorkspaceCleaned(o) ==
  /\ CommandAt(o, "clean")
  /\ LET c == command[o].copy
     IN runs' = [runs EXCEPT ![c.key] = IF Fenced(c) THEN [@ EXCEPT !.cleaned = TRUE] ELSE @]
  /\ Finished(o)
  /\ UNCHANGED <<claims, agents, tick, dispatch, watched, forgotten, crashes>>

(* The stop throws, or the process is interrupted further on. *)
Break(o) ==
  /\ \/ CommandAt(o, "stop") /\ "stop" \in Faults
     \/ command[o].pc \in {"finish", "clean"} /\ "quit" \in Faults
  /\ Finished(o)
  /\ UNCHANGED <<runs, claims, agents, tick, dispatch, watched, forgotten, crashes>>

AgentEnds(g) ==
  /\ g \in agents
  /\ agents' = agents \ {g}
  /\ UNCHANGED <<runs, claims, tick, dispatch, watched, command, forgotten, crashes>>

CrashRelay(r) ==
  /\ crashes < MaxCrashes /\ tick[r].phase # "off"
  /\ crashes' = crashes + 1
  /\ tick' = [tick EXCEPT ![r] = [phase |-> "off", left |-> {}]]
  /\ watched' = [watched EXCEPT ![r] = {}]
  /\ forgotten' = forgotten \union
       {dispatch[d].copy.run.gen : d \in {x \in Dispatcher : RelayOf[x] = r /\ DispatchAt(x, "started")}}
  /\ dispatch' = [d \in Dispatcher |-> IF RelayOf[d] = r THEN IdleDispatch ELSE dispatch[d]]
  /\ UNCHANGED <<runs, claims, agents, command>>

-----------------------------------------------------------------------------
DispatchStep(d) ==
  \/ FindSibling(d) \/ ResolveFails(d) \/ Claim(d) \/ ReportClaim(d) \/ Provision(d) \/ StartAgent(d)
  \/ RecordWorker(d) \/ RecordFails(d) \/ StartObserving(d) \/ DispatchFails(d)

TickStep(r) ==
  \/ BeginTick(r) \/ BeginPoll(r)
  \/ \E c \in tick[r].left : ReconcilePersistedRun(r, c)

CommandStep(o) == TakeDown(o) \/ RecordEnd(o) \/ MarkWorkspaceCleaned(o) \/ Break(o)

WorkerNext ==
  \/ \E d \in Dispatcher : DispatchStep(d) \/ \E k \in Key : Consider(d, k)
  \/ \E r \in Relay : TickStep(r) \/ CrashRelay(r) \/ \E c \in watched[r] : ObserveWorker(r, c)
  \/ \E o \in Operator :
       CommandStep(o) \/ \E k \in Key, kind \in {"stop", "clean", "handoff"} : Address(o, k, kind)
  \/ \E g \in agents : AgentEnds(g)

WorkerSpec == WorkerInit /\ [][WorkerNext]_workerVars

(***************************************************************************)
(* A relay keeps polling (the daemon and the supervisor rearm their timer   *)
(* whatever a tick does, and restart after a crash), what a dispatch or an  *)
(* observation awaits comes back.  Nothing is assumed of agents, of         *)
(* commands, or of items that wait to be dispatched.                        *)
(***************************************************************************)
WorkerFairness ==
  /\ \A d \in Dispatcher : WF_workerVars(DispatchStep(d))
  /\ \A r \in Relay : WF_workerVars(TickStep(r))
  /\ \A r \in Relay, k \in Key, g \in Generation :
       WF_workerVars(\E c \in watched[r] : c.key = k /\ c.run.gen = g /\ ~Alive(c) /\ ObserveWorker(r, c))

FairWorkers == WorkerSpec /\ WorkerFairness
-----------------------------------------------------------------------------
(***************************************************************************)
(* PROPERTIES.  They need one relay at a time per repository: a second one  *)
(* reconciles runs the first is still launching, and update then brings     *)
(* back what it ended (see the README).                                     *)
(***************************************************************************)
WorkerTypeOK ==
  /\ runs \in [Key -> RunRecord]
  /\ \A k \in Key : runs[k].status = "none" <=> runs[k].gen = 0
  /\ claims \in 0 .. MaxClaims
  /\ agents \subseteq Generation
  /\ tick \in [Relay -> [phase : {"off", "reconcile", "poll"}, left : SUBSET Copies]]
  /\ dispatch \in [Dispatcher ->
       [ pc : {"idle", "free", "considered", "claimed", "provisioning", "launching", "started",
               "running", "done"},
         copy : Copies ]]
  /\ watched \in [Relay -> SUBSET Copies]
  /\ command \in [Operator -> [ pc : {"idle", "stop", "finish", "clean"},
                                kind : {"stop", "clean", "handoff"}, copy : Copies ]]
  /\ forgotten \subseteq Generation
  /\ crashes \in 0 .. MaxCrashes

(* No trigger ever has more active runs than maxConcurrent, although only   *)
(* the claim counts them: nothing else makes a run active, whatever copies  *)
(* of it are written back.                                                  *)
LimitRespected == \A t \in Trigger : Cardinality(Active(t)) <= MaxConcurrent[t]

(* A run that has ended keeps its ending until the next claim, and a record *)
(* never goes back to an earlier generation: neither update, which is not   *)
(* fenced, nor a late observer, reconciliation or stop undoes it.           *)
EndedForGood ==
  [][\A k \in Key :
       /\ runs'[k].gen >= runs[k].gen
       /\ runs[k].status \in FinalStatus /\ runs'[k].gen = runs[k].gen
            => runs'[k].status = runs[k].status]_workerVars

(* A living agent is one somebody can still stop: a running record names    *)
(* it, its workspace is in place, or its dispatch is about to write it down. *)
(* The exceptions are a relay that died in that instant, a store that failed  *)
(* in it, and an observation that failed and was taken for the end of the      *)
(* worker.                                                                  *)
AgentsOnRecord ==
  \A g \in agents \ forgotten :
    \/ \E d \in Dispatcher : DispatchAt(d, "started") /\ dispatch[d].copy.run.gen = g
    \/ \E k \in Key : /\ runs[k].gen = g /\ runs[k].status = "running"
                      /\ runs[k].worker /\ ~runs[k].cleaned

(* A run without an agent does not hold its item and its place in the limit *)
(* for ever: whoever launched it, observes it, or comes after a crash, ends *)
(* it.                                                                      *)
Stranded(g) == g \notin agents /\ \E k \in Key : runs[k].gen = g /\ IsActive(runs[k])
SlotsAreFreed == \A g \in Generation : Stranded(g) ~> ~Stranded(g)
=============================================================================
