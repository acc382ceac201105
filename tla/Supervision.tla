----------------------------- MODULE Supervision -----------------------------
(***************************************************************************)
(* Who polls a repository folder: src/dashboard/runtime-supervisor.ts, with   *)
(* the start and stop requests of src/dashboard/global-server.ts,            *)
(* and src/daemon.ts.                                                       *)
(*                                                                         *)
(* A dashboard polls from a controller that holds a lease on the folder; the  *)
(* repository daemon is a process of its own, known by a record with its pid. *)
(* Requests are handled between the awaits of one another, any starts and      *)
(* stops of a folder at a time; dashboards and commands are processes beside   *)
(* one another, and all of them may die.                                     *)
(***************************************************************************)
EXTENDS Integers

CONSTANTS
  Dashboard,     (* dashboard processes                                     *)
  Watcher,       (* pids of `relay watch` processes                         *)
  Nobody,        (* no pid, no holder                                       *)
  MaxRequests,   (* bound: requests a dashboard is handling at a time       *)
  MaxFaults      (* bound: dashboards that die, stops that fail             *)

ASSUME SupervisionAssumption ==
  /\ Nobody \notin Dashboard \union Watcher /\ "left" \notin Dashboard
  /\ MaxRequests \in Nat
  /\ MaxFaults \in Nat

VARIABLES
  lease,       (* supervisor.lease.lock: its holder, Nobody, or "left"      *)
  starting,    (* dashboard -> how many start requests are at which await   *)
  controllers, (* dashboard -> its controllers                              *)
  record,      (* daemon.json: the pid, or Nobody                           *)
  watch,       (* `relay watch` process -> what it is doing                 *)
  command,     (* the daemon command being run, one at a time               *)
  faults       (* history                                                   *)

supervisor == <<lease, starting, controllers>>
daemon == <<record, watch>>
supervisionVars == <<supervisor, daemon, command, faults>>

(* The controller in the map, and one that holds the lease although another   *)
(* has taken its place there.  One that was replaced and holds nothing is       *)
(* over, and so are the stop requests that wait for it.                       *)
Role == {"map", "former"}
Await == {"check", "lease"}
NoRequest == [a \in Await |-> 0]
None == [pc |-> "none", stopped |-> TRUE, leased |-> FALSE, state |-> "none", stops |-> 0]
Blocked == [pc |-> "over", stopped |-> TRUE, leased |-> FALSE, state |-> "blocked", stops |-> 0]
Running == [pc |-> "tick", stopped |-> FALSE, leased |-> TRUE, state |-> "running", stops |-> 0]
NoCommand == [name |-> "none", pid |-> Nobody]

SupervisionInit ==
  /\ lease = Nobody
  /\ starting = [d \in Dashboard |-> NoRequest]
  /\ controllers = [d \in Dashboard |-> [r \in Role |-> None]]
  /\ record = Nobody /\ watch = [w \in Watcher |-> "none"]
  /\ command = NoCommand
  /\ faults = 0

Is(d, r, pc) == controllers[d][r].pc = pc
Becomes(d, r, change) == controllers' = [controllers EXCEPT ![d][r] = change]
DaemonRunning == record # Nobody /\ watch[record] # "none"
-----------------------------------------------------------------------------
(***************************************************************************)
(* THE SUPERVISOR OF A DASHBOARD.                                           *)
(***************************************************************************)
Supervised(d) == ~controllers[d]["map"].stopped

Requests(d) ==
  starting[d]["check"] + starting[d]["lease"]
    + controllers[d]["map"].stops + controllers[d]["former"].stops

(* start, up to its first await: a running controller is kept.              *)
RequestStart(d) ==
  /\ ~Supervised(d) /\ Requests(d) < MaxRequests
  /\ starting' = [starting EXCEPT ![d]["check"] = @ + 1]
  /\ UNCHANGED <<lease, controllers, daemon, command, faults>>

(* A controller enters the map in place of another, which may be one that is   *)
(* still polling, or told to stop and not yet over.                          *)
Install(d, controller) ==
  LET replaced == controllers[d]["map"] IN
    controllers' = [controllers EXCEPT ![d] =
      [map |-> controller, former |-> IF replaced.leased THEN replaced ELSE @["former"]]]

(* The answer of `ps` about the daemon.                                     *)
CheckDaemon(d) ==
  /\ starting[d]["check"] > 0
  /\ IF DaemonRunning
     THEN /\ Install(d, Blocked)
          /\ starting' = [starting EXCEPT ![d]["check"] = @ - 1]
     ELSE /\ starting' = [starting EXCEPT ![d] = [check |-> @["check"] - 1, lease |-> @["lease"] + 1]]
          /\ UNCHANGED controllers
  /\ UNCHANGED <<lease, daemon, command, faults>>

LeaseAnswered(d) ==
  starting[d]["lease"] > 0 /\ starting' = [starting EXCEPT ![d]["lease"] = @ - 1]

(* A lease that a dead process left is free once it is stale.                *)
Acquire(d) ==
  /\ LeaseAnswered(d)
  /\ lease \in {Nobody, "left"}
  /\ lease' = d
  /\ Install(d, Running)
  /\ UNCHANGED <<daemon, command, faults>>

Refused(d) ==
  /\ LeaseAnswered(d)
  /\ lease # Nobody
  /\ Install(d, Blocked)
  /\ UNCHANGED <<lease, daemon, command, faults>>

(* Mutant: the next tick is planned although the controller was stopped.     *)
PlannedAnyway(controller, state) == [controller EXCEPT !.pc = "timer", !.state = state]

Planned(controller, state) ==
  [controller EXCEPT !.pc = IF @ = "tick" /\ controller.stopped THEN "over" ELSE "timer", !.state = state]

(* Mutant: a poll that fails is the last one.                               *)
FailedForGood(controller) == [controller EXCEPT !.pc = "over", !.state = "failed"]

(* The error of a poll is ignored once the controller is stopped.            *)
AfterFailure(controller) ==
  IF controller.stopped THEN [controller EXCEPT !.pc = "over"] ELSE Planned(controller, "failed")

TickSucceeds(d, r) ==
  /\ Is(d, r, "tick")
  /\ Becomes(d, r, Planned(controllers[d][r], "running"))
  /\ UNCHANGED <<lease, starting, daemon, command, faults>>

TickFails(d, r) ==
  /\ Is(d, r, "tick")
  /\ Becomes(d, r, AfterFailure(controllers[d][r]))
  /\ UNCHANGED <<lease, starting, daemon, command, faults>>

TimerFires(d, r) ==
  /\ Is(d, r, "timer")
  /\ Becomes(d, r, [controllers[d][r] EXCEPT !.pc = IF controllers[d][r].stopped THEN "over" ELSE "tick"])
  /\ UNCHANGED <<lease, starting, daemon, command, faults>>

(* stop, up to its first await: no further tick is planned.  A second stop     *)
(* takes the controller that is in the map by then.                          *)
RequestStop(d) ==
  /\ ~Is(d, "map", "none") /\ Requests(d) < MaxRequests
  /\ Becomes(d, "map", [controllers[d]["map"] EXCEPT
       !.stopped = TRUE, !.pc = IF @ = "timer" THEN "over" ELSE @, !.stops = @ + 1])
  /\ UNCHANGED <<lease, starting, daemon, command, faults>>

(* Mutant: the stop does not wait for the tick.                             *)
QuietNow(d, r) == TRUE

Quiet(d, r) == ~Is(d, r, "tick")

(* After the tick, the lease is given up.                                   *)
FinishStop(d, r) ==
  /\ controllers[d][r].stops > 0 /\ Quiet(d, r)
  /\ lease' = IF controllers[d][r].leased THEN Nobody ELSE lease
  /\ Becomes(d, r, IF r = "map" THEN [controllers[d][r] EXCEPT
                      !.leased = FALSE, !.state = "stopped", !.stops = @ - 1] ELSE None)
  /\ UNCHANGED <<starting, daemon, command, faults>>

(* stopPolling rejects when the runtime does not close: the request ends, and  *)
(* leaves a controller that is stopped and keeps its lease.                  *)
StopFails(d, r) ==
  /\ controllers[d][r].stops > 0
  /\ faults < MaxFaults /\ faults' = faults + 1
  /\ Becomes(d, r, [controllers[d][r] EXCEPT !.stops = @ - 1])
  /\ UNCHANGED <<lease, starting, daemon, command>>

DashboardDies(d) ==
  /\ faults < MaxFaults /\ faults' = faults + 1
  /\ controllers' = [controllers EXCEPT ![d] = [r \in Role |-> None]]
  /\ starting' = [starting EXCEPT ![d] = NoRequest]
  /\ lease' = IF lease = d THEN "left" ELSE lease
  /\ UNCHANGED <<daemon, command>>
-----------------------------------------------------------------------------
(***************************************************************************)
(* THE DAEMON AND ITS COMMANDS.                                             *)
(***************************************************************************)
Types(name, pid) ==
  command = NoCommand /\ command' = [name |-> name, pid |-> pid]

StartDaemon ==
  /\ ~DaemonRunning
  /\ Types("start", Nobody)
  /\ UNCHANGED <<supervisor, daemon, faults>>

(* The child, and the record that names it.                                 *)
SpawnDaemon ==
  /\ command.name = "start"
  /\ \E w \in Watcher :
       /\ watch[w] = "none"
       /\ watch' = [watch EXCEPT ![w] = "tick"]
       /\ record' = w
  /\ command' = NoCommand
  /\ UNCHANGED <<supervisor, faults>>

(* The pid is read, and `ps` asked about it, before it is killed.            *)
StopDaemon ==
  /\ Types("stop", IF DaemonRunning THEN record ELSE Nobody)
  /\ UNCHANGED <<supervisor, daemon, faults>>

KillDaemon ==
  /\ command.name = "stop"
  /\ watch' = [w \in Watcher |-> IF w = command.pid /\ watch[w] # "none" THEN "ending" ELSE watch[w]]
  /\ record' = Nobody
  /\ command' = NoCommand
  /\ UNCHANGED <<supervisor, faults>>

(* `relay watch` polls without a look at the lease, ends after its tick when  *)
(* it is told to, and at once when a tick throws.                            *)
WatchEnds(w) ==
  /\ watch[w] # "none"
  /\ watch' = [watch EXCEPT ![w] = "none"]
  /\ UNCHANGED <<supervisor, record, command, faults>>
-----------------------------------------------------------------------------
DashboardWorks(d) ==
  \/ CheckDaemon(d) \/ Acquire(d) \/ Refused(d)
  \/ \E r \in Role : FinishStop(d, r) \/ StopFails(d, r) \/ TickSucceeds(d, r) \/ TickFails(d, r) \/ TimerFires(d, r)

Daemon ==
  \/ StartDaemon \/ SpawnDaemon \/ StopDaemon \/ KillDaemon
  \/ \E w \in Watcher : WatchEnds(w)

SupervisionNext ==
  \/ \E d \in Dashboard : RequestStart(d) \/ RequestStop(d) \/ DashboardWorks(d) \/ DashboardDies(d)
  \/ Daemon

SupervisionSpec == SupervisionInit /\ [][SupervisionNext]_supervisionVars

(* A dashboard runs on until it dies: polls end, timers fire and requests are *)
(* answered.                                                                *)
SupervisionFairness ==
  \A d \in Dashboard :
    /\ WF_supervisionVars(CheckDaemon(d)) /\ WF_supervisionVars(Acquire(d) \/ Refused(d))
    /\ \A r \in Role : WF_supervisionVars(FinishStop(d, r))
    /\ \A r \in Role : WF_supervisionVars(TickSucceeds(d, r) \/ TickFails(d, r) \/ TimerFires(d, r))

FairSupervision == SupervisionSpec /\ SupervisionFairness
-----------------------------------------------------------------------------
(***************************************************************************)
(* PROPERTIES.                                                              *)
(***************************************************************************)
(* The controllers that poll now or have planned to.                        *)
Polling(d) == {r \in Role : controllers[d][r].pc \in {"tick", "timer"}}

(* One controller of one dashboard polls the folder, across stops, starts,    *)
(* faults and the leases they leave: the next one does not begin before the  *)
(* last tick of the former is over.                                         *)
OneSupervisor ==
  \A d, e \in Dashboard : \A r \in Polling(d), q \in Polling(e) : d = e /\ r = q

(* A controller whose status is "stopped" polls no more, has planned nothing    *)
(* and has given up its lease: whatever other requests are being handled, and   *)
(* whichever tick, timer or stop it was that ended last.                     *)
StoppedIsOver ==
  \A d \in Dashboard, r \in Role :
    controllers[d][r].state = "stopped" => r \notin Polling(d) /\ ~controllers[d][r].leased

(* A folder that is supervised is polled again and again, whatever a poll     *)
(* comes to, until somebody stops it.                                        *)
PollingGoesOn == \A d \in Dashboard : []<>(Supervised(d) => Is(d, "map", "tick"))
=============================================================================
