-------------------------- MODULE Supervision_proofs --------------------------
(***************************************************************************)
(* Proofs about Supervision, for any dashboards and daemons, any starts and    *)
(* stops at a time and any number of crashes and of stops that fail.         *)
(***************************************************************************)
EXTENDS Supervision, TLAPS

Controller == [pc : {"none", "tick", "timer", "over"}, stopped : BOOLEAN, leased : BOOLEAN,
               state : {"none", "blocked", "running", "failed", "stopped"}, stops : Nat]

ControllersTyped == controllers \in [Dashboard -> [Role -> Controller]]

(* What polls has the lease; the lease is one controller's.                  *)
LeaseIsExclusive ==
  \A d \in Dashboard : \A r \in Role :
    /\ r \in Polling(d) => controllers[d][r].leased
    /\ controllers[d][r].leased =>
         lease = d /\ \A q \in Role : controllers[d][q].leased => q = r

(* What a stop waits for plans no tick, and what is stopped is over.         *)
Obeys(c) ==
  /\ c.stops > 0 => c.stopped /\ c.pc # "timer"
  /\ c.state = "stopped" => c.pc \notin {"tick", "timer"} /\ ~c.leased

StopsAreObeyed == \A d \in Dashboard : \A r \in Role : Obeys(controllers[d][r])

SupervisionInv == ControllersTyped /\ LeaseIsExclusive /\ StopsAreObeyed
-----------------------------------------------------------------------------
LEMMA Constants ==
  /\ None \in Controller /\ None.pc = "none" /\ ~None.leased /\ Obeys(None)
  /\ Blocked \in Controller /\ Blocked.pc = "over" /\ ~Blocked.leased /\ Obeys(Blocked)
  /\ Running \in Controller /\ Running.pc = "tick" /\ Running.leased /\ Obeys(Running)
  /\ "map" \in Role /\ "former" \in Role /\ \A r \in Role : r \in {"map", "former"}
<1>1. None \in Controller /\ None.pc = "none" /\ ~None.leased /\ Obeys(None)
  BY DEF None, Controller, Obeys
<1>2. Blocked \in Controller /\ Blocked.pc = "over" /\ ~Blocked.leased /\ Obeys(Blocked)
  BY DEF Blocked, Controller, Obeys
<1>3. Running \in Controller /\ Running.pc = "tick" /\ Running.leased /\ Obeys(Running)
  BY DEF Running, Controller, Obeys
<1>4. "map" \in Role /\ "former" \in Role /\ \A r \in Role : r \in {"map", "former"}
  BY DEF Role
<1> QED BY <1>1, <1>2, <1>3, <1>4

LEMMA Controllers ==
  ASSUME SupervisionInv, NEW d \in Dashboard, NEW r \in Role
  PROVE  controllers[d][r] \in Controller /\ Obeys(controllers[d][r])
BY DEF SupervisionInv, ControllersTyped, StopsAreObeyed

(* One controller of a dashboard changes.                                   *)
LEMMA Changes ==
  ASSUME SupervisionInv, NEW d \in Dashboard, NEW r \in Role, NEW c \in Controller, Becomes(d, r, c)
  PROVE  /\ ControllersTyped' /\ controllers'[d][r] = c
         /\ \A q \in Role \ {r} : controllers'[d][q] = controllers[d][q]
         /\ \A f \in Dashboard \ {d} : controllers'[f] = controllers[f]
BY DEF SupervisionInv, ControllersTyped, Becomes

(* It obeys, and does not begin to poll or take the lease: the others have     *)
(* nothing to fear.                                                         *)
LEMMA ChangePreserves ==
  ASSUME SupervisionInv, NEW d \in Dashboard, NEW r \in Role, NEW c \in Controller, Becomes(d, r, c), Obeys(c),
         c.leased => controllers[d][r].leased /\ lease' = lease,
         c.pc \in {"tick", "timer"} => c.leased,
         ~controllers[d][r].leased => lease' = lease
  PROVE  SupervisionInv'
<1>1. /\ ControllersTyped' /\ controllers'[d][r] = c
      /\ \A q \in Role \ {r} : controllers'[d][q] = controllers[d][q]
      /\ \A f \in Dashboard \ {d} : controllers'[f] = controllers[f]
  BY Changes
<1>2. LeaseIsExclusive'
  <2>1. CASE lease' = lease
    BY <1>1, <2>1 DEF SupervisionInv, LeaseIsExclusive, Polling
  <2>2. CASE controllers[d][r].leased /\ ~c.leased
    <3>1. lease = d /\ \A q \in Role : controllers[d][q].leased => q = r
      BY <2>2 DEF SupervisionInv, LeaseIsExclusive
    <3>2. \A f \in Dashboard \ {d} : \A q \in Role : ~controllers[f][q].leased
      BY <3>1 DEF SupervisionInv, LeaseIsExclusive
    <3>3. \A f \in Dashboard : \A q \in Role : ~controllers'[f][q].leased
      BY <1>1, <2>2, <3>1, <3>2
    <3>4. \A f \in Dashboard : \A q \in Role : controllers'[f][q].pc \notin {"tick", "timer"}
      BY <1>1, <2>2, <3>1, <3>2 DEF SupervisionInv, LeaseIsExclusive, Polling
    <3> QED BY <3>3, <3>4 DEF LeaseIsExclusive, Polling
  <2> QED BY <2>1, <2>2
<1>3. StopsAreObeyed'
  <2>1. \A f \in Dashboard : \A q \in Role : Obeys(controllers'[f][q])
    BY <1>1 DEF SupervisionInv, StopsAreObeyed
  <2> QED BY <2>1 DEF StopsAreObeyed, Obeys
<1> QED BY <1>1, <1>2, <1>3 DEF SupervisionInv

(* A tick and a timer leave a controller its lease and its stop requests.     *)
Carries(c, e) ==
  e \in Controller /\ e.leased = c.leased /\ Obeys(e)

LEMMA Ticks ==
  ASSUME NEW c \in Controller, Obeys(c), NEW state \in {"running", "failed"}
  PROVE  /\ c.pc = "tick" => Carries(c, Planned(c, state)) /\ Carries(c, AfterFailure(c))
         /\ c.pc = "timer" => Carries(c, [c EXCEPT !.pc = IF c.stopped THEN "over" ELSE "tick"])
BY DEF Controller, Planned, AfterFailure, Carries, Obeys

LEMMA ControllerStepPreserves ==
  ASSUME SupervisionInv, NEW d \in Dashboard, NEW r \in Role,
         TickSucceeds(d, r) \/ TickFails(d, r) \/ TimerFires(d, r)
  PROVE  SupervisionInv'
<1>1. controllers[d][r].pc \in {"tick", "timer"} /\ lease' = lease
  BY DEF TickSucceeds, TickFails, TimerFires, Is
<1>2. controllers[d][r].leased
  BY <1>1 DEF SupervisionInv, LeaseIsExclusive, Polling
<1>3. \E e : Carries(controllers[d][r], e) /\ Becomes(d, r, e)
  <2>0. controllers[d][r] \in Controller /\ Obeys(controllers[d][r])
    BY Controllers
  <2>1. CASE TickSucceeds(d, r)
    <3>1. controllers[d][r].pc = "tick" /\ Becomes(d, r, Planned(controllers[d][r], "running"))
      BY <2>1 DEF TickSucceeds, Is
    <3>2. Carries(controllers[d][r], Planned(controllers[d][r], "running"))
      BY <2>0, <3>1, Ticks
    <3> QED BY <3>1, <3>2
  <2>2. CASE TickFails(d, r)
    <3>1. controllers[d][r].pc = "tick" /\ Becomes(d, r, AfterFailure(controllers[d][r]))
      BY <2>2 DEF TickFails, Is
    <3>2. Carries(controllers[d][r], AfterFailure(controllers[d][r]))
      BY <2>0, <3>1, Ticks
    <3> QED BY <3>1, <3>2
  <2>3. CASE TimerFires(d, r)
    <3> DEFINE e == [controllers[d][r] EXCEPT !.pc = IF controllers[d][r].stopped THEN "over" ELSE "tick"]
    <3>1. controllers[d][r].pc = "timer" /\ Becomes(d, r, e)
      BY <2>3 DEF TimerFires, Is
    <3>2. Carries(controllers[d][r], e)
      BY <2>0, <3>1, Ticks
    <3> HIDE DEF e
    <3> QED BY <3>1, <3>2
  <2> QED BY <2>1, <2>2, <2>3
<1>4. PICK e : Carries(controllers[d][r], e) /\ Becomes(d, r, e)
  BY <1>3
<1> QED BY <1>1, <1>2, <1>4, ChangePreserves DEF Carries

(* A stop leaves a controller stopped; what is over when its stop ends, is over  *)
(* for good.                                                                *)
LEMMA Stops ==
  ASSUME NEW c \in Controller, Obeys(c)
  PROVE  /\ Carries(c, [c EXCEPT !.stopped = TRUE, !.pc = IF @ = "timer" THEN "over" ELSE @, !.stops = @ + 1])
         /\ c.stops > 0 => Carries(c, [c EXCEPT !.stops = @ - 1])
<1> DEFINE c1 == [c EXCEPT !.stopped = TRUE]
           c2 == [c1 EXCEPT !.pc = IF @ = "timer" THEN "over" ELSE @]
           c3 == [c2 EXCEPT !.stops = @ + 1]
<1>1. /\ c1 \in Controller /\ c1.stopped = TRUE /\ c1.pc = c.pc /\ c1.leased = c.leased
      /\ c1.state = c.state /\ c1.stops = c.stops
  BY DEF Controller
<1> HIDE DEF c1
<1>2. /\ c2 \in Controller /\ c2.stopped = TRUE /\ c2.pc = (IF c1.pc = "timer" THEN "over" ELSE c1.pc)
      /\ c2.leased = c1.leased /\ c2.state = c1.state /\ c2.stops = c1.stops
  BY <1>1 DEF Controller
<1> HIDE DEF c2
<1>3. /\ c3 \in Controller /\ c3.stopped = TRUE /\ c3.pc = c2.pc /\ c3.leased = c2.leased /\ c3.state = c2.state
  BY <1>2 DEF Controller
<1> HIDE DEF c3
<1>4. Carries(c, c3)
  BY <1>1, <1>2, <1>3 DEF Carries, Obeys
<1>5. c.stops > 0 => Carries(c, [c EXCEPT !.stops = @ - 1])
  BY DEF Controller, Carries, Obeys
<1> QED BY <1>4, <1>5 DEF c3, c2, c1

LEMMA Ends ==
  ASSUME NEW c \in Controller, Obeys(c), c.stops > 0, c.pc # "tick",
         NEW e, e = [c EXCEPT !.leased = FALSE, !.state = "stopped", !.stops = @ - 1]
  PROVE  e \in Controller /\ Obeys(e) /\ ~e.leased /\ e.pc \notin {"tick", "timer"}
<1> DEFINE c1 == [c EXCEPT !.leased = FALSE]
           c2 == [c1 EXCEPT !.state = "stopped"]
<1>0. c.stopped /\ c.pc \notin {"tick", "timer"} /\ c.stops - 1 \in Nat
  BY DEF Obeys, Controller
<1>1. /\ c1 \in Controller /\ c1.leased = FALSE /\ c1.pc = c.pc /\ c1.stopped = c.stopped /\ c1.stops = c.stops
  BY DEF Controller
<1>2. e = [c2 EXCEPT !.stops = @ - 1]
  OBVIOUS
<1> HIDE DEF c1
<1>3. /\ c2 \in Controller /\ c2.leased = c1.leased /\ c2.pc = c1.pc /\ c2.stopped = c1.stopped
      /\ c2.stops = c1.stops
  BY <1>1 DEF Controller
<1> HIDE DEF c2
<1>4. e \in Controller /\ e.leased = c2.leased /\ e.pc = c2.pc /\ e.stopped = c2.stopped
  BY <1>0, <1>1, <1>2, <1>3 DEF Controller
<1> QED BY <1>0, <1>1, <1>3, <1>4 DEF Obeys

LEMMA RequestStopPreserves ==
  ASSUME SupervisionInv, NEW d \in Dashboard, RequestStop(d)
  PROVE  SupervisionInv'
<1> DEFINE c == [controllers[d]["map"] EXCEPT
                   !.stopped = TRUE, !.pc = IF @ = "timer" THEN "over" ELSE @, !.stops = @ + 1]
<1>0. "map" \in Role
  BY Constants
<1>1. controllers[d]["map"] \in Controller /\ Obeys(controllers[d]["map"])
  BY <1>0, Controllers
<1>2. Carries(controllers[d]["map"], c)
  BY <1>1, Stops
<1>3. c.pc \in {"tick", "timer"} => controllers[d]["map"].pc \in {"tick", "timer"}
  BY <1>1 DEF Controller
<1>4. Becomes(d, "map", c) /\ lease' = lease
  BY DEF RequestStop
<1> HIDE DEF c
<1>5. controllers[d]["map"].pc \in {"tick", "timer"} => controllers[d]["map"].leased
  BY <1>0 DEF SupervisionInv, LeaseIsExclusive, Polling
<1> QED BY <1>0, <1>2, <1>3, <1>4, <1>5, ChangePreserves DEF Carries

LEMMA FinishStopPreserves ==
  ASSUME SupervisionInv, NEW d \in Dashboard, NEW r \in Role, FinishStop(d, r)
  PROVE  SupervisionInv'
<1> DEFINE c == IF r = "map" THEN [controllers[d][r] EXCEPT !.leased = FALSE, !.state = "stopped", !.stops = @ - 1]
                ELSE None
<1>1. controllers[d][r] \in Controller /\ Obeys(controllers[d][r])
  BY Controllers
<1>2. controllers[d][r].stops > 0 /\ controllers[d][r].pc # "tick"
  BY DEF FinishStop, Quiet, Is
<1>3. c \in Controller /\ Obeys(c) /\ ~c.leased /\ c.pc \notin {"tick", "timer"}
  <2>1. CASE r = "map"
    BY <1>1, <1>2, <2>1, Ends
  <2>2. CASE r # "map"
    BY <2>2, Constants
  <2> QED BY <2>1, <2>2
<1>4. Becomes(d, r, c) /\ lease' = IF controllers[d][r].leased THEN Nobody ELSE lease
  BY DEF FinishStop
<1> HIDE DEF c
<1> QED BY <1>3, <1>4, ChangePreserves

LEMMA StopFailsPreserves ==
  ASSUME SupervisionInv, NEW d \in Dashboard, NEW r \in Role, StopFails(d, r)
  PROVE  SupervisionInv'
<1> DEFINE c == [controllers[d][r] EXCEPT !.stops = @ - 1]
<1>1. controllers[d][r] \in Controller /\ Obeys(controllers[d][r])
  BY Controllers
<1>2. controllers[d][r].stops > 0 /\ Becomes(d, r, c) /\ lease' = lease
  BY DEF StopFails
<1>3. c \in Controller /\ Obeys(c) /\ c.leased = controllers[d][r].leased /\ c.pc = controllers[d][r].pc
  BY <1>1, <1>2 DEF Controller, Obeys
<1> HIDE DEF c
<1>4. controllers[d][r].pc \in {"tick", "timer"} => controllers[d][r].leased
  BY DEF SupervisionInv, LeaseIsExclusive, Polling
<1> QED BY <1>2, <1>3, <1>4, ChangePreserves

(* A new entry in the map: what it replaces keeps its lease, if it has one.    *)
LEMMA InstallPreserves ==
  ASSUME SupervisionInv, NEW d \in Dashboard, NEW c \in Controller, Install(d, c),
         \/ c = Blocked /\ lease' = lease
         \/ c = Running /\ lease \in {Nobody, "left"} /\ lease' = d
  PROVE  SupervisionInv'
<1> DEFINE replaced == controllers[d]["map"]
<1>0. /\ controllers'[d]["map"] = c
      /\ controllers'[d]["former"] = IF replaced.leased THEN replaced ELSE controllers[d]["former"]
      /\ \A f \in Dashboard \ {d} : controllers'[f] = controllers[f]
      /\ ControllersTyped'
  BY DEF Install, SupervisionInv, ControllersTyped, Role
<1>1. LeaseIsExclusive'
  <2>1. CASE c = Blocked /\ lease' = lease
    <3>1. \A r \in Role : controllers'[d][r].leased => r = "former" /\ lease = d
      BY <1>0, <2>1, Constants DEF SupervisionInv, LeaseIsExclusive
    <3>2. \A r \in Role : controllers'[d][r].pc \in {"tick", "timer"} => controllers'[d][r].leased
      BY <1>0, <2>1, Constants DEF SupervisionInv, LeaseIsExclusive, Polling
    <3> QED BY <1>0, <2>1, <3>1, <3>2 DEF SupervisionInv, LeaseIsExclusive, Polling
  <2>2. CASE c = Running /\ lease \in {Nobody, "left"} /\ lease' = d
    <3>1. \A e \in Dashboard : \A r \in Role : ~controllers[e][r].leased /\ controllers[e][r].pc \notin {"tick", "timer"}
      BY <2>2, SupervisionAssumption DEF SupervisionInv, LeaseIsExclusive, Polling
    <3>2. controllers'[d]["former"] = controllers[d]["former"]
      BY <1>0, <3>1, Constants
    <3> QED BY <1>0, <2>2, <3>1, <3>2, Constants DEF LeaseIsExclusive, Polling
  <2> QED BY <2>1, <2>2
<1>2. StopsAreObeyed'
  <2>1. \A f \in Dashboard : \A q \in Role : Obeys(controllers'[f][q])
    BY <1>0, Controllers, Constants
  <2> QED BY <2>1 DEF StopsAreObeyed, Obeys
<1> QED BY <1>0, <1>1, <1>2 DEF SupervisionInv

LEMMA DashboardDiesPreserves ==
  ASSUME SupervisionInv, NEW d \in Dashboard, DashboardDies(d)
  PROVE  SupervisionInv'
<1>1. /\ \A r \in Role : controllers'[d][r] = None
      /\ lease' = (IF lease = d THEN "left" ELSE lease)
      /\ \A f \in Dashboard \ {d} : controllers'[f] = controllers[f]
  BY DEF DashboardDies, SupervisionInv, ControllersTyped
<1>2. ControllersTyped'
  BY Constants DEF DashboardDies, SupervisionInv, ControllersTyped
<1>3. LeaseIsExclusive'
  BY <1>1, Constants DEF SupervisionInv, LeaseIsExclusive, Polling
<1>4. StopsAreObeyed'
  <2>1. \A f \in Dashboard : \A q \in Role : Obeys(controllers'[f][q])
    BY <1>1, Controllers, Constants
  <2> QED BY <2>1 DEF StopsAreObeyed, Obeys
<1> QED BY <1>2, <1>3, <1>4 DEF SupervisionInv

LEMMA SupervisionInvPreserved == SupervisionInv /\ [SupervisionNext]_supervisionVars => SupervisionInv'
<1> SUFFICES ASSUME SupervisionInv, [SupervisionNext]_supervisionVars PROVE SupervisionInv'
  OBVIOUS
<1>1. CASE UNCHANGED <<lease, controllers>>
  BY <1>1 DEF SupervisionInv, ControllersTyped, LeaseIsExclusive, StopsAreObeyed, Obeys, Polling
<1>2. CASE Daemon \/ UNCHANGED supervisionVars \/ \E d \in Dashboard : RequestStart(d)
  BY <1>1, <1>2 DEF Daemon, StartDaemon, SpawnDaemon, StopDaemon, KillDaemon, WatchEnds, RequestStart,
                    supervisor, supervisionVars
<1>3. ASSUME NEW d \in Dashboard, CheckDaemon(d) \/ Acquire(d) \/ Refused(d) PROVE SupervisionInv'
  <2>1. CASE CheckDaemon(d)
    <3>1. lease' = lease /\ (Install(d, Blocked) \/ UNCHANGED controllers)
      BY <2>1 DEF CheckDaemon
    <3> QED BY <1>1, <3>1, InstallPreserves, Constants
  <2>2. CASE Acquire(d)
    BY <2>2, InstallPreserves, Constants DEF Acquire
  <2>3. CASE Refused(d)
    BY <2>3, InstallPreserves, Constants DEF Refused
  <2> QED BY <1>3, <2>1, <2>2, <2>3
<1> QED BY <1>2, <1>3, RequestStopPreserves, FinishStopPreserves, StopFailsPreserves, DashboardDiesPreserves,
           ControllerStepPreserves
     DEF SupervisionNext, DashboardWorks

LEMMA SupervisionInitially == SupervisionInit => SupervisionInv
BY Constants DEF SupervisionInit, SupervisionInv, ControllersTyped, LeaseIsExclusive, StopsAreObeyed, Polling

(* One controller polls the folder (OneSupervisor), however many dashboards     *)
(* try and whatever starts and stops overlap.                                *)
THEOREM OneSupervisorAtATime == SupervisionSpec => []OneSupervisor
<1>1. SupervisionInv => OneSupervisor
  BY DEF SupervisionInv, LeaseIsExclusive, OneSupervisor, Polling
<1> QED BY <1>1, SupervisionInitially, SupervisionInvPreserved, PTL DEF SupervisionSpec

(* A controller whose status is "stopped" neither polls nor holds the lease     *)
(* (StoppedIsOver), whatever starts and stops overlap, and whichever fail.     *)
THEOREM StoppedMeansStopped == SupervisionSpec => []StoppedIsOver
<1>1. SupervisionInv => StoppedIsOver
  BY DEF SupervisionInv, StopsAreObeyed, Obeys, StoppedIsOver, Polling
<1> QED BY <1>1, SupervisionInitially, SupervisionInvPreserved, PTL DEF SupervisionSpec
=============================================================================
