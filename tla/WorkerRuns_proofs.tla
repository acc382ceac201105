--------------------------- MODULE WorkerRuns_proofs ---------------------------
(***************************************************************************)
(* Proofs about WorkerRuns, for any items, triggers, limits, dispatchers,     *)
(* operators and failures.  All but the types are for one relay: with a       *)
(* second one they do not hold (see the README).                             *)
(***************************************************************************)
EXTENDS WorkerRuns, FiniteSetTheorems, TLAPS

Tick     == [phase : {"off", "reconcile", "poll"}, left : SUBSET Copies]
Dispatch == [ pc : {"idle", "free", "considered", "claimed", "provisioning", "launching", "started",
                    "running", "done"}, copy : Copies ]
Command  == [pc : {"idle", "stop", "finish", "clean"}, kind : {"stop", "clean", "handoff"}, copy : Copies]

(* A dispatch between the claim and the record of its worker.                *)
Flying(d) == dispatch[d].pc \in {"claimed", "provisioning", "launching", "started"}

TypeInv ==
  /\ WorkerTypeOK
  /\ \A d \in Dispatcher : Flying(d) => dispatch[d].copy.run.gen > 0
-----------------------------------------------------------------------------
(***************************************************************************)
(* TYPE CORRECTNESS.                                                        *)
(***************************************************************************)
LEMMA Shapes ==
  ASSUME WorkerTypeOK
  PROVE  /\ runs \in [Key -> RunRecord] /\ \A k \in Key : runs[k] \in RunRecord /\ CopyOf(k) \in Copies
         /\ tick \in [Relay -> Tick] /\ \A r \in Relay : tick[r] \in Tick
         /\ dispatch \in [Dispatcher -> Dispatch] /\ \A d \in Dispatcher : dispatch[d] \in Dispatch
         /\ watched \in [Relay -> SUBSET Copies] /\ \A r \in Relay : watched[r] \subseteq Copies
         /\ command \in [Operator -> Command] /\ \A o \in Operator : command[o] \in Command
         /\ claims \in Nat /\ MaxClaims \in Nat
<1>1. runs \in [Key -> RunRecord] /\ claims \in Nat /\ MaxClaims \in Nat
  BY WorkerAssumption DEF WorkerTypeOK
<1>2. \A k \in Key : runs[k] \in RunRecord /\ CopyOf(k) \in Copies
  BY <1>1 DEF CopyOf, Copies
<1>3. tick \in [Relay -> Tick] /\ dispatch \in [Dispatcher -> Dispatch] /\ command \in [Operator -> Command]
  BY DEF WorkerTypeOK, Tick, Dispatch, Command
<1>4. watched \in [Relay -> SUBSET Copies]
  BY DEF WorkerTypeOK
<1> QED BY <1>1, <1>2, <1>3, <1>4

LEMMA CopyFields ==
  ASSUME NEW c \in Copies
  PROVE  /\ c.key \in Key /\ c.run \in RunRecord
         /\ c.run.status \in ActiveStatus \union FinalStatus \union {"none"}
         /\ c.run.gen \in 0 .. MaxClaims /\ c.run.worker \in BOOLEAN /\ c.run.cleaned \in BOOLEAN
BY DEF Copies, RunRecord

(* A record is rewritten field by field.                                    *)
LEMMA Restated ==
  ASSUME NEW run \in RunRecord, NEW s \in ActiveStatus \union FinalStatus
  PROVE  LET e == [run EXCEPT !.status = s]
         IN e \in RunRecord /\ e.status = s /\ e.gen = run.gen /\ e.worker = run.worker /\ e.cleaned = run.cleaned
BY DEF RunRecord

LEMMA Ended ==
  ASSUME WorkerTypeOK, NEW c \in Copies, NEW v \in FinalStatus, FinishActive(c, v)
  PROVE  /\ runs' \in [Key -> RunRecord]
         /\ \A k \in Key \ {c.key} : runs'[k] = runs[k]
         /\ \/ runs'[c.key] = runs[c.key]
            \/ /\ runs[c.key].gen = c.run.gen /\ IsActive(runs[c.key])
               /\ runs'[c.key].status = v /\ runs'[c.key].gen = runs[c.key].gen
               /\ runs'[c.key].worker = runs[c.key].worker /\ runs'[c.key].cleaned = runs[c.key].cleaned
<1> DEFINE e == [runs[c.key] EXCEPT !.status = v]
<1>1. c.key \in Key /\ runs[c.key] \in RunRecord /\ runs \in [Key -> RunRecord]
  BY Shapes, CopyFields
<1>2. e \in RunRecord /\ e.status = v /\ e.gen = runs[c.key].gen /\ e.worker = runs[c.key].worker
      /\ e.cleaned = runs[c.key].cleaned
  BY <1>1, Restated
<1>3. runs' = [runs EXCEPT ![c.key] = IF Fenced(c) /\ IsActive(runs[c.key]) THEN e ELSE runs[c.key]]
  BY DEF FinishActive
<1> HIDE DEF e
<1> QED BY <1>1, <1>2, <1>3 DEF Fenced

LEMMA Saved ==
  ASSUME WorkerTypeOK, NEW d \in Dispatcher, NEW pc \in {"done", "provisioning", "launching", "running"},
         NEW s \in ActiveStatus \union FinalStatus, NEW w \in BOOLEAN, Save(d, pc, s, w)
  PROVE  /\ runs' \in [Key -> RunRecord] /\ dispatch' \in [Dispatcher -> Dispatch]
         /\ \A k \in Key \ {dispatch[d].copy.key} : runs'[k] = runs[k]
         /\ dispatch'[d].copy.key = dispatch[d].copy.key
         /\ runs'[dispatch[d].copy.key] = dispatch'[d].copy.run
         /\ dispatch'[d].pc = pc
         /\ dispatch'[d].copy.run.status = s /\ dispatch'[d].copy.run.worker = w
         /\ dispatch'[d].copy.run.gen = dispatch[d].copy.run.gen
         /\ dispatch'[d].copy.run.cleaned = dispatch[d].copy.run.cleaned
         /\ \A e \in Dispatcher \ {d} : dispatch'[e] = dispatch[e]
<1> DEFINE run == dispatch[d].copy.run
           saved == [run EXCEPT !.status = s, !.worker = w]
           c == [dispatch[d].copy EXCEPT !.run.status = s, !.run.worker = w]
<1>1. dispatch[d].copy \in Copies /\ run \in RunRecord
  BY Shapes, CopyFields DEF Dispatch
<1>2. saved.status = s /\ saved.worker = w /\ saved.gen = run.gen /\ saved.cleaned = run.cleaned
  BY <1>1 DEF RunRecord
<1>3. saved \in RunRecord
  BY <1>1 DEF RunRecord
<1>4. c.key = dispatch[d].copy.key /\ c.run = saved /\ c \in Copies
  BY <1>1, <1>3 DEF Copies
<1>5. runs' = [runs EXCEPT ![c.key] = c.run] /\ dispatch' = [dispatch EXCEPT ![d] = [pc |-> pc, copy |-> c]]
  BY DEF Save, Update, Go
<1> HIDE DEF c, saved, run
<1>6. c.key \in Key /\ c.run \in RunRecord
  BY <1>4, CopyFields
<1>7. [pc |-> pc, copy |-> c] \in Dispatch
  BY <1>4 DEF Dispatch
<1> QED BY <1>1, <1>2, <1>4, <1>5, <1>6, <1>7, Shapes DEF run
(* A claim starts a new generation, or is refused.                           *)
LEMMA Claims ==
  ASSUME TypeInv, NEW d \in Dispatcher, Claim(d)
  PROVE  \/ /\ runs' = runs /\ claims' = claims
            /\ dispatch' \in [Dispatcher -> Dispatch] /\ dispatch'[d].pc = "done"
            /\ \A e \in Dispatcher \ {d} : dispatch'[e] = dispatch[e]
         \/ LET k == dispatch[d].copy.key
            IN /\ Admitted(k) /\ claims' = claims + 1 /\ claims' <= MaxClaims
               /\ runs' \in [Key -> RunRecord] /\ dispatch' \in [Dispatcher -> Dispatch]
               /\ \A l \in Key \ {k} : runs'[l] = runs[l]
               /\ \A e \in Dispatcher \ {d} : dispatch'[e] = dispatch[e]
               /\ dispatch'[d].pc = "claimed" /\ dispatch'[d].copy.key = k
               /\ runs'[k] = dispatch'[d].copy.run
               /\ runs'[k].status = "claimed" /\ runs'[k].gen = claims + 1
               /\ ~runs'[k].worker /\ ~runs'[k].cleaned
<1> DEFINE k == dispatch[d].copy.key
           new == [NoRecord EXCEPT !.status = "claimed", !.gen = claims + 1]
           c == [key |-> k, run |-> new]
<1>1. k \in Key /\ claims \in Nat /\ MaxClaims \in Nat /\ claims < MaxClaims
  BY Shapes, CopyFields DEF TypeInv, Dispatch, Claim
<1>2. new.status = "claimed" /\ new.gen = claims + 1 /\ new.worker = FALSE /\ new.cleaned = FALSE
  BY DEF NoRecord
<1>3. new \in RunRecord
  <2>1. NoRecord \in RunRecord
    BY <1>1 DEF NoRecord, RunRecord
  <2>2. claims + 1 \in 0 .. MaxClaims /\ "claimed" \in ActiveStatus
    BY <1>1 DEF ActiveStatus
  <2> QED BY <2>1, <2>2 DEF RunRecord
<1> HIDE DEF new
<1>4. c \in Copies /\ c.key = k /\ c.run = new
  BY <1>1, <1>3 DEF Copies
<1>5. CASE Admitted(k)
  <2>1. runs' = [runs EXCEPT ![c.key] = c.run] /\ dispatch' = [dispatch EXCEPT ![d] = [pc |-> "claimed", copy |-> c]]
        /\ claims' = claims + 1
    BY <1>5 DEF Claim, Update, Go, new
  <2>2. [pc |-> "claimed", copy |-> c] \in Dispatch
    BY <1>4 DEF Dispatch
  <2> HIDE DEF c
  <2> QED BY <1>1, <1>2, <1>3, <1>4, <1>5, <2>1, <2>2, Shapes DEF TypeInv
<1>6. CASE ~Admitted(k)
  <2>1. runs' = runs /\ claims' = claims /\ dispatch' = [dispatch EXCEPT ![d] = [pc |-> "done", copy |-> NoCopy]]
    BY <1>6 DEF Claim, Go
  <2>2. NoCopy \in Copies
    BY <1>1 DEF NoCopy, Copies, Key, NoRecord, RunRecord
  <2>3. [pc |-> "done", copy |-> NoCopy] \in Dispatch
    BY <2>2 DEF Dispatch
  <2> QED BY <2>1, <2>3, Shapes DEF TypeInv
<1> QED BY <1>5, <1>6

(* The records, and the generations of dispatches on their way.             *)
RecordsOK == /\ runs \in [Key -> RunRecord]
             /\ \A k \in Key : runs[k].status = "none" <=> runs[k].gen = 0
FlightsOK == \A d \in Dispatcher : Flying(d) => dispatch[d].copy.run.gen > 0

LEMMA EndTyped ==
  ASSUME WorkerTypeOK, NEW c \in Copies, NEW v \in FinalStatus, FinishActive(c, v)
  PROVE  RecordsOK'
<1>1. \A k \in Key : runs[k].status = "none" <=> runs[k].gen = 0
  BY DEF WorkerTypeOK
<1>2. c.key \in Key /\ \A k \in Key : IsActive(runs[k]) => runs[k].status # "none"
  BY CopyFields DEF IsActive, ActiveStatus
<1>3. v # "none"
  BY DEF FinalStatus
<1> QED BY <1>1, <1>2, <1>3, Ended DEF RecordsOK

LEMMA SaveTyped ==
  ASSUME TypeInv, NEW d \in Dispatcher, NEW pc \in {"done", "provisioning", "launching", "running"},
         NEW s \in ActiveStatus \union FinalStatus, NEW w \in BOOLEAN, Save(d, pc, s, w), Flying(d)
  PROVE  RecordsOK' /\ FlightsOK' /\ dispatch' \in [Dispatcher -> Dispatch]
<1>1. \A k \in Key : runs[k].status = "none" <=> runs[k].gen = 0
  BY DEF TypeInv, WorkerTypeOK
<1>2. dispatch[d].copy.run.gen > 0 /\ s # "none"
  BY DEF TypeInv, ActiveStatus, FinalStatus
<1>3. dispatch[d].copy \in Copies /\ dispatch[d].copy.key \in Key /\ dispatch[d].copy.run.gen \in 0 .. MaxClaims
  BY Shapes, CopyFields DEF TypeInv, Dispatch
<1>4. RecordsOK'
  BY <1>1, <1>2, <1>3, Saved DEF RecordsOK, TypeInv
<1>5. FlightsOK'
  BY <1>2, Saved DEF FlightsOK, Flying, TypeInv
<1> QED BY <1>4, <1>5, Saved DEF TypeInv

(* What stays as it is.                                                     *)
LEMMA Untouched ==
  ASSUME TypeInv
  PROVE  /\ runs' = runs => RecordsOK'
         /\ dispatch' = dispatch => FlightsOK' /\ dispatch' \in [Dispatcher -> Dispatch]
         /\ claims \in 0 .. MaxClaims /\ agents \subseteq Generation /\ forgotten \subseteq Generation
         /\ crashes \in 0 .. MaxCrashes
BY Shapes DEF TypeInv, WorkerTypeOK, RecordsOK, FlightsOK, Flying

(* A dispatch goes elsewhere, and is not on its way there.                   *)
LEMMA WentOn ==
  ASSUME TypeInv, NEW d \in Dispatcher, NEW pc, NEW c \in Copies, Go(d, pc, c),
         [pc |-> pc, copy |-> c] \in Dispatch, [pc |-> pc, copy |-> c].pc \in {"free", "considered", "done"} \/ c.run.gen > 0
  PROVE  FlightsOK' /\ dispatch' \in [Dispatcher -> Dispatch]
<1>1. dispatch' = [dispatch EXCEPT ![d] = [pc |-> pc, copy |-> c]] /\ dispatch \in [Dispatcher -> Dispatch]
  BY Shapes DEF Go, TypeInv
<1> QED BY <1>1 DEF FlightsOK, Flying, TypeInv

LEMMA EmptyCopies ==
  ASSUME TypeInv, NEW k \in Key
  PROVE  NoCopy \in Copies /\ IdleDispatch \in Dispatch /\ IdleCommand \in Command
         /\ [key |-> k, run |-> NoRecord] \in Copies
<1>1. NoRecord \in RunRecord
  BY Shapes DEF NoRecord, RunRecord, TypeInv
<1>2. NoCopy \in Copies /\ [key |-> k, run |-> NoRecord] \in Copies
  BY <1>1 DEF NoCopy, Copies, Key
<1> QED BY <1>2 DEF IdleDispatch, IdleCommand, Dispatch, Command

LEMMA DispatchTyped ==
  ASSUME TypeInv, NEW d \in Dispatcher, DispatchStep(d) \/ \E k \in Key : Consider(d, k)
  PROVE  /\ RecordsOK' /\ FlightsOK' /\ dispatch' \in [Dispatcher -> Dispatch]
         /\ claims' \in 0 .. MaxClaims /\ agents' \subseteq Generation
<1> DEFINE Typed == /\ RecordsOK' /\ FlightsOK' /\ dispatch' \in [Dispatcher -> Dispatch]
                    /\ claims' \in 0 .. MaxClaims /\ agents' \subseteq Generation
<1>0. dispatch[d] \in Dispatch /\ dispatch[d].copy \in Copies /\ dispatch[d].copy.key \in Key
      /\ dispatch[d].copy.run.gen \in 0 .. MaxClaims
  BY Shapes, CopyFields DEF TypeInv, Dispatch
<1>1. ASSUME NEW k \in Key, Consider(d, k) PROVE Typed
  <2> DEFINE c == [key |-> k, run |-> NoRecord]
  <2>1. c \in Copies /\ [pc |-> "free", copy |-> c] \in Dispatch
    BY EmptyCopies DEF Dispatch
  <2>2. Go(d, "free", c) /\ runs' = runs /\ claims' = claims /\ agents' = agents
    BY <1>1 DEF Consider
  <2> HIDE DEF c
  <2> QED BY <2>1, <2>2, WentOn, Untouched
<1>2. CASE ResolveFails(d) \/ StartObserving(d)
  <2>1. NoCopy \in Copies /\ [pc |-> "done", copy |-> NoCopy] \in Dispatch
    BY <1>0, EmptyCopies DEF Dispatch
  <2>2. Go(d, "done", NoCopy) /\ runs' = runs /\ claims' = claims /\ agents' = agents
    BY <1>2 DEF ResolveFails, StartObserving
  <2> QED BY <2>1, <2>2, WentOn, Untouched
<1>6. CASE FindSibling(d)
  <2> DEFINE c == dispatch[d].copy
  <2>1. /\ c \in Copies /\ [pc |-> "considered", copy |-> c] \in Dispatch
        /\ NoCopy \in Copies /\ [pc |-> "done", copy |-> NoCopy] \in Dispatch
    BY <1>0, EmptyCopies DEF Dispatch
  <2>2. /\ Go(d, "considered", c) \/ Go(d, "done", NoCopy)
        /\ runs' = runs /\ claims' = claims /\ agents' = agents
    BY <1>6 DEF FindSibling
  <2> HIDE DEF c
  <2> QED BY <2>1, <2>2, WentOn, Untouched
<1>3. CASE Claim(d)
  <2>1. agents' = agents
    BY <1>3 DEF Claim
  <2>2. CASE runs' = runs /\ claims' = claims /\ dispatch' \in [Dispatcher -> Dispatch] /\ dispatch'[d].pc = "done"
             /\ \A e \in Dispatcher \ {d} : dispatch'[e] = dispatch[e]
    BY <2>1, <2>2, Untouched DEF FlightsOK, Flying, TypeInv
  <2>3. CASE ~(runs' = runs /\ claims' = claims /\ dispatch' \in [Dispatcher -> Dispatch] /\ dispatch'[d].pc = "done"
               /\ \A e \in Dispatcher \ {d} : dispatch'[e] = dispatch[e])
    <3>1. LET k == dispatch[d].copy.key
          IN /\ claims' = claims + 1 /\ claims' <= MaxClaims
             /\ runs' \in [Key -> RunRecord] /\ dispatch' \in [Dispatcher -> Dispatch]
             /\ \A l \in Key \ {k} : runs'[l] = runs[l]
             /\ \A e \in Dispatcher \ {d} : dispatch'[e] = dispatch[e]
             /\ runs'[k] = dispatch'[d].copy.run /\ runs'[k].status = "claimed" /\ runs'[k].gen = claims + 1
      BY <1>3, <2>3, Claims
    <3>2. claims \in Nat /\ MaxClaims \in Nat /\ \A k \in Key : runs[k].status = "none" <=> runs[k].gen = 0
      BY Shapes DEF TypeInv, WorkerTypeOK
    <3>3. RecordsOK'
      BY <1>0, <3>1, <3>2 DEF RecordsOK
    <3>4. FlightsOK'
      BY <1>0, <3>1, <3>2 DEF FlightsOK, Flying, TypeInv
    <3>5. claims' \in 0 .. MaxClaims
      BY <3>1, <3>2
    <3> QED BY <2>1, <3>1, <3>3, <3>4, <3>5, Untouched
  <2> QED BY <2>2, <2>3
<1>4. CASE ReportClaim(d) \/ Provision(d) \/ RecordWorker(d) \/ RecordFails(d) \/ DispatchFails(d)
  <2>1. claims' = claims /\ agents' = agents /\ Flying(d)
    BY <1>4 DEF ReportClaim, Provision, RecordWorker, RecordFails, DispatchFails, GiveUp, DispatchAt, Flying
  <2>2. \E pc \in {"done", "provisioning", "launching", "running"}, s \in ActiveStatus \union FinalStatus, w \in BOOLEAN :
          Save(d, pc, s, w)
    BY <1>4 DEF ReportClaim, Provision, RecordWorker, RecordFails, DispatchFails, GiveUp, ActiveStatus, FinalStatus
  <2> QED BY <2>1, <2>2, SaveTyped, Untouched
<1>5. CASE StartAgent(d)
  <2> DEFINE c == dispatch[d].copy
  <2>1. c.run.gen > 0 /\ c.run.gen \in Generation
    BY <1>0, <1>5 DEF StartAgent, DispatchAt, TypeInv, Flying, Generation
  <2>2. Go(d, "started", c) /\ runs' = runs /\ claims' = claims /\ agents' = agents \union {c.run.gen}
    BY <1>5 DEF StartAgent
  <2>3. [pc |-> "started", copy |-> c] \in Dispatch
    BY <1>0 DEF Dispatch
  <2> HIDE DEF c
  <2>4. c \in Copies
    BY <1>0 DEF c
  <2> QED BY <2>1, <2>2, <2>3, <2>4, WentOn, Untouched
<1> QED BY <1>1, <1>2, <1>3, <1>4, <1>5, <1>6 DEF DispatchStep

(* All the types, in parts.                                                  *)
LEMMA Assembled ==
  ASSUME RecordsOK', FlightsOK', claims' \in 0 .. MaxClaims, agents' \subseteq Generation,
         tick' \in [Relay -> Tick], dispatch' \in [Dispatcher -> Dispatch],
         watched' \in [Relay -> SUBSET Copies], command' \in [Operator -> Command],
         forgotten' \subseteq Generation, crashes' \in 0 .. MaxCrashes
  PROVE  TypeInv'
BY DEF TypeInv, WorkerTypeOK, RecordsOK, FlightsOK, Tick, Dispatch, Command, Flying

LEMMA DispatchKeepsTypes ==
  ASSUME TypeInv, NEW d \in Dispatcher, DispatchStep(d) \/ \E k \in Key : Consider(d, k)
  PROVE  TypeInv'
<1>1. tick' = tick /\ command' = command /\ crashes' = crashes
  BY DEF DispatchStep, Consider, FindSibling, ResolveFails, Claim, ReportClaim, Provision, StartAgent, RecordWorker, RecordFails,
         StartObserving, DispatchFails, GiveUp
<1>4. forgotten' \subseteq Generation
  <2>1. forgotten' = forgotten \/ RecordFails(d)
    BY DEF DispatchStep, Consider, FindSibling, ResolveFails, Claim, ReportClaim, Provision, StartAgent, RecordWorker,
           StartObserving, DispatchFails, GiveUp
  <2>2. CASE RecordFails(d)
    <3>1. dispatch[d].copy.run.gen > 0 /\ dispatch[d].copy.run.gen \in 0 .. MaxClaims
      BY <2>2, Shapes, CopyFields DEF RecordFails, DispatchAt, TypeInv, Flying, Dispatch
    <3>2. dispatch[d].copy.run.gen \in Generation
      BY <3>1, Shapes DEF Generation, TypeInv
    <3> QED BY <2>2, <3>2 DEF RecordFails, TypeInv, WorkerTypeOK
  <2> QED BY <2>1, <2>2 DEF TypeInv, WorkerTypeOK
<1>2. watched' = watched \/ StartObserving(d)
  BY DEF DispatchStep, Consider, FindSibling, ResolveFails, Claim, ReportClaim, Provision, StartAgent, RecordWorker, RecordFails,
         DispatchFails, GiveUp
<1>3. watched' \in [Relay -> SUBSET Copies]
  <2>1. CASE watched' = watched
    BY <2>1, Shapes DEF TypeInv
  <2>2. CASE StartObserving(d)
    <3>1. dispatch[d].copy \in Copies /\ RelayOf[d] \in Relay
      BY Shapes, WorkerAssumption DEF TypeInv, Dispatch
    <3> QED BY <2>2, <3>1, Shapes DEF StartObserving, TypeInv
  <2> QED BY <1>2, <2>1, <2>2
<1> QED BY <1>1, <1>3, <1>4, DispatchTyped, Assembled, Untouched, Shapes DEF TypeInv

LEMMA IdleAgain ==
  ASSUME TypeInv, NEW r \in Relay,
         dispatch' = [d \in Dispatcher |-> IF RelayOf[d] = r THEN IdleDispatch ELSE dispatch[d]]
  PROVE  FlightsOK' /\ dispatch' \in [Dispatcher -> Dispatch]
<1> DEFINE reset(d) == IF RelayOf[d] = r THEN IdleDispatch ELSE dispatch[d]
<1>1. ASSUME NEW d \in Dispatcher PROVE reset(d) \in Dispatch
  <2>1. dispatch[d] \in Dispatch /\ dispatch[d].copy \in Copies
    BY Shapes DEF TypeInv, Dispatch
  <2>2. dispatch[d].copy.key \in Key
    BY <2>1, CopyFields
  <2>3. IdleDispatch \in Dispatch
    BY <2>2, EmptyCopies
  <2> QED BY <2>1, <2>3
<1>2. IdleDispatch.pc = "idle" /\ \A d \in Dispatcher : reset(d) \in {dispatch[d], IdleDispatch}
  BY DEF IdleDispatch
<1>3. dispatch' = [d \in Dispatcher |-> reset(d)]
  OBVIOUS
<1> HIDE DEF reset
<1>4. dispatch' \in [Dispatcher -> Dispatch] /\ \A d \in Dispatcher : dispatch'[d] \in {dispatch[d], IdleDispatch}
  BY <1>1, <1>2, <1>3
<1>5. FlightsOK'
  BY <1>2, <1>4 DEF FlightsOK, Flying, TypeInv
<1> QED BY <1>4, <1>5

(* An ending recorded by an observer or a reconciliation.                    *)
LEMMA EndOnRecordTyped ==
  ASSUME TypeInv, NEW c \in Copies, NEW v \in FinalStatus, EndOnRecord(c, v)
  PROVE  RecordsOK' /\ forgotten' \subseteq Generation
BY EndTyped, Untouched DEF EndOnRecord, TypeInv

LEMMA TickKeepsTypes ==
  ASSUME TypeInv, NEW r \in Relay, TickStep(r) \/ CrashRelay(r) \/ \E c \in watched[r] : ObserveWorker(r, c)
  PROVE  TypeInv'
<1>0. tick \in [Relay -> Tick] /\ tick[r].left \subseteq Copies /\ watched[r] \subseteq Copies
  BY Shapes DEF TypeInv, Tick
<1>a. "succeeded" \in FinalStatus /\ "failed" \in FinalStatus
  BY DEF FinalStatus
<1>1. CASE BeginTick(r)
  <2>1. {CopyOf(k) : k \in {x \in Key : IsActive(runs[x])}} \subseteq Copies
    BY Shapes DEF TypeInv
  <2>2. tick' \in [Relay -> Tick]
    BY <1>0, <1>1, <2>1 DEF BeginTick, Tick
  <2>3. /\ dispatch' = [d \in Dispatcher |-> IF RelayOf[d] = r THEN IdleDispatch ELSE dispatch[d]]
        /\ runs' = runs /\ claims' = claims /\ agents' = agents /\ watched' = watched /\ command' = command
        /\ forgotten' = forgotten /\ crashes' = crashes
    BY <1>1 DEF BeginTick
  <2> QED BY <2>2, <2>3, IdleAgain, Assembled, Untouched, Shapes DEF TypeInv
<1>2. CASE BeginPoll(r)
  <2>1. tick' \in [Relay -> Tick]
    BY <1>0, <1>2 DEF BeginPoll, Tick
  <2>2. /\ dispatch' = dispatch
        /\ runs' = runs /\ claims' = claims /\ agents' = agents /\ watched' = watched /\ command' = command
        /\ forgotten' = forgotten /\ crashes' = crashes
    BY <1>2 DEF BeginPoll
  <2> QED BY <2>1, <2>2, Assembled, Untouched, Shapes DEF TypeInv
<1>3. ASSUME NEW c \in tick[r].left, ReconcilePersistedRun(r, c) PROVE TypeInv'
  <2>1. tick' \in [Relay -> Tick]
    BY <1>0, <1>3 DEF ReconcilePersistedRun, Tick
  <2>2. RecordsOK' /\ forgotten' \subseteq Generation
    <3>1. CASE runs' = runs /\ forgotten' = forgotten
      BY <3>1, Untouched
    <3>2. CASE \E v \in Verdicts(c) : v # "none" /\ EndOnRecord(c, v)
      <4>1. \A v \in Verdicts(c) : v # "none" => v \in FinalStatus
        BY <1>a DEF Verdicts
      <4> QED BY <1>0, <3>2, <4>1, EndOnRecordTyped
    <3> QED BY <1>3, <3>1, <3>2 DEF ReconcilePersistedRun
  <2>3. /\ dispatch' = dispatch /\ claims' = claims /\ agents' = agents /\ watched' = watched /\ command' = command
        /\ crashes' = crashes
    BY <1>3 DEF ReconcilePersistedRun
  <2> QED BY <2>1, <2>2, <2>3, Assembled, Untouched, Shapes DEF TypeInv
<1>4. ASSUME NEW c \in watched[r], ObserveWorker(r, c) PROVE TypeInv'
  <2>1. RecordsOK' /\ forgotten' \subseteq Generation
    BY <1>0, <1>a, <1>4, EndOnRecordTyped DEF ObserveWorker
  <2>2. watched' \in [Relay -> SUBSET Copies]
    BY <1>4, Shapes DEF ObserveWorker, TypeInv
  <2>3. /\ dispatch' = dispatch /\ claims' = claims /\ agents' = agents /\ tick' = tick /\ command' = command
        /\ crashes' = crashes
    BY <1>4 DEF ObserveWorker
  <2> QED BY <2>1, <2>2, <2>3, Assembled, Untouched, Shapes DEF TypeInv
<1>5. CASE CrashRelay(r)
  <2>1. tick' \in [Relay -> Tick]
    BY <1>0, <1>5 DEF CrashRelay, Tick
  <2>2. watched' \in [Relay -> SUBSET Copies]
    BY <1>5, Shapes DEF CrashRelay, TypeInv
  <2>3. forgotten' \subseteq Generation
    <3>1. \A d \in Dispatcher : DispatchAt(d, "started") => dispatch[d].copy.run.gen \in Generation
      <4> SUFFICES ASSUME NEW d \in Dispatcher, DispatchAt(d, "started")
                   PROVE  dispatch[d].copy.run.gen \in Generation
        OBVIOUS
      <4>1. dispatch[d].copy \in Copies
        BY Shapes DEF TypeInv, Dispatch
      <4>2. dispatch[d].copy.run.gen \in 0 .. MaxClaims /\ dispatch[d].copy.run.gen > 0
        BY <4>1, CopyFields DEF DispatchAt, Flying, TypeInv
      <4> QED BY <4>2 DEF Generation
    <3> QED BY <1>5, <3>1, Untouched DEF CrashRelay
  <2>4. /\ dispatch' = [d \in Dispatcher |-> IF RelayOf[d] = r THEN IdleDispatch ELSE dispatch[d]]
        /\ runs' = runs /\ claims' = claims /\ agents' = agents /\ command' = command
    BY <1>5 DEF CrashRelay
  <2>5. crashes' \in 0 .. MaxCrashes
    BY <1>5, WorkerAssumption, Untouched DEF CrashRelay
  <2> QED BY <2>1, <2>2, <2>3, <2>4, <2>5, IdleAgain, Assembled, Untouched, Shapes DEF TypeInv
<1> QED BY <1>1, <1>2, <1>3, <1>4, <1>5 DEF TickStep

LEMMA CommandKeepsTypes ==
  ASSUME TypeInv, NEW o \in Operator,
         CommandStep(o) \/ \E k \in Key, kind \in {"stop", "clean", "handoff"} : Address(o, k, kind)
  PROVE  TypeInv'
<1>0. command \in [Operator -> Command] /\ command[o].copy \in Copies /\ command[o].copy.key \in Key
  BY Shapes, CopyFields DEF TypeInv, Command
<1>a. IdleCommand \in Command
  BY <1>0, EmptyCopies
<1>b. ASSUME Finished(o) \/ Proceed(o, "clean") \/ Proceed(o, "finish") PROVE command' \in [Operator -> Command]
  <2>1. CASE Finished(o)
    BY <1>0, <1>a, <2>1 DEF Finished
  <2>2. CASE Proceed(o, "clean") \/ Proceed(o, "finish")
    BY <1>0, <2>2 DEF Proceed, Command
  <2> QED BY <1>b, <2>1, <2>2
<1>c. dispatch' = dispatch /\ claims' = claims /\ watched' = watched /\ tick' = tick
      /\ forgotten' = forgotten /\ crashes' = crashes
  BY DEF CommandStep, TakeDown, RecordEnd, MarkWorkspaceCleaned, Break, Address
<1>1. ASSUME NEW k \in Key, NEW kind \in {"stop", "clean", "handoff"}, Address(o, k, kind) PROVE TypeInv'
  <2>1. CopyOf(k) \in Copies
    BY Shapes DEF TypeInv
  <2>2. command' \in [Operator -> Command]
    BY <1>0, <1>1, <2>1 DEF Address, Command
  <2>3. runs' = runs /\ agents' = agents
    BY <1>1 DEF Address
  <2> QED BY <1>c, <2>2, <2>3, Assembled, Untouched, Shapes DEF TypeInv
<1>2. CASE TakeDown(o)
  <2>1. runs' = runs /\ agents' \subseteq agents /\ Proceed(o, "finish")
    BY <1>2 DEF TakeDown
  <2> QED BY <1>b, <1>c, <2>1, Assembled, Untouched, Shapes DEF TypeInv
<1>3. CASE RecordEnd(o)
  <2>1. agents' = agents /\ (Finished(o) \/ Proceed(o, "clean"))
    BY <1>3 DEF RecordEnd
  <2>2. \E v \in FinalStatus : FinishActive(command[o].copy, v)
    BY <1>3 DEF RecordEnd, FinalStatus
  <2>3. RecordsOK'
    BY <1>0, <2>2, EndTyped DEF TypeInv
  <2> QED BY <1>b, <1>c, <2>1, <2>3, Assembled, Untouched, Shapes DEF TypeInv
<1>4. CASE MarkWorkspaceCleaned(o)
  <2> DEFINE k == command[o].copy.key
             cleaned == [runs[k] EXCEPT !.cleaned = TRUE]
  <2>1. runs' = [runs EXCEPT ![k] = IF Fenced(command[o].copy) THEN cleaned ELSE runs[k]]
    BY <1>4 DEF MarkWorkspaceCleaned
  <2>2. runs \in [Key -> RunRecord] /\ k \in Key /\ runs[k] \in RunRecord
    BY <1>0, Shapes DEF TypeInv
  <2>3. cleaned \in RunRecord /\ cleaned.status = runs[k].status /\ cleaned.gen = runs[k].gen
    BY <2>2 DEF RunRecord
  <2>4. RecordsOK'
    <3> HIDE DEF cleaned
    <3>1. \A l \in Key : runs[l].status = "none" <=> runs[l].gen = 0
      BY DEF TypeInv, WorkerTypeOK
    <3> QED BY <2>1, <2>2, <2>3, <3>1 DEF RecordsOK
  <2>5. agents' = agents /\ Finished(o)
    BY <1>4 DEF MarkWorkspaceCleaned
  <2> QED BY <1>b, <1>c, <2>4, <2>5, Assembled, Untouched, Shapes DEF TypeInv
<1>5. CASE Break(o)
  <2>1. runs' = runs /\ agents' = agents /\ Finished(o)
    BY <1>5 DEF Break
  <2> QED BY <1>b, <1>c, <2>1, Assembled, Untouched, Shapes DEF TypeInv
<1> QED BY <1>1, <1>2, <1>3, <1>4, <1>5 DEF CommandStep

LEMMA InitTyped == WorkerInit => TypeInv
<1> SUFFICES ASSUME WorkerInit PROVE TypeInv
  OBVIOUS
<1>1. MaxClaims \in Nat /\ MaxCrashes \in Nat /\ NoRecord \in RunRecord
  BY WorkerAssumption DEF NoRecord, RunRecord
<1>2. NoCopy \in Copies
  BY <1>1, WorkerAssumption DEF NoCopy, Copies, Key
<1>3. IdleDispatch \in Dispatch /\ IdleCommand \in Command
  BY <1>2 DEF IdleDispatch, IdleCommand, Dispatch, Command
<1>4. runs \in [Key -> RunRecord] /\ \A k \in Key : runs[k].status = "none" <=> runs[k].gen = 0
  BY <1>1 DEF WorkerInit, NoRecord
<1>5. dispatch \in [Dispatcher -> Dispatch] /\ \A d \in Dispatcher : ~Flying(d)
  <2> HIDE DEF IdleDispatch
  <2>1. IdleDispatch.pc = "idle"
    BY DEF IdleDispatch
  <2> QED BY <1>3, <2>1 DEF WorkerInit, Flying
<1>6. command \in [Operator -> Command] /\ tick \in [Relay -> Tick] /\ watched \in [Relay -> SUBSET Copies]
  BY <1>3 DEF WorkerInit, Tick
<1>7. claims \in 0 .. MaxClaims /\ agents \subseteq Generation /\ forgotten \subseteq Generation
      /\ crashes \in 0 .. MaxCrashes
  BY <1>1 DEF WorkerInit
<1> QED BY <1>4, <1>5, <1>6, <1>7 DEF TypeInv, WorkerTypeOK, Tick, Dispatch, Command

LEMMA StillTyped ==
  ASSUME TypeInv, UNCHANGED workerVars
  PROVE  TypeInv'
<1>1. /\ runs' = runs /\ claims' = claims /\ agents' = agents /\ tick' = tick /\ dispatch' = dispatch
      /\ watched' = watched /\ command' = command /\ forgotten' = forgotten /\ crashes' = crashes
  BY DEF workerVars
<1> QED BY <1>1, Assembled, Untouched, Shapes DEF TypeInv

LEMMA EndsTyped ==
  ASSUME TypeInv, NEW g, AgentEnds(g)
  PROVE  TypeInv'
<1>1. /\ runs' = runs /\ claims' = claims /\ agents' \subseteq agents /\ tick' = tick /\ dispatch' = dispatch
      /\ watched' = watched /\ command' = command /\ forgotten' = forgotten /\ crashes' = crashes
  BY DEF AgentEnds
<1> QED BY <1>1, Assembled, Untouched, Shapes DEF TypeInv

LEMMA StepTyped == TypeInv /\ [WorkerNext]_workerVars => TypeInv'
BY DispatchKeepsTypes, TickKeepsTypes, CommandKeepsTypes, EndsTyped, StillTyped DEF WorkerNext

(* Every record, copy and counter stays within its type, whatever a dispatch *)
(* writes back; and a record has a generation exactly when it was claimed.   *)
THEOREM WorkerTypeCorrect == WorkerSpec => []WorkerTypeOK
<1>1. TypeInv => WorkerTypeOK
  BY DEF TypeInv
<1> QED BY <1>1, InitTyped, StepTyped, PTL DEF WorkerSpec
-----------------------------------------------------------------------------
(***************************************************************************)
(* ONE RELAY.  The guarantees rest on the order of its tick: while a         *)
(* dispatch is on its way nothing else writes the run it claimed, because    *)
(* whatever others hold names a run that already had its worker.            *)
(***************************************************************************)
(* The record a dispatch on its way rests on is the copy it holds.           *)
FlightInv ==
  \A d \in Dispatcher : Flying(d) =>
    LET c == dispatch[d].copy
    IN /\ runs[c.key] = c.run
       /\ IsActive(c.run) /\ ~c.run.worker /\ ~c.run.cleaned
       /\ \A e \in Dispatcher : Flying(e) /\ dispatch[e].copy.key = c.key => e = d

(* A generation belongs to one key, and only a generation has a worker.      *)
GenInv ==
  /\ \A k \in Key : runs[k].gen <= claims /\ (runs[k].worker => runs[k].gen > 0)
  /\ \A k, l \in Key : runs[k].gen = runs[l].gen /\ runs[k].gen > 0 => k = l

(* What an observer, an operator or a dispatch that is through holds names a *)
(* run that has had its worker, or one that was claimed again since.         *)
Named(c) ==
  /\ c.run.gen \in 1 .. claims
  /\ \A k \in Key : runs[k].gen = c.run.gen => k = c.key /\ runs[k].worker

NamedInv ==
  /\ \A d \in Dispatcher : DispatchAt(d, "running") => Named(dispatch[d].copy)
  /\ \A r \in Relay : \A c \in watched[r] : Named(c)
  /\ \A o \in Operator : ~CommandAt(o, "idle") => Named(command[o].copy)

(* Nothing is dispatched while what is on record is reconciled.              *)
QuietInv ==
  \A r \in Relay, d \in Dispatcher :
    tick[r].phase # "poll" => dispatch[d].pc \in {"idle", "done"}

(* Past its stop, a command has no agent left that is on record.             *)
GoneInv ==
  \A o \in Operator : command[o].pc \in {"finish", "clean"} =>
    command[o].copy.run.gen \notin agents \ forgotten

LimitInv == \A t \in Trigger : IsFiniteSet(Active(t)) /\ Cardinality(Active(t)) <= MaxConcurrent[t]

RelayInv == TypeInv /\ FlightInv /\ GenInv /\ NamedInv /\ QuietInv /\ GoneInv /\ LimitInv /\ AgentsOnRecord

(* A record keeps its generation and its worker, and does not come alive.    *)
Kept(k) ==
  /\ runs'[k].gen = runs[k].gen /\ runs'[k].worker = runs[k].worker
  /\ IsActive(runs'[k]) => IsActive(runs[k])

(* Whatever named a run, names it still.                                    *)
NamedAfter(c) ==
  /\ c.run.gen \in 1 .. claims'
  /\ \A k \in Key : runs'[k].gen = c.run.gen => k = c.key /\ runs'[k].worker

LEMMA RelayShapes ==
  ASSUME TypeInv
  PROVE  /\ \A k \in Key : runs[k].gen \in 0 .. MaxClaims /\ runs[k].worker \in BOOLEAN
         /\ \A d \in Dispatcher : dispatch[d].copy \in Copies /\ dispatch[d].copy.key \in Key
         /\ \A r \in Relay : watched[r] \subseteq Copies /\ tick[r].left \subseteq Copies
         /\ \A o \in Operator : command[o].copy \in Copies /\ command[o].copy.key \in Key
         /\ claims \in Nat /\ MaxClaims \in Nat
<1>1. \A k \in Key : runs[k].gen \in 0 .. MaxClaims /\ runs[k].worker \in BOOLEAN
  BY Shapes DEF TypeInv, RunRecord
<1>2. \A d \in Dispatcher : dispatch[d].copy \in Copies
  BY Shapes DEF TypeInv, Dispatch
<1>3. \A r \in Relay : watched[r] \subseteq Copies /\ tick[r].left \subseteq Copies
  BY Shapes DEF TypeInv, Tick
<1>4. \A o \in Operator : command[o].copy \in Copies
  BY Shapes DEF TypeInv, Command
<1> QED BY <1>1, <1>2, <1>3, <1>4, CopyFields, Shapes DEF TypeInv

(* A set of active runs that only shrinks stays within its limit.            *)
LEMMA LimitKept ==
  ASSUME LimitInv, WorkerTypeOK, \A k \in Key : IsActive(runs'[k]) => IsActive(runs[k])
  PROVE  LimitInv'
<1> SUFFICES ASSUME NEW t \in Trigger
             PROVE  IsFiniteSet(Active(t)') /\ Cardinality(Active(t)') <= MaxConcurrent[t]
  BY DEF LimitInv
<1>1. Active(t)' \subseteq Active(t)
  BY DEF Active
<1>2. IsFiniteSet(Active(t)) /\ Cardinality(Active(t)) <= MaxConcurrent[t]
  BY DEF LimitInv
<1>3. IsFiniteSet(Active(t)') /\ Cardinality(Active(t)') <= Cardinality(Active(t))
  BY <1>1, <1>2, FS_Subset
<1>4. Cardinality(Active(t)') \in Nat /\ Cardinality(Active(t)) \in Nat /\ MaxConcurrent[t] \in Nat
  BY <1>2, <1>3, FS_CardinalityType, WorkerAssumption
<1> QED BY <1>2, <1>3, <1>4

LEMMA RecordsKept ==
  ASSUME TypeInv, GenInv, LimitInv, claims' = claims, \A k \in Key : Kept(k)
  PROVE  GenInv' /\ LimitInv' /\ \A c \in Copies : Named(c) => NamedAfter(c)
<1>1. GenInv'
  BY DEF GenInv, Kept
<1>2. LimitInv'
  BY LimitKept DEF TypeInv, Kept
<1>3. \A c \in Copies : Named(c) => NamedAfter(c)
  BY DEF Named, NamedAfter, Kept
<1> QED BY <1>1, <1>2, <1>3

(* Copies that are the same, or among those that were held before.           *)
LEMMA NamesKept ==
  ASSUME TypeInv, NamedInv, \A c \in Copies : Named(c) => NamedAfter(c),
         \A d \in Dispatcher : dispatch'[d].pc = "running" => dispatch'[d].copy = dispatch[d].copy /\ DispatchAt(d, "running"),
         \A r \in Relay : watched'[r] \subseteq watched[r],
         \A o \in Operator : command'[o].pc # "idle" => command'[o].copy = command[o].copy /\ ~CommandAt(o, "idle")
  PROVE  NamedInv'
BY RelayShapes DEF NamedInv, Named, NamedAfter, DispatchAt, CommandAt

(* The agents that are left on record are where they were.                  *)
LEMMA AgentsKept ==
  ASSUME AgentsOnRecord, agents' \ forgotten' \subseteq agents \ forgotten,
         \A d \in Dispatcher : DispatchAt(d, "started") /\ dispatch[d].copy.run.gen \in agents' \ forgotten'
                                 => dispatch'[d] = dispatch[d],
         \A k \in Key : runs[k].gen \in agents' \ forgotten' /\ runs[k].worker => runs'[k] = runs[k]
  PROVE  AgentsOnRecord'
<1> SUFFICES ASSUME NEW g \in agents' \ forgotten'
             PROVE  \/ \E d \in Dispatcher : dispatch'[d].pc = "started" /\ dispatch'[d].copy.run.gen = g
                    \/ \E k \in Key : /\ runs'[k].gen = g /\ runs'[k].status = "running"
                                      /\ runs'[k].worker /\ ~runs'[k].cleaned
  BY DEF AgentsOnRecord, DispatchAt
<1>1. CASE \E d \in Dispatcher : DispatchAt(d, "started") /\ dispatch[d].copy.run.gen = g
  BY <1>1 DEF DispatchAt
<1>2. CASE \E k \in Key : /\ runs[k].gen = g /\ runs[k].status = "running"
                          /\ runs[k].worker /\ ~runs[k].cleaned
  BY <1>2
<1> QED BY <1>1, <1>2 DEF AgentsOnRecord

LEMMA FlightsKept ==
  ASSUME FlightInv, dispatch' = dispatch,
         \A d \in Dispatcher : Flying(d) => runs'[dispatch[d].copy.key] = runs[dispatch[d].copy.key]
  PROVE  FlightInv'
BY DEF FlightInv, Flying

(* An ending touches no run that is being launched, if whoever records it   *)
(* names its run or no run is being launched.                              *)
LEMMA EndingKeeps ==
  ASSUME TypeInv, FlightInv, NEW c \in Copies, NEW v \in FinalStatus, FinishActive(c, v),
         Named(c) \/ \A d \in Dispatcher : ~Flying(d)
  PROVE  /\ \A k \in Key : Kept(k)
         /\ \A d \in Dispatcher : Flying(d) => runs'[dispatch[d].copy.key] = runs[dispatch[d].copy.key]
         /\ \A k \in Key : runs'[k] = runs[k] \/ runs[k].gen = c.run.gen
<1>1. c.key \in Key /\ ~(v \in ActiveStatus)
  BY CopyFields DEF FinalStatus, ActiveStatus
<1>2. /\ \A k \in Key \ {c.key} : runs'[k] = runs[k]
      /\ \/ runs'[c.key] = runs[c.key]
         \/ /\ runs[c.key].gen = c.run.gen /\ IsActive(runs[c.key])
            /\ runs'[c.key].status = v /\ runs'[c.key].gen = runs[c.key].gen
            /\ runs'[c.key].worker = runs[c.key].worker
  BY Ended DEF TypeInv
<1>3. \A k \in Key : Kept(k)
  BY <1>1, <1>2 DEF Kept, IsActive
<1>4. \A d \in Dispatcher : Flying(d) => runs'[dispatch[d].copy.key] = runs[dispatch[d].copy.key]
  <2> SUFFICES ASSUME NEW d \in Dispatcher, Flying(d), dispatch[d].copy.key = c.key, Named(c),
                      runs'[c.key] # runs[c.key]
               PROVE  FALSE
    BY <1>2, RelayShapes
  <2>1. ~runs[c.key].worker
    BY DEF FlightInv
  <2>2. runs[c.key].worker
    BY <1>1, <1>2 DEF Named
  <2> QED BY <2>1, <2>2
<1> QED BY <1>2, <1>3, <1>4

LEMMA EndOnRecordKeeps ==
  ASSUME RelayInv, NEW c \in Copies, NEW v \in FinalStatus, EndOnRecord(c, v),
         Named(c) \/ \A d \in Dispatcher : ~Flying(d),
         claims' = claims, agents' = agents, dispatch' = dispatch
  PROVE  /\ FlightInv' /\ GenInv' /\ LimitInv' /\ AgentsOnRecord'
         /\ \A x \in Copies : Named(x) => NamedAfter(x)
         /\ agents' \ forgotten' \subseteq agents \ forgotten
<1>1. FinishActive(c, v) /\ forgotten' = forgotten \union ({c.run.gen} \intersect agents)
  BY DEF EndOnRecord
<1>2. /\ \A k \in Key : Kept(k)
      /\ \A d \in Dispatcher : Flying(d) => runs'[dispatch[d].copy.key] = runs[dispatch[d].copy.key]
      /\ \A k \in Key : runs'[k] = runs[k] \/ runs[k].gen = c.run.gen
  BY <1>1, EndingKeeps DEF RelayInv
<1>3. agents' \ forgotten' \subseteq agents \ forgotten /\ c.run.gen \notin agents' \ forgotten'
  BY <1>1
<1>4. AgentsOnRecord'
  BY <1>2, <1>3, AgentsKept DEF RelayInv
<1> QED BY <1>2, <1>3, <1>4, FlightsKept, RecordsKept DEF RelayInv

(* Nothing of what is on record changes.                                    *)
LEMMA RecordsAlone ==
  ASSUME RelayInv, runs' = runs, claims' = claims
  PROVE  GenInv' /\ LimitInv' /\ \A c \in Copies : Named(c) => NamedAfter(c)
<1>1. \A k \in Key : Kept(k)
  BY DEF Kept
<1> QED BY <1>1, RecordsKept DEF RelayInv

LEMMA TickKeeps ==
  ASSUME RelayInv, \A r, s \in Relay : r = s, NEW r \in Relay, TickStep(r)
  PROVE  FlightInv' /\ GenInv' /\ NamedInv' /\ QuietInv' /\ GoneInv' /\ LimitInv' /\ AgentsOnRecord'
<1> DEFINE Goal == FlightInv' /\ GenInv' /\ NamedInv' /\ QuietInv' /\ GoneInv' /\ LimitInv' /\ AgentsOnRecord'
<1>0. tick \in [Relay -> Tick] /\ \A d \in Dispatcher : RelayOf[d] = r
  BY Shapes, WorkerAssumption DEF RelayInv, TypeInv
<1>1. CASE BeginTick(r)
  <2>1. /\ runs' = runs /\ claims' = claims /\ agents' = agents /\ watched' = watched /\ command' = command
        /\ forgotten' = forgotten
    BY <1>1 DEF BeginTick
  <2>2. \A d \in Dispatcher : dispatch[d].pc \in {"idle", "done"} /\ dispatch'[d] = IdleDispatch
    BY <1>0, <1>1 DEF BeginTick
  <2>3. \A d \in Dispatcher : dispatch'[d].pc = "idle"
    BY <2>2 DEF IdleDispatch
  <2>4. GenInv' /\ LimitInv' /\ \A c \in Copies : Named(c) => NamedAfter(c)
    BY <2>1, RecordsAlone
  <2>5. FlightInv' /\ QuietInv'
    BY <2>3 DEF FlightInv, Flying, QuietInv
  <2>6. NamedInv'
    BY <2>1, <2>3, <2>4, NamesKept DEF RelayInv, NamedInv, NamedAfter, CommandAt
  <2>7. GoneInv'
    BY <2>1 DEF RelayInv, GoneInv
  <2>8. AgentsOnRecord'
    BY <2>1, <2>2, AgentsKept DEF RelayInv, DispatchAt
  <2> QED BY <2>4, <2>5, <2>6, <2>7, <2>8
<1>2. CASE BeginPoll(r)
  <2>1. /\ runs' = runs /\ claims' = claims /\ agents' = agents /\ watched' = watched /\ command' = command
        /\ forgotten' = forgotten /\ dispatch' = dispatch
    BY <1>2 DEF BeginPoll
  <2>2. GenInv' /\ LimitInv' /\ \A c \in Copies : Named(c) => NamedAfter(c)
    BY <2>1, RecordsAlone
  <2>3. FlightInv' /\ GoneInv' /\ AgentsOnRecord' /\ NamedInv'
    BY <2>1, <2>2, NamesKept, FlightsKept, AgentsKept DEF RelayInv, GoneInv, DispatchAt, CommandAt
  <2>4. \A s \in Relay : tick'[s].phase = "poll"
    BY <1>0, <1>2 DEF BeginPoll, Tick
  <2>5. QuietInv'
    BY <2>4 DEF QuietInv
  <2> QED BY <2>2, <2>3, <2>5
<1>3. ASSUME NEW c \in tick[r].left, ReconcilePersistedRun(r, c) PROVE Goal
  <2>1. /\ claims' = claims /\ agents' = agents /\ watched' = watched /\ command' = command
        /\ dispatch' = dispatch /\ tick[r].phase = "reconcile"
    BY <1>3 DEF ReconcilePersistedRun
  <2>2. \A d \in Dispatcher : ~Flying(d)
    BY <2>1 DEF RelayInv, QuietInv, Flying
  <2>3. c \in Copies
    BY RelayShapes DEF RelayInv
  <2>4. /\ FlightInv' /\ GenInv' /\ LimitInv' /\ AgentsOnRecord'
        /\ \A x \in Copies : Named(x) => NamedAfter(x)
        /\ agents' \ forgotten' \subseteq agents \ forgotten
    <3>1. CASE runs' = runs /\ forgotten' = forgotten
      BY <2>1, <3>1, RecordsAlone, FlightsKept, AgentsKept DEF RelayInv
    <3>2. CASE \E v \in Verdicts(c) : v # "none" /\ EndOnRecord(c, v)
      <4>1. \A v \in Verdicts(c) : v # "none" => v \in FinalStatus
        BY DEF Verdicts, FinalStatus
      <4> QED BY <2>1, <2>2, <2>3, <3>2, <4>1, EndOnRecordKeeps
    <3> QED BY <1>3, <3>1, <3>2 DEF ReconcilePersistedRun
  <2>5. NamedInv' /\ GoneInv'
    BY <2>1, <2>4, NamesKept DEF RelayInv, GoneInv, DispatchAt, CommandAt
  <2>6. \A s \in Relay : tick'[s].phase = tick[s].phase
    BY <1>0, <1>3 DEF ReconcilePersistedRun, Tick
  <2>7. QuietInv'
    BY <2>1, <2>6 DEF RelayInv, QuietInv
  <2> QED BY <2>4, <2>5, <2>7
<1> QED BY <1>1, <1>2, <1>3 DEF TickStep

LEMMA ObservationKeeps ==
  ASSUME RelayInv, NEW r \in Relay, NEW c \in watched[r], ObserveWorker(r, c)
  PROVE  FlightInv' /\ GenInv' /\ NamedInv' /\ QuietInv' /\ GoneInv' /\ LimitInv' /\ AgentsOnRecord'
<1>1. /\ claims' = claims /\ agents' = agents /\ command' = command /\ dispatch' = dispatch /\ tick' = tick
      /\ \A s \in Relay : watched'[s] \subseteq watched[s]
  BY Shapes DEF ObserveWorker, RelayInv, TypeInv
<1>2. c \in Copies /\ Named(c)
  BY RelayShapes DEF RelayInv, NamedInv
<1>3. \E v \in FinalStatus : EndOnRecord(c, v)
  BY DEF ObserveWorker, FinalStatus
<1>4. /\ FlightInv' /\ GenInv' /\ LimitInv' /\ AgentsOnRecord'
      /\ \A x \in Copies : Named(x) => NamedAfter(x)
      /\ agents' \ forgotten' \subseteq agents \ forgotten
  BY <1>1, <1>2, <1>3, EndOnRecordKeeps
<1>5. NamedInv' /\ GoneInv' /\ QuietInv'
  BY <1>1, <1>4, NamesKept DEF RelayInv, GoneInv, QuietInv, DispatchAt, CommandAt
<1> QED BY <1>4, <1>5

LEMMA CrashKeeps ==
  ASSUME RelayInv, \A r, s \in Relay : r = s, NEW r \in Relay, CrashRelay(r)
  PROVE  FlightInv' /\ GenInv' /\ NamedInv' /\ QuietInv' /\ GoneInv' /\ LimitInv' /\ AgentsOnRecord'
<1>1. runs' = runs /\ claims' = claims /\ agents' = agents /\ command' = command
  BY DEF CrashRelay
<1>2. \A d \in Dispatcher : RelayOf[d] = r /\ dispatch'[d].pc = "idle"
  BY WorkerAssumption DEF CrashRelay, IdleDispatch
<1>3. \A s \in Relay : watched'[s] = {}
  BY Shapes DEF CrashRelay, RelayInv, TypeInv
<1>4. GenInv' /\ LimitInv' /\ \A c \in Copies : Named(c) => NamedAfter(c)
  BY <1>1, RecordsAlone
<1>5. FlightInv' /\ QuietInv'
  BY <1>2 DEF FlightInv, Flying, QuietInv
<1>6. NamedInv'
  BY <1>1, <1>2, <1>3, <1>4, NamesKept DEF RelayInv, CommandAt
<1>7. /\ forgotten \subseteq forgotten'
      /\ \A d \in Dispatcher : DispatchAt(d, "started") => dispatch[d].copy.run.gen \in forgotten'
  BY <1>2 DEF CrashRelay
<1>8. GoneInv'
  BY <1>1, <1>7 DEF RelayInv, GoneInv
<1>9. AgentsOnRecord'
  BY <1>1, <1>7, AgentsKept DEF RelayInv
<1> QED BY <1>4, <1>5, <1>6, <1>8, <1>9

LEMMA AgentEndKeeps ==
  ASSUME RelayInv, NEW g, AgentEnds(g) \/ UNCHANGED workerVars
  PROVE  FlightInv' /\ GenInv' /\ NamedInv' /\ QuietInv' /\ GoneInv' /\ LimitInv' /\ AgentsOnRecord'
<1>1. /\ runs' = runs /\ claims' = claims /\ agents' \subseteq agents /\ tick' = tick /\ dispatch' = dispatch
      /\ watched' = watched /\ command' = command /\ forgotten' = forgotten
  BY DEF AgentEnds, workerVars
<1>2. GenInv' /\ LimitInv' /\ \A c \in Copies : Named(c) => NamedAfter(c)
  BY <1>1, RecordsAlone
<1>3. FlightInv' /\ NamedInv' /\ QuietInv' /\ GoneInv' /\ AgentsOnRecord'
  BY <1>1, <1>2, NamesKept, FlightsKept, AgentsKept DEF RelayInv, GoneInv, QuietInv, DispatchAt, CommandAt
<1> QED BY <1>2, <1>3

(* A worker that is addressed has its worker, and is gone if it has ended.   *)
LEMMA Addressed ==
  ASSUME RelayInv, NEW k \in Key, runs[k].worker
  PROVE  /\ Named(CopyOf(k)) /\ CopyOf(k).run = runs[k]
         /\ ~IsActive(runs[k]) => runs[k].gen \notin agents \ forgotten
<1>1. runs[k].gen > 0 /\ runs[k].gen \in 1 .. claims /\ claims \in Nat
  BY RelayShapes DEF RelayInv, GenInv
<1>2. \A l \in Key : runs[l].gen = runs[k].gen => l = k
  BY <1>1 DEF RelayInv, GenInv
<1>3. Named(CopyOf(k)) /\ CopyOf(k).run = runs[k]
  BY <1>1, <1>2 DEF Named, CopyOf
<1>4. ASSUME runs[k].gen \in agents \ forgotten PROVE IsActive(runs[k])
  <2>1. CASE \E d \in Dispatcher : DispatchAt(d, "started") /\ dispatch[d].copy.run.gen = runs[k].gen
    <3>1. PICK d \in Dispatcher : DispatchAt(d, "started") /\ dispatch[d].copy.run.gen = runs[k].gen
      BY <2>1
    <3>2. /\ runs[dispatch[d].copy.key] = dispatch[d].copy.run /\ ~dispatch[d].copy.run.worker
          /\ dispatch[d].copy.key \in Key
      BY <3>1, RelayShapes DEF RelayInv, FlightInv, Flying, DispatchAt
    <3> QED BY <1>2, <3>1, <3>2
  <2>2. CASE \E l \in Key : runs[l].gen = runs[k].gen /\ runs[l].status = "running"
    BY <1>2, <2>2 DEF IsActive, ActiveStatus
  <2> QED BY <1>4, <2>1, <2>2 DEF RelayInv, AgentsOnRecord
<1> QED BY <1>3, <1>4

LEMMA CommandKeeps ==
  ASSUME RelayInv, NEW o \in Operator,
         CommandStep(o) \/ \E k \in Key, kind \in {"stop", "clean", "handoff"} : Address(o, k, kind)
  PROVE  FlightInv' /\ GenInv' /\ NamedInv' /\ QuietInv' /\ GoneInv' /\ LimitInv' /\ AgentsOnRecord'
<1> DEFINE Goal == FlightInv' /\ GenInv' /\ NamedInv' /\ QuietInv' /\ GoneInv' /\ LimitInv' /\ AgentsOnRecord'
           c == command[o].copy
<1>0. /\ claims' = claims /\ watched' = watched /\ tick' = tick /\ dispatch' = dispatch /\ forgotten' = forgotten
      /\ QuietInv'
  BY DEF CommandStep, TakeDown, RecordEnd, MarkWorkspaceCleaned, Break, Address, RelayInv, QuietInv
<1>a. command \in [Operator -> Command] /\ c \in Copies /\ c.key \in Key
  BY Shapes, CopyFields DEF RelayInv, TypeInv, Command
<1>b. ~CommandAt(o, "idle") => Named(c)
  BY DEF RelayInv, NamedInv
<1>c. ASSUME Finished(o) \/ Proceed(o, "clean") \/ Proceed(o, "finish"), ~CommandAt(o, "idle")
      PROVE  /\ \A p \in Operator \ {o} : command'[p] = command[p]
             /\ \A p \in Operator : command'[p].pc # "idle" => command'[p].copy = command[p].copy /\ ~CommandAt(p, "idle")
             /\ Finished(o) => command'[o].pc = "idle"
  BY <1>a, <1>c DEF Finished, Proceed, IdleCommand, Command, CommandAt
<1>1. ASSUME NEW k \in Key, NEW kind \in {"stop", "clean", "handoff"}, Address(o, k, kind) PROVE Goal
  <2>1. runs' = runs /\ agents' = agents /\ runs[k].worker
    BY <1>1 DEF Address
  <2>2. /\ command'[o].copy = CopyOf(k) /\ \A p \in Operator \ {o} : command'[p] = command[p]
        /\ IsActive(runs[k]) => command'[o].pc = "stop"
    BY <1>1, <1>a DEF Address
  <2>3. GenInv' /\ LimitInv' /\ \A x \in Copies : Named(x) => NamedAfter(x)
    BY <1>0, <2>1, RecordsAlone
  <2>4. FlightInv' /\ AgentsOnRecord'
    BY <1>0, <2>1, FlightsKept, AgentsKept DEF RelayInv
  <2>5. Named(CopyOf(k)) /\ CopyOf(k).run = runs[k] /\ (~IsActive(runs[k]) => runs[k].gen \notin agents \ forgotten)
    BY <2>1, Addressed
  <2>6. NamedInv'
    BY <1>0, <2>1, <2>2, <2>5 DEF RelayInv, NamedInv, Named, DispatchAt, CommandAt
  <2>7. GoneInv'
    BY <1>0, <2>1, <2>2, <2>5 DEF RelayInv, GoneInv
  <2> QED BY <1>0, <2>3, <2>4, <2>6, <2>7
<1>2. CASE TakeDown(o)
  <2>1. runs' = runs /\ agents' = agents \ {c.run.gen} /\ Proceed(o, "finish") /\ ~CommandAt(o, "idle")
    BY <1>2 DEF TakeDown, CommandAt
  <2>2. GenInv' /\ LimitInv' /\ \A x \in Copies : Named(x) => NamedAfter(x)
    BY <1>0, <2>1, RecordsAlone
  <2>3. FlightInv' /\ AgentsOnRecord'
    BY <1>0, <2>1, FlightsKept, AgentsKept DEF RelayInv
  <2>4. NamedInv'
    BY <1>0, <1>c, <2>1, <2>2, NamesKept DEF RelayInv, DispatchAt
  <2>5. command'[o].copy = c
    BY <1>a, <2>1 DEF Proceed, Command
  <2>6. GoneInv'
    BY <1>0, <1>c, <2>1, <2>5 DEF RelayInv, GoneInv
  <2> QED BY <1>0, <2>2, <2>3, <2>4, <2>6
<1>3. CASE RecordEnd(o)
  <2>1. /\ agents' = agents /\ (Finished(o) \/ Proceed(o, "clean")) /\ ~CommandAt(o, "idle")
        /\ c.run.gen \notin agents \ forgotten
    BY <1>3 DEF RecordEnd, CommandAt, RelayInv, GoneInv
  <2>2. PICK v \in FinalStatus : FinishActive(c, v)
    BY <1>3 DEF RecordEnd, FinalStatus
  <2>3. /\ \A k \in Key : Kept(k)
        /\ \A d \in Dispatcher : Flying(d) => runs'[dispatch[d].copy.key] = runs[dispatch[d].copy.key]
        /\ \A k \in Key : runs'[k] = runs[k] \/ runs[k].gen = c.run.gen
    BY <1>a, <1>b, <2>1, <2>2, EndingKeeps DEF RelayInv
  <2>4. GenInv' /\ LimitInv' /\ \A x \in Copies : Named(x) => NamedAfter(x)
    BY <1>0, <2>3, RecordsKept DEF RelayInv
  <2>5. FlightInv' /\ AgentsOnRecord'
    BY <1>0, <2>1, <2>3, FlightsKept, AgentsKept DEF RelayInv
  <2>6. NamedInv'
    BY <1>0, <1>c, <2>1, <2>4, NamesKept DEF RelayInv, DispatchAt
  <2>7. command'[o].pc = "idle" \/ command'[o].copy = c
    BY <1>c, <2>1
  <2>8. GoneInv'
    BY <1>0, <1>c, <2>1, <2>7 DEF RelayInv, GoneInv
  <2> QED BY <1>0, <2>4, <2>5, <2>6, <2>8
<1>4. CASE MarkWorkspaceCleaned(o)
  <2> DEFINE cleaned == [runs[c.key] EXCEPT !.cleaned = TRUE]
  <2>1. /\ agents' = agents /\ Finished(o) /\ ~CommandAt(o, "idle") /\ c.run.gen \notin agents \ forgotten
    BY <1>4 DEF MarkWorkspaceCleaned, CommandAt, RelayInv, GoneInv
  <2>2. runs' = [runs EXCEPT ![c.key] = IF Fenced(c) THEN cleaned ELSE runs[c.key]]
    BY <1>4 DEF MarkWorkspaceCleaned
  <2>3. runs \in [Key -> RunRecord] /\ runs[c.key] \in RunRecord
    BY <1>a, Shapes DEF RelayInv, TypeInv
  <2>4. cleaned.status = runs[c.key].status /\ cleaned.gen = runs[c.key].gen /\ cleaned.worker = runs[c.key].worker
    BY <2>3 DEF RunRecord
  <2>5. \A k \in Key : Kept(k) /\ (runs'[k] = runs[k] \/ (k = c.key /\ Fenced(c)))
    <3> HIDE DEF cleaned
    <3> QED BY <1>a, <2>2, <2>3, <2>4 DEF Kept, IsActive
  <2>6. \A d \in Dispatcher : Flying(d) => runs'[dispatch[d].copy.key] = runs[dispatch[d].copy.key]
    <3> SUFFICES ASSUME NEW d \in Dispatcher, Flying(d), dispatch[d].copy.key = c.key, Fenced(c)
                 PROVE  FALSE
      BY <2>5, RelayShapes DEF RelayInv
    <3>1. ~runs[c.key].worker
      BY DEF RelayInv, FlightInv
    <3> QED BY <1>a, <1>b, <2>1, <3>1 DEF Fenced, Named
  <2>7. GenInv' /\ LimitInv' /\ \A x \in Copies : Named(x) => NamedAfter(x)
    BY <1>0, <2>5, RecordsKept DEF RelayInv
  <2>8. FlightInv' /\ AgentsOnRecord'
    BY <1>0, <2>1, <2>5, <2>6, FlightsKept, AgentsKept DEF RelayInv, Fenced
  <2>9. NamedInv'
    BY <1>0, <1>c, <2>1, <2>7, NamesKept DEF RelayInv, DispatchAt
  <2>10. GoneInv'
    BY <1>0, <1>c, <2>1 DEF RelayInv, GoneInv
  <2> QED BY <1>0, <2>7, <2>8, <2>9, <2>10
<1>5. CASE Break(o)
  <2>1. runs' = runs /\ agents' = agents /\ Finished(o) /\ ~CommandAt(o, "idle")
    BY <1>5 DEF Break, CommandAt
  <2>2. GenInv' /\ LimitInv' /\ \A x \in Copies : Named(x) => NamedAfter(x)
    BY <1>0, <2>1, RecordsAlone
  <2>3. FlightInv' /\ AgentsOnRecord'
    BY <1>0, <2>1, FlightsKept, AgentsKept DEF RelayInv
  <2>4. NamedInv' /\ GoneInv'
    BY <1>0, <1>c, <2>1, <2>2, NamesKept DEF RelayInv, DispatchAt, GoneInv
  <2> QED BY <1>0, <2>2, <2>3, <2>4
<1> QED BY <1>1, <1>2, <1>3, <1>4, <1>5 DEF CommandStep

(* A dispatch that is not on its way says nothing of what is on record.      *)
LEMMA Aside ==
  ASSUME RelayInv, NEW d \in Dispatcher, ~Flying(d), runs' = runs, claims' = claims, agents' = agents,
         forgotten' = forgotten, command' = command, dispatch'[d].pc \in {"free", "considered", "done"},
         \A e \in Dispatcher \ {d} : dispatch'[e] = dispatch[e],
         \A r \in Relay : \A c \in watched'[r] : c \in watched[r] \/ Named(c)
  PROVE  FlightInv' /\ GenInv' /\ NamedInv' /\ GoneInv' /\ LimitInv' /\ AgentsOnRecord'
<1>1. FlightInv'
  BY DEF RelayInv, FlightInv, Flying
<1>2. GenInv' /\ LimitInv'
  BY RecordsAlone
<1>3. NamedInv'
  BY DEF RelayInv, NamedInv, Named, DispatchAt, CommandAt
<1>4. GoneInv'
  BY DEF RelayInv, GoneInv
<1>5. AgentsOnRecord'
  BY AgentsKept DEF RelayInv, Flying, DispatchAt
<1> QED BY <1>1, <1>2, <1>3, <1>4, <1>5

(* A claim makes one more run of its trigger active, which the limit admits. *)
LEMMA ClaimFits ==
  ASSUME LimitInv, NEW k \in Key, Admitted(k), \A l \in Key \ {k} : runs'[l] = runs[l]
  PROVE  LimitInv'
<1> SUFFICES ASSUME NEW t \in Trigger
             PROVE  IsFiniteSet(Active(t)') /\ Cardinality(Active(t)') <= MaxConcurrent[t]
  BY DEF LimitInv
<1>0. /\ IsFiniteSet(Active(t)) /\ Cardinality(Active(t)) <= MaxConcurrent[t]
      /\ Cardinality(Active(t)) \in Nat /\ MaxConcurrent[t] \in Nat
  BY FS_CardinalityType, WorkerAssumption DEF LimitInv
<1>1. CASE t = k[2]
  <2>1. Active(t)' \subseteq Active(t) \union {k}
    BY DEF Active
  <2>2. IsFiniteSet(Active(t) \union {k}) /\ Cardinality(Active(t) \union {k}) <= Cardinality(Active(t)) + 1
    <3> DEFINE A == Active(t)
    <3>1. IsFiniteSet(A) /\ Cardinality(A) \in Nat
      BY <1>0
    <3> HIDE DEF A
    <3>2. /\ IsFiniteSet(A \union {k})
          /\ Cardinality(A \union {k}) = IF k \in A THEN Cardinality(A) ELSE Cardinality(A) + 1
      BY <3>1, FS_AddElement
    <3>3. Cardinality(A \union {k}) <= Cardinality(A) + 1
      BY <3>1, <3>2
    <3> QED BY <3>2, <3>3 DEF A
  <2>3. IsFiniteSet(Active(t)') /\ Cardinality(Active(t)') <= Cardinality(Active(t) \union {k})
    BY <2>1, <2>2, FS_Subset
  <2>4. Cardinality(Active(t)) < MaxConcurrent[t]
    BY <1>1 DEF Admitted
  <2>5. Cardinality(Active(t)') \in Nat /\ Cardinality(Active(t) \union {k}) \in Nat
    BY <2>2, <2>3, FS_CardinalityType
  <2> QED BY <1>0, <2>2, <2>3, <2>4, <2>5
<1>2. CASE t # k[2]
  <2>1. Active(t)' = Active(t)
    BY <1>2 DEF Active
  <2> QED BY <1>0, <2>1
<1> QED BY <1>1, <1>2

LEMMA ClaimKeeps ==
  ASSUME RelayInv, NEW d \in Dispatcher, Claim(d)
  PROVE  FlightInv' /\ GenInv' /\ NamedInv' /\ GoneInv' /\ LimitInv' /\ AgentsOnRecord'
<1> DEFINE k == dispatch[d].copy.key
<1>0. /\ agents' = agents /\ forgotten' = forgotten /\ command' = command /\ watched' = watched
      /\ ~Flying(d) /\ ~DispatchAt(d, "running")
  BY DEF Claim, DispatchAt, Flying
<1>1. CASE /\ runs' = runs /\ claims' = claims
           /\ dispatch'[d].pc = "done" /\ \A e \in Dispatcher \ {d} : dispatch'[e] = dispatch[e]
  BY <1>0, <1>1, Aside
<1>2. CASE /\ Admitted(k) /\ claims' = claims + 1
           /\ \A l \in Key \ {k} : runs'[l] = runs[l]
           /\ \A e \in Dispatcher \ {d} : dispatch'[e] = dispatch[e]
           /\ dispatch'[d].pc = "claimed" /\ dispatch'[d].copy.key = k
           /\ runs'[k] = dispatch'[d].copy.run
           /\ runs'[k].status = "claimed" /\ runs'[k].gen = claims + 1
           /\ ~runs'[k].worker /\ ~runs'[k].cleaned
  <2>1. k \in Key /\ claims \in Nat /\ \A l \in Key : runs[l].gen \in Nat /\ runs[l].gen <= claims
    BY RelayShapes DEF RelayInv, GenInv
  <2>2. LimitInv'
    BY <1>2, <2>1, ClaimFits DEF RelayInv
  <2>3. GenInv'
    <3>1. \A l \in Key : runs'[l].gen <= claims' /\ (runs'[l].worker => runs'[l].gen > 0)
      BY <1>2, <2>1 DEF RelayInv, GenInv
    <3>2. \A l, m \in Key : runs'[l].gen = runs'[m].gen /\ runs'[l].gen > 0 => l = m
      BY <1>2, <2>1 DEF RelayInv, GenInv
    <3> QED BY <3>1, <3>2 DEF GenInv
  <2>4. FlightInv'
    <3>1. ~IsActive(runs[k])
      BY <1>2 DEF Admitted
    <3>2. \A e \in Dispatcher : Flying(e) => e # d /\ dispatch[e].copy.key # k
      BY <1>0, <3>1 DEF RelayInv, FlightInv
    <3>3. \A e \in Dispatcher : Flying(e) => dispatch[e].copy.key \in Key
      BY RelayShapes DEF RelayInv
    <3>4. IsActive(runs'[k])
      BY <1>2 DEF IsActive, ActiveStatus
    <3>5. \A e \in Dispatcher \ {d} : dispatch'[e] = dispatch[e] /\ (Flying(e)' <=> Flying(e))
      BY <1>2 DEF Flying
    <3>6. ASSUME NEW e \in Dispatcher, Flying(e)'
          PROVE  LET c == dispatch'[e].copy
                 IN /\ runs'[c.key] = c.run
                    /\ IsActive(c.run) /\ ~c.run.worker /\ ~c.run.cleaned
                    /\ \A f \in Dispatcher : Flying(f)' /\ dispatch'[f].copy.key = c.key => f = e
      <4>1. CASE e = d
        BY <1>2, <3>2, <3>4, <3>5, <4>1
      <4>2. CASE e # d
        BY <1>2, <3>2, <3>3, <3>5, <3>6, <4>2 DEF RelayInv, FlightInv
      <4> QED BY <4>1, <4>2
    <3> QED BY <3>6 DEF FlightInv
  <2>5. \A c \in Copies : Named(c) => NamedAfter(c)
    <3> SUFFICES ASSUME NEW c \in Copies, Named(c) PROVE NamedAfter(c)
      OBVIOUS
    <3>1. c.run.gen \in 1 .. claims' /\ c.run.gen # claims + 1
      BY <1>2, <2>1 DEF Named
    <3>2. ASSUME NEW l \in Key, runs'[l].gen = c.run.gen PROVE l = c.key /\ runs'[l].worker
      BY <1>2, <3>1, <3>2 DEF Named
    <3> QED BY <3>1, <3>2 DEF NamedAfter
  <2>6. NamedInv'
    BY <1>0, <1>2, <2>5, NamesKept DEF RelayInv, DispatchAt, CommandAt
  <2>7. GoneInv'
    BY <1>0 DEF RelayInv, GoneInv
  <2>8. AgentsOnRecord'
    <3> SUFFICES ASSUME NEW g \in agents \ forgotten
                 PROVE  \/ \E e \in Dispatcher : dispatch'[e].pc = "started" /\ dispatch'[e].copy.run.gen = g
                        \/ \E l \in Key : /\ runs'[l].gen = g /\ runs'[l].status = "running"
                                          /\ runs'[l].worker /\ ~runs'[l].cleaned
      BY <1>0 DEF AgentsOnRecord, DispatchAt
    <3>1. CASE \E e \in Dispatcher : DispatchAt(e, "started") /\ dispatch[e].copy.run.gen = g
      BY <1>0, <1>2, <3>1 DEF DispatchAt, Flying
    <3>2. CASE \E l \in Key : /\ runs[l].gen = g /\ runs[l].status = "running"
                              /\ runs[l].worker /\ ~runs[l].cleaned
      BY <1>2, <3>2 DEF Admitted, IsActive, ActiveStatus
    <3> QED BY <3>1, <3>2 DEF RelayInv, AgentsOnRecord
  <2> QED BY <2>2, <2>3, <2>4, <2>6, <2>7, <2>8
<1> QED BY <1>1, <1>2, Claims DEF RelayInv

LEMMA SaveKeeps ==
  ASSUME RelayInv, NEW d \in Dispatcher, NEW pc \in {"done", "provisioning", "launching", "running"},
         NEW s \in ActiveStatus \union FinalStatus, NEW w \in BOOLEAN, Save(d, pc, s, w), Flying(d),
         pc = "running" => w /\ s = "running" /\ forgotten' = forgotten,
         pc \in {"provisioning", "launching"} => ~w /\ s \in ActiveStatus,
         pc # "running" /\ DispatchAt(d, "started") => dispatch[d].copy.run.gen \in forgotten',
         forgotten \subseteq forgotten',
         claims' = claims, agents' = agents, command' = command, watched' = watched
  PROVE  FlightInv' /\ GenInv' /\ NamedInv' /\ GoneInv' /\ LimitInv' /\ AgentsOnRecord'
<1> DEFINE k == dispatch[d].copy.key
<1>1. /\ \A l \in Key \ {k} : runs'[l] = runs[l]
      /\ dispatch'[d].copy.key = k /\ runs'[k] = dispatch'[d].copy.run /\ dispatch'[d].pc = pc
      /\ runs'[k].status = s /\ runs'[k].worker = w
      /\ dispatch'[d].copy.run.gen = dispatch[d].copy.run.gen
      /\ dispatch'[d].copy.run.cleaned = dispatch[d].copy.run.cleaned
      /\ \A e \in Dispatcher \ {d} : dispatch'[e] = dispatch[e]
  BY Saved DEF RelayInv, TypeInv
<1>2. /\ k \in Key /\ runs[k] = dispatch[d].copy.run /\ IsActive(runs[k]) /\ ~runs[k].worker /\ ~runs[k].cleaned
      /\ \A e \in Dispatcher : Flying(e) /\ dispatch[e].copy.key = k => e = d
  BY RelayShapes DEF RelayInv, FlightInv
<1>3. runs'[k].gen = runs[k].gen /\ ~runs'[k].cleaned /\ runs[k].gen > 0
  BY <1>1, <1>2 DEF RelayInv, TypeInv
<1> HIDE DEF k
<1>4. \A l \in Key : runs'[l].gen = runs[l].gen /\ (runs[l].worker => runs'[l] = runs[l])
  BY <1>1, <1>2, <1>3
<1>5. GenInv'
  <2>1. \A l \in Key : runs'[l].worker => runs'[l].gen > 0
    BY <1>1, <1>3 DEF RelayInv, GenInv
  <2> QED BY <1>4, <2>1 DEF RelayInv, GenInv
<1>6. LimitInv'
  <2>1. \A l \in Key : IsActive(runs'[l]) => IsActive(runs[l])
    BY <1>1, <1>2
  <2> QED BY <2>1, LimitKept DEF RelayInv, TypeInv
<1>7. \A c \in Copies : Named(c) => NamedAfter(c)
  BY <1>4 DEF Named, NamedAfter
<1>8. FlightInv'
  <2>1. \A e \in Dispatcher \ {d} : dispatch'[e] = dispatch[e] /\ (Flying(e)' <=> Flying(e))
    BY <1>1 DEF Flying
  <2>2. ASSUME NEW e \in Dispatcher, Flying(e)'
        PROVE  LET c == dispatch'[e].copy
               IN /\ runs'[c.key] = c.run
                  /\ IsActive(c.run) /\ ~c.run.worker /\ ~c.run.cleaned
                  /\ \A f \in Dispatcher : Flying(f)' /\ dispatch'[f].copy.key = c.key => f = e
    <3>1. CASE e = d
      <4>1. pc \in {"provisioning", "launching"}
        BY <1>1, <2>2, <3>1 DEF Flying
      <4>2. IsActive(runs'[k]) /\ ~w
        BY <1>1, <4>1 DEF IsActive
      <4> QED BY <1>1, <1>2, <1>3, <2>1, <3>1, <4>2
    <3>2. CASE e # d
      <4>1. dispatch[e].copy.key \in Key /\ dispatch[e].copy.key # k
        BY <1>2, <2>1, <2>2, <3>2, RelayShapes DEF RelayInv
      <4> QED BY <1>1, <2>1, <2>2, <3>2, <4>1 DEF RelayInv, FlightInv
    <3> QED BY <3>1, <3>2
  <2> QED BY <2>2 DEF FlightInv
<1>9. NamedInv'
  <2>1. ASSUME pc = "running" PROVE NamedAfter(dispatch'[d].copy)
    <3>1. runs[k].gen \in 1 .. claims
      BY <1>2, <1>3, RelayShapes DEF RelayInv, GenInv
    <3>2. \A l \in Key : runs'[l].gen = runs[k].gen => l = k
      BY <1>2, <1>3, <1>4 DEF RelayInv, GenInv
    <3> QED BY <1>1, <1>2, <1>3, <2>1, <3>1, <3>2 DEF NamedAfter
  <2>2. \A e \in Dispatcher \ {d} : DispatchAt(e, "running") => NamedAfter(dispatch[e].copy)
    BY <1>7, RelayShapes DEF RelayInv, NamedInv
  <2>3. \A r \in Relay : \A c \in watched[r] : NamedAfter(c)
    BY <1>7, RelayShapes DEF RelayInv, NamedInv
  <2>4. \A o \in Operator : ~CommandAt(o, "idle") => NamedAfter(command[o].copy)
    BY <1>7, RelayShapes DEF RelayInv, NamedInv
  <2> QED BY <1>1, <2>1, <2>2, <2>3, <2>4 DEF NamedInv, Named, NamedAfter, DispatchAt, CommandAt
<1>10. GoneInv'
  BY DEF RelayInv, GoneInv
<1>11. AgentsOnRecord'
  <2>1. CASE pc # "running"
    BY <1>1, <1>4, <2>1, AgentsKept DEF RelayInv
  <2>2. CASE pc = "running"
    <3> SUFFICES ASSUME NEW g \in agents \ forgotten
                 PROVE  \/ \E e \in Dispatcher : dispatch'[e].pc = "started" /\ dispatch'[e].copy.run.gen = g
                        \/ \E l \in Key : /\ runs'[l].gen = g /\ runs'[l].status = "running"
                                          /\ runs'[l].worker /\ ~runs'[l].cleaned
      BY DEF AgentsOnRecord, DispatchAt
    <3>1. CASE g = runs[k].gen
      BY <1>1, <1>2, <1>3, <2>2, <3>1
    <3>2. CASE \E e \in Dispatcher \ {d} : DispatchAt(e, "started") /\ dispatch[e].copy.run.gen = g
      BY <1>1, <3>2 DEF DispatchAt
    <3>3. CASE \E l \in Key : /\ runs[l].gen = g /\ runs[l].status = "running"
                              /\ runs[l].worker /\ ~runs[l].cleaned
      BY <1>4, <3>3
    <3> QED BY <1>2, <3>1, <3>2, <3>3 DEF RelayInv, AgentsOnRecord
  <2> QED BY <2>1, <2>2
<1> QED BY <1>5, <1>6, <1>8, <1>9, <1>10, <1>11

(* The agent that starts is the one its dispatch is about to write down, and *)
(* nobody holds its generation.                                             *)
LEMMA StartKeeps ==
  ASSUME RelayInv, NEW d \in Dispatcher, StartAgent(d)
  PROVE  FlightInv' /\ GenInv' /\ NamedInv' /\ GoneInv' /\ LimitInv' /\ AgentsOnRecord'
<1> DEFINE c == dispatch[d].copy
<1>1. /\ runs' = runs /\ claims' = claims /\ watched' = watched /\ command' = command /\ forgotten' = forgotten
      /\ agents' = agents \union {c.run.gen} /\ DispatchAt(d, "launching") /\ Flying(d)
  BY DEF StartAgent, DispatchAt, Flying
<1>2. dispatch' = [dispatch EXCEPT ![d] = [pc |-> "started", copy |-> c]] /\ dispatch \in [Dispatcher -> Dispatch]
  BY Shapes DEF StartAgent, Go, RelayInv, TypeInv
<1>3. dispatch'[d].pc = "started" /\ dispatch'[d].copy = c /\ \A e \in Dispatcher \ {d} : dispatch'[e] = dispatch[e]
  BY <1>2
<1>4. \A e \in Dispatcher : (Flying(e)' <=> Flying(e)) /\ dispatch'[e].copy = dispatch[e].copy
  BY <1>1, <1>3 DEF Flying
<1>5. GenInv' /\ LimitInv' /\ \A x \in Copies : Named(x) => NamedAfter(x)
  BY <1>1, RecordsAlone
<1>6. FlightInv'
  BY <1>1, <1>4 DEF RelayInv, FlightInv
<1>7. NamedInv'
  BY <1>1, <1>3, <1>5, NamesKept DEF RelayInv, DispatchAt, CommandAt
<1>8. GoneInv'
  <2>1. c.key \in Key /\ runs[c.key].gen = c.run.gen /\ ~runs[c.key].worker
    BY <1>1, RelayShapes DEF RelayInv, FlightInv
  <2>2. \A o \in Operator : command[o].pc \in {"finish", "clean"} => command[o].copy.run.gen # c.run.gen
    BY <2>1 DEF RelayInv, NamedInv, Named, CommandAt
  <2> QED BY <1>1, <2>2 DEF RelayInv, GoneInv
<1>9. AgentsOnRecord'
  <2> SUFFICES ASSUME NEW g \in agents' \ forgotten
               PROVE  \/ \E e \in Dispatcher : dispatch'[e].pc = "started" /\ dispatch'[e].copy.run.gen = g
                      \/ \E l \in Key : /\ runs[l].gen = g /\ runs[l].status = "running"
                                        /\ runs[l].worker /\ ~runs[l].cleaned
    BY <1>1 DEF AgentsOnRecord, DispatchAt
  <2>1. CASE g = c.run.gen
    BY <1>3, <2>1
  <2>2. CASE \E e \in Dispatcher : DispatchAt(e, "started") /\ dispatch[e].copy.run.gen = g
    BY <1>1, <1>3, <2>2 DEF DispatchAt
  <2> QED BY <1>1, <2>1, <2>2 DEF RelayInv, AgentsOnRecord
<1> QED BY <1>5, <1>6, <1>7, <1>8, <1>9

LEMMA DispatchKeeps ==
  ASSUME RelayInv, \A r, s \in Relay : r = s, NEW d \in Dispatcher, DispatchStep(d) \/ \E k \in Key : Consider(d, k)
  PROVE  FlightInv' /\ GenInv' /\ NamedInv' /\ QuietInv' /\ GoneInv' /\ LimitInv' /\ AgentsOnRecord'
<1> DEFINE Goal == FlightInv' /\ GenInv' /\ NamedInv' /\ GoneInv' /\ LimitInv' /\ AgentsOnRecord'
<1>0. dispatch \in [Dispatcher -> Dispatch]
  BY Shapes DEF RelayInv, TypeInv
<1>1. QuietInv'
  <2>1. tick' = tick
    BY DEF DispatchStep, Consider, FindSibling, ResolveFails, Claim, ReportClaim, Provision, StartAgent, RecordWorker, RecordFails,
           StartObserving, DispatchFails, GiveUp
  <2>2. tick[RelayOf[d]].phase = "poll" \/ ~(dispatch[d].pc \in {"idle", "done"})
    BY DEF DispatchStep, Consider, FindSibling, ResolveFails, Claim, ReportClaim, Provision, StartAgent, RecordWorker, RecordFails,
           StartObserving, DispatchFails, DispatchAt
  <2>3. \A r \in Relay : tick[r].phase = "poll"
    BY <2>2, WorkerAssumption DEF RelayInv, QuietInv
  <2> QED BY <2>1, <2>3 DEF QuietInv
<1>2. CASE \E k \in Key : Consider(d, k)
  <2>1. PICK k \in Key : Consider(d, k)
    BY <1>2
  <2>2. dispatch'[d].pc = "free" /\ \A e \in Dispatcher \ {d} : dispatch'[e] = dispatch[e]
    BY <1>0, <2>1 DEF Consider, Go
  <2> QED BY <1>1, <2>1, <2>2, Aside DEF Consider, DispatchAt, Flying
<1>8. CASE FindSibling(d)
  <2>1. dispatch'[d].pc \in {"considered", "done"} /\ \A e \in Dispatcher \ {d} : dispatch'[e] = dispatch[e]
    BY <1>0, <1>8 DEF FindSibling, Go
  <2>2. /\ ~Flying(d) /\ runs' = runs /\ claims' = claims /\ agents' = agents
        /\ forgotten' = forgotten /\ command' = command /\ watched' = watched
    BY <1>8 DEF FindSibling, DispatchAt, Flying
  <2> QED BY <1>1, <2>1, <2>2, Aside
<1>9. CASE RecordFails(d)
  <2>1. /\ Flying(d) /\ Save(d, "done", "failed", TRUE)
        /\ forgotten' = forgotten \union {dispatch[d].copy.run.gen}
        /\ claims' = claims /\ agents' = agents /\ command' = command /\ watched' = watched
    BY <1>9 DEF RecordFails, DispatchAt, Flying
  <2>2. "failed" \in FinalStatus
    BY DEF FinalStatus
  <2> QED BY <1>1, <2>1, <2>2, SaveKeeps
<1>3. CASE ResolveFails(d)
  <2>1. dispatch'[d].pc = "done" /\ \A e \in Dispatcher \ {d} : dispatch'[e] = dispatch[e]
    BY <1>0, <1>3 DEF ResolveFails, Go
  <2> QED BY <1>1, <1>3, <2>1, Aside DEF ResolveFails, DispatchAt, Flying
<1>4. CASE StartObserving(d)
  <2>1. dispatch'[d].pc = "done" /\ \A e \in Dispatcher \ {d} : dispatch'[e] = dispatch[e]
    BY <1>0, <1>4 DEF StartObserving, Go
  <2>2. \A r \in Relay : \A c \in watched'[r] : c \in watched[r] \/ Named(c)
    <3>1. Named(dispatch[d].copy)
      BY <1>4 DEF StartObserving, RelayInv, NamedInv
    <3>2. watched \in [Relay -> SUBSET Copies]
      BY Shapes DEF RelayInv, TypeInv
    <3> QED BY <1>4, <3>1, <3>2 DEF StartObserving
  <2> QED BY <1>1, <1>4, <2>1, <2>2, Aside DEF StartObserving, DispatchAt, Flying
<1>5. CASE ReportClaim(d) \/ Provision(d)
  <2>1. /\ Flying(d) /\ ~DispatchAt(d, "started")
        /\ claims' = claims /\ agents' = agents /\ forgotten' = forgotten /\ command' = command /\ watched' = watched
        /\ Save(d, "provisioning", "provisioning", FALSE) \/ Save(d, "launching", "launching", FALSE)
    BY <1>5 DEF ReportClaim, Provision, DispatchAt, Flying
  <2>2. "provisioning" \in ActiveStatus /\ "launching" \in ActiveStatus
    BY DEF ActiveStatus
  <2> QED BY <1>1, <2>1, <2>2, SaveKeeps
<1>6. CASE RecordWorker(d)
  <2>1. /\ Flying(d) /\ Save(d, "running", "running", TRUE)
        /\ claims' = claims /\ agents' = agents /\ forgotten' = forgotten /\ command' = command /\ watched' = watched
    BY <1>6 DEF RecordWorker, DispatchAt, Flying
  <2>2. "running" \in ActiveStatus
    BY DEF ActiveStatus
  <2> QED BY <1>1, <2>1, <2>2, SaveKeeps
<1>7. CASE DispatchFails(d)
  <2>1. /\ Flying(d) /\ ~DispatchAt(d, "started") /\ Save(d, "done", "failed", FALSE)
        /\ claims' = claims /\ agents' = agents /\ forgotten' = forgotten /\ command' = command /\ watched' = watched
    BY <1>7 DEF DispatchFails, GiveUp, DispatchAt, Flying
  <2>2. "failed" \in FinalStatus
    BY DEF FinalStatus
  <2> QED BY <1>1, <2>1, <2>2, SaveKeeps
<1> QED BY <1>1, <1>2, <1>3, <1>4, <1>5, <1>6, <1>7, <1>8, <1>9, ClaimKeeps, StartKeeps DEF DispatchStep
-----------------------------------------------------------------------------
LEMMA InitRelay ==
  ASSUME WorkerInit
  PROVE  RelayInv
<1>1. TypeInv
  BY InitTyped
<1>2. \A d \in Dispatcher : dispatch[d].pc = "idle"
  BY DEF WorkerInit, IdleDispatch
<1>3. \A o \in Operator : command[o].pc = "idle"
  BY DEF WorkerInit, IdleCommand
<1>4. \A k \in Key : runs[k].gen = 0 /\ ~runs[k].worker /\ ~IsActive(runs[k])
  BY DEF WorkerInit, NoRecord, IsActive, ActiveStatus
<1>5. FlightInv /\ QuietInv /\ GoneInv
  BY <1>2, <1>3 DEF FlightInv, Flying, QuietInv, GoneInv
<1>6. GenInv
  BY <1>4 DEF GenInv, WorkerInit
<1>7. NamedInv
  BY <1>2, <1>3 DEF NamedInv, DispatchAt, CommandAt, WorkerInit
<1>8. LimitInv
  <2> SUFFICES ASSUME NEW t \in Trigger PROVE IsFiniteSet(Active(t)) /\ Cardinality(Active(t)) <= MaxConcurrent[t]
    BY DEF LimitInv
  <2>1. Active(t) = {}
    BY <1>4 DEF Active
  <2>2. MaxConcurrent[t] \in Nat
    BY WorkerAssumption
  <2> QED BY <2>1, <2>2, FS_EmptySet
<1>9. AgentsOnRecord
  BY DEF AgentsOnRecord, WorkerInit
<1> QED BY <1>1, <1>5, <1>6, <1>7, <1>8, <1>9 DEF RelayInv

LEMMA StepRelay ==
  ASSUME \A r, s \in Relay : r = s, RelayInv, [WorkerNext]_workerVars
  PROVE  RelayInv'
<1>1. TypeInv'
  BY StepTyped DEF RelayInv
<1>2. FlightInv' /\ GenInv' /\ NamedInv' /\ QuietInv' /\ GoneInv' /\ LimitInv' /\ AgentsOnRecord'
  BY DispatchKeeps, TickKeeps, ObservationKeeps, CrashKeeps, CommandKeeps, AgentEndKeeps DEF WorkerNext
<1> QED BY <1>1, <1>2 DEF RelayInv

(* Only the claim counts the runs of a trigger, and with one relay that is   *)
(* enough: nothing that is written back makes another run active.           *)
THEOREM LimitIsRespected ==
  ASSUME \A r, s \in Relay : r = s
  PROVE  WorkerSpec => []LimitRespected
<1>1. RelayInv => LimitRespected
  BY DEF RelayInv, LimitInv, LimitRespected
<1>2. RelayInv /\ [WorkerNext]_workerVars => RelayInv'
  BY StepRelay
<1> QED BY <1>1, <1>2, InitRelay, PTL DEF WorkerSpec

(* With one relay, an agent that lives and was not left behind by a crash or *)
(* a failed observation is one that a record names and an operator can stop. *)
THEOREM AgentsAreOnRecord ==
  ASSUME \A r, s \in Relay : r = s
  PROVE  WorkerSpec => []AgentsOnRecord
<1>1. RelayInv => AgentsOnRecord
  BY DEF RelayInv
<1>2. RelayInv /\ [WorkerNext]_workerVars => RelayInv'
  BY StepRelay
<1> QED BY <1>1, <1>2, InitRelay, PTL DEF WorkerSpec

(* What no step of one relay undoes.                                        *)
LEMMA EndingStands ==
  ASSUME \A r, s \in Relay : r = s, RelayInv, [WorkerNext]_workerVars
  PROVE  \A k \in Key :
           /\ runs'[k].gen >= runs[k].gen
           /\ runs[k].status \in FinalStatus /\ runs'[k].gen = runs[k].gen => runs'[k].status = runs[k].status
<1> DEFINE Stands(k) ==
             /\ runs'[k].gen >= runs[k].gen
             /\ runs[k].status \in FinalStatus /\ runs'[k].gen = runs[k].gen => runs'[k].status = runs[k].status
<1>0. /\ \A k \in Key : runs[k].gen \in Nat /\ runs[k].gen <= claims /\ (runs[k].status \in FinalStatus => ~IsActive(runs[k]))
      /\ claims \in Nat
  <2>1. FinalStatus \intersect ActiveStatus = {}
    BY DEF FinalStatus, ActiveStatus
  <2> QED BY <2>1, RelayShapes DEF RelayInv, GenInv, IsActive
<1>a. \A k \in Key : runs'[k] = runs[k] => Stands(k)
  BY <1>0
<1>1. ASSUME runs' = runs PROVE \A k \in Key : Stands(k)
  BY <1>a, <1>1
<1>2. ASSUME NEW c \in Copies, NEW v \in FinalStatus, FinishActive(c, v) PROVE \A k \in Key : Stands(k)
  <2>1. \A k \in Key : runs'[k] = runs[k] \/ (runs'[k].gen = runs[k].gen /\ IsActive(runs[k]))
    BY <1>2, Ended DEF RelayInv, TypeInv
  <2> QED BY <1>0, <2>1
<1>3. ASSUME NEW d \in Dispatcher, DispatchStep(d) \/ \E k \in Key : Consider(d, k) PROVE \A k \in Key : Stands(k)
  <2>1. CASE \E k \in Key : Consider(d, k) \/ FindSibling(d) \/ ResolveFails(d) \/ StartAgent(d) \/ StartObserving(d)
    BY <1>1, <2>1 DEF Consider, FindSibling, ResolveFails, StartAgent, StartObserving
  <2>2. CASE Claim(d)
    <3>1. dispatch[d].copy.key \in Key
      BY RelayShapes DEF RelayInv
    <3>2. \A k \in Key : runs'[k] = runs[k] \/ runs'[k].gen = claims + 1
      BY <2>2, <3>1, Claims DEF RelayInv
    <3> QED BY <1>0, <3>2
  <2>3. CASE ReportClaim(d) \/ Provision(d) \/ RecordWorker(d) \/ RecordFails(d) \/ DispatchFails(d)
    <3>1. Flying(d)
      BY <2>3 DEF ReportClaim, Provision, RecordWorker, RecordFails, DispatchFails, DispatchAt, Flying
    <3>2. PICK pc \in {"done", "provisioning", "launching", "running"}, s \in ActiveStatus \union FinalStatus, w \in BOOLEAN :
            Save(d, pc, s, w)
      BY <2>3 DEF ReportClaim, Provision, RecordWorker, RecordFails, DispatchFails, GiveUp, ActiveStatus, FinalStatus
    <3>3. /\ dispatch[d].copy.key \in Key /\ runs[dispatch[d].copy.key] = dispatch[d].copy.run
          /\ IsActive(runs[dispatch[d].copy.key])
      BY <3>1, RelayShapes DEF RelayInv, FlightInv
    <3>4. \A k \in Key : runs'[k] = runs[k] \/ (runs'[k].gen = runs[k].gen /\ IsActive(runs[k]))
      BY <3>2, <3>3, Saved DEF RelayInv, TypeInv
    <3> QED BY <1>0, <3>4
  <2> QED BY <1>1, <1>3, <2>1, <2>2, <2>3 DEF DispatchStep, FindSibling, ResolveFails, StartAgent, StartObserving
<1>4. ASSUME NEW r \in Relay, TickStep(r) \/ CrashRelay(r) \/ \E c \in watched[r] : ObserveWorker(r, c)
      PROVE  \A k \in Key : Stands(k)
  <2>1. runs' = runs \/ \E c \in Copies, v \in FinalStatus : FinishActive(c, v)
    <3>1. CASE \E c \in tick[r].left : ReconcilePersistedRun(r, c)
      <4>1. PICK c \in tick[r].left : ReconcilePersistedRun(r, c)
        BY <3>1
      <4>2. c \in Copies /\ \A v \in Verdicts(c) : v # "none" => v \in FinalStatus
        BY RelayShapes DEF RelayInv, Verdicts, FinalStatus
      <4> QED BY <4>1, <4>2 DEF ReconcilePersistedRun, EndOnRecord
    <3>2. CASE \E c \in watched[r] : ObserveWorker(r, c)
      BY <3>2, RelayShapes DEF RelayInv, ObserveWorker, EndOnRecord, FinalStatus
    <3> QED BY <1>4, <3>1, <3>2 DEF TickStep, BeginTick, BeginPoll, CrashRelay
  <2> QED BY <1>1, <1>2, <2>1
<1>5. ASSUME NEW o \in Operator,
             CommandStep(o) \/ \E k \in Key, kind \in {"stop", "clean", "handoff"} : Address(o, k, kind)
      PROVE  \A k \in Key : Stands(k)
  <2> DEFINE c == command[o].copy
  <2>1. c \in Copies /\ c.key \in Key
    BY RelayShapes DEF RelayInv
  <2>2. CASE RecordEnd(o)
    <3>1. \E v \in FinalStatus : FinishActive(c, v)
      BY <2>2 DEF RecordEnd, FinalStatus
    <3> QED BY <1>2, <2>1, <3>1
  <2>3. CASE MarkWorkspaceCleaned(o)
    <3> DEFINE cleaned == [runs[c.key] EXCEPT !.cleaned = TRUE]
    <3>1. runs' = [runs EXCEPT ![c.key] = IF Fenced(c) THEN cleaned ELSE runs[c.key]]
      BY <2>3 DEF MarkWorkspaceCleaned
    <3>2. runs \in [Key -> RunRecord] /\ runs[c.key] \in RunRecord
      BY <2>1, Shapes DEF RelayInv, TypeInv
    <3>3. cleaned.status = runs[c.key].status /\ cleaned.gen = runs[c.key].gen
      BY <3>2 DEF RunRecord
    <3>4. \A k \in Key : runs'[k] = runs[k] \/ (runs'[k].gen = runs[k].gen /\ runs'[k].status = runs[k].status)
      <4> HIDE DEF cleaned
      <4> QED BY <2>1, <3>1, <3>2, <3>3
    <3> QED BY <1>0, <3>4
  <2>4. runs' = runs \/ RecordEnd(o) \/ MarkWorkspaceCleaned(o)
    BY <1>5 DEF CommandStep, TakeDown, Break, Address
  <2> QED BY <1>1, <2>2, <2>3, <2>4
<1>6. ASSUME (\E g \in agents : AgentEnds(g)) \/ UNCHANGED workerVars PROVE \A k \in Key : Stands(k)
  BY <1>1, <1>6 DEF AgentEnds, workerVars
<1> QED BY <1>3, <1>4, <1>5, <1>6 DEF WorkerNext

(* With one relay, the ending of a run stands until the next claim, and no    *)
(* record goes back to an earlier generation, although update is not fenced. *)
THEOREM EndingsAreForGood ==
  ASSUME \A r, s \in Relay : r = s
  PROVE  WorkerSpec => EndedForGood
<1>1. RelayInv /\ [WorkerNext]_workerVars => RelayInv'
  BY StepRelay
<1>2. RelayInv /\ [WorkerNext]_workerVars
        => [\A k \in Key :
              /\ runs'[k].gen >= runs[k].gen
              /\ runs[k].status \in FinalStatus /\ runs'[k].gen = runs[k].gen
                   => runs'[k].status = runs[k].status]_workerVars
  BY EndingStands
<1> QED BY <1>1, <1>2, InitRelay, PTL DEF WorkerSpec, EndedForGood
=============================================================================
