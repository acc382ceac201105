------------------------- MODULE WorkflowEngine_proofs -------------------------
(***************************************************************************)
(* Proofs about WorkflowEngine, for every workflow, any number of runs,      *)
(* daemons, operators and tokens, and every fault.  The ledger's own         *)
(* invariants (WorkflowLedger_proofs) hold of the composition because every  *)
(* step of the engine is a step of the ledger.                              *)
(***************************************************************************)
EXTENDS WorkflowEngine, WorkflowLedger_proofs, WellFoundedInduction

(***************************************************************************)
(* DECISIONS.  Why it is sound to decide from a stale copy of a run: what    *)
(* was decided stays right as long as settled jobs keep their status        *)
(* (Later).                                                                *)
(***************************************************************************)

(* An impossible need stays impossible. *)
LEMMA ImpossibleIsFinal ==
  ASSUME NEW old \in StatusMap, NEW new \in StatusMap, Later(old, new),
         NEW j \in DagJob, NEW need \in Needs[j], GroupImpossible(need, old)
  PROVE  GroupImpossible(need, new)
<1>1. PICK k \in InstancesOf(need.name) : Impossible(need, old[k])
  BY DEF GroupImpossible
<1>2. k \in DagJob
  BY <1>1 DEF InstancesOf
<1>3. IsTerminal(old[k])
  BY <1>1 DEF Impossible, IsTerminal, Terminal
<1>4. new[k] = old[k]
  BY <1>2, <1>3 DEF Later
<1> QED
  BY <1>1, <1>4 DEF GroupImpossible

(* A need that is not on "started" stays met. *)
LEMMA MetIsFinal ==
  ASSUME NEW old \in StatusMap, NEW new \in StatusMap, Later(old, new),
         NEW j \in DagJob, NEW need \in Needs[j],
         need.status \in {"succeeded", "failed", "skipped", "unset"}, GroupMet(need, old)
  PROVE  GroupMet(need, new)
<1>1. SUFFICES ASSUME NEW k \in InstancesOf(need.name) PROVE Met(need, new[k])
  BY DEF GroupMet
<1>2. k \in DagJob /\ Met(need, old[k])
  BY DEF GroupMet, InstancesOf
<1>3. IsTerminal(old[k])
  BY <1>2 DEF Met, IsTerminal, Terminal
<1> QED
  BY <1>2, <1>3 DEF Later

(***************************************************************************)
(* A job omitted on the strength of an old copy could not have run: decided *)
(* again from any later state, it is omitted again.                         *)
(***************************************************************************)
THEOREM OmitIsFinal ==
  ASSUME NEW old \in StatusMap, NEW new \in StatusMap, Later(old, new),
         NEW j \in DagJob, new[j] = "pending", Omit(j, old)
  PROVE  Omit(j, new)
BY ImpossibleIsFinal DEF Omit

(***************************************************************************)
(* A job that may run by an old copy still has its needs later, up to those *)
(* on "started": claiming it is right although other jobs have moved on.    *)
(***************************************************************************)
THEOREM ReadinessOutlivesTheCopy ==
  ASSUME NEW old \in StatusMap, NEW new \in StatusMap, Later(old, new),
         NEW j \in DagJob, MayRun(j, old)
  PROVE  NeedsAllow(j, new)
<1>1. SUFFICES ASSUME NEW need \in Needs[j], need.status # "started"
               PROVE  \/ GroupMet(need, new)
                      \/ Condition[j] # "none" /\ GroupImpossible(need, new)
  BY DEF NeedsAllow
<1>2. need.status \in {"succeeded", "failed", "skipped", "unset"}
  BY <1>1, DagAssumption DEF NeedStatus
<1>3. Known(need) /\ ~GroupWaiting(need, old)
  BY DEF MayRun, Omit, Blocked
<1>4. CASE GroupMet(need, old)
  BY <1>2, <1>4, MetIsFinal
<1>5. CASE GroupImpossible(need, old)
  <2>1. Condition[j] # "none"
    BY <1>3, <1>5 DEF MayRun, Omit
  <2> QED
    BY <2>1, <1>5, ImpossibleIsFinal
<1> QED
  BY <1>3, <1>4, <1>5 DEF GroupWaiting

(***************************************************************************)
(* A run found done in a copy is done with the same outcome ever after:     *)
(* finishWorkflowRun need not look at the jobs again.                       *)
(***************************************************************************)
THEOREM OutcomeIsFinal ==
  ASSUME NEW old \in StatusMap, NEW new \in StatusMap, Later(old, new), Done(old)
  PROVE  Done(new) /\ Outcome(new) = Outcome(old)
<1>1. \A k \in DagJob : IsTerminal(old[k]) /\ new[k] = old[k]
  BY DEF Done, AllSettled, Later
<1>2. Done(new)
  BY <1>1 DEF Done, AllSettled
<1>3. (\E k \in DagJob : new[k] = "failed" /\ k \notin ContinueOnError)
        <=> (\E k \in DagJob : old[k] = "failed" /\ k \notin ContinueOnError)
  BY <1>1
<1> QED
  BY <1>2, <1>3 DEF Outcome

(* What a claim found: every need known, met or rescued, and the `if:` true. *)
Allowed(j, st) ==
  /\ \A need \in Needs[j] :
       /\ Known(need)
       /\ GroupMet(need, st) \/ (Condition[j] # "none" /\ GroupImpossible(need, st))
  /\ ConditionHolds(j, st)

Ready(j, st) == Steady(j) => Allowed(j, st)

LEMMA RunMeansAllowed ==
  ASSUME NEW j \in DagJob, NEW st \in StatusMap, MayRun(j, st)
  PROVE  Allowed(j, st)
BY DEF MayRun, Omit, Blocked, GroupWaiting, Allowed

(* No need is met and impossible at once.                                   *)
LEMMA MetIsNotImpossible ==
  ASSUME NEW st, NEW need, GroupMet(need, st)
  PROVE  ~GroupImpossible(need, st)
BY DEF GroupMet, GroupImpossible, Met, Impossible

(* A job that is allowed is neither omitted nor skipped.                     *)
LEMMA AllowedStaysOpen ==
  ASSUME NEW j \in DagJob, NEW st \in StatusMap, Allowed(j, st)
  PROVE  ~Omit(j, st) /\ ~Skip(j, st)
BY MetIsNotImpossible DEF Allowed, Omit, Skip

(***************************************************************************)
(* The verdict "run" of a steady job is final: its needs stay as they are,   *)
(* and so does what its `if:` reads of them.                                *)
(***************************************************************************)
LEMMA AllowedIsFinal ==
  ASSUME NEW old \in StatusMap, NEW new \in StatusMap, Later(old, new),
         NEW j \in DagJob, Steady(j), Allowed(j, old)
  PROVE  Allowed(j, new)
<1>1. ASSUME NEW need \in Needs[j]
      PROVE  /\ Known(need)
             /\ GroupMet(need, new) \/ (Condition[j] # "none" /\ GroupImpossible(need, new))
  <2>1. need.status \in {"succeeded", "failed", "skipped", "unset"}
    BY DagAssumption DEF NeedStatus, Steady
  <2>2. CASE GroupMet(need, old)
    BY <2>1, <2>2, MetIsFinal DEF Allowed
  <2>3. CASE Condition[j] # "none" /\ GroupImpossible(need, old)
    BY <2>3, ImpossibleIsFinal DEF Allowed
  <2> QED BY <2>2, <2>3 DEF Allowed
<1>2. Condition[j] = "failure" => DependencyFailed(j, new)
  <2> SUFFICES ASSUME Condition[j] = "failure"
               PROVE  DependencyFailed(j, new)
    OBVIOUS
  <2>0. PICK need \in Needs[j] :
               \E k \in InstancesOf(need.name) : old[k] \in {"failed", "omitted"}
    BY DEF Allowed, ConditionHolds, DependencyFailed
  <2>1. PICK k \in InstancesOf(need.name) : old[k] \in {"failed", "omitted"}
    BY <2>0
  <2>2. k \in DagJob /\ IsTerminal(old[k])
    BY <2>1 DEF InstancesOf, IsTerminal, Terminal
  <2> QED BY <2>1, <2>2 DEF Later, DependencyFailed
<1>3. Condition[j] = "success" => ~DependencyFailed(j, new)
  <2> SUFFICES ASSUME Condition[j] = "success",
                      NEW need \in Needs[j], NEW k \in InstancesOf(need.name),
                      new[k] \in {"failed", "omitted"}
               PROVE  FALSE
    BY DEF DependencyFailed
  <2>1. ~DependencyFailed(j, old)
    BY DEF Allowed, ConditionHolds
  <2>2. need.status = "unset"
    BY DEF Steady
  <2>3. ~GroupImpossible(need, old)
    BY <2>1, <2>2 DEF DependencyFailed, GroupImpossible, Impossible
  <2>4. Met(need, old[k]) /\ k \in DagJob
    BY <2>3 DEF Allowed, GroupMet, InstancesOf
  <2>5. IsTerminal(old[k]) /\ old[k] \notin {"failed", "omitted"}
    BY <2>2, <2>4 DEF Met, IsTerminal, Terminal
  <2> QED BY <2>4, <2>5 DEF Later
<1>4. ConditionHolds(j, new)
  BY <1>2, <1>3 DEF ConditionHolds
<1> QED BY <1>1, <1>4 DEF Allowed

-----------------------------------------------------------------------------
(***************************************************************************)
(* COPIES.  Loops over jobs, and what a process holds of a run.             *)
(***************************************************************************)
LEMMA RankIsNat == \A j \in JobId : Rank(j) \in Nat
BY EngineAssumption DEF Rank

LEMMA FirstIsMember ==
  ASSUME NEW js \in SUBSET JobId, js # {}
  PROVE  First(js) \in js /\ First(js) \in JobId
<1> DEFINE Ranks == {Rank(j) : j \in js}
           Below == OpToRel(<, Nat)
<1>1. Ranks \subseteq Nat /\ Ranks # {}
  BY RankIsNat
<1>2. IsWellFoundedOn(Below, Nat)
  BY NatLessThanWellFounded, Zenon
<1>3. \A x, y \in Nat : x < y => <<x, y>> \in Below
  BY Zenon DEF OpToRel
<1> HIDE DEF Below
<1>4. \E x \in Ranks : \A y \in Ranks : <<y, x>> \notin Below
  BY <1>1, <1>2, WFMin, Zenon
<1>5. PICK x \in Ranks : \A y \in Ranks : ~(y < x)
  BY <1>1, <1>3, <1>4
<1>6. PICK j \in js : x = Rank(j)
  BY <1>5
<1>7. \A k \in js : Rank(j) =< Rank(k)
  BY <1>5, <1>6, RankIsNat
<1>8. First(js) \in js
  BY <1>7 DEF First
<1> QED BY <1>8

LEMMA RestIsJobs ==
  ASSUME NEW js \in SUBSET JobId
  PROVE  Rest(js) \in SUBSET JobId
BY DEF Rest

LEMMA CopyIsView ==
  ASSUME NEW js \in [JobId -> Job]
  PROVE  /\ Copy(js) \in View
         /\ \A j \in JobId : /\ Copy(js)[j].status = js[j].status
                             /\ Copy(js)[j].attempt = js[j].attempt
         /\ Statuses(Copy(js)) = [j \in JobId |-> js[j].status]
<1>1. \A j \in JobId : js[j] \in Job
  OBVIOUS
<1>2. \A j \in JobId : Copy(js)[j] = Seen(js[j])
  BY DEF Copy
<1>3. \A j \in JobId : /\ Seen(js[j]) \in SeenJob
                       /\ Seen(js[j]).status = js[j].status
                       /\ Seen(js[j]).attempt = js[j].attempt
  BY <1>1 DEF Seen, SeenJob, Job
<1>4. Copy(js) \in View
  BY <1>2, <1>3 DEF Copy, View
<1>5. Statuses(Copy(js)) = [j \in JobId |-> js[j].status]
  BY <1>2, <1>3 DEF Statuses
<1> QED BY <1>2, <1>3, <1>4, <1>5

LEMMA StatusesIsMap ==
  ASSUME NEW view \in View
  PROVE  /\ Statuses(view) \in StatusMap
         /\ \A j \in JobId : Statuses(view)[j] = view[j].status
BY EngineAssumption DEF Statuses, StatusMap, View, SeenJob

(* The statuses of run r in jobs J, and whether N counts no retry of it.      *)
StatusesOf(J, r) == [j \in JobId |-> J[r][j].status]

Unreset(N, r) == \A j \in JobId : N[r][j] = 0

LEMMA LedgerStatusesIsMap ==
  ASSUME NEW J \in [Run -> [JobId -> Job]], NEW r \in Run
  PROVE  /\ StatusesOf(J, r) \in StatusMap
         /\ \A j \in JobId : StatusesOf(J, r)[j] = J[r][j].status
<1>1. \A j \in JobId : J[r][j] \in Job
  OBVIOUS
<1> QED BY <1>1, EngineAssumption DEF StatusesOf, StatusMap, Job

(***************************************************************************)
(* A copy that is true of the ledger, though it may be old: a token in it    *)
(* was handed out for that job and the job was pending; as long as nobody    *)
(* retried the run, what it shows as settled still is, and a job it shows in *)
(* flight had its needs.                                                    *)
(***************************************************************************)
CopyIn(J, N, r, view) ==
  \A j \in JobId :
    /\ view[j].attempt # NoAttempt =>
         view[j].attempt \in Claims(J[r][j]) /\ view[j].status = "pending"
    /\ Unreset(N, r) =>
         /\ IsTerminal(view[j].status) => J[r][j].status = view[j].status
         /\ view[j].attempt # NoAttempt => Ready(j, Statuses(view))

HeldIsReady(J, N) ==
  \A r \in Run, j \in JobId :
    Unreset(N, r) /\ J[r][j].attempt # NoAttempt => Ready(j, StatusesOf(J, r))

(* Where a process is, it has what that step needs.                         *)
InCall(me) == me.pc \in {"plugin", "launched"}

InShape(me) ==
  /\ me.pc \notin {"idle", "open"} => me.run \in Run
  /\ me.pc \in {"reconcile", "refresh", "plugin", "launched", "reread", "record"} => me.left # {}
  /\ me.pc = "open" \/ me.mode = "supersede" => me.target \in Run
  /\ me.pc = "record" /\ me.doubt => me.view[First(me.left)].status = "started"

Faithful(J, N, me) ==
  /\ me \in Activity /\ InShape(me)
  /\ me.run \in Run => CopyIn(J, N, me.run, me.view)
  /\ \A o \in me.others : CopyIn(J, N, o.run, o.view)
  /\ InCall(me) => me.attempt \in Claims(J[me.run][First(me.left)])

CopiesInv ==
  /\ IInv
  /\ EngineTypeOK
  /\ \A p \in Process : Faithful(jobs, resets, proc[p])
  /\ HeldIsReady(jobs, resets)

(* What is read from the ledger is a faithful copy at that moment.           *)
LEMMA StoredIsFaithful ==
  ASSUME NEW J \in [Run -> [JobId -> Job]], NEW N, HeldIsReady(J, N), NEW r \in Run,
         \A j \in JobId : TokenBacked(J[r][j])
  PROVE  Copy(J[r]) \in View /\ CopyIn(J, N, r, Copy(J[r]))
<1> DEFINE view == Copy(J[r])
<1>1. /\ view \in View
      /\ \A j \in JobId : view[j].status = J[r][j].status /\ view[j].attempt = J[r][j].attempt
      /\ Statuses(view) = StatusesOf(J, r)
  BY CopyIsView DEF StatusesOf
<1> HIDE DEF view
<1>2. ASSUME NEW j \in JobId, view[j].attempt # NoAttempt
      PROVE  view[j].attempt \in Claims(J[r][j]) /\ view[j].status = "pending"
  <2>1. J[r][j] \in Job /\ Held(J[r][j]) /\ TokenBacked(J[r][j])
    BY <1>1, <1>2 DEF Held
  <2>2. /\ J[r][j].history # << >> /\ J[r][j].status = "pending"
        /\ J[r][j].history[Len(J[r][j].history)].attempt = J[r][j].attempt
    BY <2>1 DEF TokenBacked, LastEntry
  <2>3. Len(J[r][j].history) \in DOMAIN J[r][j].history
    <3>1. J[r][j].history \in Seq(Entry)
      BY <2>1, TrailOfJob
    <3> QED BY <2>2, <3>1
  <2> QED BY <1>1, <2>2, <2>3 DEF Claims
<1>3. ASSUME NEW j \in JobId, Unreset(N, r), view[j].attempt # NoAttempt
      PROVE  Ready(j, Statuses(view))
  BY <1>1, <1>3 DEF HeldIsReady
<1>4. CopyIn(J, N, r, view)
  BY <1>1, <1>2, <1>3 DEF CopyIn
<1> QED BY <1>1, <1>4 DEF view

-----------------------------------------------------------------------------
(***************************************************************************)
(* What any step of the ledger, by whomever, does to the copies.            *)
(***************************************************************************)
LEMMA TokensStay ==
  ASSUME IInv, [Next]_vars, NEW r \in Run, NEW j \in JobId
  PROVE  Claims(jobs[r][j]) \subseteq Claims(jobs'[r][j])
<1>1. JobMove(r, j) /\ jobs[r][j] \in Job
  BY StepIsJobMoves DEF IInv, TypeOK
<1>2. ASSUME NEW l \in {"none", "live", "lapsed"}, jobs'[r][j] = [jobs[r][j] EXCEPT !.lease = l]
      PROVE  Claims(jobs'[r][j]) = Claims(jobs[r][j])
  BY <1>1, <1>2 DEF Job, Claims
<1>3. ASSUME NEW t \in Transition, UpdateAccepted(jobs[r][j], t)
      PROVE  Claims(Updated(jobs[r][j], t)) = Claims(jobs[r][j])
  <2>1. /\ t.status \in JobStatus /\ t.handle \in Attempt \union {NoAttempt}
        /\ t.attention \in {"keep", "set", "clear"}
    BY DEF Transition
  <2> QED BY <1>1, <1>3, <2>1, UpdateKeepsTokens
<1>4. /\ \A a \in Attempt : Claims(jobs[r][j]) \subseteq Claims(Claimed(jobs[r][j], a))
      /\ Claims(Flagged(jobs[r][j])) = Claims(jobs[r][j])
      /\ Claims(Reset(jobs[r][j])) = Claims(jobs[r][j])
  BY <1>1, ClaimAddsToken, FlagKeepsTokens, ResetKeepsTokens
<1> QED BY <1>1, <1>2, <1>3, <1>4 DEF JobMove

LEMMA RetriesGrow ==
  ASSUME IInv, [Next]_vars, NEW r \in Run, NEW j \in JobId
  PROVE  /\ resets[r][j] \in Nat /\ resets'[r][j] \in Nat
         /\ resets'[r][j] = resets[r][j] \/ resets'[r][j] = resets[r][j] + 1
<1>1. JobMove(r, j) /\ resets[r][j] \in Nat
  BY StepIsJobMoves DEF IInv, TypeOK
<1> QED BY <1>1 DEF JobMove

LEMMA UnresetBefore ==
  ASSUME IInv, [Next]_vars, NEW r \in Run, Unreset(resets', r)
  PROVE  Unreset(resets, r) /\ \A j \in JobId : resets'[r][j] = resets[r][j]
<1>1. \A j \in JobId : resets'[r][j] = 0
  BY DEF Unreset
<1>2. \A j \in JobId : resets[r][j] = 0
  BY <1>1, RetriesGrow
<1> QED BY <1>1, <1>2 DEF Unreset

LEMMA SettledStatusStays ==
  ASSUME IInv, [Next]_vars, NEW r \in Run, NEW j \in JobId,
         resets'[r][j] = resets[r][j], IsTerminal(jobs[r][j].status)
  PROVE  jobs'[r][j] = jobs[r][j]
<1>1. resets[r][j] \in Nat
  BY RetriesGrow
<1> QED BY <1>1, SettledIsLeft

LEMMA LedgerMovesLater ==
  ASSUME IInv, [Next]_vars, NEW r \in Run, Unreset(resets', r)
  PROVE  /\ StatusesOf(jobs, r) \in StatusMap /\ StatusesOf(jobs', r) \in StatusMap
         /\ Later(StatusesOf(jobs, r), StatusesOf(jobs', r))
<1>1. jobs \in [Run -> [JobId -> Job]] /\ jobs' \in [Run -> [JobId -> Job]]
  BY NextIInv DEF IInv, TypeOK
<1>2. \A j \in JobId : IsTerminal(jobs[r][j].status) => jobs'[r][j].status = jobs[r][j].status
  BY UnresetBefore, SettledStatusStays
<1>3. /\ StatusesOf(jobs, r) \in StatusMap
      /\ \A j \in JobId : StatusesOf(jobs, r)[j] = jobs[r][j].status
  BY <1>1, LedgerStatusesIsMap
<1>4. /\ StatusesOf(jobs', r) \in StatusMap
      /\ \A j \in JobId : StatusesOf(jobs', r)[j] = jobs'[r][j].status
  <2> DEFINE J == jobs'
  <2>1. J \in [Run -> [JobId -> Job]]
    BY <1>1
  <2> HIDE DEF J
  <2>2. /\ StatusesOf(J, r) \in StatusMap
        /\ \A j \in JobId : StatusesOf(J, r)[j] = J[r][j].status
    BY <2>1, LedgerStatusesIsMap
  <2> QED BY <2>2 DEF J
<1>5. JobId = DagJob
  BY EngineAssumption
<1> QED BY <1>2, <1>3, <1>4, <1>5 DEF Later

LEMMA LedgerKeepsCopy ==
  ASSUME IInv, [Next]_vars, NEW r \in Run, NEW view \in View,
         CopyIn(jobs, resets, r, view)
  PROVE  CopyIn(jobs', resets', r, view)
<1>1. ASSUME NEW j \in JobId, view[j].attempt # NoAttempt
      PROVE  view[j].attempt \in Claims(jobs'[r][j]) /\ view[j].status = "pending"
  BY <1>1, TokensStay DEF CopyIn
<1>2. ASSUME NEW j \in JobId, Unreset(resets', r), IsTerminal(view[j].status)
      PROVE  jobs'[r][j].status = view[j].status
  BY <1>2, UnresetBefore, SettledStatusStays DEF CopyIn
<1>3. ASSUME NEW j \in JobId, Unreset(resets', r), view[j].attempt # NoAttempt
      PROVE  Ready(j, Statuses(view))
  BY <1>3, UnresetBefore DEF CopyIn
<1> QED BY <1>1, <1>2, <1>3 DEF CopyIn

LEMMA LedgerKeepsFaithful ==
  ASSUME IInv, [Next]_vars, NEW me, Faithful(jobs, resets, me)
  PROVE  Faithful(jobs', resets', me)
<1>1. me \in Activity /\ InShape(me)
  BY DEF Faithful
<1>2. me.view \in View /\ \A o \in me.others : o.run \in Run /\ o.view \in View
  BY <1>1 DEF Activity
<1>3. me.run \in Run => CopyIn(jobs', resets', me.run, me.view)
  BY <1>2, LedgerKeepsCopy DEF Faithful
<1>4. \A o \in me.others : CopyIn(jobs', resets', o.run, o.view)
  BY <1>2, LedgerKeepsCopy DEF Faithful
<1>5. InCall(me) => me.attempt \in Claims(jobs'[me.run][First(me.left)])
  <2> SUFFICES ASSUME InCall(me)
               PROVE  me.attempt \in Claims(jobs'[me.run][First(me.left)])
    OBVIOUS
  <2>1. me.run \in Run /\ me.left # {} /\ me.left \in SUBSET JobId
    BY <1>1 DEF InCall, InShape, Activity
  <2>2. First(me.left) \in JobId
    BY <2>1, FirstIsMember
  <2> QED BY <2>1, <2>2, TokensStay DEF Faithful
<1> QED BY <1>1, <1>3, <1>4, <1>5 DEF Faithful

(* A job stays ready once it was claimed ready.                             *)
LEMMA ReadinessKept ==
  ASSUME IInv, [Next]_vars, HeldIsReady(jobs, resets),
         \A r \in Run, j \in JobId :
           /\ Unreset(resets', r)
           /\ jobs[r][j].attempt = NoAttempt
           /\ jobs'[r][j].attempt # NoAttempt
           => Ready(j, StatusesOf(jobs, r))
  PROVE  HeldIsReady(jobs', resets')
<1> SUFFICES ASSUME NEW r \in Run, NEW j \in JobId,
                    Unreset(resets', r), jobs'[r][j].attempt # NoAttempt,
                    Steady(j)
             PROVE  Allowed(j, StatusesOf(jobs', r))
  BY DEF HeldIsReady, Ready
<1>1. Ready(j, StatusesOf(jobs, r))
  BY UnresetBefore DEF HeldIsReady
<1> QED BY <1>1, LedgerMovesLater, AllowedIsFinal, EngineAssumption DEF Ready

-----------------------------------------------------------------------------
(* The records a process moves through.                                      *)
LEMMA IdleIsFaithful ==
  ASSUME NEW J, NEW N
  PROVE  /\ Idle \in Activity /\ Idle.pc = "idle" /\ Idle.run = NoRun /\ Idle.mode = "none"
         /\ Idle.others = {} /\ Idle.left = {} /\ Idle.view \in View
         /\ Idle.target = NoRun /\ Idle.doubt = FALSE /\ Idle.unsure = FALSE
         /\ Idle.attempt = NoAttempt
         /\ Faithful(J, N, Idle)
<1>1. NewJob \in Job
  BY NewJobOK
<1>2. Copy([j \in JobId |-> NewJob]) \in View
  BY <1>1, CopyIsView
<1>3. /\ Idle \in Activity /\ Idle.pc = "idle" /\ Idle.run = NoRun /\ Idle.mode = "none"
      /\ Idle.others = {} /\ Idle.left = {} /\ Idle.view \in View
      /\ Idle.target = NoRun /\ Idle.doubt = FALSE /\ Idle.unsure = FALSE
      /\ Idle.attempt = NoAttempt
  BY <1>2 DEF Idle, Activity, Mode
<1>4. InShape(Idle)
  BY <1>3 DEF InShape
<1> QED BY <1>3, <1>4, EngineAssumption DEF Faithful, InCall

LEMMA NextActivity ==
  ASSUME NEW J, NEW N, NEW old, Faithful(J, N, old), old.run \in Run,
         NEW me \in Activity,
         me.run = old.run, me.target = old.target, me.others = old.others,
         me.mode = "supersede" => old.mode = "supersede",
         me.pc # "open",
         me.pc \in {"reconcile", "refresh", "plugin", "launched", "reread", "record"} => me.left # {},
         me.pc = "record" /\ me.doubt => me.view[First(me.left)].status = "started",
         CopyIn(J, N, old.run, me.view),
         InCall(me) => me.attempt \in Claims(J[old.run][First(me.left)])
  PROVE  Faithful(J, N, me)
<1>1. InShape(me)
  BY DEF Faithful, InShape
<1> QED BY <1>1 DEF Faithful

LEMMA RefreshingIsFaithful ==
  ASSUME NEW J, NEW N, NEW me, Faithful(J, N, me), me.run \in Run,
         NEW view \in View, CopyIn(J, N, me.run, view)
  PROVE  Faithful(J, N, Refreshing(me, view)) /\ ~InCall(Refreshing(me, view))
<1> DEFINE new == Refreshing(me, view)
<1>1. me \in Activity
  BY DEF Faithful
<1>2. Launches \in SUBSET JobId
  BY DEF Launches
<1>3. /\ new \in Activity
      /\ new.run = me.run /\ new.target = me.target /\ new.others = me.others
      /\ new.mode = me.mode /\ new.view = view
      /\ new.pc \in {"jobs", "refresh"}
      /\ new.pc = "refresh" => new.left # {}
  BY <1>1, <1>2 DEF Refreshing, Activity
<1> HIDE DEF new
<1>4. Faithful(J, N, new)
  BY <1>3, NextActivity DEF InCall
<1> QED BY <1>3, <1>4 DEF new, InCall

LEMMA AdvancingIsFaithful ==
  ASSUME NEW J, NEW N, NEW r \in Run, NEW view \in View, CopyIn(J, N, r, view)
  PROVE  Faithful(J, N, Advancing(r, view)) /\ ~InCall(Advancing(r, view))
<1> DEFINE me == [Idle EXCEPT !.run = r, !.view = view]
           new == [me EXCEPT !.pc = "reconcile", !.left = Observable(view)]
<1>1. /\ me \in Activity /\ me.run = r /\ me.view = view /\ me.mode = "none"
      /\ me.others = {} /\ me.pc = "idle"
  BY IdleIsFaithful DEF Activity
<1> HIDE DEF me
<1>2. Faithful(J, N, me)
  BY <1>1 DEF Faithful, InShape, InCall
<1>3. Observable(view) \in SUBSET JobId
  BY DEF Observable
<1>4. /\ new \in Activity /\ new.run = me.run /\ new.target = me.target
      /\ new.others = me.others /\ new.mode = me.mode /\ new.view = view
      /\ new.pc = "reconcile" /\ new.left = Observable(view)
  BY <1>1, <1>3 DEF Activity
<1> HIDE DEF new
<1>5. Observable(view) # {} => Faithful(J, N, new) /\ ~InCall(new)
  BY <1>1, <1>2, <1>4, NextActivity DEF InCall
<1>6. Faithful(J, N, Refreshing(me, view)) /\ ~InCall(Refreshing(me, view))
  BY <1>1, <1>2, RefreshingIsFaithful
<1> QED BY <1>5, <1>6 DEF Advancing, me, new

LEMMA CancellingIsFaithful ==
  ASSUME NEW J, NEW N, NEW me \in Activity, me.mode = "supersede" => me.target \in Run,
         \A o \in me.others : CopyIn(J, N, o.run, o.view),
         NEW r \in Run, NEW view \in View, CopyIn(J, N, r, view),
         NEW mode \in Mode, mode = "supersede" => me.target \in Run
  PROVE  Faithful(J, N, Cancelling(me, r, view, mode)) /\ ~InCall(Cancelling(me, r, view, mode))
<1> DEFINE new == Cancelling(me, r, view, mode)
<1>1. /\ new \in Activity /\ new.run = r /\ new.view = view /\ new.mode = mode
      /\ new.target = me.target /\ new.others = me.others /\ new.pc = "cancel"
  BY DEF Cancelling, Activity
<1> HIDE DEF new
<1>2. InShape(new)
  BY <1>1 DEF InShape
<1>3. Faithful(J, N, new) /\ ~InCall(new)
  BY <1>1, <1>2 DEF Faithful, InCall
<1> QED BY <1>3 DEF new

-----------------------------------------------------------------------------
(***************************************************************************)
(* What the engine sends is what the ledger expects: its tokens were read     *)
(* from the job they are sent to.                                           *)
(***************************************************************************)
LEMMA SentByToken ==
  ASSUME NEW r \in Run, NEW j \in JobId, NEW k, k = NoAttempt \/ k \in Claims(jobs[r][j]),
         NEW t \in CatchFailure(k) \union Settle(k) \union CancelJob(k)
  PROVE  t \in TransitionsSent(r, j)
<1>1. k \in TokensRead(r, j)
  BY DEF TokensRead, Claims
<1> QED BY <1>1 DEF TransitionsSent

LEMMA SentByOwner ==
  ASSUME NEW r \in Run, NEW j \in JobId, NEW a \in Claims(jobs[r][j]), a # NoAttempt,
         NEW t \in FinishJob(a) \union FinishUncertain(a)
  PROVE  t \in TransitionsSent(r, j)
<1>1. a \in TokensRead(r, j) \ {NoAttempt}
  BY DEF TokensRead, Claims
<1> QED BY <1>1 DEF TransitionsSent

LEMMA SentByAnyone ==
  ASSUME NEW r \in Run, NEW j \in JobId,
         NEW t \in RevisionHold \union RefreshJob \union ReconcileJob
  PROVE  t \in TransitionsSent(r, j)
BY DEF TransitionsSent

(* An update says nothing of other jobs, and hands out no token.             *)
LEMMA UpdateAlone ==
  ASSUME CopiesInv, NEW r \in Run, NEW j \in JobId, NEW t \in TransitionsSent(r, j),
         UpdateWorkflowJob(r, j, t)
  PROVE  /\ Next
         /\ UNCHANGED <<status, resets, reopened>>
         /\ Running(r) /\ UpdateAccepted(jobs[r][j], t)
         /\ jobs' = [jobs EXCEPT ![r][j] = Updated(jobs[r][j], t)]
         /\ jobs'[r] = [jobs[r] EXCEPT ![j] = Updated(jobs[r][j], t)]
         /\ jobs'[r][j] = Updated(jobs[r][j], t)
         /\ jobs'[r][j].attempt = NoAttempt /\ jobs'[r][j].status = t.status
         /\ \A q \in Run, k \in JobId : q # r \/ k # j => jobs'[q][k] = jobs[q][k]
<1>1. Next
  BY DEF Next, JobStep
<1>2. jobs \in [Run -> [JobId -> Job]]
  BY DEF CopiesInv, IInv, TypeOK
<1>3. /\ Running(r) /\ UpdateAccepted(jobs[r][j], t)
      /\ jobs' = [jobs EXCEPT ![r][j] = Updated(jobs[r][j], t)]
      /\ UNCHANGED <<status, resets, reopened>>
  BY DEF UpdateWorkflowJob, SaveJob
<1>4. /\ Updated(jobs[r][j], t).attempt = NoAttempt
      /\ Updated(jobs[r][j], t).status = t.status
  BY <1>3 DEF Updated, Merged, TokenAfter, UpdateAccepted
<1>5. /\ jobs'[r] = [jobs[r] EXCEPT ![j] = Updated(jobs[r][j], t)]
      /\ jobs'[r][j] = Updated(jobs[r][j], t)
      /\ \A q \in Run, k \in JobId : q # r \/ k # j => jobs'[q][k] = jobs[q][k]
  BY <1>2, <1>3
<1> QED BY <1>1, <1>3, <1>4, <1>5

LEMMA SendIsFaithful ==
  ASSUME CopiesInv, NEW r \in Run, NEW j \in JobId, NEW t \in TransitionsSent(r, j),
         Send(r, j, t), NEW view \in View, CopyIn(jobs, resets, r, view)
  PROVE  /\ [Next]_vars
         /\ HeldIsReady(jobs', resets')
         /\ Received(view, r, j, t) \in View
         /\ CopyIn(jobs', resets', r, Received(view, r, j, t))
<1>1. CASE UpdateWorkflowJob(r, j, t)
  <2>1. /\ Next /\ Running(r) /\ UpdateAccepted(jobs[r][j], t)
        /\ jobs'[r] = [jobs[r] EXCEPT ![j] = Updated(jobs[r][j], t)]
        /\ jobs'[r][j].attempt = NoAttempt
        /\ \A q \in Run, k \in JobId : q # r \/ k # j => jobs'[q][k] = jobs[q][k]
    BY <1>1, UpdateAlone
  <2>2. HeldIsReady(jobs', resets')
    BY <2>1, ReadinessKept DEF CopiesInv
  <2>3. IInv'
    BY <2>1, NextIInv DEF CopiesInv
  <2>4. /\ jobs' \in [Run -> [JobId -> Job]]
        /\ \A k \in JobId : TokenBacked(jobs'[r][k])
    BY <2>3 DEF IInv, TypeOK, WellOwned
  <2>5. Copy(jobs'[r]) \in View /\ CopyIn(jobs', resets', r, Copy(jobs'[r]))
    BY <2>2, <2>4, StoredIsFaithful
  <2>6. Received(view, r, j, t) = Copy(jobs'[r])
    BY <2>1 DEF Received, Accepted
  <2> QED BY <2>1, <2>2, <2>5, <2>6
<1>2. CASE ~Accepted(r, j, t) /\ UNCHANGED vars
  <2>1. Received(view, r, j, t) = view
    BY <1>2 DEF Received
  <2>2. jobs' = jobs /\ resets' = resets
    BY <1>2 DEF vars
  <2>3. HeldIsReady(jobs', resets')
    BY <2>2 DEF CopiesInv
  <2> QED BY <1>2, <2>1, <2>2, <2>3
<1> QED BY <1>1, <1>2 DEF Send

-----------------------------------------------------------------------------
(***************************************************************************)
(* STEPS.  Each step of a process p, which turns its record into me, is a    *)
(* step of the ledger and leaves me true of it; and towards the jobs it      *)
(* does one of three things: nothing but flags, leases and retries (Quiet),  *)
(* a claim by a process that found the job allowed (Begins), or one report   *)
(* that the process is entitled to (Warranted).                             *)
(***************************************************************************)
Undisturbed(r, j) ==
  /\ Len(jobs'[r][j].history) = Len(jobs[r][j].history)
  /\ jobs'[r][j].status \in {jobs[r][j].status, "pending"}
  /\ \/ resets'[r][j] # resets[r][j]
     \/ /\ jobs'[r][j].attempt = jobs[r][j].attempt
        /\ jobs'[r][j].status = jobs[r][j].status
        /\ jobs[r][j].attention => jobs'[r][j].attention

Quiet == \A r \in Run, j \in JobId : Undisturbed(r, j)

Report(r, j, t) ==
  /\ UpdateAccepted(jobs[r][j], t)
  /\ jobs'[r][j] = Updated(jobs[r][j], t)
  /\ \A q \in Run, k \in JobId : q # r \/ k # j => jobs'[q][k] = jobs[q][k]
  /\ resets' = resets

AtAJob(p) == proc[p].pc \notin {"idle", "open"} /\ proc[p].left # {}

CallKept(old, me) ==
  InCall(me) => /\ InCall(old)
                /\ me.run = old.run /\ me.left = old.left /\ me.attempt = old.attempt

Begins(p, me) ==
  /\ AtAJob(p) /\ ~InCall(proc[p]) /\ InCall(me)
  /\ me.run = proc[p].run /\ me.left = proc[p].left /\ me.attempt \in Attempt
  /\ MayRun(Current(p), Situation(p))
  /\ Claimable(jobs[proc[p].run][Current(p)])
  /\ jobs'[proc[p].run][Current(p)] = Claimed(jobs[proc[p].run][Current(p)], me.attempt)
  /\ \A q \in Run, k \in JobId :
       q # proc[p].run \/ k # Current(p) => jobs'[q][k] = jobs[q][k]
  /\ resets' = resets

(* By a fence no attempt has, by a verdict, by its own call, by cancelling.   *)
Warranted(p, me, t) ==
  \/ ~InCall(proc[p]) /\ t.expected \notin Attempt /\ t.status # "omitted"
  \/ /\ ~InCall(proc[p])
     /\ AtAJob(p) /\ t.expected = proc[p].view[Current(p)].attempt
     /\ \/ t.status = "omitted" /\ Omit(Current(p), Situation(p))
        \/ t.status = "skipped" /\ Skip(Current(p), Situation(p))
  \/ InCall(proc[p]) /\ t.expected = proc[p].attempt /\ t.status # "omitted"
  \/ /\ At(p, "record") /\ me # proc[p]
     /\ IsTerminal(t.status) \/ t.expected \notin Attempt

Interrupts(p, me) ==
  \/ interrupted' = interrupted
  \/ /\ InCall(proc[p]) /\ ~InCall(me)
     /\ interrupted' = interrupted \union {CallOf(p)}
     /\ \/ Quiet
        \/ Report(proc[p].run, Current(p), Uncertain(proc[p].attempt))

Advances(p, me) ==
  /\ [Next]_vars
  /\ HeldIsReady(jobs', resets')
  /\ proc' = [proc EXCEPT ![p] = me]
  /\ Faithful(jobs', resets', me)
  /\ \/ Quiet /\ CallKept(proc[p], me)
     \/ Begins(p, me)
     \/ /\ ~InCall(me)
        /\ \E t \in Transition : Report(proc[p].run, Current(p), t) /\ Warranted(p, me, t)
  /\ Interrupts(p, me)

LEMMA AtWork ==
  ASSUME CopiesInv, NEW p \in Process
  PROVE  /\ proc[p] \in Activity /\ InShape(proc[p]) /\ Faithful(jobs, resets, proc[p])
         /\ proc[p].view \in View /\ proc[p].left \in SUBSET JobId
         /\ proc[p].pc \notin {"idle", "open"} =>
              /\ proc[p].run \in Run
              /\ CopyIn(jobs, resets, proc[p].run, proc[p].view)
         /\ proc[p].left # {} => Current(p) \in JobId /\ Current(p) \in proc[p].left
         /\ Situation(p) \in StatusMap
         /\ \A j \in JobId : Situation(p)[j] = proc[p].view[j].status
<1>1. proc[p] \in Activity /\ InShape(proc[p]) /\ Faithful(jobs, resets, proc[p])
  BY DEF CopiesInv, Faithful
<1>2. proc[p].view \in View /\ proc[p].left \in SUBSET JobId
  BY <1>1 DEF Activity
<1>3. proc[p].left # {} => Current(p) \in JobId /\ Current(p) \in proc[p].left
  BY <1>2, FirstIsMember DEF Current
<1>4. /\ Situation(p) \in StatusMap
      /\ \A j \in JobId : Situation(p)[j] = proc[p].view[j].status
  BY <1>2, StatusesIsMap DEF Situation
<1>5. proc[p].pc \notin {"idle", "open"} =>
        proc[p].run \in Run /\ CopyIn(jobs, resets, proc[p].run, proc[p].view)
  BY <1>1 DEF InShape, Faithful
<1> QED BY <1>1, <1>2, <1>3, <1>4, <1>5

(* What p reads from the ledger now.                                        *)
LEMMA LedgerIsFaithful ==
  ASSUME CopiesInv, NEW r \in Run
  PROVE  Stored(r) \in View /\ CopyIn(jobs, resets, r, Stored(r))
<1>1. jobs \in [Run -> [JobId -> Job]] /\ \A j \in JobId : TokenBacked(jobs[r][j])
  BY DEF CopiesInv, IInv, TypeOK, WellOwned
<1> QED BY <1>1, StoredIsFaithful DEF CopiesInv, Stored

(* A step that only reads, or that writes no job.                           *)
LEMMA ReadingIsQuiet ==
  ASSUME CopiesInv, [Next]_vars, jobs' = jobs, resets' = resets
  PROVE  /\ HeldIsReady(jobs', resets')
         /\ Quiet
         /\ \A me : Faithful(jobs, resets, me) => Faithful(jobs', resets', me)
<1>1. HeldIsReady(jobs', resets')
  BY DEF CopiesInv
<1>2. Quiet
  BY DEF Quiet, Undisturbed
<1> QED BY <1>1, <1>2

LEMMA Reads ==
  ASSUME CopiesInv, NEW p \in Process, NEW me, [Next]_vars, jobs' = jobs, resets' = resets,
         proc' = [proc EXCEPT ![p] = me],
         Faithful(jobs, resets, me), CallKept(proc[p], me), interrupted' = interrupted
  PROVE  Advances(p, me)
BY ReadingIsQuiet DEF Advances, Interrupts

LEMMA SendIsReport ==
  ASSUME CopiesInv, NEW r \in Run, NEW j \in JobId, NEW t \in TransitionsSent(r, j), Send(r, j, t)
  PROVE  t \in Transition /\ (Quiet \/ Report(r, j, t))
<1>1. t \in Transition
  BY SentIsSendable DEF CopiesInv, IInv, Sendable
<1>2. CASE UpdateWorkflowJob(r, j, t)
  <2>0. UpdateAccepted(jobs[r][j], t)
    BY <1>2 DEF UpdateWorkflowJob
  <2>1. jobs'[r][j] = Updated(jobs[r][j], t)
    <3>1. jobs \in [Run -> [JobId -> Job]]
      BY DEF CopiesInv, IInv, TypeOK
    <3> QED BY <1>2, <3>1 DEF UpdateWorkflowJob, SaveJob
  <2>2. \A q \in Run, k \in JobId : q # r \/ k # j => jobs'[q][k] = jobs[q][k]
    BY <1>2, UpdateAlone
  <2>3. resets' = resets
    BY <1>2 DEF UpdateWorkflowJob
  <2> QED BY <1>1, <2>0, <2>1, <2>2, <2>3 DEF Report
<1>3. CASE UNCHANGED vars
  BY <1>1, <1>3 DEF vars, Quiet, Undisturbed
<1> QED BY <1>2, <1>3 DEF Send

(* The record Onward leaves.                                                 *)
Moved(old, pc, view) ==
  [old EXCEPT !.pc = pc, !.view = view, !.left = Rest(@), !.attempt = NoAttempt, !.doubt = FALSE]

LEMMA OnwardIsFaithful ==
  ASSUME NEW J, NEW N, NEW old, Faithful(J, N, old), old.run \in Run,
         NEW pc \in {"jobs", "reconcile"}, pc = "reconcile" => Rest(old.left) # {},
         NEW view \in View, CopyIn(J, N, old.run, view)
  PROVE  /\ Faithful(J, N, Moved(old, pc, view))
         /\ Moved(old, pc, view).pc = pc /\ ~InCall(Moved(old, pc, view))
<1> DEFINE me == Moved(old, pc, view)
<1>1. old \in Activity /\ Rest(old.left) \in SUBSET JobId
  BY RestIsJobs DEF Faithful, Activity
<1>2. /\ me \in Activity
      /\ me.run = old.run /\ me.target = old.target /\ me.others = old.others
      /\ me.mode = old.mode /\ me.view = view /\ me.pc = pc /\ me.left = Rest(old.left)
  BY <1>1 DEF Moved, Activity
<1> HIDE DEF me
<1>3. Faithful(J, N, me) /\ me.pc = pc /\ ~InCall(me)
  BY <1>1, <1>2, NextActivity DEF InCall
<1> QED BY <1>3 DEF me

(***************************************************************************)
(* One report of p about its current job.                                   *)
(***************************************************************************)
LEMMA SendSees ==
  ASSUME CopiesInv, NEW p \in Process, AtAJob(p),
         NEW t \in TransitionsSent(proc[p].run, Current(p)),
         Send(proc[p].run, Current(p), t)
  PROVE  /\ proc[p].run \in Run /\ Current(p) \in JobId
         /\ [Next]_vars /\ HeldIsReady(jobs', resets')
         /\ Received(proc[p].view, proc[p].run, Current(p), t) \in View
         /\ CopyIn(jobs', resets', proc[p].run,
                   Received(proc[p].view, proc[p].run, Current(p), t))
         /\ t \in Transition /\ (Quiet \/ Report(proc[p].run, Current(p), t))
         /\ Faithful(jobs', resets', proc[p])
<1> DEFINE view == Received(proc[p].view, proc[p].run, Current(p), t)
<1>1. /\ proc[p].run \in Run /\ Current(p) \in JobId /\ proc[p].view \in View
      /\ CopyIn(jobs, resets, proc[p].run, proc[p].view)
      /\ Faithful(jobs, resets, proc[p])
  BY AtWork DEF AtAJob
<1>2. /\ [Next]_vars /\ HeldIsReady(jobs', resets')
      /\ view \in View /\ CopyIn(jobs', resets', proc[p].run, view)
  BY <1>1, SendIsFaithful
<1> HIDE DEF view
<1>3. t \in Transition /\ (Quiet \/ Report(proc[p].run, Current(p), t))
  BY <1>1, SendIsReport
<1>4. Faithful(jobs', resets', proc[p])
  BY <1>1, <1>2, LedgerKeepsFaithful DEF CopiesInv
<1> QED BY <1>1, <1>2, <1>3, <1>4 DEF view

LEMMA SendAdvances ==
  ASSUME CopiesInv, NEW p \in Process, AtAJob(p),
         NEW t \in TransitionsSent(proc[p].run, Current(p)),
         Send(proc[p].run, Current(p), t),
         NEW me, proc' = [proc EXCEPT ![p] = me],
         Faithful(jobs', resets', me), ~InCall(me), Warranted(p, me, t),
         \/ interrupted' = interrupted
         \/ /\ InCall(proc[p]) /\ t = Uncertain(proc[p].attempt)
            /\ interrupted' = interrupted \union {CallOf(p)}
  PROVE  Advances(p, me)
<1>1. /\ [Next]_vars /\ HeldIsReady(jobs', resets')
      /\ t \in Transition /\ (Quiet \/ Report(proc[p].run, Current(p), t))
  BY SendSees
<1>2. Interrupts(p, me)
  BY <1>1 DEF Interrupts
<1> QED BY <1>1, <1>2 DEF Advances, CallKept

LEMMA WriteAdvances ==
  ASSUME CopiesInv, NEW p \in Process, AtAJob(p),
         NEW t \in TransitionsSent(proc[p].run, Current(p)),
         Send(proc[p].run, Current(p), t),
         Onward(p, "jobs", Received(proc[p].view, proc[p].run, Current(p), t)),
         \A me : Warranted(p, me, t),
         \/ interrupted' = interrupted
         \/ /\ InCall(proc[p]) /\ t = Uncertain(proc[p].attempt)
            /\ interrupted' = interrupted \union {CallOf(p)}
  PROVE  \E me : Advances(p, me)
<1> DEFINE view == Received(proc[p].view, proc[p].run, Current(p), t)
           me == Moved(proc[p], "jobs", view)
<1>1. /\ proc[p].run \in Run
      /\ view \in View /\ CopyIn(jobs', resets', proc[p].run, view)
      /\ Faithful(jobs', resets', proc[p])
  BY SendSees
<1>2. proc' = [proc EXCEPT ![p] = me]
  BY DEF Onward, Become, Moved
<1> HIDE DEF view
<1>3. Faithful(jobs', resets', me) /\ ~InCall(me)
  BY <1>1, OnwardIsFaithful
<1> HIDE DEF me
<1>4. Advances(p, me)
  BY <1>2, <1>3, SendAdvances
<1> QED BY <1>4

-----------------------------------------------------------------------------
(* The steps, one lemma for each action of WorkflowEngine.                  *)
LEMMA ReconcileAdvances ==
  ASSUME CopiesInv, NEW p \in Process, Reconcile(p)
  PROVE  \E me : Advances(p, me)
<1> DEFINE view(t) == Received(proc[p].view, proc[p].run, Current(p), t)
<1>1. PICK t \in Observed :
        /\ Send(proc[p].run, Current(p), t)
        /\ IF Rest(proc[p].left) = {}
           THEN Become(p, Refreshing(proc[p], view(t)))
           ELSE Onward(p, "reconcile", view(t))
  BY DEF Reconcile
<1>2. AtAJob(p) /\ ~InCall(proc[p]) /\ interrupted' = interrupted
  BY DEF Reconcile, Turn, At, AtAJob, InCall, trail
<1>3. t \in ReconcileJob
  BY DEF Observed
<1>4. proc[p].run \in Run /\ Current(p) \in JobId
  BY <1>2, AtWork DEF AtAJob
<1>5. t \in TransitionsSent(proc[p].run, Current(p))
  BY <1>3, <1>4, SentByAnyone
<1>6. t.expected \notin Attempt /\ t.status # "omitted"
  BY <1>3, TokenAssumption DEF ReconcileJob, Patch
<1>7. \A me : Warranted(p, me, t)
  BY <1>2, <1>6 DEF Warranted
<1>8. /\ view(t) \in View /\ CopyIn(jobs', resets', proc[p].run, view(t))
      /\ Faithful(jobs', resets', proc[p])
  BY <1>1, <1>2, <1>5, SendSees
<1> DEFINE v == view(t)
<1> HIDE DEF v
<1>9. v = view(t)
  BY DEF v
<1> HIDE DEF view
<1>10. CASE Rest(proc[p].left) = {}
  <2> DEFINE me == Refreshing(proc[p], v)
  <2>1. proc' = [proc EXCEPT ![p] = me]
    BY <1>1, <1>9, <1>10 DEF Become
  <2>2. Faithful(jobs', resets', me) /\ ~InCall(me)
    BY <1>4, <1>8, <1>9, RefreshingIsFaithful
  <2> HIDE DEF me
  <2>3. Advances(p, me)
    BY <1>1, <1>2, <1>5, <1>7, <2>1, <2>2, SendAdvances
  <2> QED BY <2>3
<1>11. CASE Rest(proc[p].left) # {}
  <2> DEFINE me == Moved(proc[p], "reconcile", v)
  <2>1. proc' = [proc EXCEPT ![p] = me]
    BY <1>1, <1>9, <1>11 DEF Onward, Become, Moved
  <2>2. Faithful(jobs', resets', me) /\ ~InCall(me)
    BY <1>4, <1>8, <1>9, <1>11, OnwardIsFaithful
  <2> HIDE DEF me
  <2>3. Advances(p, me)
    BY <1>1, <1>2, <1>5, <1>7, <2>1, <2>2, SendAdvances
  <2> QED BY <2>3
<1> QED BY <1>10, <1>11

LEMMA RefreshAdvances ==
  ASSUME CopiesInv, NEW p \in Process, Refresh(p)
  PROVE  \E me : Advances(p, me)
<1> DEFINE r == proc[p].run
           j == Current(p)
           seen == proc[p].view[j]
           t == Patch(RefreshStatus(AgentOf(r, j)), seen.attempt, "keep", NoAttempt)
           old == proc[p]
<1>1. /\ AtAJob(p) /\ ~InCall(old) /\ interrupted' = interrupted
      /\ old.pc = "refresh" /\ old.left # {}
  BY DEF Refresh, Turn, At, AtAJob, InCall, trail
<1>2. /\ r \in Run /\ j \in JobId /\ old \in Activity /\ old.view \in View
      /\ CopyIn(jobs, resets, r, old.view) /\ Faithful(jobs, resets, old)
  BY <1>1, AtWork
<1>3. /\ Refreshed(p) \in Activity
      /\ Refreshed(p).run = old.run /\ Refreshed(p).target = old.target
      /\ Refreshed(p).others = old.others /\ Refreshed(p).mode = old.mode
      /\ Refreshed(p).view = old.view /\ Refreshed(p).pc \in {"jobs", "refresh"}
      /\ Refreshed(p).pc = "refresh" => Refreshed(p).left # {}
  BY <1>1, <1>2, RestIsJobs DEF Refreshed, Activity
<1>4. CASE seen.status = "started" /\ Handled(seen) /\ AgentOf(r, j) \notin {"none", "live"}
  <2> DEFINE view == Received(old.view, r, j, t)
             me == [Refreshed(p) EXCEPT !.view = view]
  <2>1. Send(r, j, t) /\ proc' = [proc EXCEPT ![p] = me]
    BY <1>3, <1>4 DEF Refresh, Become
  <2>2. seen.attempt = NoAttempt
    BY <1>2, <1>4 DEF CopyIn
  <2>3. t \in RefreshJob /\ t.expected \notin Attempt /\ t.status # "omitted"
    BY <2>2, TokenAssumption DEF RefreshJob, Patch, RefreshStatus
  <2> HIDE DEF t
  <2>4. t \in TransitionsSent(r, j)
    BY <1>2, <2>3, SentByAnyone
  <2>5. /\ view \in View /\ CopyIn(jobs', resets', r, view)
        /\ Faithful(jobs', resets', old)
    BY <1>1, <2>1, <2>4, SendSees
  <2> HIDE DEF view
  <2>6. /\ me \in Activity
        /\ me.run = old.run /\ me.target = old.target
        /\ me.others = old.others /\ me.mode = old.mode
        /\ me.view = view /\ me.pc \in {"jobs", "refresh"}
        /\ me.pc = "refresh" => me.left # {}
    BY <1>3, <2>5 DEF Activity
  <2> HIDE DEF me
  <2>7. Faithful(jobs', resets', me) /\ ~InCall(me)
    BY <1>2, <2>5, <2>6, NextActivity DEF InCall
  <2>8. Warranted(p, me, t)
    BY <1>1, <2>3 DEF Warranted
  <2>9. Advances(p, me)
    BY <1>1, <2>1, <2>4, <2>7, <2>8, SendAdvances
  <2> QED BY <2>9
<1>5. CASE ~(seen.status = "started" /\ Handled(seen) /\ AgentOf(r, j) \notin {"none", "live"})
  <2>1. proc' = [proc EXCEPT ![p] = Refreshed(p)] /\ UNCHANGED vars
    BY <1>5 DEF Refresh, Become
  <2>2. Faithful(jobs, resets, Refreshed(p)) /\ ~InCall(Refreshed(p))
    BY <1>2, <1>3, NextActivity DEF InCall
  <2>3. jobs' = jobs /\ resets' = resets
    BY <2>1 DEF vars
  <2>4. Advances(p, Refreshed(p))
    BY <1>1, <2>1, <2>2, <2>3, Reads DEF CallKept
  <2> QED BY <2>4
<1> QED BY <1>4, <1>5

(* Same run and copy, at another place.                                      *)
LEMMA ElsewhereIsFaithful ==
  ASSUME NEW J, NEW N, NEW old, Faithful(J, N, old), old.run \in Run,
         NEW me \in Activity,
         me.run = old.run, me.target = old.target, me.others = old.others,
         me.view = old.view, me.mode = old.mode \/ me.mode # "supersede",
         me.pc \in {"jobs", "cancel", "record", "sweep", "reread"},
         me.pc \in {"record", "reread"} => me.left # {},
         me.pc = "record" /\ me.doubt => me.view[First(me.left)].status = "started"
  PROVE  Faithful(J, N, me) /\ ~InCall(me)
<1>1. CopyIn(J, N, old.run, me.view)
  BY DEF Faithful
<1> QED BY <1>1, NextActivity DEF InCall

LEMMA ReadsOnward ==
  ASSUME CopiesInv, NEW p \in Process, proc[p].run \in Run,
         NEW view \in View, CopyIn(jobs, resets, proc[p].run, view),
         Onward(p, "jobs", view), UNCHANGED vars, interrupted' = interrupted
  PROVE  \E me : Advances(p, me)
<1> DEFINE me == Moved(proc[p], "jobs", view)
<1>1. Faithful(jobs, resets, proc[p])
  BY AtWork
<1>2. Faithful(jobs, resets, me) /\ ~InCall(me)
  BY <1>1, OnwardIsFaithful
<1>3. proc' = [proc EXCEPT ![p] = me]
  BY DEF Onward, Become, Moved
<1> HIDE DEF me
<1>4. jobs' = jobs /\ resets' = resets
  BY DEF vars
<1>5. Advances(p, me)
  BY <1>2, <1>3, <1>4, Reads DEF CallKept
<1> QED BY <1>5

LEMMA LoopReads ==
  ASSUME CopiesInv, NEW p \in Process,
         \/ Expire(p) \/ TimeOutJob(p) \/ Pass(p) \/ Abort(p) \/ LoseClaim(p) \/ Reread(p)
  PROVE  \E me : Advances(p, me)
<1> DEFINE old == proc[p]
<1>1. /\ UNCHANGED vars /\ interrupted' = interrupted
      /\ old.pc \notin {"idle", "open"}
  BY DEF Expire, TimeOutJob, Pass, Abort, LoseClaim, Reread, trail, Turn, JobTurn, Deciding,
         Executing, At
<1>2. /\ old.run \in Run /\ old \in Activity /\ old.view \in View
      /\ CopyIn(jobs, resets, old.run, old.view) /\ Faithful(jobs, resets, old)
  BY <1>1, AtWork
<1>3. jobs' = jobs /\ resets' = resets
  BY <1>1 DEF vars
<1>4. CASE Expire(p)
  <2> DEFINE me == Expiring(old)
  <2>1. /\ me \in Activity /\ me.run = old.run /\ me.target = old.target
        /\ me.others = old.others /\ me.view = old.view /\ me.mode = "expire"
        /\ me.pc = "cancel"
    BY <1>2 DEF Expiring, Activity, Mode
  <2>2. proc' = [proc EXCEPT ![p] = me]
    BY <1>4 DEF Expire, Become
  <2> HIDE DEF me
  <2>3. Faithful(jobs, resets, me) /\ ~InCall(me)
    BY <1>2, <2>1, ElsewhereIsFaithful
  <2>4. Advances(p, me)
    BY <1>1, <1>3, <2>2, <2>3, Reads DEF CallKept
  <2> QED BY <2>4
<1>5. CASE TimeOutJob(p)
  <2> DEFINE me == [old EXCEPT !.pc = "cancel", !.mode = "late"]
  <2>1. /\ me \in Activity /\ me.run = old.run /\ me.target = old.target
        /\ me.others = old.others /\ me.view = old.view /\ me.mode = "late"
        /\ me.pc = "cancel"
    BY <1>2 DEF Activity, Mode
  <2>2. proc' = [proc EXCEPT ![p] = me]
    BY <1>5 DEF TimeOutJob, Become
  <2> HIDE DEF me
  <2>3. Faithful(jobs, resets, me) /\ ~InCall(me)
    BY <1>2, <2>1, ElsewhereIsFaithful
  <2>4. Advances(p, me)
    BY <1>1, <1>3, <2>2, <2>3, Reads DEF CallKept
  <2> QED BY <2>4
<1>6. CASE Pass(p)
  BY <1>1, <1>2, <1>6, ReadsOnward DEF Pass
<1>7. CASE Abort(p)
  <2> DEFINE me == [old EXCEPT !.left = {}]
  <2>1. /\ me \in Activity /\ me.run = old.run /\ me.target = old.target
        /\ me.others = old.others /\ me.view = old.view /\ me.mode = old.mode
        /\ me.pc = "jobs"
    BY <1>2, <1>7 DEF Activity, Abort, Turn, At
  <2>2. proc' = [proc EXCEPT ![p] = me]
    BY <1>7 DEF Abort, Become
  <2> HIDE DEF me
  <2>3. Faithful(jobs, resets, me) /\ ~InCall(me)
    BY <1>2, <2>1, ElsewhereIsFaithful
  <2>4. Advances(p, me)
    BY <1>1, <1>3, <2>2, <2>3, Reads DEF CallKept
  <2> QED BY <2>4
<1>8. CASE LoseClaim(p)
  <2> DEFINE me == [old EXCEPT !.pc = "reread"]
  <2>1. /\ me \in Activity /\ me.run = old.run /\ me.target = old.target
        /\ me.others = old.others /\ me.view = old.view /\ me.mode = old.mode
        /\ me.pc = "reread" /\ me.left # {}
    BY <1>2, <1>8 DEF Activity, LoseClaim, Executing, Deciding, JobTurn, Turn
  <2>2. proc' = [proc EXCEPT ![p] = me]
    BY <1>8 DEF LoseClaim, Become
  <2> HIDE DEF me
  <2>3. Faithful(jobs, resets, me) /\ ~InCall(me)
    BY <1>2, <2>1, ElsewhereIsFaithful
  <2>4. Advances(p, me)
    BY <1>1, <1>3, <2>2, <2>3, Reads DEF CallKept
  <2> QED BY <2>4
<1>9. CASE Reread(p)
  <2>1. Stored(old.run) \in View /\ CopyIn(jobs, resets, old.run, Stored(old.run))
    BY <1>2, LedgerIsFaithful
  <2>2. Onward(p, "jobs", Stored(old.run))
    BY <1>9 DEF Reread
  <2> QED BY <1>1, <1>2, <2>1, <2>2, ReadsOnward
<1> QED BY <1>4, <1>5, <1>6, <1>7, <1>8, <1>9

LEMMA CancelReads ==
  ASSUME CopiesInv, NEW p \in Process, GiveUp(p) \/ LeaveOpen(p) \/ CancelEffect(p)
  PROVE  \E me : Advances(p, me)
<1> DEFINE old == proc[p]
<1>1. /\ UNCHANGED vars /\ interrupted' = interrupted
      /\ old.pc \notin {"idle", "open"}
  BY DEF GiveUp, LeaveOpen, CancelEffect, trail, Turn, LoopOver, At
<1>2. /\ old.run \in Run /\ old \in Activity /\ old.view \in View
      /\ CopyIn(jobs, resets, old.run, old.view) /\ Faithful(jobs, resets, old)
  BY <1>1, AtWork
<1>3. jobs' = jobs /\ resets' = resets
  BY <1>1 DEF vars
<1>4. CASE GiveUp(p) \/ LeaveOpen(p)
  <2>1. proc' = [proc EXCEPT ![p] = Idle]
    BY <1>4 DEF GiveUp, LeaveOpen, Become
  <2>2. Faithful(jobs, resets, Idle) /\ ~InCall(Idle)
    BY IdleIsFaithful DEF InCall
  <2>3. Advances(p, Idle)
    BY <1>1, <1>3, <2>1, <2>2, Reads DEF CallKept
  <2> QED BY <2>3
<1>5. CASE CancelEffect(p)
  <2> DEFINE me(doubt) == [old EXCEPT !.pc = "record", !.doubt = doubt]
  <2>1. PICK doubt \in BOOLEAN :
          /\ proc' = [proc EXCEPT ![p] = me(doubt)]
          /\ doubt => old.view[Current(p)].status = "started"
    BY <1>5 DEF CancelEffect, Become
  <2>2. old.left # {} /\ Current(p) = First(old.left)
    BY <1>5 DEF CancelEffect, Turn, Current
  <2> DEFINE new == me(doubt)
  <2>3. /\ new \in Activity /\ new.run = old.run /\ new.target = old.target
        /\ new.others = old.others /\ new.view = old.view /\ new.mode = old.mode
        /\ new.pc = "record" /\ new.left = old.left /\ new.doubt = doubt
    BY <1>2 DEF Activity
  <2>4. proc' = [proc EXCEPT ![p] = new]
    BY <2>1
  <2> HIDE DEF me, new
  <2>5. Faithful(jobs, resets, new) /\ ~InCall(new)
    BY <1>2, <2>1, <2>2, <2>3, ElsewhereIsFaithful
  <2>6. Advances(p, new)
    BY <1>1, <1>3, <2>4, <2>5, Reads DEF CallKept
  <2> QED BY <2>6
<1> QED BY <1>4, <1>5

(* A call holds the token of a claim of its job.                             *)
LEMMA CallHoldsToken ==
  ASSUME CopiesInv, NEW p \in Process, Calling(p)
  PROVE  /\ AtAJob(p) /\ InCall(proc[p])
         /\ proc[p].run \in Run /\ Current(p) \in JobId
         /\ proc[p].attempt \in Claims(jobs[proc[p].run][Current(p)])
         /\ proc[p].attempt \in Attempt /\ proc[p].attempt # NoAttempt
<1>1. InCall(proc[p]) /\ proc[p].pc \notin {"idle", "open"}
  BY DEF Calling, At, InCall
<1>2. /\ proc[p].run \in Run /\ InShape(proc[p]) /\ Faithful(jobs, resets, proc[p])
      /\ proc[p].left # {} => Current(p) \in JobId
  BY <1>1, AtWork
<1>3. proc[p].left # {}
  BY <1>1, <1>2 DEF InShape, InCall
<1>4. proc[p].attempt \in Claims(jobs[proc[p].run][Current(p)])
  BY <1>1, <1>2 DEF Faithful, Current
<1>5. jobs[proc[p].run][Current(p)] \in Job
  BY <1>2, <1>3 DEF CopiesInv, IInv, TypeOK
<1>6. Claims(jobs[proc[p].run][Current(p)]) \subseteq Attempt
  BY <1>5, TrailOfJob DEF Claims
<1> QED BY <1>1, <1>2, <1>3, <1>4, <1>6, TokenAssumption DEF AtAJob

LEMMA DecidingAt ==
  ASSUME CopiesInv, NEW p \in Process, Deciding(p)
  PROVE  /\ AtAJob(p) /\ ~InCall(proc[p])
         /\ proc[p].run \in Run /\ Current(p) \in JobId
         /\ CopyIn(jobs, resets, proc[p].run, proc[p].view)
<1>1. AtAJob(p) /\ ~InCall(proc[p])
  BY DEF Deciding, JobTurn, Turn, At, AtAJob, InCall
<1> QED BY <1>1, AtWork DEF AtAJob

LEMMA SettleJobAdvances ==
  ASSUME CopiesInv, NEW p \in Process, SettleJob(p)
  PROVE  \E me : Advances(p, me)
<1> DEFINE token == proc[p].view[Current(p)].attempt
<1>1. Deciding(p)
  BY DEF SettleJob
<1>2. PICK s \in {"omitted", "skipped"} :
        /\ Write(p, Patch(s, token, "keep", NoAttempt))
        /\ s = "omitted" => Omit(Current(p), Situation(p))
        /\ s = "skipped" => Skip(Current(p), Situation(p))
  BY DEF SettleJob
<1>3. token = NoAttempt \/ token \in Claims(jobs[proc[p].run][Current(p)])
  BY <1>1, DecidingAt DEF CopyIn
<1> DEFINE t == Patch(s, token, "keep", NoAttempt)
<1>4. t \in Settle(token) /\ t.expected = token /\ t.status = s
  BY DEF Settle, Patch
<1>5. Write(p, t)
  BY <1>2
<1> HIDE DEF t
<1>6. t \in TransitionsSent(proc[p].run, Current(p))
  BY <1>1, <1>3, <1>4, DecidingAt, SentByToken
<1>7. \A me : Warranted(p, me, t)
  BY <1>1, <1>2, <1>4, DecidingAt DEF Warranted
<1> QED BY <1>1, <1>5, <1>6, <1>7, DecidingAt, WriteAdvances DEF Write, trail

LEMMA HoldAdvances ==
  ASSUME CopiesInv, NEW p \in Process, HoldRevision(p) \/ FailInputs(p)
  PROVE  \E me : Advances(p, me)
<1>1. Deciding(p)
  BY DEF HoldRevision, FailInputs, Executing
<1>2. PICK t \in RevisionHold \union CatchFailure(NoAttempt) : Write(p, t)
  BY DEF HoldRevision, FailInputs
<1>3. t.expected \notin Attempt /\ t.status # "omitted"
  BY TokenAssumption DEF RevisionHold, CatchFailure, Patch
<1>4. t \in TransitionsSent(proc[p].run, Current(p))
  BY <1>1, <1>2, DecidingAt, SentByAnyone, SentByToken
<1>5. \A me : Warranted(p, me, t)
  BY <1>1, <1>3, DecidingAt DEF Warranted
<1> QED BY <1>1, <1>2, <1>4, <1>5, DecidingAt, WriteAdvances DEF Write, trail

LEMMA ResultIsReport ==
  ASSUME NEW p \in Process, Current(p) \in JobId, NEW a \in Attempt, NEW t \in Result(p, a)
  PROVE  t \in FinishJob(a)
<1>1. Outcomes \ {"started"} \subseteq {"succeeded", "skipped", "failed", "pending"}
  BY EngineAssumption
<1>2. Returned(a) \subseteq FinishJob(a)
  BY <1>1 DEF Returned, FinishJob
<1>3. Refusal(p, a) \subseteq FinishJob(a)
  BY DEF Refusal, FinishJob
<1>4. Patch("started", a, "keep", a) \in FinishJob(a)
  BY DEF FinishJob
<1>5. CallKind(p) \in {"plain", "operation", "launch"}
  BY EngineAssumption DEF CallKind
<1>6. CASE CallKind(p) = "plain"
  BY <1>2, <1>6 DEF Result
<1>7. CASE CallKind(p) = "operation"
  BY <1>2, <1>4, <1>7 DEF Result
<1>8. CASE CallKind(p) = "launch"
  BY <1>3, <1>4, <1>8 DEF Result
<1> QED BY <1>5, <1>6, <1>7, <1>8

LEMMA CallEndAdvances ==
  ASSUME CopiesInv, NEW p \in Process, FinishJobOf(p) \/ FailTargets(p) \/ PluginThrows(p)
  PROVE  \E me : Advances(p, me)
<1> DEFINE a == proc[p].attempt
<1>1. Calling(p)
  BY DEF FinishJobOf, FailTargets, PluginThrows, Calling
<1>2. /\ AtAJob(p) /\ InCall(proc[p])
      /\ proc[p].run \in Run /\ Current(p) \in JobId
      /\ a \in Claims(jobs[proc[p].run][Current(p)]) /\ a \in Attempt /\ a # NoAttempt
  BY <1>1, CallHoldsToken
<1>3. PICK t \in FinishJob(a) \union CatchFailure(a) \union {Uncertain(a)} :
        /\ Send(proc[p].run, Current(p), t)
        /\ Onward(p, "jobs", Received(proc[p].view, proc[p].run, Current(p), t))
        /\ \/ interrupted' = interrupted
           \/ t = Uncertain(a) /\ interrupted' = interrupted \union {CallOf(p)}
  <2>1. CASE FinishJobOf(p)
    BY <1>2, <2>1, ResultIsReport DEF FinishJobOf, Write, trail
  <2>2. CASE FailTargets(p)
    BY <2>2 DEF FailTargets, Write, trail
  <2>3. CASE PluginThrows(p)
    BY <2>3 DEF PluginThrows
  <2> QED BY <2>1, <2>2, <2>3
<1>4. t.expected = a /\ t.status # "omitted"
  BY DEF FinishJob, CatchFailure, Uncertain, Patch
<1>5. t \in TransitionsSent(proc[p].run, Current(p))
  <2>1. Uncertain(a) \in FinishUncertain(a)
    BY DEF Uncertain, FinishUncertain
  <2> QED BY <1>2, <1>3, <2>1, SentByOwner, SentByToken
<1>6. \A me : Warranted(p, me, t)
  BY <1>2, <1>4 DEF Warranted
<1> QED BY <1>2, <1>3, <1>5, <1>6, WriteAdvances

(* The ledger is further than the copy, while nobody retried the run.        *)
LEMMA LedgerIsLater ==
  ASSUME CopiesInv, NEW p \in Process, proc[p].pc \notin {"idle", "open"},
         Unreset(resets, proc[p].run)
  PROVE  /\ Situation(p) \in StatusMap /\ StatusesOf(jobs, proc[p].run) \in StatusMap
         /\ Later(Situation(p), StatusesOf(jobs, proc[p].run))
<1>1. /\ proc[p].run \in Run /\ CopyIn(jobs, resets, proc[p].run, proc[p].view)
      /\ Situation(p) \in StatusMap
      /\ \A j \in JobId : Situation(p)[j] = proc[p].view[j].status
  BY AtWork
<1>2. jobs \in [Run -> [JobId -> Job]]
  BY DEF CopiesInv, IInv, TypeOK
<1>3. /\ StatusesOf(jobs, proc[p].run) \in StatusMap
      /\ \A j \in JobId : StatusesOf(jobs, proc[p].run)[j] = jobs[proc[p].run][j].status
  BY <1>1, <1>2, LedgerStatusesIsMap
<1> QED BY <1>1, <1>3, EngineAssumption DEF Later, CopyIn

LEMMA ClaimJobAdvances ==
  ASSUME CopiesInv, NEW p \in Process, ClaimJob(p)
  PROVE  \E me : Advances(p, me)
<1> DEFINE r == proc[p].run
           j == Current(p)
           old == proc[p]
<1>1. PICK a \in Attempt :
        /\ ClaimWorkflowJob(r, j, a)
        /\ proc' = [proc EXCEPT ![p] = [old EXCEPT !.pc = "plugin", !.attempt = a]]
  BY DEF ClaimJob, Become
<1> DEFINE me == [old EXCEPT !.pc = "plugin", !.attempt = a]
<1>2. /\ Deciding(p) /\ MayRun(j, Situation(p)) /\ interrupted' = interrupted
  BY DEF ClaimJob, Executing, trail
<1>3. /\ AtAJob(p) /\ ~InCall(old) /\ r \in Run /\ j \in JobId
      /\ old \in Activity /\ Faithful(jobs, resets, old)
      /\ Situation(p) \in StatusMap
  BY <1>2, DecidingAt, AtWork
<1>4. /\ jobs \in [Run -> [JobId -> Job]] /\ jobs[r][j] \in Job
  BY <1>3 DEF CopiesInv, IInv, TypeOK
<1>5. Next
  BY <1>1, <1>3 DEF Next, JobStep
<1>6. /\ Claimable(jobs[r][j])
      /\ jobs'[r][j] = Claimed(jobs[r][j], a)
      /\ \A q \in Run, k \in JobId : q # r \/ k # j => jobs'[q][k] = jobs[q][k]
      /\ resets' = resets
  BY <1>1, <1>3, <1>4 DEF ClaimWorkflowJob, SaveJob
<1>7. HeldIsReady(jobs', resets')
  <2>1. ASSUME NEW q \in Run, NEW k \in JobId, Unreset(resets', q),
               jobs[q][k].attempt = NoAttempt, jobs'[q][k].attempt # NoAttempt
        PROVE  Ready(k, StatusesOf(jobs, q))
    <3>1. q = r /\ k = j
      BY <1>6, <2>1
    <3>2. Unreset(resets, r)
      BY <1>6, <2>1, <3>1 DEF Unreset
    <3>3. /\ StatusesOf(jobs, r) \in StatusMap
          /\ Later(Situation(p), StatusesOf(jobs, r))
      BY <1>3, <3>2, LedgerIsLater DEF AtAJob
    <3>4. j \in DagJob
      BY <1>3, EngineAssumption
    <3>5. Allowed(j, Situation(p))
      BY <1>2, <1>3, <3>4, RunMeansAllowed
    <3> QED BY <1>3, <3>1, <3>3, <3>4, <3>5, AllowedIsFinal DEF Ready
  <2> QED BY <1>5, <2>1, ReadinessKept DEF CopiesInv
<1>8. Faithful(jobs', resets', old)
  BY <1>3, <1>5, LedgerKeepsFaithful DEF CopiesInv
<1>9. /\ me \in Activity /\ me.run = r /\ me.target = old.target /\ me.others = old.others
      /\ me.mode = old.mode /\ me.view = old.view /\ me.left = old.left
      /\ me.pc = "plugin" /\ me.attempt = a
  BY <1>3 DEF Activity
<1>10. proc' = [proc EXCEPT ![p] = me]
  BY <1>1
<1> HIDE DEF me
<1>11. a \in Claims(jobs'[r][First(me.left)])
  BY <1>4, <1>6, <1>9, ClaimAddsToken DEF Current
<1>12. Faithful(jobs', resets', me)
  <2>1. CopyIn(jobs', resets', r, me.view)
    BY <1>3, <1>8, <1>9 DEF Faithful
  <2> QED BY <1>3, <1>8, <1>9, <1>11, <2>1, NextActivity DEF AtAJob
<1>13. Begins(p, me)
  BY <1>2, <1>3, <1>6, <1>9 DEF Begins, InCall
<1>14. Advances(p, me)
  BY <1>2, <1>5, <1>7, <1>10, <1>12, <1>13 DEF Advances, Interrupts
<1> QED BY <1>14

LEMMA LaunchAdvances ==
  ASSUME CopiesInv, NEW p \in Process, Launch(p)
  PROVE  \E me : Advances(p, me)
<1> DEFINE old == proc[p]
           me == [old EXCEPT !.pc = "launched"]
<1>1. /\ UNCHANGED vars /\ interrupted' = interrupted
      /\ old.pc = "plugin" /\ Calling(p)
      /\ proc' = [proc EXCEPT ![p] = me]
  BY DEF Launch, trail, At, Calling, Become
<1>2. /\ AtAJob(p) /\ InCall(old) /\ old.run \in Run
      /\ old \in Activity /\ Faithful(jobs, resets, old)
      /\ CopyIn(jobs, resets, old.run, old.view)
  BY <1>1, CallHoldsToken, AtWork DEF AtAJob
<1>3. /\ me \in Activity /\ me.run = old.run /\ me.target = old.target
      /\ me.others = old.others /\ me.mode = old.mode /\ me.view = old.view
      /\ me.left = old.left /\ me.pc = "launched" /\ me.attempt = old.attempt
  BY <1>2 DEF Activity
<1> HIDE DEF me
<1>4. Faithful(jobs, resets, me)
  <2>1. me.attempt \in Claims(jobs[old.run][First(me.left)])
    BY <1>2, <1>3 DEF Faithful
  <2> QED BY <1>2, <1>3, <2>1, NextActivity DEF AtAJob
<1>5. CallKept(old, me)
  BY <1>2, <1>3 DEF CallKept
<1>6. jobs' = jobs /\ resets' = resets
  BY <1>1 DEF vars
<1>7. Advances(p, me)
  BY <1>1, <1>4, <1>5, <1>6, Reads
<1> QED BY <1>7

(* The end of a run says nothing of its jobs.                               *)
LEMMA EndReads ==
  ASSUME NEW r \in Run, NEW outcome \in {"succeeded", "failed"}, NEW who, End(r, outcome, who)
  PROVE  [Next]_vars /\ jobs' = jobs /\ resets' = resets
BY DEF End, FinishWorkflowRun, Next, vars

LEMMA EndAdvances ==
  ASSUME CopiesInv, NEW p \in Process, FinishRun(p) \/ EndCancelled(p)
  PROVE  \E me : Advances(p, me)
<1> DEFINE old == proc[p]
<1>1. old.pc \in {"jobs", "cancel"} /\ interrupted' = interrupted
  BY DEF FinishRun, EndCancelled, LoopOver, At
<1>2. /\ old.run \in Run /\ old \in Activity /\ Faithful(jobs, resets, old)
      /\ old.view \in View /\ CopyIn(jobs, resets, old.run, old.view)
  BY <1>1, AtWork
<1>3. PICK view \in View :
        /\ CopyIn(jobs, resets, old.run, view)
        /\ proc' = [proc EXCEPT ![p] = [old EXCEPT !.pc = "sweep", !.view = view]]
  <2>1. CASE FinishRun(p)
    <3> DEFINE view == IF Running(old.run) THEN Stored(old.run) ELSE old.view
    <3>1. view \in View /\ CopyIn(jobs, resets, old.run, view)
      BY <1>2, LedgerIsFaithful
    <3>2. proc' = [proc EXCEPT ![p] = [old EXCEPT !.pc = "sweep", !.view = view]]
      BY <2>1 DEF FinishRun, Become
    <3> QED BY <3>1, <3>2
  <2>2. CASE EndCancelled(p)
    <3>1. proc' = [proc EXCEPT ![p] = [old EXCEPT !.pc = "sweep"]]
      BY <2>2 DEF EndCancelled, Become
    <3>2. [old EXCEPT !.pc = "sweep"] = [old EXCEPT !.pc = "sweep", !.view = old.view]
      BY <1>2 DEF Activity
    <3> QED BY <1>2, <3>1, <3>2
  <2> QED BY <2>1, <2>2
<1> DEFINE me == [old EXCEPT !.pc = "sweep", !.view = view]
<1>4. /\ me \in Activity /\ me.run = old.run /\ me.target = old.target
      /\ me.others = old.others /\ me.mode = old.mode /\ me.view = view
      /\ me.pc = "sweep"
  BY <1>2 DEF Activity
<1>5. proc' = [proc EXCEPT ![p] = me]
  BY <1>3
<1> HIDE DEF me
<1>6. Faithful(jobs, resets, me) /\ ~InCall(me)
  BY <1>2, <1>3, <1>4, NextActivity DEF InCall
<1>7. [Next]_vars /\ jobs' = jobs /\ resets' = resets
  BY <1>2, EndReads DEF FinishRun, EndCancelled, Outcome
<1>8. Advances(p, me)
  BY <1>1, <1>5, <1>6, <1>7, Reads DEF CallKept
<1> QED BY <1>8

LEMMA RecordCancelAdvances ==
  ASSUME CopiesInv, NEW p \in Process, RecordCancel(p)
  PROVE  \E me : Advances(p, me)
<1> DEFINE old == proc[p]
           token == old.view[Current(p)].attempt
           t == CancelPatch(old.mode, old.doubt, token)
<1>1. /\ old.pc = "record" /\ interrupted' = interrupted
      /\ Send(old.run, Current(p), t)
  BY DEF RecordCancel, At, trail
<1>2. /\ old.run \in Run /\ old \in Activity /\ Faithful(jobs, resets, old) /\ InShape(old)
      /\ CopyIn(jobs, resets, old.run, old.view)
  BY <1>1, AtWork
<1>3. AtAJob(p) /\ Current(p) \in JobId
  BY <1>1, <1>2, AtWork DEF InShape, AtAJob
<1>4. token = NoAttempt \/ token \in Claims(jobs[old.run][Current(p)])
  BY <1>2, <1>3 DEF CopyIn
<1>5. old.doubt => token = NoAttempt
  <2>1. old.doubt => old.view[Current(p)].status = "started"
    BY <1>1, <1>2 DEF InShape, Current
  <2> QED BY <1>2, <1>3, <2>1 DEF CopyIn
<1>6. t \in CancelJob(token) /\ t.expected = token
  BY DEF CancelPatch, CancelJob, Patch
<1>7. IsTerminal(t.status) \/ t.expected \notin Attempt
  BY <1>5, TokenAssumption DEF CancelPatch, Patch, IsTerminal, Terminal
<1> DEFINE reread == [old EXCEPT !.pc = "reread", !.mode = "none", !.doubt = FALSE]
           onward == [old EXCEPT !.pc = "cancel", !.left = Rest(@), !.doubt = FALSE,
                                 !.unsure = @ \/ old.doubt]
<1>8. PICK me \in {reread, Idle, onward} : proc' = [proc EXCEPT ![p] = me]
  BY DEF RecordCancel, Become
<1> HIDE DEF t
<1>9. t \in TransitionsSent(old.run, Current(p))
  BY <1>2, <1>3, <1>4, <1>6, SentByToken
<1>10. Faithful(jobs', resets', old)
  BY <1>1, <1>3, <1>9, SendSees
<1>11. Faithful(jobs', resets', me) /\ ~InCall(me) /\ me.pc # "record"
  <2>1. CASE me = reread
    <3>1. /\ me \in Activity /\ me.run = old.run /\ me.target = old.target
          /\ me.others = old.others /\ me.view = old.view /\ me.mode = "none"
          /\ me.pc = "reread" /\ me.left # {}
      BY <1>2, <1>3, <2>1 DEF Activity, Mode, AtAJob
    <3> QED BY <1>2, <1>10, <3>1, ElsewhereIsFaithful
  <2>2. CASE me = Idle
    BY <2>2, IdleIsFaithful DEF InCall
  <2>3. CASE me = onward
    <3>1. Rest(old.left) \in SUBSET JobId /\ (old.unsure \/ old.doubt) \in BOOLEAN
      BY <1>2, RestIsJobs DEF Activity
    <3>2. /\ me \in Activity /\ me.run = old.run /\ me.target = old.target
          /\ me.others = old.others /\ me.view = old.view /\ me.mode = old.mode
          /\ me.pc = "cancel"
      BY <1>2, <2>3, <3>1 DEF Activity
    <3> QED BY <1>2, <1>10, <3>2, ElsewhereIsFaithful
  <2> QED BY <2>1, <2>2, <2>3
<1>12. Warranted(p, me, t)
  BY <1>1, <1>7, <1>11 DEF Warranted, At
<1>13. Advances(p, me)
  BY <1>1, <1>3, <1>8, <1>9, <1>11, <1>12, SendAdvances
<1> QED BY <1>13

LEMMA NextOfIsFaithful ==
  ASSUME NEW J, NEW N, NEW me \in Activity,
         me.mode = "supersede" => me.target \in Run,
         \A o \in me.others : CopyIn(J, N, o.run, o.view),
         NEW next \in NextOf(me)
  PROVE  Faithful(J, N, next) /\ ~InCall(next)
<1>1. CASE me.mode # "supersede"
  BY <1>1, IdleIsFaithful DEF NextOf, InCall
<1>2. CASE me.mode = "supersede" /\ me.others = {}
  <2> DEFINE new == [Idle EXCEPT !.pc = "open", !.target = me.target]
  <2>1. /\ new \in Activity /\ new.pc = "open" /\ new.target = me.target
        /\ new.run = NoRun /\ new.others = {} /\ new.mode = "none"
    BY <1>2, IdleIsFaithful DEF Activity
  <2>2. next = new
    BY <1>2 DEF NextOf
  <2> HIDE DEF new
  <2> QED BY <1>2, <2>1, <2>2, EngineAssumption DEF Faithful, InShape, InCall
<1>3. CASE me.mode = "supersede" /\ me.others # {}
  <2>1. PICK o \in me.others :
          next = Cancelling([me EXCEPT !.others = @ \ {o}], o.run, o.view, "supersede")
    BY <1>3 DEF NextOf
  <2> DEFINE rest == [me EXCEPT !.others = @ \ {o}]
  <2>2. o.run \in Run /\ o.view \in View /\ CopyIn(J, N, o.run, o.view)
    BY DEF Activity
  <2>3. /\ rest \in Activity /\ rest.target = me.target /\ rest.mode = me.mode
        /\ rest.others \subseteq me.others
    BY DEF Activity
  <2> HIDE DEF rest
  <2>4. "supersede" \in Mode
    BY DEF Mode
  <2>5. /\ Faithful(J, N, Cancelling(rest, o.run, o.view, "supersede"))
        /\ ~InCall(Cancelling(rest, o.run, o.view, "supersede"))
    BY <1>3, <2>2, <2>3, <2>4, CancellingIsFaithful
  <2> QED BY <2>1, <2>5 DEF rest
<1> QED BY <1>1, <1>2, <1>3

LEMMA SweepAdvances ==
  ASSUME CopiesInv, NEW p \in Process, StopWorkersLeft(p)
  PROVE  \E me : Advances(p, me)
<1>1. /\ UNCHANGED vars /\ interrupted' = interrupted
      /\ \E next \in NextOf(proc[p]) : proc' = [proc EXCEPT ![p] = next]
  BY DEF StopWorkersLeft, trail, Become
<1>2. PICK next \in NextOf(proc[p]) : proc' = [proc EXCEPT ![p] = next]
  BY <1>1
<1>3. Faithful(jobs, resets, proc[p])
  BY AtWork
<1>4. Faithful(jobs, resets, next) /\ ~InCall(next)
  BY <1>3, NextOfIsFaithful DEF Faithful, InShape
<1>5. jobs' = jobs /\ resets' = resets
  BY <1>1 DEF vars
<1>6. Advances(p, next)
  BY <1>1, <1>2, <1>4, <1>5, Reads DEF CallKept
<1> QED BY <1>6

LEMMA DiscoverAdvances ==
  ASSUME CopiesInv, NEW p \in Process, NEW r \in Run, Discover(p, r)
  PROVE  \E me : Advances(p, me)
<1> DEFINE live == {[run |-> q, view |-> Stored(q)] : q \in LiveInGroup(r)}
           me == [Idle EXCEPT !.mode = "supersede", !.target = r, !.others = live]
<1>1. UNCHANGED vars /\ interrupted' = interrupted
  BY DEF Discover, trail
<1>2. PICK next \in NextOf(me) : proc' = [proc EXCEPT ![p] = next]
  BY DEF Discover, Become
<1>3. LiveInGroup(r) \subseteq Run
  BY DEF LiveInGroup, RunningInGroup
<1>4. /\ live \subseteq [run : Run, view : View]
      /\ \A o \in live : CopyIn(jobs, resets, o.run, o.view)
  BY <1>3, LedgerIsFaithful
<1> HIDE DEF live
<1>5. me \in Activity /\ me.target = r /\ me.others = live
  BY <1>4, IdleIsFaithful DEF Activity, Mode
<1> HIDE DEF me
<1>6. Faithful(jobs, resets, next) /\ ~InCall(next)
  BY <1>4, <1>5, NextOfIsFaithful
<1>7. jobs' = jobs /\ resets' = resets
  BY <1>1 DEF vars
<1>8. Advances(p, next)
  BY <1>1, <1>2, <1>6, <1>7, Reads DEF CallKept
<1> QED BY <1>8

LEMMA OpenAdvances ==
  ASSUME CopiesInv, NEW p \in Process, Open(p)
  PROVE  \E me : Advances(p, me)
<1> DEFINE r == proc[p].target
<1>1. proc[p].pc = "open" /\ interrupted' = interrupted
  BY DEF Open, At, trail
<1>2. r \in Run
  BY <1>1, AtWork DEF InShape
<1>3. [Next]_vars /\ jobs' = jobs /\ resets' = resets
  BY <1>2 DEF Open, OpenWorkflowRun, Next, vars
<1>4. Stored(r) \in View /\ CopyIn(jobs, resets, r, Stored(r))
  BY <1>2, LedgerIsFaithful
<1>5. PICK me \in {Advancing(r, Stored(r)), Idle} : proc' = [proc EXCEPT ![p] = me]
  BY DEF Open, Become
<1>6. Faithful(jobs, resets, me) /\ ~InCall(me)
  <2>1. CASE me = Advancing(r, Stored(r))
    <3>1. Faithful(jobs, resets, Advancing(r, Stored(r))) /\ ~InCall(Advancing(r, Stored(r)))
      BY <1>2, <1>4, AdvancingIsFaithful
    <3> QED BY <2>1, <3>1
  <2>2. CASE me = Idle
    BY <2>2, IdleIsFaithful DEF InCall
  <2> QED BY <2>1, <2>2
<1>7. Advances(p, me)
  BY <1>1, <1>3, <1>5, <1>6, Reads DEF CallKept
<1> QED BY <1>7

LEMMA BeginAdvances ==
  ASSUME CopiesInv, NEW p \in Process, NEW r \in Run, Poll(p, r) \/ CancelRun(p, r)
  PROVE  \E me : Advances(p, me)
<1>1. UNCHANGED vars /\ interrupted' = interrupted
  BY DEF Poll, CancelRun, trail
<1>2. Stored(r) \in View /\ CopyIn(jobs, resets, r, Stored(r))
  BY LedgerIsFaithful
<1>3. PICK me \in {Advancing(r, Stored(r)), Cancelling(Idle, r, Stored(r), "operator")} :
        proc' = [proc EXCEPT ![p] = me]
  BY DEF Poll, CancelRun, Become
<1>4. "operator" \in Mode
  BY DEF Mode
<1>5. Faithful(jobs, resets, me) /\ ~InCall(me)
  <2> DEFINE advancing  == Advancing(r, Stored(r))
             cancelling == Cancelling(Idle, r, Stored(r), "operator")
  <2>1. Faithful(jobs, resets, advancing) /\ ~InCall(advancing)
    BY <1>2, AdvancingIsFaithful
  <2>2. /\ Idle \in Activity /\ Idle.others = {} /\ Idle.mode # "supersede"
    BY IdleIsFaithful
  <2>3. Faithful(jobs, resets, cancelling) /\ ~InCall(cancelling)
    BY <1>2, <1>4, <2>2, CancellingIsFaithful
  <2> HIDE DEF advancing, cancelling
  <2>4. me \in {advancing, cancelling}
    BY DEF advancing, cancelling
  <2> QED BY <2>1, <2>3, <2>4
<1>6. jobs' = jobs /\ resets' = resets
  BY <1>1 DEF vars
<1>7. Advances(p, me)
  BY <1>1, <1>3, <1>5, <1>6, Reads DEF CallKept
<1> QED BY <1>7

LEMMA CrashAdvances ==
  ASSUME CopiesInv, NEW p \in Process, Crash(p)
  PROVE  Advances(p, Idle)
<1>1. UNCHANGED vars /\ proc' = [proc EXCEPT ![p] = Idle]
  BY DEF Crash, Become
<1>2. jobs' = jobs /\ resets' = resets
  BY <1>1 DEF vars
<1>3. HeldIsReady(jobs', resets') /\ Quiet
  BY <1>1, <1>2, ReadingIsQuiet
<1>4. Faithful(jobs', resets', Idle) /\ ~InCall(Idle)
  BY IdleIsFaithful DEF InCall
<1>5. InCall(proc[p]) <=> Calling(p)
  BY DEF InCall, Calling, At
<1>6. Interrupts(p, Idle)
  <2>1. CASE Calling(p)
    BY <1>3, <1>4, <1>5, <2>1 DEF Interrupts, Crash
  <2>2. CASE ~Calling(p)
    BY <2>2 DEF Interrupts, Crash
  <2> QED BY <2>1, <2>2
<1> QED BY <1>1, <1>3, <1>4, <1>6 DEF Advances, CallKept

(* What leaves the processes where they are.                                *)
Stays ==
  /\ [Next]_vars /\ Quiet
  /\ UNCHANGED <<proc, interrupted>>

LEMMA AroundStays ==
  ASSUME CopiesInv,
         \/ \E p \in Process : Heartbeat(p)
         \/ \E p \in Process, r \in Run : Retry(p, r)
         \/ Around
         \/ UNCHANGED allVars
  PROVE  Stays
<1> USE DEF engineVars, trail
<1>0. /\ jobs \in [Run -> [JobId -> Job]] /\ resets \in [Run -> [JobId -> Nat]]
      /\ \A r \in Run, j \in JobId : jobs[r][j] \in Job
  BY DEF CopiesInv, IInv, TypeOK
<1>1. ASSUME NEW p \in Process, Heartbeat(p)
      PROVE  Stays
  <2> DEFINE r == proc[p].run
             j == Current(p)
  <2>1. r \in Run /\ j \in JobId /\ proc[p].attempt \in Attempt
    BY <1>1, CallHoldsToken DEF Heartbeat
  <2>2. Next
    BY <1>1, <2>1 DEF Heartbeat, Next, JobStep
  <2>3. /\ jobs' = [jobs EXCEPT ![r][j] = [jobs[r][j] EXCEPT !.lease = "live"]]
        /\ resets' = resets
    BY <1>1 DEF Heartbeat, RenewWorkflowJobLease, SaveJob
  <2>4. /\ jobs[r][j] \in Job
        /\ [jobs[r][j] EXCEPT !.lease = "live"].history = jobs[r][j].history
        /\ [jobs[r][j] EXCEPT !.lease = "live"].status = jobs[r][j].status
        /\ [jobs[r][j] EXCEPT !.lease = "live"].attempt = jobs[r][j].attempt
        /\ [jobs[r][j] EXCEPT !.lease = "live"].attention = jobs[r][j].attention
    BY <1>0, <2>1 DEF Job
  <2> DEFINE new == [jobs[r][j] EXCEPT !.lease = "live"]
  <2> HIDE DEF new
  <2>5. \A q \in Run, k \in JobId :
          jobs'[q][k] = IF q = r /\ k = j THEN new ELSE jobs[q][k]
    BY <1>0, <2>1, <2>3 DEF new
  <2>6. /\ new.history = jobs[r][j].history /\ new.status = jobs[r][j].status
        /\ new.attempt = jobs[r][j].attempt /\ new.attention = jobs[r][j].attention
    BY <2>4 DEF new
  <2>7. \A q \in Run, k \in JobId :
          /\ jobs'[q][k].history = jobs[q][k].history
          /\ jobs'[q][k].status = jobs[q][k].status
          /\ jobs'[q][k].attempt = jobs[q][k].attempt
          /\ jobs'[q][k].attention = jobs[q][k].attention
    BY <2>5, <2>6
  <2>8. Quiet
    BY <2>7 DEF Quiet, Undisturbed
  <2> QED BY <1>1, <2>2, <2>8 DEF Stays, Heartbeat
<1>2. ASSUME NEW r \in Run, NEW wanted \in SUBSET JobId, RetryWorkflowJobs(r, wanted),
             UNCHANGED engineVars
      PROVE  Stays
  <2>1. Next
    BY <1>2 DEF Next
  <2>2. \A q \in Run, k \in JobId :
          \/ jobs'[q][k] = jobs[q][k]
          \/ jobs'[q][k] = Reset(jobs[q][k]) /\ resets'[q][k] = resets[q][k] + 1
    BY <1>0, <1>2 DEF RetryWorkflowJobs
  <2>3. \A q \in Run, k \in JobId :
          /\ Reset(jobs[q][k]).status = "pending"
          /\ Reset(jobs[q][k]).history = jobs[q][k].history
          /\ resets[q][k] + 1 # resets[q][k]
    BY <1>0 DEF Reset, Job
  <2>4. Quiet
    BY <2>2, <2>3 DEF Quiet, Undisturbed
  <2> QED BY <1>2, <2>1, <2>4 DEF Stays
<1>3. ASSUME SweepExpired
      PROVE  Stays
  <2>1. Next
    BY <1>3 DEF SweepExpired, Next
  <2>2. /\ resets' = resets
        /\ \A q \in Run, k \in JobId :
             jobs'[q][k] = jobs[q][k] \/ jobs'[q][k] = Flagged(jobs[q][k])
    BY <1>0, <1>3 DEF SweepExpired, MarkExpiredClaims
  <2>3. \A q \in Run, k \in JobId :
          /\ Flagged(jobs[q][k]).status = jobs[q][k].status
          /\ Flagged(jobs[q][k]).attempt = jobs[q][k].attempt
          /\ Flagged(jobs[q][k]).attention
          /\ Len(Flagged(jobs[q][k]).history) = Len(jobs[q][k].history)
    <3> TAKE q \in Run, k \in JobId
    <3>1. jobs[q][k] \in Job /\ jobs[q][k].history \in Seq(Entry)
      BY <1>0, TrailOfJob
    <3>2. /\ Flagged(jobs[q][k]).history = MarkUncertain(jobs[q][k].history, jobs[q][k].attempt)
          /\ Flagged(jobs[q][k]).status = jobs[q][k].status
          /\ Flagged(jobs[q][k]).attempt = jobs[q][k].attempt
          /\ Flagged(jobs[q][k]).attention
      BY <3>1 DEF Flagged, Job
    <3> QED BY <3>1, <3>2, MarkedUncertain
  <2>4. Quiet
    BY <2>2, <2>3 DEF Quiet, Undisturbed
  <2> QED BY <1>3, <2>1, <2>4 DEF Stays, SweepExpired
<1>4. ASSUME NEW r \in Run, NEW j \in JobId, Lapse(r, j)
      PROVE  Stays
  <2>1. Next
    BY <1>4 DEF Lapse, Next, JobStep
  <2>2. jobs' = [jobs EXCEPT ![r][j] = [jobs[r][j] EXCEPT !.lease = "lapsed"]] /\ resets' = resets
    BY <1>4 DEF Lapse, LeaseLapses, SaveJob
  <2> DEFINE new == [jobs[r][j] EXCEPT !.lease = "lapsed"]
  <2>3. /\ new.history = jobs[r][j].history /\ new.status = jobs[r][j].status
        /\ new.attempt = jobs[r][j].attempt /\ new.attention = jobs[r][j].attention
    BY <1>0 DEF Job
  <2>4. \A q \in Run, k \in JobId :
          jobs'[q][k] = IF q = r /\ k = j THEN new ELSE jobs[q][k]
    BY <1>0, <2>2
  <2> HIDE DEF new
  <2>5. Quiet
    BY <2>2, <2>3, <2>4 DEF Quiet, Undisturbed
  <2> QED BY <1>4, <2>1, <2>5 DEF Stays, Lapse
<1>5. ASSUME UNCHANGED vars, UNCHANGED <<proc, interrupted>>
      PROVE  Stays
  <2>1. jobs' = jobs /\ resets' = resets
    BY <1>5 DEF vars
  <2> QED BY <1>5, <2>1, ReadingIsQuiet DEF Stays
<1>6. ASSUME \/ \E r \in Run : RunBecomesOverdue(r)
             \/ \E r \in Run, j \in JobId : JobBecomesLate(r, j)
             \/ \E i \in Item, j \in JobId : SessionEnds(i, j)
             \/ UNCHANGED allVars
      PROVE  Stays
  BY <1>5, <1>6 DEF RunBecomesOverdue, JobBecomesLate, SessionEnds, allVars
<1>7. CASE \E p \in Process, r \in Run : Retry(p, r)
  BY <1>2, <1>7 DEF Retry
<1>8. CASE Around
  BY <1>3, <1>4, <1>6, <1>8 DEF Around
<1> QED BY <1>1, <1>6, <1>7, <1>8

(***************************************************************************)
(* Every step of the engine is one of these.                                *)
(***************************************************************************)
LEMMA StepAdvances ==
  ASSUME CopiesInv, [EngineNext]_allVars
  PROVE  Stays \/ \E p \in Process : \E me : Advances(p, me)
<1>1. ASSUME NEW p \in Process, Continue(p)
      PROVE  \E me : Advances(p, me)
  BY <1>1, ReconcileAdvances, RefreshAdvances, LoopReads, SettleJobAdvances, HoldAdvances,
     ClaimJobAdvances, LaunchAdvances, CallEndAdvances, CancelReads, EndAdvances,
     RecordCancelAdvances, SweepAdvances, OpenAdvances
  DEF Continue
<1>2. ASSUME NEW p \in Process, NEW r \in Run, Poll(p, r) \/ Discover(p, r) \/ CancelRun(p, r)
      PROVE  \E me : Advances(p, me)
  BY <1>2, BeginAdvances, DiscoverAdvances
<1> QED BY <1>1, <1>2, CrashAdvances, AroundStays DEF EngineNext

(***************************************************************************)
(* The copies are faithful for good.                                        *)
(***************************************************************************)
LEMMA OneProcessMoves ==
  ASSUME CopiesInv, NEW p \in Process, NEW me, Advances(p, me)
  PROVE  /\ proc'[p] = me /\ \A q \in Process : q # p => proc'[q] = proc[q]
         /\ DOMAIN proc' = Process
         /\ \A q \in Process : Faithful(jobs', resets', proc'[q])
<1>1. proc \in [Process -> Activity]
  BY DEF CopiesInv, EngineTypeOK
<1>2. /\ proc'[p] = me /\ \A q \in Process : q # p => proc'[q] = proc[q]
      /\ DOMAIN proc' = Process
  BY <1>1 DEF Advances
<1>3. ASSUME NEW q \in Process, q # p
      PROVE  Faithful(jobs', resets', proc'[q])
  BY <1>2, <1>3, LedgerKeepsFaithful DEF CopiesInv, Advances
<1>4. Faithful(jobs', resets', proc'[p])
  BY <1>2 DEF Advances
<1> QED BY <1>2, <1>3, <1>4

-----------------------------------------------------------------------------
(***************************************************************************)
(* TYPES and copies, together.                                              *)
(***************************************************************************)
LEMMA AgentsTyped ==
  ASSUME CopiesInv, [EngineNext]_allVars
  PROVE  agent' \in [Item -> [JobId -> AgentStatus]]
<1>0. agent \in [Item -> [JobId -> AgentStatus]]
  BY DEF CopiesInv, EngineTypeOK
<1>1. ASSUME NEW i \in Item, NEW js, StopWorkers(i, js)
      PROVE  agent' \in [Item -> [JobId -> AgentStatus]]
  <2>1. [j \in JobId |-> IF j \in js /\ agent[i][j] = "live" THEN "stopped" ELSE agent[i][j]]
          \in [JobId -> AgentStatus]
    BY <1>0 DEF AgentStatus
  <2> QED BY <1>0, <1>1, <2>1 DEF StopWorkers
<1>2. ASSUME NEW i \in Item, NEW j \in JobId, NEW s \in AgentStatus,
             agent' = [agent EXCEPT ![i][j] = s]
      PROVE  agent' \in [Item -> [JobId -> AgentStatus]]
  BY <1>0, <1>2
<1>3. ASSUME NEW p \in Process, Continue(p)
      PROVE  agent' \in [Item -> [JobId -> AgentStatus]]
  <2>1. CASE Launch(p)
    <3>1. proc[p].run \in Run /\ Current(p) \in JobId
      BY <2>1, CallHoldsToken DEF Launch, Calling
    <3>2. ItemOf[proc[p].run] \in Item /\ "live" \in AgentStatus
      BY <3>1, EngineAssumption DEF AgentStatus
    <3> QED BY <1>2, <2>1, <3>1, <3>2 DEF Launch
  <2>2. CASE LeaveOpen(p) \/ CancelEffect(p) \/ StopWorkersLeft(p)
    <3>1. proc[p].run \in Run
      BY <2>2, AtWork DEF LeaveOpen, CancelEffect, StopWorkersLeft, LoopOver, Turn, At
    <3>2. ItemOf[proc[p].run] \in Item
      BY <3>1, EngineAssumption
    <3>3. agent' = agent \/ \E js : StopWorkers(ItemOf[proc[p].run], js)
      BY <2>2 DEF LeaveOpen, CancelEffect, StopWorkersLeft, SweepWorkers
    <3> QED BY <1>0, <1>1, <3>2, <3>3
  <2>3. CASE Reconcile(p) \/ Refresh(p) \/ Expire(p) \/ TimeOutJob(p) \/ Pass(p) \/ Abort(p)
             \/ SettleJob(p) \/ HoldRevision(p) \/ FailInputs(p) \/ ClaimJob(p)
             \/ LoseClaim(p) \/ Reread(p)
    BY <1>0, <2>3 DEF Reconcile, Refresh, Expire, TimeOutJob, Pass, Abort, SettleJob,
       HoldRevision, FailInputs, ClaimJob, LoseClaim, Reread, Write
  <2>4. CASE FinishJobOf(p) \/ PluginThrows(p) \/ FailTargets(p) \/ FinishRun(p)
             \/ RecordCancel(p) \/ GiveUp(p) \/ EndCancelled(p) \/ Open(p)
    BY <1>0, <2>4 DEF FinishJobOf, PluginThrows, FailTargets, FinishRun, RecordCancel, GiveUp,
       EndCancelled, Open, Write
  <2> QED BY <1>3, <2>1, <2>2, <2>3, <2>4 DEF Continue
<1>4. ASSUME NEW p \in Process, NEW r \in Run,
             Poll(p, r) \/ Discover(p, r) \/ CancelRun(p, r) \/ Retry(p, r)
      PROVE  agent' = agent
  BY <1>4 DEF Poll, Discover, CancelRun, Retry, engineVars
<1>5. ASSUME NEW p \in Process, Heartbeat(p) \/ Crash(p)
      PROVE  agent' = agent
  BY <1>5 DEF Heartbeat, Crash, engineVars
<1>6. CASE Around
  <2>1. CASE \E i \in Item, j \in JobId : SessionEnds(i, j)
    BY <1>2, <2>1 DEF SessionEnds, AgentStatus
  <2>2. CASE ~\E i \in Item, j \in JobId : SessionEnds(i, j)
    BY <1>0, <1>6, <2>2 DEF Around, SweepExpired, RunBecomesOverdue, Lapse, JobBecomesLate,
       engineVars
  <2> QED BY <2>1, <2>2
<1>7. CASE UNCHANGED allVars
  BY <1>0, <1>7 DEF allVars, engineVars
<1> QED BY <1>0, <1>3, <1>4, <1>5, <1>6, <1>7 DEF EngineNext

LEMMA ClocksTyped ==
  ASSUME CopiesInv, [EngineNext]_allVars
  PROVE  /\ overdue' \subseteq Run /\ late' \subseteq Run \X JobId
         /\ crashes' \in 0..MaxCrashes
<1>0. /\ overdue \subseteq Run /\ late \subseteq Run \X JobId
      /\ crashes \in 0..MaxCrashes /\ MaxCrashes \in Nat
  BY EngineAssumption DEF CopiesInv, EngineTypeOK
<1> DEFINE Goal == /\ overdue' \subseteq Run /\ late' \subseteq Run \X JobId
                   /\ crashes' \in 0..MaxCrashes
           Kept == overdue' = overdue /\ late' = late /\ crashes' = crashes
<1>1. Kept => Goal
  BY <1>0
<1>2. ASSUME NEW p \in Process, Continue(p)
      PROVE  Kept
  <2> USE DEF clock, trail
  <2>1. CASE Reconcile(p) \/ Refresh(p) \/ Expire(p) \/ TimeOutJob(p) \/ Pass(p) \/ Abort(p)
             \/ SettleJob(p) \/ HoldRevision(p) \/ FailInputs(p) \/ ClaimJob(p)
             \/ LoseClaim(p) \/ Reread(p)
    BY <2>1 DEF Reconcile, Refresh, Expire, TimeOutJob, Pass, Abort, SettleJob,
       HoldRevision, FailInputs, ClaimJob, LoseClaim, Reread, Write
  <2>2. CASE Launch(p) \/ FinishJobOf(p) \/ PluginThrows(p) \/ FailTargets(p) \/ LeaveOpen(p)
             \/ FinishRun(p) \/ CancelEffect(p) \/ RecordCancel(p) \/ GiveUp(p)
             \/ EndCancelled(p) \/ StopWorkersLeft(p) \/ Open(p)
    BY <2>2 DEF Launch, FinishJobOf, PluginThrows, FailTargets, LeaveOpen, FinishRun,
       CancelEffect, RecordCancel, GiveUp, EndCancelled, StopWorkersLeft, Open, Write
  <2> QED BY <1>2, <2>1, <2>2 DEF Continue
<1>3. ASSUME NEW p \in Process, NEW r \in Run,
             Poll(p, r) \/ Discover(p, r) \/ CancelRun(p, r) \/ Retry(p, r)
      PROVE  Kept
  BY <1>3 DEF Poll, Discover, CancelRun, Retry, engineVars, clock, trail
<1>4. ASSUME NEW p \in Process, Heartbeat(p)
      PROVE  Kept
  BY <1>4 DEF Heartbeat, engineVars, clock, trail
<1>5. ASSUME NEW p \in Process, Crash(p)
      PROVE  Goal
  BY <1>0, <1>5 DEF Crash, clock
<1>6. CASE Around
  <2>1. SweepExpired \/ (\E r \in Run, j \in JobId : Lapse(r, j)) => Kept
    BY DEF SweepExpired, Lapse, engineVars, clock, trail
  <2>2. (\E i \in Item, j \in JobId : SessionEnds(i, j)) => Kept
    BY DEF SessionEnds, clock, trail
  <2>3. (\E r \in Run : RunBecomesOverdue(r)) => Goal
    BY <1>0, EngineAssumption DEF RunBecomesOverdue, trail
  <2>4. (\E r \in Run, j \in JobId : JobBecomesLate(r, j)) => Goal
    BY <1>0, EngineAssumption DEF JobBecomesLate, trail
  <2> HIDE DEF Kept
  <2> QED BY <1>1, <1>6, <2>1, <2>2, <2>3, <2>4 DEF Around
<1>7. CASE UNCHANGED allVars
  BY <1>0, <1>7 DEF allVars, engineVars, clock, trail
<1> HIDE DEF Kept
<1> QED BY <1>1, <1>2, <1>3, <1>4, <1>5, <1>6, <1>7 DEF EngineNext

(***************************************************************************)
(* Runs end in FinishRun and EndCancelled only, and only a retry takes an    *)
(* end back.                                                                *)
(***************************************************************************)
EndsBy(r, outcome, who) ==
  /\ Running(r)
  /\ status' = [status EXCEPT ![r] = outcome]
  /\ endedBy' = [endedBy EXCEPT ![r] = who]

LEMMA EndingsOfRuns ==
  ASSUME CopiesInv, [EngineNext]_allVars
  PROVE  \/ /\ endedBy' = endedBy
            /\ \A r \in Run : \/ status'[r] = status[r]
                              \/ status'[r] = "running"
         \/ \E p \in Process : FinishRun(p) /\ EndsBy(proc[p].run, Outcome(Situation(p)), "advance")
         \/ \E p \in Process : EndCancelled(p) /\ EndsBy(proc[p].run, "failed", proc[p].mode)
<1> DEFINE Kept == /\ endedBy' = endedBy
                   /\ \A r \in Run : status'[r] = status[r] \/ status'[r] = "running"
<1>0. status \in [Run -> RunStatus]
  BY DEF CopiesInv, IInv, TypeOK
<1>1. ASSUME status' = status, endedBy' = endedBy
      PROVE  Kept
  BY <1>1
<1>2. ASSUME NEW r, NEW j, NEW t, Send(r, j, t)
      PROVE  status' = status
  BY <1>2 DEF Send, UpdateWorkflowJob, vars
<1>3. ASSUME NEW p \in Process, Continue(p), ~FinishRun(p), ~EndCancelled(p)
      PROVE  Kept
  <2> USE DEF trail
  <2>1. CASE Reconcile(p) \/ Refresh(p) \/ SettleJob(p) \/ HoldRevision(p) \/ FailInputs(p)
             \/ FinishJobOf(p) \/ PluginThrows(p) \/ FailTargets(p) \/ RecordCancel(p)
    <3>1. endedBy' = endedBy
      BY <2>1 DEF Reconcile, Refresh, SettleJob, HoldRevision, FailInputs, FinishJobOf,
         PluginThrows, FailTargets, RecordCancel, Write
    <3>2. status' = status
      BY <1>2, <2>1 DEF Reconcile, Refresh, SettleJob, HoldRevision, FailInputs, FinishJobOf,
         PluginThrows, FailTargets, RecordCancel, Write, vars
    <3> QED BY <1>1, <3>1, <3>2
  <2>2. CASE Expire(p) \/ TimeOutJob(p) \/ Pass(p) \/ Abort(p) \/ ClaimJob(p)
             \/ LoseClaim(p) \/ Reread(p)
    BY <1>1, <2>2 DEF Expire, TimeOutJob, Pass, Abort, ClaimJob, ClaimWorkflowJob, LoseClaim,
       Reread, vars
  <2>3. CASE Launch(p) \/ LeaveOpen(p) \/ CancelEffect(p) \/ GiveUp(p) \/ StopWorkersLeft(p)
    BY <1>1, <2>3 DEF Launch, LeaveOpen, CancelEffect, GiveUp, StopWorkersLeft, vars
  <2>4. CASE Open(p)
    <3>1. endedBy' = endedBy
      BY <2>4 DEF Open
    <3>2. status' = status \/ status' = [status EXCEPT ![proc[p].target] = "running"]
      BY <2>4 DEF Open, OpenWorkflowRun, vars
    <3> QED BY <1>0, <3>1, <3>2
  <2> QED BY <1>3, <2>1, <2>2, <2>3, <2>4 DEF Continue
<1>4. ASSUME NEW p \in Process, NEW r \in Run, Poll(p, r) \/ Discover(p, r) \/ CancelRun(p, r)
      PROVE  Kept
  BY <1>1, <1>4 DEF Poll, Discover, CancelRun, vars, trail
<1>5. ASSUME NEW p \in Process, NEW r \in Run, Retry(p, r)
      PROVE  Kept
  <2>1. status' = [status EXCEPT ![r] = "running"] /\ endedBy' = endedBy
    BY <1>5 DEF Retry, RetryWorkflowJobs, engineVars, trail
  <2> QED BY <1>0, <2>1
<1>6. ASSUME NEW p \in Process, Heartbeat(p) \/ Crash(p)
      PROVE  Kept
  BY <1>1, <1>6 DEF Heartbeat, RenewWorkflowJobLease, Crash, engineVars, trail, vars
<1>7. Around => Kept
  BY <1>1 DEF Around, SweepExpired, MarkExpiredClaims, RunBecomesOverdue, Lapse, LeaseLapses,
     JobBecomesLate, SessionEnds, engineVars, trail, vars
<1>8. UNCHANGED allVars => Kept
  BY <1>1 DEF allVars, engineVars, trail, vars
<1>9. ASSUME NEW p \in Process, FinishRun(p)
      PROVE  Kept \/ EndsBy(proc[p].run, Outcome(Situation(p)), "advance")
  BY <1>1, <1>9 DEF FinishRun, End, FinishWorkflowRun, EndsBy, vars
<1>10. ASSUME NEW p \in Process, EndCancelled(p)
       PROVE  Kept \/ EndsBy(proc[p].run, "failed", proc[p].mode)
  BY <1>1, <1>10 DEF EndCancelled, End, FinishWorkflowRun, EndsBy, vars
<1> HIDE DEF Kept
<1>11. Kept \/ (\E p \in Process : FinishRun(p) \/ EndCancelled(p))
  BY <1>3, <1>4, <1>5, <1>6, <1>7, <1>8 DEF EngineNext
<1> QED BY <1>9, <1>10, <1>11 DEF Kept

LEMMA EndsTyped ==
  ASSUME CopiesInv, [EngineNext]_allVars
  PROVE  endedBy' \in [Run -> {"nobody", "advance"} \union Mode]
<1>1. endedBy \in [Run -> {"nobody", "advance"} \union Mode]
  BY DEF CopiesInv, EngineTypeOK
<1>2. \A p \in Process : proc[p].mode \in Mode
  BY AtWork DEF Activity
<1> QED BY <1>1, <1>2, EndingsOfRuns DEF EndsBy

LEMMA CallOfTyped ==
  ASSUME CopiesInv, NEW p \in Process, InCall(proc[p])
  PROVE  proc[p].run \in Run /\ Current(p) \in JobId /\ CallOf(p) \in Run \X JobId
<1>1. Calling(p)
  BY DEF Calling, At, InCall
<1> QED BY <1>1, CallHoldsToken DEF CallOf

LEMMA InitCopies == EngineInit => CopiesInv
<1> SUFFICES ASSUME EngineInit
             PROVE  CopiesInv
  OBVIOUS
<1>1. IInv
  BY InitIInv DEF EngineInit
<1>2. \A p \in Process : Faithful(jobs, resets, proc[p]) /\ proc[p] \in Activity
  BY IdleIsFaithful DEF EngineInit
<1>3. HeldIsReady(jobs, resets)
  <2>1. NewJob.attempt = NoAttempt
    BY DEF NewJob
  <2> QED BY <2>1 DEF EngineInit, Init, HeldIsReady
<1>4. EngineTypeOK
  <2>1. proc \in [Process -> Activity]
    BY IdleIsFaithful DEF EngineInit
  <2>2. /\ agent \in [Item -> [JobId -> AgentStatus]]
        /\ overdue \subseteq Run /\ late \subseteq Run \X JobId
        /\ endedBy \in [Run -> {"nobody", "advance"} \union Mode]
        /\ interrupted \subseteq Run \X JobId
        /\ crashes \in 0..MaxCrashes
    BY EngineAssumption DEF EngineInit, AgentStatus
  <2> QED BY <1>1, <2>1, <2>2 DEF EngineTypeOK, IInv
<1> QED BY <1>1, <1>2, <1>3, <1>4 DEF CopiesInv

LEMMA NextCopies == CopiesInv /\ [EngineNext]_allVars => CopiesInv'
<1> SUFFICES ASSUME CopiesInv, [EngineNext]_allVars
             PROVE  CopiesInv'
  OBVIOUS
<1>1. \/ /\ [Next]_vars /\ Quiet /\ proc' = proc /\ interrupted' = interrupted
      \/ \E p \in Process : \E me : Advances(p, me)
  BY StepAdvances DEF Stays
<1>2. [Next]_vars
  BY <1>1 DEF Advances
<1>3. IInv'
  BY <1>2, NextIInv DEF CopiesInv
<1>4. HeldIsReady(jobs', resets')
  <2>1. CASE Quiet
    <3>1. ASSUME NEW r \in Run, NEW j \in JobId, Unreset(resets', r),
                 jobs[r][j].attempt = NoAttempt, jobs'[r][j].attempt # NoAttempt
          PROVE  FALSE
      BY <1>2, <2>1, <3>1, UnresetBefore DEF Quiet, Undisturbed, CopiesInv
    <3> QED BY <1>2, <3>1, ReadinessKept DEF CopiesInv
  <2> QED BY <1>1, <2>1 DEF Advances
<1>5. /\ proc' \in [Process -> Activity]
      /\ \A q \in Process : Faithful(jobs', resets', proc'[q])
  <2>1. proc \in [Process -> Activity]
    BY DEF CopiesInv, EngineTypeOK
  <2>2. CASE proc' = proc
    BY <1>2, <2>1, <2>2, LedgerKeepsFaithful DEF CopiesInv
  <2>3. CASE \E p \in Process : \E me : Advances(p, me)
    <3>1a. PICK p \in Process : \E me : Advances(p, me)
      BY <2>3
    <3>1. PICK me : Advances(p, me)
      BY <3>1a
    <3>2. me \in Activity /\ proc' = [proc EXCEPT ![p] = me]
      BY <3>1 DEF Advances, Faithful
    <3> QED BY <2>1, <3>1, <3>2, OneProcessMoves
  <2> QED BY <1>1, <2>2, <2>3
<1>6. interrupted' \subseteq Run \X JobId
  <2>1. interrupted \subseteq Run \X JobId
    BY DEF CopiesInv, EngineTypeOK
  <2> QED BY <1>1, <2>1, CallOfTyped DEF Advances, Interrupts
<1>7. EngineTypeOK'
  BY <1>3, <1>5, <1>6, AgentsTyped, ClocksTyped, EndsTyped DEF EngineTypeOK, IInv
<1> QED BY <1>3, <1>4, <1>5, <1>7 DEF CopiesInv

LEMMA InvariantCopies == EngineSpec => []CopiesInv
BY InitCopies, NextCopies, PTL DEF EngineSpec

(***************************************************************************)
(* Every variable of the engine keeps its type: in particular each process   *)
(* holds a well formed copy of a run, and loops over jobs of the workflow.  *)
(***************************************************************************)
THEOREM EngineTypeCorrect == EngineSpec => []EngineTypeOK
<1>1. CopiesInv => EngineTypeOK
  BY DEF CopiesInv
<1> QED BY <1>1, InvariantCopies, PTL

(***************************************************************************)
(* The engine only ever does what the ledger expects of its callers: every   *)
(* write of every process, from whatever copy, is one of the transitions the *)
(* ledger's environment sends, with a token that was read from that job.    *)
(***************************************************************************)
THEOREM EngineUsesLedgerHolds == EngineSpec => EngineUsesLedger
<1>1. EngineInit => Init
  BY DEF EngineInit
<1>2. CopiesInv /\ [EngineNext]_allVars => [Next]_vars
  BY StepAdvances DEF Stays, Advances
<1> QED BY <1>1, <1>2, InvariantCopies, PTL DEF EngineSpec, EngineUsesLedger, Spec

-----------------------------------------------------------------------------
(***************************************************************************)
(* CALLS.  Who may be inside the plugin call of a job that no retry has      *)
(* reset: at most one process, whose token the job has until it settles; and *)
(* nobody at all once a call of it was interrupted, for the job then stays   *)
(* taken - by the token that call left, by the flag, or for good.            *)
(***************************************************************************)
Taken(job) == job.attempt # NoAttempt \/ job.attention \/ IsTerminal(job.status)

Work(me, r, j) == InCall(me) /\ me.run = r /\ First(me.left) = j

JobCalls(job, P, broken, r, j) ==
  /\ \A p \in Process : Work(P[p], r, j) =>
       job.attempt = P[p].attempt \/ IsTerminal(job.status)
  /\ \A p, q \in Process : Work(P[p], r, j) /\ Work(P[q], r, j) => p = q
  /\ <<r, j>> \in broken => Taken(job) /\ \A p \in Process : ~Work(P[p], r, j)

CallsInv ==
  \A r \in Run, j \in JobId :
    resets[r][j] = 0 => JobCalls(jobs[r][j], proc, interrupted, r, j)

LEMMA CallsAreWork ==
  ASSUME CopiesInv, NEW p \in Process
  PROVE  /\ Calling(p) <=> InCall(proc[p])
         /\ Calling(p) => Work(proc[p], proc[p].run, Current(p))
         /\ \A r, j : Work(proc[p], r, j) => /\ r = proc[p].run /\ j = Current(p)
                                             /\ CallOf(p) = <<r, j>>
                                             /\ proc[p].attempt \in Attempt
                                             /\ proc[p].attempt # NoAttempt
BY CallHoldsToken DEF Calling, At, InCall, Work, CallOf, Current

(* A step that leaves the job as it is, and starts no call of it.            *)
LEMMA KeptCalls ==
  ASSUME NEW job, NEW new, NEW P, NEW Q, NEW broken, NEW r, NEW j,
         JobCalls(job, P, broken, r, j),
         new.attempt = job.attempt, new.status = job.status, job.attention => new.attention,
         \A q \in Process : Work(Q[q], r, j) => Work(P[q], r, j) /\ Q[q].attempt = P[q].attempt
  PROVE  JobCalls(new, Q, broken, r, j)
<1>1. Taken(job) => Taken(new)
  BY DEF Taken
<1>2. \A q \in Process : Work(Q[q], r, j) =>
        new.attempt = Q[q].attempt \/ IsTerminal(new.status)
  BY DEF JobCalls
<1>3. \A p, q \in Process : Work(Q[p], r, j) /\ Work(Q[q], r, j) => p = q
  BY DEF JobCalls
<1>4. <<r, j>> \in broken => Taken(new) /\ \A p \in Process : ~Work(Q[p], r, j)
  BY <1>1 DEF JobCalls
<1> QED BY <1>2, <1>3, <1>4 DEF JobCalls

LEMMA BegunCalls ==
  ASSUME CopiesInv, NEW p \in Process, NEW me, Advances(p, me), Begins(p, me),
         NEW r \in Run, NEW j \in JobId,
         JobCalls(jobs[r][j], proc, interrupted, r, j)
  PROVE  JobCalls(jobs'[r][j], proc', interrupted, r, j)
<1>1. /\ proc'[p] = me /\ \A q \in Process : q # p => proc'[q] = proc[q]
      /\ ~InCall(proc[p]) /\ me.run = proc[p].run /\ First(me.left) = Current(p)
  BY OneProcessMoves DEF Begins, Current
<1>2. CASE r = proc[p].run /\ j = Current(p)
  <2>1. /\ jobs[r][j].attempt = NoAttempt /\ ~IsTerminal(jobs[r][j].status)
        /\ ~jobs[r][j].attention
    BY <1>2 DEF Begins, Claimable, IsTerminal, Terminal
  <2>2. \A q \in Process : ~Work(proc[q], r, j)
    BY <2>1, CallsAreWork DEF JobCalls
  <2>3. \A q \in Process : Work(proc'[q], r, j) => q = p
    BY <1>1, <2>2
  <2>4. jobs'[r][j].attempt = me.attempt
    <3>1. jobs'[r][j] = Claimed(jobs[r][j], me.attempt) /\ jobs[r][j] \in Job
      BY <1>2 DEF Begins, CopiesInv, IInv, TypeOK
    <3> QED BY <3>1 DEF Claimed, Job
  <2>5. <<r, j>> \notin interrupted
    BY <2>1 DEF JobCalls, Taken
  <2> QED BY <1>1, <2>3, <2>4, <2>5 DEF JobCalls
<1>3. CASE ~(r = proc[p].run /\ j = Current(p))
  <2>1. jobs'[r][j] = jobs[r][j]
    BY <1>3 DEF Begins
  <2>2. \A q \in Process : Work(proc'[q], r, j) =>
          Work(proc[q], r, j) /\ proc'[q].attempt = proc[q].attempt
    BY <1>1, <1>3 DEF Work
  <2> QED BY <2>1, <2>2, KeptCalls
<1> QED BY <1>2, <1>3

LEMMA ReportedCalls ==
  ASSUME CopiesInv, NEW p \in Process, NEW me, Advances(p, me), ~InCall(me),
         NEW t \in Transition, Report(proc[p].run, Current(p), t), Warranted(p, me, t),
         NEW r \in Run, NEW j \in JobId,
         JobCalls(jobs[r][j], proc, interrupted, r, j)
  PROVE  JobCalls(jobs'[r][j], proc', interrupted, r, j)
<1>1. \A q \in Process : Work(proc'[q], r, j) =>
        q # p /\ Work(proc[q], r, j) /\ proc'[q].attempt = proc[q].attempt
  BY OneProcessMoves DEF Work
<1>2. CASE r = proc[p].run /\ j = Current(p)
  <2> DEFINE job == jobs[r][j]
             new == jobs'[r][j]
  <2>1. /\ ~IsTerminal(job.status) /\ job.attempt \in {t.expected, NoAttempt}
        /\ new.status = t.status
        /\ job \in Job
    <3>1. /\ UpdateAccepted(job, t) /\ new = Updated(job, t)
      BY <1>2 DEF Report
    <3>2. job \in Job
      BY DEF CopiesInv, IInv, TypeOK
    <3>3. Updated(job, t).status = t.status
      BY DEF Updated, Merged
    <3> HIDE DEF job, new
    <3> QED BY <3>1, <3>2, <3>3 DEF UpdateAccepted
  <2>2. InCall(proc[p]) => Work(proc[p], r, j)
    BY <1>2 DEF Work, Current
  <2>3. ASSUME ~Work(proc[p], r, j), job.attempt # NoAttempt
        PROVE  IsTerminal(new.status)
    <3>1. t.expected \in Attempt
      BY <2>1, <2>3 DEF Job
    <3>2. ~InCall(proc[p])
      BY <2>2, <2>3
    <3>3. t.status \in {"omitted", "skipped"} \/ IsTerminal(t.status)
      BY <3>1, <3>2 DEF Warranted
    <3> QED BY <2>1, <3>3 DEF IsTerminal, Terminal
  <2>4. ASSUME NEW q \in Process, Work(proc'[q], r, j)
        PROVE  IsTerminal(new.status)
    <3>1. q # p /\ Work(proc[q], r, j)
      BY <1>1, <2>4
    <3>2. ~Work(proc[p], r, j)
      BY <3>1 DEF JobCalls
    <3>3. job.attempt = proc[q].attempt /\ proc[q].attempt # NoAttempt
      BY <2>1, <3>1, CallsAreWork DEF JobCalls
    <3> QED BY <2>3, <3>2, <3>3
  <2>5. ASSUME <<r, j>> \in interrupted
        PROVE  Taken(new)
    <3>1. ~Work(proc[p], r, j) /\ Taken(job)
      BY <2>5 DEF JobCalls
    <3>2. CASE job.attempt # NoAttempt
      BY <2>3, <3>1, <3>2 DEF Taken
    <3>3. CASE job.attention
      <4>1. [Next]_vars /\ IInv
        BY DEF Advances, CopiesInv
      <4>2. resets'[r][j] = resets[r][j] /\ resets[r][j] \in Nat
        BY <4>1 DEF Report, IInv, TypeOK
      <4>3. ~(resets'[r][j] > resets[r][j])
        BY <4>2
      <4> QED BY <3>3, <4>1, <4>3, AttentionIsKept DEF Taken
    <3> QED BY <2>1, <3>1, <3>2, <3>3 DEF Taken
  <2> HIDE DEF new
  <2>6. \A a, b \in Process : Work(proc'[a], r, j) /\ Work(proc'[b], r, j) => a = b
    BY <1>1 DEF JobCalls
  <2>7. <<r, j>> \in interrupted => \A q \in Process : ~Work(proc'[q], r, j)
    BY <1>1 DEF JobCalls
  <2>8. JobCalls(new, proc', interrupted, r, j)
    BY <2>4, <2>5, <2>6, <2>7 DEF JobCalls
  <2> QED BY <2>8 DEF new
<1>3. CASE ~(r = proc[p].run /\ j = Current(p))
  <2>1. jobs'[r][j] = jobs[r][j]
    BY <1>3 DEF Report
  <2> QED BY <1>1, <2>1, KeptCalls
<1> QED BY <1>2, <1>3

(* The call that breaks off leaves its job taken.                           *)
LEMMA BrokenCalls ==
  ASSUME CopiesInv, NEW p \in Process, NEW me, Advances(p, me),
         InCall(proc[p]), ~InCall(me),
         NEW r \in Run, NEW j \in JobId, CallOf(p) = <<r, j>>,
         JobCalls(jobs[r][j], proc, interrupted, r, j), resets'[r][j] = resets[r][j],
         Quiet \/ Report(r, j, Uncertain(proc[p].attempt))
  PROVE  Taken(jobs'[r][j]) /\ \A q \in Process : ~Work(proc'[q], r, j)
<1>1. Work(proc[p], r, j) /\ proc[p].attempt # NoAttempt
  <2>1. r = proc[p].run /\ j = Current(p)
    BY DEF CallOf
  <2> QED BY <2>1, CallsAreWork
<1>2. \A q \in Process : ~Work(proc'[q], r, j)
  <2>1. \A q \in Process : Work(proc'[q], r, j) => q # p /\ Work(proc[q], r, j)
    BY OneProcessMoves DEF Work
  <2> QED BY <1>1, <2>1 DEF JobCalls
<1>3. CASE Quiet
  <2>1. Taken(jobs[r][j])
    BY <1>1 DEF JobCalls, Taken
  <2>2. /\ jobs'[r][j].attempt = jobs[r][j].attempt
        /\ jobs'[r][j].status = jobs[r][j].status
        /\ jobs[r][j].attention => jobs'[r][j].attention
    BY <1>3 DEF Quiet, Undisturbed
  <2> QED BY <1>2, <2>1, <2>2 DEF Taken
<1>4. CASE Report(r, j, Uncertain(proc[p].attempt))
  <2> DEFINE t == Uncertain(proc[p].attempt)
  <2>1. t.attention = "set"
    BY DEF Uncertain, Patch
  <2>2. jobs'[r][j] = Updated(jobs[r][j], t)
    BY <1>4 DEF Report
  <2> HIDE DEF t
  <2>3. Updated(jobs[r][j], t).attention = (t.attention = "set")
    BY <2>1 DEF Updated, Merged, AttentionAfter
  <2> QED BY <1>2, <2>1, <2>2, <2>3 DEF Taken
<1> QED BY <1>3, <1>4

LEMMA MovedCalls ==
  ASSUME CopiesInv, NEW p \in Process, NEW me, Advances(p, me),
         NEW r \in Run, NEW j \in JobId, resets'[r][j] = resets[r][j],
         JobCalls(jobs[r][j], proc, interrupted, r, j)
  PROVE  JobCalls(jobs'[r][j], proc', interrupted', r, j)
<1>1. JobCalls(jobs'[r][j], proc', interrupted, r, j)
  <2>1. CASE Quiet /\ CallKept(proc[p], me)
    <3>1. \A q \in Process : Work(proc'[q], r, j) =>
            Work(proc[q], r, j) /\ proc'[q].attempt = proc[q].attempt
      BY <2>1, OneProcessMoves DEF CallKept, Work
    <3>2. /\ jobs'[r][j].attempt = jobs[r][j].attempt
          /\ jobs'[r][j].status = jobs[r][j].status
          /\ jobs[r][j].attention => jobs'[r][j].attention
      BY <2>1 DEF Quiet, Undisturbed
    <3> QED BY <3>1, <3>2, KeptCalls
  <2>2. CASE Begins(p, me)
    BY <2>2, BegunCalls
  <2>3. CASE /\ ~InCall(me)
             /\ \E t \in Transition : Report(proc[p].run, Current(p), t) /\ Warranted(p, me, t)
    BY <2>3, ReportedCalls
  <2> QED BY <2>1, <2>2, <2>3 DEF Advances
<1>2. CASE interrupted' = interrupted
  BY <1>1, <1>2
<1>3. CASE interrupted' # interrupted
  <2>1. /\ InCall(proc[p]) /\ ~InCall(me)
        /\ interrupted' = interrupted \union {CallOf(p)}
        /\ Quiet \/ Report(proc[p].run, Current(p), Uncertain(proc[p].attempt))
    BY <1>3 DEF Advances, Interrupts
  <2>2. CASE CallOf(p) = <<r, j>>
    <3>1. r = proc[p].run /\ j = Current(p)
      BY <2>2 DEF CallOf
    <3>2. Taken(jobs'[r][j]) /\ \A q \in Process : ~Work(proc'[q], r, j)
      BY <2>1, <2>2, <3>1, BrokenCalls
    <3> QED BY <1>1, <3>2 DEF JobCalls
  <2>3. CASE CallOf(p) # <<r, j>>
    <3>1. <<r, j>> \in interrupted' <=> <<r, j>> \in interrupted
      BY <2>1, <2>3
    <3> QED BY <1>1, <3>1 DEF JobCalls
  <2> QED BY <2>2, <2>3
<1> QED BY <1>2, <1>3

LEMMA NextCalls ==
  ASSUME CopiesInv, CallsInv, [EngineNext]_allVars
  PROVE  CallsInv'
<1> SUFFICES ASSUME NEW r \in Run, NEW j \in JobId, resets'[r][j] = 0
             PROVE  JobCalls(jobs'[r][j], proc', interrupted', r, j)
  BY DEF CallsInv
<1>1. Stays \/ \E p \in Process : \E me : Advances(p, me)
  BY StepAdvances
<1>2. [Next]_vars /\ IInv
  BY <1>1 DEF Stays, Advances, CopiesInv
<1>3. resets[r][j] = 0
  BY <1>2, RetriesGrow
<1>4. JobCalls(jobs[r][j], proc, interrupted, r, j)
  BY <1>3 DEF CallsInv
<1>5. CASE Stays
  <2>1. /\ jobs'[r][j].attempt = jobs[r][j].attempt
        /\ jobs'[r][j].status = jobs[r][j].status
        /\ jobs[r][j].attention => jobs'[r][j].attention
        /\ proc' = proc /\ interrupted' = interrupted
    BY <1>3, <1>5 DEF Stays, Quiet, Undisturbed
  <2> QED BY <1>4, <2>1, KeptCalls
<1>6. CASE \E p \in Process : \E me : Advances(p, me)
  BY <1>3, <1>4, <1>6, MovedCalls
<1> QED BY <1>1, <1>5, <1>6

LEMMA InitCalls == EngineInit => CallsInv
<1> SUFFICES ASSUME EngineInit
             PROVE  CallsInv
  OBVIOUS
<1>1. \A p \in Process : \A r, j : ~Work(proc[p], r, j)
  BY IdleIsFaithful DEF EngineInit, Work, InCall
<1> QED BY <1>1 DEF EngineInit, CallsInv, JobCalls

LEMMA InvariantCalls == EngineSpec => [](CopiesInv /\ CallsInv)
<1>1. EngineInit => CopiesInv /\ CallsInv
  BY InitCopies, InitCalls
<1>2. CopiesInv /\ CallsInv /\ [EngineNext]_allVars => (CopiesInv /\ CallsInv)'
  BY NextCopies, NextCalls
<1> QED BY <1>1, <1>2, PTL DEF EngineSpec

(***************************************************************************)
(* Two processes are never inside the plugin call of one job at once unless  *)
(* an operator retried it, however old the copies they decided from.         *)
(***************************************************************************)
THEOREM OneExecutionPerJobHolds == EngineSpec => []OneExecutionPerJob
<1>1. ASSUME CopiesInv, CallsInv
      PROVE  OneExecutionPerJob
  <2> SUFFICES ASSUME NEW p \in Process, NEW q \in Process, p # q, Calling(p), Calling(q),
                      proc[p].run = proc[q].run, Current(p) = Current(q),
                      ~(resets[proc[p].run][Current(p)] > 0)
               PROVE  FALSE
    BY DEF OneExecutionPerJob
  <2> DEFINE r == proc[p].run
             j == Current(p)
  <2>1. r \in Run /\ j \in JobId
    BY <1>1, CallHoldsToken
  <2>2. resets[r][j] \in Nat
    BY <1>1, <2>1 DEF CopiesInv, IInv, TypeOK
  <2>3. JobCalls(jobs[r][j], proc, interrupted, r, j)
    BY <1>1, <2>1, <2>2 DEF CallsInv
  <2>4. Work(proc[p], r, j) /\ Work(proc[q], r, j)
    BY <1>1, CallsAreWork
  <2> QED BY <2>3, <2>4 DEF JobCalls
<1> QED BY <1>1, InvariantCalls, PTL

(***************************************************************************)
(* A plugin call that threw, or whose process died, is not repeated without  *)
(* a retry: no sweep, cancellation, stale report or late lease renewal makes *)
(* the job claimable again.                                                 *)
(***************************************************************************)
THEOREM InterruptedNotRepeatedHolds == EngineSpec => []InterruptedNotRepeated
<1>1. ASSUME CopiesInv, CallsInv
      PROVE  InterruptedNotRepeated
  <2> SUFFICES ASSUME NEW p \in Process, Calling(p), CallOf(p) \in interrupted,
                      ~(resets[proc[p].run][Current(p)] > 0)
               PROVE  FALSE
    BY DEF InterruptedNotRepeated
  <2> DEFINE r == proc[p].run
             j == Current(p)
  <2>1. r \in Run /\ j \in JobId
    BY <1>1, CallHoldsToken
  <2>2. resets[r][j] \in Nat
    BY <1>1, <2>1 DEF CopiesInv, IInv, TypeOK
  <2>3. JobCalls(jobs[r][j], proc, interrupted, r, j)
    BY <1>1, <2>1, <2>2 DEF CallsInv
  <2>4. Work(proc[p], r, j)
    BY <1>1, CallsAreWork
  <2> QED BY <2>3, <2>4 DEF JobCalls, CallOf
<1> QED BY <1>1, InvariantCalls, PTL

-----------------------------------------------------------------------------
(***************************************************************************)
(* DECISIONS made from copies, and the ledger at that moment.               *)
(***************************************************************************)
LEMMA LedgerStatusesOf ==
  \A r \in Run : LedgerStatuses(r) = StatusesOf(jobs, r) /\ (Untouched(r) <=> Unreset(resets, r))
BY DEF LedgerStatuses, StatusesOf, Untouched, Unreset

(* A claim changes only the token and the trail; a report leaves the trail's *)
(* length.                                                                 *)
LEMMA ClaimKeepsStatus ==
  ASSUME CopiesInv, NEW r \in Run, NEW j \in JobId, NEW a
  PROVE  Claimed(jobs[r][j], a).status = jobs[r][j].status
<1>1. jobs[r][j] \in Job
  BY DEF CopiesInv, IInv, TypeOK
<1> QED BY <1>1 DEF Claimed, Job

LEMMA ReportKeepsTrail ==
  ASSUME CopiesInv, NEW r \in Run, NEW j \in JobId, NEW t \in Transition
  PROVE  /\ Len(Updated(jobs[r][j], t).history) = Len(jobs[r][j].history)
         /\ Updated(jobs[r][j], t).status = t.status
<1>1. jobs[r][j].history \in Seq(Entry)
  <2>1. jobs[r][j] \in Job
    BY DEF CopiesInv, IInv, TypeOK
  <2> QED BY <2>1, TrailOfJob
<1>2. Len(RecordOutcome(jobs[r][j].history, t)) = Len(jobs[r][j].history)
  BY <1>1, RecordedOutcome
<1> QED BY <1>2 DEF Updated, Merged

(***************************************************************************)
(* A job that gained a claim was allowed, by the copy of the process that    *)
(* claimed it, at a moment when the ledger was further than that copy.       *)
(***************************************************************************)
LEMMA ClaimsHaveNeeds ==
  ASSUME CopiesInv, [EngineNext]_allVars, NEW r \in Run, NEW j \in JobId,
         Len(jobs'[r][j].history) > Len(jobs[r][j].history), Untouched(r)
  PROVE  NeedsAllow(j, LedgerStatuses(r))
<1>0. Len(jobs[r][j].history) \in Nat
  <2>1. jobs[r][j] \in Job
    BY DEF CopiesInv, IInv, TypeOK
  <2> QED BY <2>1, TrailOfJob
<1>1. Len(jobs'[r][j].history) # Len(jobs[r][j].history)
  BY <1>0
<1>2. ~Quiet
  BY <1>1 DEF Quiet, Undisturbed
<1>3a. PICK p \in Process : \E me : Advances(p, me)
  BY <1>2, StepAdvances DEF Stays
<1>3. PICK me : Advances(p, me)
  BY <1>3a
<1>4. ~\E t \in Transition : Report(proc[p].run, Current(p), t)
  <2> SUFFICES ASSUME NEW t \in Transition, Report(proc[p].run, Current(p), t)
               PROVE  FALSE
    OBVIOUS
  <2>1. CASE r = proc[p].run /\ j = Current(p)
    BY <1>1, <2>1, ReportKeepsTrail DEF Report
  <2>2. CASE ~(r = proc[p].run /\ j = Current(p))
    BY <1>1, <2>2 DEF Report
  <2> QED BY <2>1, <2>2
<1>5. Begins(p, me)
  BY <1>2, <1>3, <1>4 DEF Advances
<1>6. r = proc[p].run /\ j = Current(p)
  BY <1>1, <1>5 DEF Begins
<1>7. MayRun(j, Situation(p)) /\ proc[p].pc \notin {"idle", "open"}
  BY <1>5, <1>6 DEF Begins, AtAJob
<1>8. /\ Situation(p) \in StatusMap /\ StatusesOf(jobs, r) \in StatusMap
      /\ Later(Situation(p), StatusesOf(jobs, r))
  BY <1>6, <1>7, LedgerIsLater, LedgerStatusesOf
<1> QED BY <1>7, <1>8, LedgerStatusesOf, ReadinessOutlivesTheCopy, EngineAssumption

(***************************************************************************)
(* The verdicts of a report: what omitted a job, and who settles a call.     *)
(***************************************************************************)
LEMMA SettledByReport ==
  ASSUME CopiesInv, NEW p \in Process, NEW me, Advances(p, me),
         NEW r \in Run, NEW j \in JobId,
         jobs'[r][j].status \notin {jobs[r][j].status, "pending"}
  PROVE  /\ r = proc[p].run /\ j = Current(p) /\ ~InCall(me)
         /\ \E t \in Transition : /\ Report(r, j, t) /\ Warranted(p, me, t)
                                  /\ jobs'[r][j].status = t.status
<1>1. ~Quiet
  BY DEF Quiet, Undisturbed
<1>2. ~Begins(p, me)
  <2> SUFFICES ASSUME Begins(p, me)
               PROVE  FALSE
    OBVIOUS
  <2>1. r = proc[p].run /\ j = Current(p)
    BY DEF Begins
  <2> QED BY <2>1, ClaimKeepsStatus DEF Begins
<1>3. PICK t \in Transition : /\ ~InCall(me) /\ Report(proc[p].run, Current(p), t)
                              /\ Warranted(p, me, t)
  BY <1>1, <1>2 DEF Advances
<1>4. r = proc[p].run /\ j = Current(p)
  BY <1>3 DEF Report
<1>5. jobs'[r][j].status = t.status
  BY <1>3, <1>4, ReportKeepsTrail DEF Report
<1> QED BY <1>3, <1>4, <1>5

LEMMA OmissionsAreFinal ==
  ASSUME CopiesInv, [EngineNext]_allVars, NEW r \in Run, NEW j \in JobId,
         jobs[r][j].status # "omitted", jobs'[r][j].status = "omitted", Untouched(r)
  PROVE  \/ \E q \in Process : At(q, "record") /\ proc'[q] # proc[q]
         \/ \E need \in Needs[j] :
              ~Known(need) \/ (Condition[j] = "none" /\ GroupImpossible(need, LedgerStatuses(r)))
<1>1. ~Stays
  BY DEF Stays, Quiet, Undisturbed
<1>2a. PICK p \in Process : \E me : Advances(p, me)
  BY <1>1, StepAdvances
<1>2. PICK me : Advances(p, me)
  BY <1>2a
<1>3. /\ r = proc[p].run /\ j = Current(p)
      /\ \E t \in Transition : Warranted(p, me, t) /\ t.status = "omitted"
  BY <1>2, SettledByReport
<1>4. CASE At(p, "record") /\ me # proc[p]
  BY <1>2, <1>4, OneProcessMoves
<1>5. CASE ~(At(p, "record") /\ me # proc[p])
  <2>1. Omit(j, Situation(p)) /\ AtAJob(p)
    BY <1>3, <1>5 DEF Warranted
  <2>2. /\ Situation(p) \in StatusMap /\ StatusesOf(jobs, r) \in StatusMap
        /\ Later(Situation(p), StatusesOf(jobs, r))
    BY <1>3, <2>1, LedgerIsLater, LedgerStatusesOf DEF AtAJob
  <2> QED BY <2>1, <2>2, ImpossibleIsFinal, LedgerStatusesOf, EngineAssumption DEF Omit
<1> QED BY <1>4, <1>5

LEMMA CallsAreSettledByCaller ==
  ASSUME CopiesInv, CallsInv, [EngineNext]_allVars, NEW p \in Process,
         Calling(p), proc'[p] = proc[p], Untouched(proc[p].run), Steady(Current(p)),
         IsTerminal(jobs'[proc[p].run][Current(p)].status),
         ~IsTerminal(jobs[proc[p].run][Current(p)].status)
  PROVE  \E q \in Process : At(q, "record") /\ proc'[q] # proc[q]
<1> DEFINE r == proc[p].run
           j == Current(p)
<1>1. /\ r \in Run /\ j \in JobId /\ proc[p].attempt \in Attempt /\ proc[p].attempt # NoAttempt
      /\ Work(proc[p], r, j)
  BY CallHoldsToken, CallsAreWork
<1>2. jobs'[r][j].status \notin {jobs[r][j].status, "pending"}
  BY DEF IsTerminal, Terminal
<1>3. ~Stays
  BY <1>1, <1>2 DEF Stays, Quiet, Undisturbed
<1>4a. PICK q \in Process : \E me : Advances(q, me)
  BY <1>3, StepAdvances
<1>4. PICK me : Advances(q, me)
  BY <1>4a
<1>5. /\ r = proc[q].run /\ j = Current(q) /\ ~InCall(me)
      /\ \E t \in Transition : Report(r, j, t) /\ Warranted(q, me, t)
  BY <1>1, <1>2, <1>4, SettledByReport
<1>6. PICK t \in Transition : Report(r, j, t) /\ Warranted(q, me, t)
  BY <1>5
<1>7. Unreset(resets, r)
  BY <1>1, LedgerStatusesOf
<1>8. JobCalls(jobs[r][j], proc, interrupted, r, j)
  BY <1>1, <1>7 DEF CallsInv, Unreset
<1>9. t.expected = proc[p].attempt
  BY <1>1, <1>6, <1>8 DEF JobCalls, Report, UpdateAccepted
<1>10. ~InCall(proc[q])
  <2> SUFFICES ASSUME InCall(proc[q])
               PROVE  FALSE
    OBVIOUS
  <2>1. Work(proc[q], r, j)
    BY <1>5 DEF Work, Current
  <2>2. q = p
    BY <1>1, <1>8, <2>1 DEF JobCalls
  <2> QED BY <1>4, <1>5, <2>2, OneProcessMoves
<1>11. ~(/\ AtAJob(q) /\ t.expected = proc[q].view[Current(q)].attempt
         /\ Omit(Current(q), Situation(q)) \/ Skip(Current(q), Situation(q)))
  <2> SUFFICES ASSUME AtAJob(q), proc[q].view[j].attempt # NoAttempt,
                      Omit(j, Situation(q)) \/ Skip(j, Situation(q))
               PROVE  FALSE
    BY <1>1, <1>5, <1>9
  <2>1. CopyIn(jobs, resets, r, proc[q].view) /\ Situation(q) \in StatusMap
    BY <1>5, AtWork DEF AtAJob
  <2>2. Ready(j, Situation(q))
    BY <1>1, <1>7, <2>1 DEF CopyIn, Situation
  <2> QED BY <1>1, <2>1, <2>2, AllowedStaysOpen, EngineAssumption DEF Ready
<1>12. At(q, "record") /\ me # proc[q]
  BY <1>1, <1>6, <1>9, <1>10, <1>11 DEF Warranted
<1> QED BY <1>4, <1>12, OneProcessMoves

(***************************************************************************)
(* A run that was finished in the normal way stays as its jobs add up to.    *)
(***************************************************************************)
LEMMA NextFinished ==
  ASSUME CopiesInv, FinishedMeansSettled, [EngineNext]_allVars
  PROVE  FinishedMeansSettled'
<1>1. [Next]_vars /\ IInv
  BY StepAdvances DEF Stays, Advances, CopiesInv
<1> SUFFICES ASSUME NEW r \in Run, Ended(r)', endedBy'[r] = "advance", Untouched(r)'
             PROVE  /\ AllSettled(StatusesOf(jobs', r))
                    /\ status'[r] = Outcome(StatusesOf(jobs', r))
  BY DEF FinishedMeansSettled, LedgerStatuses, StatusesOf
<1>2. Unreset(resets', r) /\ Unreset(resets, r)
  BY <1>1, UnresetBefore DEF Untouched, Unreset
<1>3. /\ StatusesOf(jobs, r) \in StatusMap /\ StatusesOf(jobs', r) \in StatusMap
      /\ Later(StatusesOf(jobs, r), StatusesOf(jobs', r))
  BY <1>1, <1>2, LedgerMovesLater
<1>4. /\ status \in [Run -> RunStatus]
      /\ endedBy \in [Run -> {"nobody", "advance"} \union Mode]
  BY DEF CopiesInv, IInv, TypeOK, EngineTypeOK
<1>5. ASSUME Ended(r), endedBy[r] = "advance", status'[r] = status[r]
      PROVE  /\ AllSettled(StatusesOf(jobs', r))
             /\ status'[r] = Outcome(StatusesOf(jobs', r))
  <2>1. /\ Done(StatusesOf(jobs, r))
        /\ status[r] = Outcome(StatusesOf(jobs, r))
    BY <1>2, <1>5, LedgerStatusesOf DEF FinishedMeansSettled, Done
  <2> QED BY <1>3, <1>5, <2>1, OutcomeIsFinal DEF Done
<1>6. CASE endedBy' = endedBy /\ (status'[r] = status[r] \/ status'[r] = "running")
  BY <1>5, <1>6 DEF Ended
<1>7. ASSUME NEW p \in Process, FinishRun(p),
             EndsBy(proc[p].run, Outcome(Situation(p)), "advance")
      PROVE  /\ AllSettled(StatusesOf(jobs', r))
             /\ status'[r] = Outcome(StatusesOf(jobs', r))
  <2>1. CASE r = proc[p].run
    <3>1. Done(Situation(p)) /\ proc[p].pc \notin {"idle", "open"}
      BY <1>7 DEF FinishRun, LoopOver, At
    <3>2. Situation(p) \in StatusMap /\ Later(Situation(p), StatusesOf(jobs, r))
      BY <1>2, <2>1, <3>1, LedgerIsLater
    <3>3. Done(StatusesOf(jobs, r)) /\ Outcome(StatusesOf(jobs, r)) = Outcome(Situation(p))
      BY <1>3, <3>1, <3>2, OutcomeIsFinal
    <3>4. Done(StatusesOf(jobs', r)) /\ Outcome(StatusesOf(jobs', r)) = Outcome(Situation(p))
      BY <1>3, <3>3, OutcomeIsFinal
    <3>5. status'[r] = Outcome(Situation(p))
      BY <1>4, <1>7, <2>1 DEF EndsBy
    <3> QED BY <3>4, <3>5 DEF Done
  <2>2. CASE r # proc[p].run
    <3>1. status'[r] = status[r] /\ endedBy'[r] = endedBy[r]
      BY <1>4, <1>7, <2>2 DEF EndsBy
    <3> QED BY <1>5, <3>1 DEF Ended
  <2> QED BY <2>1, <2>2
<1>8. ASSUME NEW p \in Process, EndsBy(proc[p].run, "failed", proc[p].mode)
      PROVE  /\ AllSettled(StatusesOf(jobs', r))
             /\ status'[r] = Outcome(StatusesOf(jobs', r))
  <2>1. proc[p].mode # "advance"
    BY AtWork DEF Activity, Mode
  <2>2. r # proc[p].run
    BY <1>4, <1>8, <2>1 DEF EndsBy
  <2>3. status'[r] = status[r] /\ endedBy'[r] = endedBy[r]
    BY <1>4, <1>8, <2>2 DEF EndsBy
  <2> QED BY <1>5, <2>3 DEF Ended
<1> QED BY <1>6, <1>7, <1>8, EndingsOfRuns

(***************************************************************************)
(* A run the engine finished in the normal way has every job settled, and    *)
(* the outcome they add up to, although nothing but a copy was looked at:    *)
(* what the copy shows as settled is settled, and stays so.                 *)
(***************************************************************************)
THEOREM FinishedMeansSettledHolds == EngineSpec => []FinishedMeansSettled
<1>1. EngineInit => FinishedMeansSettled
  BY DEF EngineInit, Init, FinishedMeansSettled, Ended
<1>2. CopiesInv /\ FinishedMeansSettled /\ [EngineNext]_allVars => FinishedMeansSettled'
  BY NextFinished
<1> QED BY <1>1, <1>2, InvariantCopies, PTL DEF EngineSpec

(***************************************************************************)
(* A claim finds the needs of its job met in the ledger, not only in the     *)
(* copy it was decided from (a need on "started" may have passed by).        *)
(***************************************************************************)
THEOREM ClaimFollowsNeedsHolds == EngineSpec => ClaimFollowsNeeds
<1>1. CopiesInv /\ [EngineNext]_allVars =>
        [\A r \in Run, j \in JobId :
           (Len(jobs'[r][j].history) > Len(jobs[r][j].history) /\ Untouched(r))
             => NeedsAllow(j, LedgerStatuses(r))]_allVars
  BY ClaimsHaveNeeds
<1> QED BY <1>1, InvariantCopies, PTL DEF EngineSpec, ClaimFollowsNeeds

(***************************************************************************)
(* A job that is omitted, and not by a cancellation, can never run: one of   *)
(* its needs is impossible in the ledger too, for good.                      *)
(***************************************************************************)
THEOREM OmittedForGoodHolds == EngineSpec => OmittedForGood
<1>1. CopiesInv /\ [EngineNext]_allVars =>
        [\A r \in Run, j \in JobId :
           (jobs[r][j].status # "omitted" /\ jobs'[r][j].status = "omitted" /\ Untouched(r))
             => \/ \E q \in Process : At(q, "record") /\ proc'[q] # proc[q]
                \/ \E need \in Needs[j] :
                     ~Known(need) \/ (Condition[j] = "none" /\ GroupImpossible(need, LedgerStatuses(r)))]_allVars
  BY OmissionsAreFinal
<1> QED BY <1>1, InvariantCopies, PTL DEF EngineSpec, OmittedForGood

(***************************************************************************)
(* Only its caller, or a cancellation, settles a job in flight: the verdict  *)
(* of another process, fenced with the very token of the call, cannot be     *)
(* "omitted" or "skipped", because a copy that shows the token also shows    *)
(* the needs that allowed the claim.                                        *)
(***************************************************************************)
THEOREM CallSettledByCallerHolds == EngineSpec => CallSettledByCaller
<1>1. CopiesInv /\ CallsInv /\ [EngineNext]_allVars =>
        [\A p \in Process :
           (Calling(p) /\ proc'[p] = proc[p] /\ Untouched(proc[p].run) /\ Steady(Current(p)))
             => LET r == proc[p].run
                    j == Current(p)
                IN \/ ~IsTerminal(jobs'[r][j].status) \/ IsTerminal(jobs[r][j].status)
                   \/ \E q \in Process : At(q, "record") /\ proc'[q] # proc[q]]_allVars
  BY CallsAreSettledByCaller
<1> QED BY <1>1, InvariantCalls, PTL DEF EngineSpec, CallSettledByCaller

-----------------------------------------------------------------------------
(***************************************************************************)
(* What WorkflowLedger_proofs shows of the ledger in its widest environment  *)
(* holds under the engine: no external effect is repeated without a retry,  *)
(* the flag of a job goes only with its settlement, and the engine's claims  *)
(* are those of AttemptOwnership.                                           *)
(***************************************************************************)
THEOREM EngineNeverRepeats == EngineSpec => []UncertainNeedsRetry
BY EngineUsesLedgerHolds, UncertainNeedsRetryHolds, PTL DEF EngineUsesLedger

(* The engine's processes own jobs the way AttemptOwnership says. *)
THEOREM EngineImplementsOwnership == EngineSpec => ImplementsOwnership
BY EngineUsesLedgerHolds, OwnershipImplemented, PTL DEF EngineUsesLedger

-----------------------------------------------------------------------------
(***************************************************************************)
(* WORKERS of runs that a newer run replaces, with one polling process.  All *)
(* that is on record of a worker that lives is a started job of a running    *)
(* run (OnRecord): a run ends only when none of its jobs records one.  The   *)
(* process finds them because its copies show what the ledger holds, up to   *)
(* flags and tokens, wherever it still acts on them (UpToDate), and because   *)
(* a cancellation that is not in doubt leaves none behind (Undoing).         *)
(***************************************************************************)
Working(J, A, r, j) == J[r][j].handle # NoAttempt /\ A[ItemOf[r]][j] = "live"

OnRecord(J, S, A) ==
  /\ \A i \in Item, j \in JobId : A[i][j] = "live" => Kind[j] = "launch"
  /\ \A r \in Run, j \in JobId : J[r][j].handle # NoAttempt =>
       /\ S[r] # "absent" /\ J[r][j].begun
       /\ Kind[j] = "launch" => J[r][j].status # "pending"
  /\ \A r \in Run, j \in JobId : Working(J, A, r, j) =>
       S[r] = "running" /\ J[r][j].status = "started"

UpToDate(J, r, view, js) ==
  \A j \in js : /\ view[j].status = J[r][j].status /\ view[j].handle = J[r][j].handle
                /\ view[j].handle # NoAttempt => view[j].begun

OthersUpToDate(J, r, others) ==
  \A o \in others : /\ UpToDate(J, o.run, o.view, JobId)
                    /\ o.run # r
                    /\ \A q \in others : q.run = o.run => q = o

Undoing(J, A, me) ==
  /\ UpToDate(J, me.run, me.view, me.left)
  /\ me.pc = "record" /\ ~me.doubt => ~Working(J, A, me.run, First(me.left))
  /\ IF me.mode = "late" THEN me.left # {}
     ELSE me.unsure \/ \A j \in JobId \ me.left : ~Working(J, A, me.run, j)

OnTop(J, A, me) ==
  /\ me.pc \in {"reconcile", "refresh", "jobs", "plugin", "launched"} =>
       UpToDate(J, me.run, me.view, JobId)
  /\ me.pc \in {"cancel", "record"} => Undoing(J, A, me)
  /\ me.pc = "reconcile" => \A j \in me.left : Kind[j] = "operation"
  /\ InCall(me) => me.view[First(me.left)].status = "pending"
  /\ OthersUpToDate(J, me.run, me.others)

WorkersInv ==
  /\ OnRecord(jobs, status, agent)
  /\ \A p \in Process : OnTop(jobs, agent, proc[p])

(* The shape of a step of process p that keeps this.                         *)
Leads(p) == OnRecord(jobs', status', agent') /\ OnTop(jobs', agent', proc'[p])

LEMMA BecomesThat ==
  ASSUME CopiesInv, NEW p \in Process, NEW me, Become(p, me)
  PROVE  proc'[p] = me
BY DEF Become, CopiesInv, EngineTypeOK

(* Ledger and workers as before, except for flags, leases, claims and workers *)
(* that ended.                                                               *)
Alike(J, K, A, B) ==
  /\ \A r \in Run, j \in JobId : /\ K[r][j].status = J[r][j].status
                                 /\ K[r][j].handle = J[r][j].handle
                                 /\ J[r][j].begun => K[r][j].begun
  /\ \A i \in Item, j \in JobId : B[i][j] = "live" => A[i][j] = "live"

LEMMA RecordStays ==
  ASSUME NEW J, NEW K, NEW S, NEW A, NEW B, OnRecord(J, S, A), Alike(J, K, A, B)
  PROVE  /\ OnRecord(K, S, B)
         /\ \A r \in Run, j \in JobId : Working(K, B, r, j) => Working(J, A, r, j)
<1>1. \A r \in Run : ItemOf[r] \in Item
  BY EngineAssumption
<1>2. \A r \in Run, j \in JobId : Working(K, B, r, j) => Working(J, A, r, j)
  BY <1>1 DEF Working, Alike
<1> QED BY <1>2 DEF OnRecord, Alike

LEMMA UpToDateStays ==
  ASSUME NEW J, NEW K, NEW r \in Run, NEW view, NEW js \in SUBSET JobId,
         UpToDate(J, r, view, js),
         \A j \in js : K[r][j].status = J[r][j].status /\ K[r][j].handle = J[r][j].handle
  PROVE  UpToDate(K, r, view, js)
BY DEF UpToDate

LEMMA OthersStay ==
  ASSUME NEW J, NEW K, NEW r, NEW others \in SUBSET [run : Run, view : View],
         OthersUpToDate(J, r, others),
         \A q \in Run, j \in JobId : q # r =>
           K[q][j].status = J[q][j].status /\ K[q][j].handle = J[q][j].handle
  PROVE  OthersUpToDate(K, r, others)
<1>1. \A o \in others : o.run \in Run
  OBVIOUS
<1> QED BY <1>1 DEF OthersUpToDate, UpToDate

LEMMA OnTopStays ==
  ASSUME NEW J, NEW K, NEW A, NEW B, NEW me \in Activity, InShape(me),
         OnTop(J, A, me), Alike(J, K, A, B)
  PROVE  OnTop(K, B, me)
<1>1. me.pc \notin {"idle", "open"} => me.run \in Run
  BY DEF InShape
<1>2. /\ me.left \in SUBSET JobId /\ me.others \in SUBSET [run : Run, view : View]
      /\ me.left # {} => First(me.left) \in JobId
  BY FirstIsMember DEF Activity
<1>3. \A r \in Run, j \in JobId : Working(K, B, r, j) => Working(J, A, r, j)
  <2>1. \A r \in Run : ItemOf[r] \in Item
    BY EngineAssumption
  <2> QED BY <2>1 DEF Working, Alike
<1>4. OthersUpToDate(K, me.run, me.others)
  BY <1>2, OthersStay DEF OnTop, Alike
<1>5. me.pc \in {"reconcile", "refresh", "jobs", "plugin", "launched"} =>
        UpToDate(K, me.run, me.view, JobId)
  BY <1>1, UpToDateStays DEF OnTop, Alike
<1>6. me.pc \in {"cancel", "record"} => Undoing(K, B, me)
  <2> SUFFICES ASSUME me.pc \in {"cancel", "record"}
               PROVE  Undoing(K, B, me)
    OBVIOUS
  <2>1. me.run \in Run /\ Undoing(J, A, me)
    BY <1>1 DEF OnTop
  <2>2. UpToDate(K, me.run, me.view, me.left)
    <3>1. UpToDate(J, me.run, me.view, me.left)
      BY <2>1 DEF Undoing
    <3>2. \A j \in me.left : /\ K[me.run][j].status = J[me.run][j].status
                             /\ K[me.run][j].handle = J[me.run][j].handle
      BY <1>2, <2>1 DEF Alike
    <3> QED BY <1>2, <2>1, <3>1, <3>2, UpToDateStays
  <2>3. me.pc = "record" => First(me.left) \in JobId
    BY <1>2 DEF InShape
  <2> QED BY <1>3, <2>1, <2>2, <2>3 DEF Undoing
<1> QED BY <1>4, <1>5, <1>6 DEF OnTop

(* What is read now.                                                         *)
LEMMA CopyIsUpToDate ==
  ASSUME NEW J, NEW r \in Run, \A j \in JobId : J[r][j].handle # NoAttempt => J[r][j].begun
  PROVE  UpToDate(J, r, Copy(J[r]), JobId)
<1>1. ASSUME NEW j \in JobId
      PROVE  /\ Copy(J[r])[j].status = J[r][j].status /\ Copy(J[r])[j].handle = J[r][j].handle
             /\ Copy(J[r])[j].begun = J[r][j].begun
  BY DEF Copy, Seen
<1> QED BY <1>1 DEF UpToDate

LEMMA StoredIsUpToDate ==
  ASSUME OnRecord(jobs, status, agent), NEW r \in Run
  PROVE  UpToDate(jobs, r, Stored(r), JobId)
<1>1. \A j \in JobId : jobs[r][j].handle # NoAttempt => jobs[r][j].begun
  BY DEF OnRecord
<1> QED BY <1>1, CopyIsUpToDate DEF Stored

(* The records a process starts from.                                        *)
LEMMA IdleIsOnTop ==
  ASSUME NEW J, NEW A
  PROVE  OnTop(J, A, Idle)
BY IdleIsFaithful DEF OnTop, OthersUpToDate, InCall

LEMMA RefreshingIsOnTop ==
  ASSUME NEW J, NEW A, NEW me \in Activity, NEW view \in View,
         UpToDate(J, me.run, view, JobId), OthersUpToDate(J, me.run, me.others)
  PROVE  OnTop(J, A, Refreshing(me, view))
<1> DEFINE new == Refreshing(me, view)
<1>1. /\ new.run = me.run /\ new.others = me.others /\ new.view = view
      /\ new.pc \in {"jobs", "refresh"}
  BY DEF Refreshing, Activity
<1> HIDE DEF new
<1>2. OnTop(J, A, new)
  BY <1>1 DEF OnTop, InCall
<1> QED BY <1>2 DEF new

LEMMA AdvancingIsOnTop ==
  ASSUME NEW J, NEW A, NEW r \in Run, NEW view \in View, UpToDate(J, r, view, JobId)
  PROVE  OnTop(J, A, Advancing(r, view))
<1> DEFINE me == [Idle EXCEPT !.run = r, !.view = view]
           new == [me EXCEPT !.pc = "reconcile", !.left = Observable(view)]
<1>1. /\ me \in Activity /\ me.run = r /\ me.view = view /\ me.others = {}
  BY IdleIsFaithful DEF Activity
<1> HIDE DEF me
<1>2. OthersUpToDate(J, me.run, me.others)
  BY <1>1 DEF OthersUpToDate
<1>3. OnTop(J, A, Refreshing(me, view))
  BY <1>1, <1>2, RefreshingIsOnTop
<1>4. /\ new.run = r /\ new.others = me.others /\ new.view = view
      /\ new.pc = "reconcile" /\ new.left = Observable(view)
  BY <1>1 DEF Activity
<1> HIDE DEF new
<1>5. OnTop(J, A, new)
  BY <1>1, <1>2, <1>4 DEF OnTop, InCall, Observable
<1> QED BY <1>3, <1>5 DEF Advancing, me, new

LEMMA CancellingIsOnTop ==
  ASSUME NEW J, NEW S, NEW A, OnRecord(J, S, A), NEW me \in Activity, NEW r \in Run,
         NEW view \in View, NEW mode \in Mode \ {"late"},
         UpToDate(J, r, view, JobId), OthersUpToDate(J, r, me.others)
  PROVE  OnTop(J, A, Cancelling(me, r, view, mode))
<1> DEFINE new == Cancelling(me, r, view, mode)
<1>1. /\ new.pc = "cancel" /\ new.run = r /\ new.view = view /\ new.mode = mode
      /\ new.left = {j \in JobId : ~IsTerminal(view[j].status)} /\ new.others = me.others
  BY DEF Cancelling, Activity
<1> HIDE DEF new
<1>2. ASSUME NEW j \in JobId \ new.left
      PROVE  ~Working(J, A, r, j)
  <2>1. IsTerminal(J[r][j].status)
    BY <1>1 DEF UpToDate
  <2> QED BY <2>1 DEF OnRecord, IsTerminal, Terminal
<1>3. Undoing(J, A, new)
  BY <1>1, <1>2 DEF Undoing, UpToDate
<1> QED BY <1>1, <1>3 DEF OnTop, InCall, new

LEMMA NextOfIsOnTop ==
  ASSUME NEW J, NEW S, NEW A, OnRecord(J, S, A), NEW me \in Activity, NEW r,
         OthersUpToDate(J, r, me.others), NEW next \in NextOf(me)
  PROVE  OnTop(J, A, next)
<1>1. CASE me.mode # "supersede"
  BY <1>1, IdleIsOnTop DEF NextOf
<1>2. CASE me.mode = "supersede" /\ me.others = {}
  <2> DEFINE new == [Idle EXCEPT !.pc = "open", !.target = me.target]
  <2>1. next = new
    BY <1>2 DEF NextOf
  <2>2. new.pc = "open" /\ new.others = {}
    BY IdleIsFaithful DEF Activity
  <2> HIDE DEF new
  <2> QED BY <2>1, <2>2 DEF OnTop, InCall, OthersUpToDate
<1>3. CASE me.mode = "supersede" /\ me.others # {}
  <2>1. PICK o \in me.others :
          next = Cancelling([me EXCEPT !.others = @ \ {o}], o.run, o.view, "supersede")
    BY <1>3 DEF NextOf
  <2> DEFINE rest == [me EXCEPT !.others = @ \ {o}]
  <2>2. o.run \in Run /\ o.view \in View
    BY DEF Activity
  <2>3. rest \in Activity /\ rest.others = me.others \ {o}
    BY DEF Activity
  <2>4. OthersUpToDate(J, o.run, rest.others) /\ UpToDate(J, o.run, o.view, JobId)
    BY <2>3 DEF OthersUpToDate
  <2> HIDE DEF rest
  <2>5. "supersede" \in Mode \ {"late"}
    BY DEF Mode
  <2>6. OnTop(J, A, Cancelling(rest, o.run, o.view, "supersede"))
    BY <2>2, <2>3, <2>4, <2>5, CancellingIsOnTop
  <2> QED BY <2>1, <2>6 DEF rest
<1> QED BY <1>1, <1>2, <1>3

(***************************************************************************)
(* The steps that write no job: those of the loop, of a cancellation, and    *)
(* those that begin something.                                              *)
(***************************************************************************)
LEMMA OnTopNow ==
  ASSUME CopiesInv, WorkersInv, NEW p \in Process
  PROVE  /\ OnTop(jobs, agent, proc[p]) /\ OnRecord(jobs, status, agent)
         /\ OthersUpToDate(jobs, proc[p].run, proc[p].others)
BY DEF WorkersInv, OnTop

LEMMA ReadsLead ==
  ASSUME CopiesInv, WorkersInv, NEW p \in Process, NEW me, Become(p, me),
         UNCHANGED vars, agent' = agent, OnTop(jobs, agent, me)
  PROVE  Leads(p)
<1>1. jobs' = jobs /\ status' = status
  BY DEF vars
<1>2. proc'[p] = me
  BY BecomesThat
<1> QED BY <1>1, <1>2, OnTopNow DEF Leads

LEMMA OnwardIsOnTop ==
  ASSUME NEW J, NEW A, NEW old \in Activity, NEW view, UpToDate(J, old.run, view, JobId),
         OthersUpToDate(J, old.run, old.others)
  PROVE  OnTop(J, A, Moved(old, "jobs", view))
<1> DEFINE new == Moved(old, "jobs", view)
<1>1. new.pc = "jobs" /\ new.run = old.run /\ new.view = view /\ new.others = old.others
  BY DEF Moved, Activity
<1> HIDE DEF new
<1>2. OnTop(J, A, new)
  BY <1>1 DEF OnTop, InCall
<1> QED BY <1>2 DEF new

LEMMA LoopLeads ==
  ASSUME CopiesInv, WorkersInv, NEW p \in Process,
         \/ Expire(p) \/ TimeOutJob(p) \/ Pass(p) \/ Abort(p) \/ LoseClaim(p) \/ Reread(p)
  PROVE  Leads(p)
<1> DEFINE old == proc[p]
<1>1. /\ UNCHANGED vars /\ agent' = agent /\ old.pc \in {"jobs", "reread"}
  BY DEF Expire, TimeOutJob, Pass, Abort, LoseClaim, Reread, Turn, JobTurn, Deciding,
         Executing, At
<1>2. /\ old.run \in Run /\ old \in Activity /\ OnTop(jobs, agent, old)
      /\ OnRecord(jobs, status, agent) /\ OthersUpToDate(jobs, old.run, old.others)
      /\ old.view \in View /\ old.left \in SUBSET JobId
  BY <1>1, AtWork, OnTopNow
<1>3. CASE Expire(p)
  <2> DEFINE me == Expiring(old)
  <2>1. /\ me.pc = "cancel" /\ me.mode = "expire" /\ me.run = old.run /\ me.view = old.view
        /\ me.left = {j \in JobId : old.view[j].begun /\ ~IsTerminal(old.view[j].status)}
        /\ me.others = old.others
    BY <1>2 DEF Expiring, Activity
  <2>2. Become(p, me) /\ old.pc = "jobs"
    BY <1>3 DEF Expire, At
  <2> HIDE DEF me
  <2>3. UpToDate(jobs, old.run, old.view, JobId)
    BY <1>2, <2>2 DEF OnTop
  <2>4. ASSUME NEW j \in JobId \ me.left
        PROVE  ~Working(jobs, agent, old.run, j)
    <3>1. \/ old.view[j].handle = NoAttempt
          \/ IsTerminal(jobs[old.run][j].status)
      BY <2>1, <2>3, <2>4 DEF UpToDate
    <3>2. jobs[old.run][j].handle = old.view[j].handle
      BY <2>3, <2>4 DEF UpToDate
    <3> QED BY <1>2, <2>4, <3>1, <3>2 DEF OnRecord, IsTerminal, Terminal, Working
  <2>5. Undoing(jobs, agent, me)
    BY <2>1, <2>3, <2>4 DEF Undoing, UpToDate
  <2>6. OnTop(jobs, agent, me)
    BY <1>2, <2>1, <2>5 DEF OnTop, InCall
  <2> QED BY <1>1, <2>2, <2>6, ReadsLead
<1>4. CASE TimeOutJob(p)
  <2> DEFINE me == [old EXCEPT !.pc = "cancel", !.mode = "late"]
  <2>1. /\ me.pc = "cancel" /\ me.mode = "late" /\ me.run = old.run /\ me.view = old.view
        /\ me.left = old.left /\ me.others = old.others
    BY <1>2 DEF Activity
  <2>2. Become(p, me) /\ old.pc = "jobs" /\ old.left # {}
    BY <1>4 DEF TimeOutJob, JobTurn, Turn, At
  <2> HIDE DEF me
  <2>3. Undoing(jobs, agent, me)
    BY <1>2, <2>1, <2>2 DEF Undoing, OnTop, UpToDate
  <2>4. OnTop(jobs, agent, me)
    BY <1>2, <2>1, <2>3 DEF OnTop, InCall
  <2> QED BY <1>1, <2>2, <2>4, ReadsLead
<1>5. CASE Pass(p)
  <2>1. Become(p, Moved(old, "jobs", old.view)) /\ old.pc = "jobs"
    BY <1>5 DEF Pass, Onward, Moved, Deciding, JobTurn, Turn, At
  <2>2. OnTop(jobs, agent, Moved(old, "jobs", old.view))
    BY <1>2, <2>1, OnwardIsOnTop DEF OnTop
  <2> QED BY <1>1, <2>1, <2>2, ReadsLead
<1>6. CASE Abort(p)
  <2> DEFINE me == [old EXCEPT !.left = {}]
  <2>1. /\ me.pc = old.pc /\ me.run = old.run /\ me.view = old.view /\ me.others = old.others
    BY <1>2 DEF Activity
  <2>2. Become(p, me) /\ old.pc = "jobs"
    BY <1>6 DEF Abort, Turn, At
  <2> HIDE DEF me
  <2>3. OnTop(jobs, agent, me)
    BY <1>2, <2>1, <2>2 DEF OnTop, InCall
  <2> QED BY <1>1, <2>2, <2>3, ReadsLead
<1>7. CASE LoseClaim(p)
  <2> DEFINE me == [old EXCEPT !.pc = "reread"]
  <2>1. /\ me.pc = "reread" /\ me.run = old.run /\ me.others = old.others
    BY <1>2 DEF Activity
  <2>2. Become(p, me)
    BY <1>7 DEF LoseClaim
  <2> HIDE DEF me
  <2>3. OnTop(jobs, agent, me)
    BY <1>2, <2>1 DEF OnTop, InCall
  <2> QED BY <1>1, <2>2, <2>3, ReadsLead
<1>8. CASE Reread(p)
  <2>1. Become(p, Moved(old, "jobs", Stored(old.run)))
    BY <1>8 DEF Reread, Onward, Moved
  <2>2. OnTop(jobs, agent, Moved(old, "jobs", Stored(old.run)))
    BY <1>2, StoredIsUpToDate, OnwardIsOnTop
  <2> QED BY <1>1, <2>1, <2>2, ReadsLead
<1> QED BY <1>3, <1>4, <1>5, <1>6, <1>7, <1>8

(* Workers that are stopped are none the more alive.                         *)
LEMMA StopsAreCalm ==
  ASSUME CopiesInv, NEW r \in Run, NEW js,
         \/ agent' = agent
         \/ StopWorkers(ItemOf[r], js)
  PROVE  \A i \in Item, j \in JobId :
           /\ agent'[i][j] = "live" => agent[i][j] = "live"
           /\ StopWorkers(ItemOf[r], js) /\ i = ItemOf[r] /\ j \in js => agent'[i][j] # "live"
<1>1. agent \in [Item -> [JobId -> AgentStatus]] /\ ItemOf[r] \in Item
  BY EngineAssumption DEF CopiesInv, EngineTypeOK
<1>2. CASE StopWorkers(ItemOf[r], js)
  <2>1. /\ agent'[ItemOf[r]] =
             [j \in JobId |-> IF j \in js /\ agent[ItemOf[r]][j] = "live"
                             THEN "stopped" ELSE agent[ItemOf[r]][j]]
        /\ \A i \in Item : i # ItemOf[r] => agent'[i] = agent[i]
    BY <1>1, <1>2 DEF StopWorkers
  <2> TAKE i \in Item, j \in JobId
  <2>2. CASE i = ItemOf[r]
    BY <2>1, <2>2
  <2>3. CASE i # ItemOf[r]
    BY <2>1, <2>3
  <2> QED BY <2>2, <2>3
<1>3. CASE ~StopWorkers(ItemOf[r], js)
  BY <1>3
<1> QED BY <1>2, <1>3

LEMMA CalmLeads ==
  ASSUME CopiesInv, WorkersInv, NEW p \in Process, NEW me, Become(p, me), UNCHANGED vars,
         \A i \in Item, j \in JobId : agent'[i][j] = "live" => agent[i][j] = "live",
         OnTop(jobs, agent', me)
  PROVE  Leads(p)
<1>1. jobs' = jobs /\ status' = status
  BY DEF vars
<1>2. proc'[p] = me
  BY BecomesThat
<1>3. Alike(jobs, jobs', agent, agent')
  BY <1>1 DEF Alike
<1>4. OnRecord(jobs', status', agent')
  BY <1>1, <1>3, OnTopNow, RecordStays
<1> QED BY <1>1, <1>2, <1>4 DEF Leads

LEMMA LeavingLeads ==
  ASSUME CopiesInv, WorkersInv, NEW p \in Process,
         GiveUp(p) \/ LeaveOpen(p) \/ StopWorkersLeft(p)
  PROVE  Leads(p)
<1>1. UNCHANGED vars /\ proc[p].pc \notin {"idle", "open"}
  BY DEF GiveUp, LeaveOpen, StopWorkersLeft, LoopOver, At
<1>2. proc[p].run \in Run /\ proc[p] \in Activity
  BY <1>1, AtWork
<1>3. \A i \in Item, j \in JobId : agent'[i][j] = "live" => agent[i][j] = "live"
  <2>1. agent' = agent \/ \E js : StopWorkers(ItemOf[proc[p].run], js)
    BY DEF GiveUp, LeaveOpen, StopWorkersLeft, SweepWorkers
  <2> QED BY <1>2, <2>1, StopsAreCalm
<1>4. CASE GiveUp(p) \/ LeaveOpen(p)
  <2>1. Become(p, Idle)
    BY <1>4 DEF GiveUp, LeaveOpen
  <2> QED BY <1>1, <1>3, <2>1, IdleIsOnTop, CalmLeads
<1>5. CASE StopWorkersLeft(p)
  <2>1. PICK next \in NextOf(proc[p]) : Become(p, next)
    BY <1>5 DEF StopWorkersLeft
  <2>2. Alike(jobs, jobs, agent, agent')
    BY <1>3 DEF Alike
  <2>3. OnRecord(jobs, status, agent')
    BY <2>2, OnTopNow, RecordStays
  <2>4. OnTop(jobs, agent', next)
    BY <1>2, <2>3, OnTopNow, NextOfIsOnTop
  <2> QED BY <1>1, <1>3, <2>1, <2>4, CalmLeads
<1> QED BY <1>4, <1>5

LEMMA CancelEffectLeads ==
  ASSUME CopiesInv, WorkersInv, NEW p \in Process, CancelEffect(p)
  PROVE  Leads(p)
<1> DEFINE old == proc[p]
           r == old.run
           j == Current(p)
<1>1. UNCHANGED vars /\ old.pc = "cancel" /\ old.left # {}
  BY DEF CancelEffect, Turn, At
<1>2. /\ r \in Run /\ old \in Activity /\ j \in JobId /\ j \in old.left
      /\ OnTop(jobs, agent, old) /\ OnRecord(jobs, status, agent)
      /\ j = First(old.left) /\ ItemOf[r] \in Item
  BY <1>1, AtWork, OnTopNow, EngineAssumption DEF Current
<1>3. PICK doubt \in BOOLEAN :
        /\ Become(p, [old EXCEPT !.pc = "record", !.doubt = doubt])
        /\ agent' = agent \/ StopWorkers(ItemOf[r], {j})
        /\ doubt \/ StopWorkers(ItemOf[r], {j})
             \/ ~(old.view[j].status = "started" /\ Handled(old.view[j]))
  BY DEF CancelEffect
<1>4. \A i \in Item, k \in JobId :
        /\ agent'[i][k] = "live" => agent[i][k] = "live"
        /\ StopWorkers(ItemOf[r], {j}) /\ i = ItemOf[r] /\ k \in {j} => agent'[i][k] # "live"
  <2>1. r \in Run /\ (agent' = agent \/ StopWorkers(ItemOf[r], {j}))
    BY <1>2, <1>3
  <2> HIDE DEF r, j
  <2> QED BY <2>1, StopsAreCalm
<1> DEFINE me == [old EXCEPT !.pc = "record", !.doubt = doubt]
<1>5. /\ me.pc = "record" /\ me.run = r /\ me.view = old.view /\ me.left = old.left
      /\ me.mode = old.mode /\ me.unsure = old.unsure /\ me.others = old.others
      /\ me.doubt = doubt
  BY <1>2 DEF Activity
<1>6. Become(p, me)
  BY <1>3
<1> HIDE DEF me
<1>7. Undoing(jobs, agent, old)
  BY <1>1, <1>2 DEF OnTop
<1>8. ASSUME ~doubt
      PROVE  ~Working(jobs, agent', r, j)
  <2>1. CASE StopWorkers(ItemOf[r], {j})
    BY <1>2, <1>4, <2>1 DEF Working
  <2>2. CASE ~(old.view[j].status = "started" /\ Handled(old.view[j]))
    <3>1. ~(jobs[r][j].status = "started" /\ jobs[r][j].handle # NoAttempt)
      BY <1>2, <1>7, <2>2 DEF Undoing, UpToDate, Handled
    <3>2. ~Working(jobs, agent, r, j)
      BY <1>2, <3>1 DEF OnRecord, Working
    <3> QED BY <1>2, <1>4, <3>2 DEF Working
  <2> QED BY <1>3, <1>8, <2>1, <2>2
<1>9. \A k \in JobId : ~Working(jobs, agent, r, k) => ~Working(jobs, agent', r, k)
  BY <1>2, <1>4 DEF Working
<1>10. Undoing(jobs, agent', me)
  BY <1>2, <1>5, <1>7, <1>8, <1>9 DEF Undoing
<1>11. OnTop(jobs, agent', me)
  BY <1>2, <1>5, <1>10 DEF OnTop, InCall
<1> QED BY <1>1, <1>4, <1>6, <1>11, CalmLeads

LEMMA BeginningLeads ==
  ASSUME CopiesInv, WorkersInv, NEW p \in Process, NEW r \in Run,
         Poll(p, r) \/ Discover(p, r) \/ CancelRun(p, r)
  PROVE  Leads(p)
<1>1. UNCHANGED vars /\ agent' = agent
  BY DEF Poll, Discover, CancelRun
<1>2. OnRecord(jobs, status, agent) /\ Stored(r) \in View
  BY OnTopNow, LedgerIsFaithful
<1>3. CASE Poll(p, r)
  <2>1. Become(p, Advancing(r, Stored(r)))
    BY <1>3 DEF Poll
  <2> QED BY <1>1, <1>2, <2>1, StoredIsUpToDate, AdvancingIsOnTop, ReadsLead
<1>4. CASE CancelRun(p, r)
  <2>1. Become(p, Cancelling(Idle, r, Stored(r), "operator")) /\ "operator" \in Mode \ {"late"}
    BY <1>4 DEF CancelRun, Mode
  <2>2. OthersUpToDate(jobs, r, Idle.others) /\ Idle \in Activity
    BY IdleIsFaithful DEF OthersUpToDate
  <2>3. OnTop(jobs, agent, Cancelling(Idle, r, Stored(r), "operator"))
    BY <1>2, <2>1, <2>2, StoredIsUpToDate, CancellingIsOnTop
  <2> QED BY <1>1, <2>1, <2>3, ReadsLead
<1>5. CASE Discover(p, r)
  <2> DEFINE live == {[run |-> q, view |-> Stored(q)] : q \in LiveInGroup(r)}
             me == [Idle EXCEPT !.mode = "supersede", !.target = r, !.others = live]
  <2>1. PICK next \in NextOf(me) : Become(p, next)
    BY <1>5 DEF Discover
  <2>2. LiveInGroup(r) \subseteq Run
    BY DEF LiveInGroup, RunningInGroup
  <2>3. /\ live \subseteq [run : Run, view : View]
        /\ \A o \in live : o.run \in Run /\ o = [run |-> o.run, view |-> Stored(o.run)]
    BY <2>2, LedgerIsFaithful
  <2>4. OthersUpToDate(jobs, NoRun, live)
    <3>1. \A o \in live : UpToDate(jobs, o.run, Stored(o.run), JobId) /\ o.view = Stored(o.run)
      BY <1>2, <2>3, StoredIsUpToDate
    <3>2. \A o, q \in live : q.run = o.run => q = o
      BY <2>3
    <3>3. \A o \in live : o.run # NoRun
      BY <2>3, EngineAssumption
    <3> HIDE DEF live
    <3> QED BY <3>1, <3>2, <3>3 DEF OthersUpToDate
  <2> HIDE DEF live
  <2>5. me \in Activity /\ me.others = live
    BY <2>3, IdleIsFaithful DEF Activity, Mode
  <2> HIDE DEF me
  <2>6. OnTop(jobs, agent, next)
    BY <1>2, <2>4, <2>5, NextOfIsOnTop
  <2> QED BY <1>1, <2>1, <2>6, ReadsLead
<1> QED BY <1>3, <1>4, <1>5
(***************************************************************************)
(* The steps that report about a job.  A report about a launched worker that  *)
(* is on record leaves the job started while the worker lives.              *)
(***************************************************************************)
Fits(r, j, t) ==
  Kind[j] = "launch" /\ (t.handle # NoAttempt \/ jobs[r][j].handle # NoAttempt) =>
    /\ t.status # "pending"
    /\ AgentOf(r, j) = "live" => t.status = "started"

LEMMA ReportIsRecorded ==
  ASSUME CopiesInv, OnRecord(jobs, status, agent), NEW r \in Run, NEW j \in JobId,
         NEW t, UpdateWorkflowJob(r, j, t), Fits(r, j, t), agent' = agent
  PROVE  /\ OnRecord(jobs', status', agent')
         /\ jobs'[r] = [jobs[r] EXCEPT ![j] = Updated(jobs[r][j], t)]
         /\ \A q \in Run, k \in JobId : q # r \/ k # j => jobs'[q][k] = jobs[q][k]
         /\ t.handle = NoAttempt => jobs'[r][j].handle = jobs[r][j].handle
<1> DEFINE J == jobs'
<1>0. J = jobs'
  OBVIOUS
<1> HIDE DEF J
<1>1. jobs \in [Run -> [JobId -> Job]]
  BY DEF CopiesInv, IInv, TypeOK
<1>2. /\ Running(r) /\ J = [jobs EXCEPT ![r][j] = Updated(jobs[r][j], t)] /\ status' = status
  BY <1>0 DEF UpdateWorkflowJob, SaveJob
<1>3. /\ J[r] = [jobs[r] EXCEPT ![j] = Updated(jobs[r][j], t)]
      /\ J[r][j] = Updated(jobs[r][j], t)
      /\ \A q \in Run, k \in JobId : q # r \/ k # j => J[q][k] = jobs[q][k]
  BY <1>1, <1>2
<1>4. /\ Updated(jobs[r][j], t).begun = TRUE
      /\ Updated(jobs[r][j], t).status = t.status
      /\ Updated(jobs[r][j], t).handle = IF t.handle = NoAttempt THEN jobs[r][j].handle
                                         ELSE t.handle
  BY DEF Updated, Merged
<1>5. ASSUME NEW q \in Run, NEW k \in JobId, J[q][k].handle # NoAttempt
      PROVE  /\ status[q] # "absent" /\ J[q][k].begun
             /\ Kind[k] = "launch" => J[q][k].status # "pending"
  <2>1. CASE q = r /\ k = j
    BY <1>2, <1>3, <1>4, <1>5, <2>1 DEF Fits, Running
  <2>2. CASE q # r \/ k # j
    BY <1>3, <1>5, <2>2 DEF OnRecord
  <2> QED BY <2>1, <2>2
<1>6. ASSUME NEW q \in Run, NEW k \in JobId, Working(J, agent, q, k)
      PROVE  status[q] = "running" /\ J[q][k].status = "started"
  <2>1. CASE q = r /\ k = j
    <3>1. ItemOf[r] \in Item
      BY EngineAssumption
    <3>2. Kind[j] = "launch" /\ AgentOf(r, j) = "live" /\ J[r][j].handle # NoAttempt
      BY <1>6, <2>1, <3>1 DEF OnRecord, Working, AgentOf
    <3> QED BY <1>2, <1>3, <1>4, <2>1, <3>2 DEF Fits, Running
  <2>2. CASE q # r \/ k # j
    BY <1>3, <1>6, <2>2 DEF OnRecord, Working
  <2> QED BY <2>1, <2>2
<1>7. OnRecord(J, status, agent)
  BY <1>5, <1>6 DEF OnRecord
<1> QED BY <1>0, <1>2, <1>3, <1>4, <1>7

LEMMA SendIsRecorded ==
  ASSUME CopiesInv, WorkersInv, NEW p \in Process, AtAJob(p),
         NEW t, Send(proc[p].run, Current(p), t), agent' = agent,
         Accepted(proc[p].run, Current(p), t) => Fits(proc[p].run, Current(p), t)
  PROVE  /\ OnRecord(jobs', status', agent')
         /\ OthersUpToDate(jobs', proc[p].run, proc[p].others)
         /\ \A k \in JobId : k # Current(p) => jobs'[proc[p].run][k] = jobs[proc[p].run][k]
         /\ t.handle = NoAttempt =>
              jobs'[proc[p].run][Current(p)].handle = jobs[proc[p].run][Current(p)].handle
         /\ UpToDate(jobs, proc[p].run, proc[p].view, JobId) =>
              UpToDate(jobs', proc[p].run,
                       Received(proc[p].view, proc[p].run, Current(p), t), JobId)
<1> DEFINE r == proc[p].run
           j == Current(p)
           view == Received(proc[p].view, r, j, t)
<1>1. /\ r \in Run /\ j \in JobId /\ proc[p] \in Activity
      /\ OnRecord(jobs, status, agent) /\ OthersUpToDate(jobs, r, proc[p].others)
  BY AtWork, OnTopNow DEF AtAJob
<1>2. proc[p].others \in SUBSET [run : Run, view : View]
  BY <1>1 DEF Activity
<1>3. CASE UpdateWorkflowJob(r, j, t)
  <2>1. Accepted(r, j, t)
    BY <1>3 DEF UpdateWorkflowJob, Accepted
  <2>2. /\ OnRecord(jobs', status', agent')
        /\ jobs'[r] = [jobs[r] EXCEPT ![j] = Updated(jobs[r][j], t)]
        /\ \A q \in Run, k \in JobId : q # r \/ k # j => jobs'[q][k] = jobs[q][k]
        /\ t.handle = NoAttempt => jobs'[r][j].handle = jobs[r][j].handle
    BY <1>1, <1>3, <2>1, ReportIsRecorded
  <2>3. view = Copy(jobs'[r])
    BY <2>1, <2>2 DEF Received
  <2>4. \A k \in JobId : jobs'[r][k].handle # NoAttempt => jobs'[r][k].begun
    BY <1>1, <2>2 DEF OnRecord
  <2>5. UpToDate(jobs', r, view, JobId)
    BY <1>1, <2>3, <2>4, CopyIsUpToDate
  <2>6. OthersUpToDate(jobs', r, proc[p].others)
    BY <1>1, <1>2, <2>2, OthersStay
  <2> QED BY <1>1, <2>2, <2>5, <2>6
<1>4. CASE ~Accepted(r, j, t) /\ UNCHANGED vars
  <2>1. jobs' = jobs /\ status' = status /\ view = proc[p].view
    BY <1>4 DEF vars, Received
  <2> QED BY <1>1, <2>1
<1> QED BY <1>3, <1>4 DEF Send

LEMMA WriteLeads ==
  ASSUME CopiesInv, WorkersInv, NEW p \in Process, AtAJob(p),
         NEW t, Send(proc[p].run, Current(p), t), agent' = agent,
         Onward(p, "jobs", Received(proc[p].view, proc[p].run, Current(p), t)),
         UpToDate(jobs, proc[p].run, proc[p].view, JobId),
         Accepted(proc[p].run, Current(p), t) => Fits(proc[p].run, Current(p), t)
  PROVE  Leads(p)
<1> DEFINE view == Received(proc[p].view, proc[p].run, Current(p), t)
<1>1. /\ OnRecord(jobs', status', agent')
      /\ OthersUpToDate(jobs', proc[p].run, proc[p].others)
      /\ UpToDate(jobs', proc[p].run, view, JobId)
  BY SendIsRecorded
<1>2. Become(p, Moved(proc[p], "jobs", view))
  BY DEF Onward, Moved
<1>3. proc[p] \in Activity
  BY AtWork
<1> HIDE DEF view
<1>4. OnTop(jobs', agent', Moved(proc[p], "jobs", view))
  BY <1>1, <1>3, OnwardIsOnTop
<1>5. proc'[p] = Moved(proc[p], "jobs", view)
  BY <1>2, BecomesThat
<1> QED BY <1>1, <1>4, <1>5 DEF Leads

LEMMA ReconcileLeads ==
  ASSUME CopiesInv, WorkersInv, NEW p \in Process, Reconcile(p)
  PROVE  Leads(p)
<1> DEFINE old == proc[p]
           view(t) == Received(old.view, old.run, Current(p), t)
<1>1. PICK t \in Observed :
        /\ Send(old.run, Current(p), t)
        /\ IF Rest(old.left) = {}
           THEN Become(p, Refreshing(old, view(t)))
           ELSE Onward(p, "reconcile", view(t))
  BY DEF Reconcile
<1>2. AtAJob(p) /\ old.pc = "reconcile" /\ agent' = agent
  BY DEF Reconcile, Turn, At, AtAJob
<1>3. /\ old.run \in Run /\ Current(p) \in JobId /\ Current(p) \in old.left
      /\ old \in Activity /\ OnTop(jobs, agent, old) /\ Faithful(jobs, resets, old)
      /\ old.left \in SUBSET JobId
  BY <1>2, AtWork, OnTopNow DEF AtAJob
<1>4. Fits(old.run, Current(p), t)
  BY <1>2, <1>3 DEF OnTop, Fits
<1>5. /\ OnRecord(jobs', status', agent')
      /\ OthersUpToDate(jobs', old.run, old.others)
      /\ UpToDate(jobs', old.run, view(t), JobId)
  BY <1>1, <1>2, <1>3, <1>4, SendIsRecorded DEF OnTop
<1> DEFINE v == view(t)
<1>6. v \in View
  <2>1. t \in ReconcileJob
    BY DEF Observed
  <2>2. t \in TransitionsSent(old.run, Current(p))
    BY <1>3, <2>1, SentByAnyone
  <2> QED BY <1>1, <1>2, <2>2, SendSees
<1>7. v = view(t)
  OBVIOUS
<1> HIDE DEF v, view
<1>8. CASE Rest(old.left) = {}
  <2>1. proc'[p] = Refreshing(old, v)
    BY <1>1, <1>7, <1>8, BecomesThat
  <2>2. OnTop(jobs', agent', Refreshing(old, v))
    BY <1>3, <1>5, <1>6, <1>7, RefreshingIsOnTop
  <2> QED BY <1>5, <2>1, <2>2 DEF Leads
<1>9. CASE Rest(old.left) # {}
  <2> DEFINE me == Moved(old, "reconcile", v)
  <2>1. Become(p, me)
    BY <1>1, <1>7, <1>9 DEF Onward, Moved
  <2>2. /\ me.pc = "reconcile" /\ me.run = old.run /\ me.view = v
        /\ me.others = old.others /\ me.left = Rest(old.left)
    BY <1>3 DEF Moved, Activity
  <2> HIDE DEF me
  <2>3. \A k \in me.left : Kind[k] = "operation"
    BY <1>2, <1>3, <2>2 DEF OnTop, Rest
  <2>4. OnTop(jobs', agent', me)
    BY <1>5, <1>7, <2>2, <2>3 DEF OnTop, InCall
  <2>5. proc'[p] = me
    BY <2>1, BecomesThat
  <2> QED BY <1>5, <2>4, <2>5 DEF Leads
<1> QED BY <1>8, <1>9

LEMMA RefreshLeads ==
  ASSUME CopiesInv, WorkersInv, NEW p \in Process, Refresh(p)
  PROVE  Leads(p)
<1> DEFINE old == proc[p]
           r == old.run
           j == Current(p)
           seen == old.view[j]
           t == Patch(RefreshStatus(AgentOf(r, j)), seen.attempt, "keep", NoAttempt)
<1>1. AtAJob(p) /\ old.pc = "refresh" /\ agent' = agent
  BY DEF Refresh, Turn, At, AtAJob
<1>2. /\ r \in Run /\ j \in JobId /\ old \in Activity /\ OnTop(jobs, agent, old)
  BY <1>1, AtWork, OnTopNow DEF AtAJob
<1>3. /\ Refreshed(p) \in Activity /\ Refreshed(p).run = old.run
      /\ Refreshed(p).others = old.others /\ Refreshed(p).view = old.view
      /\ Refreshed(p).pc \in {"jobs", "refresh"}
  BY <1>1, <1>2, RestIsJobs DEF Refreshed, Activity
<1>4. UpToDate(jobs, r, old.view, JobId) /\ OthersUpToDate(jobs, r, old.others)
  BY <1>1, <1>2 DEF OnTop
<1>5. CASE seen.status = "started" /\ Handled(seen) /\ AgentOf(r, j) \notin {"none", "live"}
  <2> DEFINE view == Received(old.view, r, j, t)
             me == [Refreshed(p) EXCEPT !.view = view]
  <2>1. Send(r, j, t) /\ Become(p, me)
    BY <1>3, <1>5 DEF Refresh
  <2>2. Fits(r, j, t)
    BY <1>5 DEF Fits, Patch, RefreshStatus
  <2> HIDE DEF t
  <2>3. /\ OnRecord(jobs', status', agent')
        /\ OthersUpToDate(jobs', r, old.others)
        /\ UpToDate(jobs', r, view, JobId)
    BY <1>1, <1>4, <2>1, <2>2, SendIsRecorded
  <2> HIDE DEF view
  <2>4. /\ me.run = r /\ me.others = old.others /\ me.view = view
        /\ me.pc \in {"jobs", "refresh"}
    BY <1>3 DEF Activity
  <2> HIDE DEF me
  <2>5. OnTop(jobs', agent', me)
    BY <2>3, <2>4 DEF OnTop, InCall
  <2>6. proc'[p] = me
    BY <2>1, BecomesThat
  <2> QED BY <2>3, <2>5, <2>6 DEF Leads
<1>6. CASE ~(seen.status = "started" /\ Handled(seen) /\ AgentOf(r, j) \notin {"none", "live"})
  <2>1. Become(p, Refreshed(p)) /\ UNCHANGED vars
    BY <1>6 DEF Refresh
  <2>2. OnTop(jobs, agent, Refreshed(p))
    BY <1>3, <1>4 DEF OnTop, InCall
  <2> QED BY <1>1, <2>1, <2>2, ReadsLead
<1> QED BY <1>5, <1>6

(* A pending job of launch kind records no worker.                           *)
LEMMA PendingIsUnhandled ==
  ASSUME OnRecord(jobs, status, agent), NEW r \in Run, NEW j \in JobId, NEW view,
         UpToDate(jobs, r, view, JobId), view[j].status = "pending", Kind[j] = "launch"
  PROVE  jobs[r][j].handle = NoAttempt
BY DEF OnRecord, UpToDate

LEMMA DecidedLeads ==
  ASSUME CopiesInv, WorkersInv, NEW p \in Process,
         SettleJob(p) \/ HoldRevision(p) \/ FailInputs(p)
  PROVE  Leads(p)
<1> DEFINE old == proc[p]
<1>1. Deciding(p) /\ agent' = agent
  BY DEF SettleJob, HoldRevision, FailInputs, Executing, Write
<1>2. /\ AtAJob(p) /\ old.run \in Run /\ Current(p) \in JobId /\ old.pc = "jobs"
      /\ OnTop(jobs, agent, old) /\ OnRecord(jobs, status, agent)
      /\ \A j \in JobId : Situation(p)[j] = old.view[j].status
  BY <1>1, DecidingAt, AtWork, OnTopNow DEF Deciding, JobTurn, Turn, At
<1>3. UpToDate(jobs, old.run, old.view, JobId)
  BY <1>2 DEF OnTop
<1>4. PICK t : /\ Send(old.run, Current(p), t) /\ t.handle = NoAttempt
               /\ Onward(p, "jobs", Received(old.view, old.run, Current(p), t))
               /\ Situation(p)[Current(p)] = "pending"
  <2>1. CASE SettleJob(p)
    BY <2>1 DEF SettleJob, Write, Patch, Omit, Skip
  <2>2. CASE HoldRevision(p) \/ FailInputs(p)
    <3>1. PICK t \in RevisionHold \union CatchFailure(NoAttempt) : Write(p, t)
      BY <2>2 DEF HoldRevision, FailInputs
    <3>2. t.handle = NoAttempt
      BY DEF RevisionHold, CatchFailure, Patch
    <3>3. Situation(p)[Current(p)] = "pending"
      BY <2>2 DEF HoldRevision, FailInputs, Executing, MayRun
    <3> QED BY <3>1, <3>2, <3>3 DEF Write
  <2> QED BY <2>1, <2>2
<1>5. Fits(old.run, Current(p), t)
  BY <1>2, <1>3, <1>4, PendingIsUnhandled DEF Fits
<1> QED BY <1>1, <1>2, <1>3, <1>4, <1>5, WriteLeads

LEMMA CallEndLeads ==
  ASSUME CopiesInv, WorkersInv, NEW p \in Process,
         FinishJobOf(p) \/ FailTargets(p) \/ PluginThrows(p)
  PROVE  Leads(p)
<1> DEFINE old == proc[p]
           a == old.attempt
<1>1. Calling(p) /\ agent' = agent
  BY DEF FinishJobOf, FailTargets, PluginThrows, Calling, Write
<1>2. /\ AtAJob(p) /\ InCall(old) /\ old.run \in Run /\ Current(p) \in JobId
      /\ a # NoAttempt /\ OnTop(jobs, agent, old) /\ OnRecord(jobs, status, agent)
  BY <1>1, CallHoldsToken, OnTopNow
<1>3. UpToDate(jobs, old.run, old.view, JobId) /\ old.view[Current(p)].status = "pending"
  BY <1>2 DEF OnTop, InCall, Current
<1>4. PICK t : /\ Send(old.run, Current(p), t)
               /\ Onward(p, "jobs", Received(old.view, old.run, Current(p), t))
               /\ Kind[Current(p)] = "launch" => t.handle = NoAttempt \/ t.status = "started"
  <2>1. CASE FinishJobOf(p)
    <3>1. PICK t \in Result(p, a) : Write(p, t)
      BY <2>1 DEF FinishJobOf
    <3>2. Kind[Current(p)] = "launch" => t.handle = NoAttempt \/ t.status = "started"
      BY DEF Result, Refusal, CallKind, Patch
    <3> QED BY <3>1, <3>2 DEF Write
  <2>2. CASE FailTargets(p)
    BY <2>2 DEF FailTargets, Write, CatchFailure, Patch
  <2>3. CASE PluginThrows(p)
    BY <2>3 DEF PluginThrows, Uncertain, Patch
  <2> QED BY <2>1, <2>2, <2>3
<1>5. Fits(old.run, Current(p), t)
  BY <1>2, <1>3, <1>4, PendingIsUnhandled DEF Fits
<1> QED BY <1>1, <1>2, <1>3, <1>4, <1>5, WriteLeads

LEMMA RecordCancelLeads ==
  ASSUME CopiesInv, WorkersInv, NEW p \in Process, RecordCancel(p)
  PROVE  Leads(p)
<1> DEFINE old == proc[p]
           r == old.run
           j == Current(p)
           t == CancelPatch(old.mode, old.doubt, old.view[j].attempt)
<1>1. old.pc = "record" /\ agent' = agent /\ Send(r, j, t)
  BY DEF RecordCancel, At
<1>2. AtAJob(p)
  BY <1>1, AtWork DEF InShape, AtAJob
<1>3. /\ r \in Run /\ j \in JobId /\ j = First(old.left) /\ old \in Activity
      /\ OnTop(jobs, agent, old) /\ OnRecord(jobs, status, agent) /\ ItemOf[r] \in Item
      /\ old.left \in SUBSET JobId
  BY <1>2, AtWork, OnTopNow, EngineAssumption DEF AtAJob, Current
<1>4. Undoing(jobs, agent, old)
  BY <1>1, <1>3 DEF OnTop
<1>5. /\ t.handle = NoAttempt /\ t.status # "pending"
      /\ old.doubt => t.status = "started"
  BY DEF CancelPatch, Patch
<1>6. Fits(r, j, t)
  BY <1>1, <1>3, <1>4, <1>5 DEF Fits, Undoing, Working, AgentOf
<1> HIDE DEF t
<1>7. /\ OnRecord(jobs', status', agent')
      /\ OthersUpToDate(jobs', r, old.others)
      /\ \A k \in JobId : k # j => jobs'[r][k] = jobs[r][k]
      /\ jobs'[r][j].handle = jobs[r][j].handle
  BY <1>1, <1>2, <1>5, <1>6, SendIsRecorded
<1>8. CASE old.mode = "late"
  <2> DEFINE me == [old EXCEPT !.pc = "reread", !.mode = "none", !.doubt = FALSE]
  <2>1. Become(p, me)
    BY <1>8 DEF RecordCancel
  <2>2. me.pc = "reread" /\ me.run = r /\ me.others = old.others
    BY <1>3 DEF Activity
  <2> HIDE DEF me
  <2>3. OnTop(jobs', agent', me)
    BY <1>7, <2>2 DEF OnTop, InCall
  <2> QED BY <1>7, <2>1, <2>3, BecomesThat DEF Leads
<1>9. CASE old.mode = "expire" /\ old.doubt
  <2>1. proc'[p] = Idle
    BY <1>9, BecomesThat DEF RecordCancel
  <2> QED BY <1>7, <2>1, IdleIsOnTop DEF Leads
<1>10. CASE old.mode # "late" /\ ~(old.mode = "expire" /\ old.doubt)
  <2> DEFINE me == [old EXCEPT !.pc = "cancel", !.left = Rest(@), !.doubt = FALSE,
                               !.unsure = @ \/ old.doubt]
  <2>1. Become(p, me)
    BY <1>10 DEF RecordCancel
  <2>2. /\ me.pc = "cancel" /\ me.run = r /\ me.view = old.view /\ me.mode = old.mode
        /\ me.left = old.left \ {j} /\ me.unsure = (old.unsure \/ old.doubt)
        /\ me.others = old.others
    BY <1>3 DEF Activity, Rest
  <2> HIDE DEF me
  <2>3. UpToDate(jobs', r, me.view, me.left)
    <3>1. UpToDate(jobs, r, old.view, old.left)
      BY <1>4 DEF Undoing
    <3>2. \A k \in me.left : k \in old.left /\ k \in JobId /\ jobs'[r][k] = jobs[r][k]
      BY <1>3, <1>7, <2>2
    <3> QED BY <2>2, <3>1, <3>2 DEF UpToDate
  <2>4. ASSUME ~me.unsure, NEW k \in JobId \ me.left
        PROVE  ~Working(jobs', agent', r, k)
    <3>1. ~old.doubt /\ ~old.unsure
      BY <2>2, <2>4
    <3>2. CASE k = j
      BY <1>1, <1>3, <1>4, <1>7, <3>1, <3>2 DEF Undoing, Working
    <3>3. CASE k # j
      BY <1>1, <1>4, <1>7, <1>10, <2>2, <2>4, <3>1, <3>3 DEF Undoing, Working
    <3> QED BY <3>2, <3>3
  <2>5. Undoing(jobs', agent', me)
    BY <1>10, <2>2, <2>3, <2>4 DEF Undoing
  <2>6. OnTop(jobs', agent', me)
    BY <1>7, <2>2, <2>5 DEF OnTop, InCall
  <2> QED BY <1>7, <2>1, <2>6, BecomesThat DEF Leads
<1> QED BY <1>8, <1>9, <1>10

(***************************************************************************)
(* The claim and the launch, the ends of runs, and what happens around.      *)
(***************************************************************************)
LEMMA LedgerJobs ==
  ASSUME CopiesInv
  PROVE  /\ jobs \in [Run -> [JobId -> Job]] /\ status \in [Run -> RunStatus]
         /\ agent \in [Item -> [JobId -> AgentStatus]]
BY DEF CopiesInv, IInv, TypeOK, EngineTypeOK

LEMMA ClaimJobLeads ==
  ASSUME CopiesInv, WorkersInv, NEW p \in Process, ClaimJob(p)
  PROVE  Leads(p)
<1> DEFINE old == proc[p]
           r == old.run
           j == Current(p)
<1>1. PICK a \in Attempt :
        /\ ClaimWorkflowJob(r, j, a)
        /\ Become(p, [old EXCEPT !.pc = "plugin", !.attempt = a])
  BY DEF ClaimJob
<1> DEFINE me == [old EXCEPT !.pc = "plugin", !.attempt = a]
<1>2. Deciding(p) /\ MayRun(j, Situation(p)) /\ agent' = agent /\ old.pc = "jobs"
  BY DEF ClaimJob, Executing, Deciding, JobTurn, Turn, At
<1>3. /\ r \in Run /\ j \in JobId /\ old \in Activity /\ InShape(old)
      /\ OnTop(jobs, agent, old) /\ OnRecord(jobs, status, agent)
      /\ Situation(p)[j] = old.view[j].status
  BY <1>2, DecidingAt, AtWork, OnTopNow
<1>4. Alike(jobs, jobs', agent, agent')
  <2>1. jobs' = [jobs EXCEPT ![r][j] = Claimed(jobs[r][j], a)]
    BY <1>1 DEF ClaimWorkflowJob, SaveJob
  <2>2. jobs[r][j] \in Job
    BY <1>3, LedgerJobs
  <2>3. /\ Claimed(jobs[r][j], a).status = jobs[r][j].status
        /\ Claimed(jobs[r][j], a).handle = jobs[r][j].handle
        /\ Claimed(jobs[r][j], a).begun = TRUE
    BY <2>2 DEF Claimed, Job
  <2>4. ASSUME NEW q \in Run, NEW k \in JobId
        PROVE  /\ jobs'[q][k].status = jobs[q][k].status
               /\ jobs'[q][k].handle = jobs[q][k].handle
               /\ jobs[q][k].begun => jobs'[q][k].begun
    BY <1>3, <2>1, <2>3, LedgerJobs
  <2> QED BY <1>2, <2>4 DEF Alike
<1>5. status' = status
  BY <1>1 DEF ClaimWorkflowJob
<1>6. OnRecord(jobs', status', agent') /\ OnTop(jobs', agent', old)
  BY <1>3, <1>4, <1>5, RecordStays, OnTopStays
<1>7. /\ me.pc = "plugin" /\ me.run = r /\ me.view = old.view /\ me.left = old.left
      /\ me.others = old.others
  BY <1>3 DEF Activity
<1>8. proc'[p] = me
  BY <1>1, BecomesThat
<1> HIDE DEF me
<1>9. me.view[First(me.left)].status = "pending"
  BY <1>2, <1>3, <1>7 DEF MayRun, Current
<1>10. OnTop(jobs', agent', me)
  BY <1>2, <1>6, <1>7, <1>9 DEF OnTop, InCall
<1> QED BY <1>6, <1>8, <1>10 DEF Leads

LEMMA LaunchLeads ==
  ASSUME CopiesInv, WorkersInv, NEW p \in Process, Launch(p),
         \A q, r \in Run : ItemOf[q] = ItemOf[r] => q = r
  PROVE  Leads(p)
<1> DEFINE old == proc[p]
           r == old.run
           j == Current(p)
           me == [old EXCEPT !.pc = "launched"]
<1>1. /\ UNCHANGED vars /\ old.pc = "plugin" /\ Calling(p) /\ Kind[j] = "launch"
      /\ agent' = [agent EXCEPT ![ItemOf[r]][j] = "live"]
      /\ Become(p, me)
  BY DEF Launch, At, Calling, CallKind
<1>2. /\ r \in Run /\ j \in JobId /\ InCall(old) /\ old \in Activity
      /\ OnTop(jobs, agent, old) /\ OnRecord(jobs, status, agent) /\ ItemOf[r] \in Item
  BY <1>1, CallHoldsToken, AtWork, OnTopNow, EngineAssumption
<1>3. jobs' = jobs /\ status' = status
  BY <1>1 DEF vars
<1>4. jobs[r][j].handle = NoAttempt
  <2>1. UpToDate(jobs, r, old.view, JobId) /\ old.view[j].status = "pending"
    BY <1>1, <1>2 DEF OnTop, Current
  <2> QED BY <1>1, <1>2, <2>1, PendingIsUnhandled
<1>5. \A i \in Item, k \in JobId :
        agent'[i][k] = IF i = ItemOf[r] /\ k = j THEN "live" ELSE agent[i][k]
  BY <1>1, <1>2, LedgerJobs
<1>6. ASSUME NEW q \in Run, NEW k \in JobId, Working(jobs, agent', q, k)
      PROVE  Working(jobs, agent, q, k)
  <2>1. ItemOf[q] \in Item
    BY EngineAssumption
  <2>2. ~(q = r /\ k = j)
    BY <1>4, <1>6 DEF Working
  <2>3. ~(ItemOf[q] = ItemOf[r] /\ k = j)
    BY <1>2, <2>2
  <2> QED BY <1>5, <1>6, <2>1, <2>3 DEF Working
<1> DEFINE B == agent'
<1>7. OnRecord(jobs, status, B)
  <2>0. /\ \A i \in Item, k \in JobId : B[i][k] = "live" => agent[i][k] = "live" \/ k = j
        /\ \A q \in Run, k \in JobId : Working(jobs, B, q, k) => Working(jobs, agent, q, k)
    BY <1>5, <1>6
  <2> HIDE DEF B
  <2>1. \A i \in Item, k \in JobId : B[i][k] = "live" => Kind[k] = "launch"
    BY <1>1, <1>2, <2>0 DEF OnRecord
  <2> QED BY <1>2, <2>0, <2>1 DEF OnRecord
<1>8. /\ me.pc = "launched" /\ me.run = r /\ me.view = old.view /\ me.left = old.left
      /\ me.others = old.others
  BY <1>2 DEF Activity
<1>9. proc'[p] = me
  BY <1>1, BecomesThat
<1> HIDE DEF me
<1>10. OnTop(jobs, agent', me)
  BY <1>1, <1>2, <1>8 DEF OnTop, InCall
<1> QED BY <1>3, <1>7, <1>9, <1>10 DEF Leads

(* A run may end when none of its jobs records a worker that lives.          *)
LEMMA EndIsRecorded ==
  ASSUME CopiesInv, OnRecord(jobs, status, agent), NEW r \in Run,
         NEW outcome \in {"succeeded", "failed"}, NEW who, End(r, outcome, who),
         \A j \in JobId : ~Working(jobs, agent, r, j)
  PROVE  OnRecord(jobs, status', agent) /\ jobs' = jobs
<1>1. CASE FinishWorkflowRun(r, outcome)
  <2>1. /\ status' = [status EXCEPT ![r] = outcome] /\ jobs' = jobs
    BY <1>1 DEF FinishWorkflowRun
  <2>2. \A q \in Run : status'[q] = IF q = r THEN outcome ELSE status[q]
    BY <2>1, LedgerJobs
  <2> QED BY <2>1, <2>2 DEF OnRecord
<1>2. CASE UNCHANGED vars
  BY <1>2 DEF vars
<1> QED BY <1>1, <1>2 DEF End

LEMMA EndLeads ==
  ASSUME CopiesInv, WorkersInv, NEW p \in Process, FinishRun(p) \/ EndCancelled(p)
  PROVE  Leads(p)
<1> DEFINE old == proc[p]
           r == old.run
<1>1. old.pc \in {"jobs", "cancel"} /\ agent' = agent
  BY DEF FinishRun, EndCancelled, LoopOver, At
<1>2. /\ r \in Run /\ old \in Activity /\ OnTop(jobs, agent, old)
      /\ OnRecord(jobs, status, agent) /\ OthersUpToDate(jobs, r, old.others)
      /\ \A j \in JobId : Situation(p)[j] = old.view[j].status
  BY <1>1, AtWork, OnTopNow
<1>3. \A j \in JobId : ~Working(jobs, agent, r, j)
  <2>1. CASE FinishRun(p)
    <3>1. UpToDate(jobs, r, old.view, JobId)
      BY <1>2, <2>1 DEF OnTop, FinishRun, LoopOver, At
    <3>2. \A j \in JobId : IsTerminal(old.view[j].status)
      BY <1>2, <2>1, EngineAssumption DEF FinishRun, Done, AllSettled
    <3>3. \A j \in JobId : jobs[r][j].status # "started"
      BY <3>1, <3>2 DEF UpToDate, IsTerminal, Terminal
    <3> QED BY <1>2, <3>3 DEF OnRecord
  <2>2. CASE EndCancelled(p)
    <3>1. old.pc = "cancel" /\ old.left = {} /\ ~old.unsure
      BY <2>2 DEF EndCancelled, At
    <3> QED BY <1>2, <3>1 DEF OnTop, Undoing
  <2> QED BY <2>1, <2>2
<1>4. PICK outcome \in {"succeeded", "failed"}, who \in {"advance", old.mode} :
        End(r, outcome, who)
  BY DEF FinishRun, EndCancelled, Outcome
<1>5. OnRecord(jobs', status', agent') /\ jobs' = jobs
  BY <1>1, <1>2, <1>3, <1>4, EndIsRecorded
<1>6. PICK view : Become(p, [old EXCEPT !.pc = "sweep", !.view = view])
  <2>1. CASE FinishRun(p)
    BY <2>1 DEF FinishRun
  <2>2. CASE EndCancelled(p)
    <3>1. [old EXCEPT !.pc = "sweep"] = [old EXCEPT !.pc = "sweep", !.view = old.view]
      BY <1>2 DEF Activity
    <3> QED BY <2>2, <3>1 DEF EndCancelled
  <2> QED BY <2>1, <2>2
<1> DEFINE me == [old EXCEPT !.pc = "sweep", !.view = view]
<1>7. me.pc = "sweep" /\ me.run = r /\ me.others = old.others
  BY <1>2 DEF Activity
<1>8. proc'[p] = me
  BY <1>6, BecomesThat
<1> HIDE DEF me
<1>9. OnTop(jobs', agent', me)
  BY <1>2, <1>5, <1>7 DEF OnTop, InCall
<1> QED BY <1>5, <1>8, <1>9 DEF Leads

LEMMA OpenLeads ==
  ASSUME CopiesInv, WorkersInv, NEW p \in Process, Open(p)
  PROVE  Leads(p)
<1> DEFINE r == proc[p].target
<1>1. proc[p].pc = "open" /\ agent' = agent
  BY DEF Open, At
<1>2. /\ r \in Run /\ OnRecord(jobs, status, agent) /\ Stored(r) \in View
  BY <1>1, AtWork, OnTopNow, LedgerIsFaithful DEF InShape
<1>3. OnRecord(jobs, status', agent) /\ jobs' = jobs
  <2>1. CASE OpenWorkflowRun(r)
    <3>1. status' = [status EXCEPT ![r] = "running"] /\ jobs' = jobs
      BY <2>1 DEF OpenWorkflowRun
    <3>2. \A q \in Run : status'[q] = IF q = r THEN "running" ELSE status[q]
      BY <3>1, LedgerJobs
    <3> QED BY <1>2, <3>1, <3>2 DEF OnRecord
  <2>2. CASE UNCHANGED vars
    BY <1>2, <2>2 DEF vars
  <2> QED BY <2>1, <2>2 DEF Open
<1>4. PICK me \in {Advancing(r, Stored(r)), Idle} : Become(p, me)
  BY DEF Open
<1>5. OnTop(jobs, agent, me)
  BY <1>2, <1>4, StoredIsUpToDate, AdvancingIsOnTop, IdleIsOnTop
<1>6. proc'[p] = me
  BY <1>4, BecomesThat
<1> QED BY <1>1, <1>3, <1>5, <1>6 DEF Leads

LEMMA CrashLeads ==
  ASSUME CopiesInv, WorkersInv, NEW p \in Process, Crash(p)
  PROVE  Leads(p)
<1>1. Become(p, Idle) /\ UNCHANGED vars /\ agent' = agent
  BY DEF Crash
<1> QED BY <1>1, IdleIsOnTop, ReadsLead

(* What leaves the processes where they are.                                *)
LEMMA CalmKeepsWorkers ==
  ASSUME CopiesInv, WorkersInv, proc' = proc, status' = status,
         Alike(jobs, jobs', agent, agent')
  PROVE  WorkersInv'
<1>1. OnRecord(jobs', status', agent')
  BY OnTopNow, RecordStays DEF WorkersInv
<1>2. ASSUME NEW p \in Process
      PROVE  OnTop(jobs', agent', proc[p])
  <2>1. proc[p] \in Activity /\ InShape(proc[p]) /\ OnTop(jobs, agent, proc[p])
    BY AtWork, OnTopNow
  <2> QED BY <2>1, OnTopStays
<1> QED BY <1>1, <1>2 DEF WorkersInv

LEMMA LedgerIsAlike ==
  ASSUME CopiesInv, agent' = agent,
         \A r \in Run, j \in JobId :
           \/ jobs'[r][j] = jobs[r][j]
           \/ jobs'[r][j] = Flagged(jobs[r][j])
           \/ \E lease : jobs'[r][j] = [jobs[r][j] EXCEPT !.lease = lease]
  PROVE  Alike(jobs, jobs', agent, agent')
<1>1. ASSUME NEW r \in Run, NEW j \in JobId
      PROVE  /\ jobs'[r][j].status = jobs[r][j].status
             /\ jobs'[r][j].handle = jobs[r][j].handle
             /\ jobs[r][j].begun => jobs'[r][j].begun
  <2>1. jobs[r][j] \in Job
    BY LedgerJobs
  <2>2. /\ Flagged(jobs[r][j]).status = jobs[r][j].status
        /\ Flagged(jobs[r][j]).handle = jobs[r][j].handle
        /\ Flagged(jobs[r][j]).begun = jobs[r][j].begun
    BY <2>1 DEF Flagged, Job
  <2>3. ASSUME NEW lease, jobs'[r][j] = [jobs[r][j] EXCEPT !.lease = lease]
        PROVE  /\ jobs'[r][j].status = jobs[r][j].status
               /\ jobs'[r][j].handle = jobs[r][j].handle
               /\ jobs'[r][j].begun = jobs[r][j].begun
    BY <2>1, <2>3 DEF Job
  <2> QED BY <2>2, <2>3
<1> QED BY <1>1 DEF Alike

LEMMA AroundKeepsWorkers ==
  ASSUME CopiesInv, WorkersInv,
         \/ \E p \in Process : Heartbeat(p)
         \/ Around
         \/ UNCHANGED allVars
  PROVE  WorkersInv'
<1>1. ASSUME NEW p \in Process, Heartbeat(p)
      PROVE  WorkersInv'
  <2>1. proc[p].run \in Run /\ Current(p) \in JobId
    BY <1>1, CallHoldsToken DEF Heartbeat
  <2>2. /\ jobs' = [jobs EXCEPT ![proc[p].run][Current(p)] =
                      [jobs[proc[p].run][Current(p)] EXCEPT !.lease = "live"]]
        /\ status' = status /\ agent' = agent /\ proc' = proc
    BY <1>1 DEF Heartbeat, RenewWorkflowJobLease, SaveJob, engineVars
  <2>3. \A r \in Run, j \in JobId :
          \/ jobs'[r][j] = jobs[r][j]
          \/ jobs'[r][j] = [jobs[r][j] EXCEPT !.lease = "live"]
    BY <2>1, <2>2, LedgerJobs
  <2> QED BY <2>2, <2>3, LedgerIsAlike, CalmKeepsWorkers
<1>2. CASE SweepExpired
  <2>1. /\ \A r \in Run, j \in JobId :
             jobs'[r][j] = jobs[r][j] \/ jobs'[r][j] = Flagged(jobs[r][j])
        /\ status' = status /\ agent' = agent /\ proc' = proc
    BY <1>2 DEF SweepExpired, MarkExpiredClaims, engineVars
  <2> QED BY <2>1, LedgerIsAlike, CalmKeepsWorkers
<1>3. ASSUME NEW r \in Run, NEW j \in JobId, Lapse(r, j)
      PROVE  WorkersInv'
  <2>1. /\ jobs' = [jobs EXCEPT ![r][j] = [jobs[r][j] EXCEPT !.lease = "lapsed"]]
        /\ status' = status /\ agent' = agent /\ proc' = proc
    BY <1>3 DEF Lapse, LeaseLapses, SaveJob, engineVars
  <2>2. \A q \in Run, k \in JobId :
          \/ jobs'[q][k] = jobs[q][k]
          \/ jobs'[q][k] = [jobs[q][k] EXCEPT !.lease = "lapsed"]
    BY <2>1, LedgerJobs
  <2> QED BY <2>1, <2>2, LedgerIsAlike, CalmKeepsWorkers
<1>4. ASSUME NEW i \in Item, NEW j \in JobId, SessionEnds(i, j)
      PROVE  WorkersInv'
  <2>1. PICK s \in {"succeeded", "failed"} : agent' = [agent EXCEPT ![i][j] = s]
    BY <1>4 DEF SessionEnds
  <2>2. jobs' = jobs /\ status' = status /\ proc' = proc
    BY <1>4 DEF SessionEnds, vars
  <2>3. \A h \in Item, k \in JobId : agent'[h][k] = "live" => agent[h][k] = "live"
    BY <2>1, LedgerJobs
  <2>4. Alike(jobs, jobs', agent, agent')
    BY <2>2, <2>3 DEF Alike
  <2> QED BY <2>2, <2>4, CalmKeepsWorkers
<1>5. ASSUME \/ \E r \in Run : RunBecomesOverdue(r)
             \/ \E r \in Run, j \in JobId : JobBecomesLate(r, j)
             \/ UNCHANGED allVars
      PROVE  WorkersInv'
  <2>1. jobs' = jobs /\ status' = status /\ agent' = agent /\ proc' = proc
    BY <1>5 DEF RunBecomesOverdue, JobBecomesLate, allVars, vars, engineVars
  <2>2. Alike(jobs, jobs', agent, agent')
    BY <2>1 DEF Alike
  <2> QED BY <2>1, <2>2, CalmKeepsWorkers
<1> QED BY <1>1, <1>2, <1>3, <1>4, <1>5 DEF Around

LEMMA ContinueLeads ==
  ASSUME CopiesInv, WorkersInv, NEW p \in Process, Continue(p),
         \A q, r \in Run : ItemOf[q] = ItemOf[r] => q = r
  PROVE  Leads(p)
BY ReconcileLeads, RefreshLeads, LoopLeads, DecidedLeads, ClaimJobLeads, LaunchLeads,
   CallEndLeads, RecordCancelLeads, CancelEffectLeads, LeavingLeads, EndLeads, OpenLeads
DEF Continue

(***************************************************************************)
(* One polling process, no operator's command, and no two runs about the     *)
(* same item.  (A second process may launch a worker after the first has     *)
(* read the run it is about to replace; a retry may reset a job whose        *)
(* worker lives; two runs of one item would share its worker record.)        *)
(***************************************************************************)
OnePoller ==
  /\ Operator = {} /\ \A p, q \in Daemon : p = q
  /\ \A q, r \in Run : ItemOf[q] = ItemOf[r] => q = r

LEMMA NextWorkers ==
  ASSUME OnePoller, CopiesInv, WorkersInv, [EngineNext]_allVars
  PROVE  WorkersInv'
<1>1. ASSUME NEW p \in Process, Leads(p)
      PROVE  WorkersInv'
  <2>1. \A q \in Process : q = p
    BY DEF OnePoller, Process
  <2> QED BY <1>1, <2>1 DEF Leads, WorkersInv
<1>2. ASSUME NEW p \in Process, NEW r \in Run, Retry(p, r)
      PROVE  FALSE
  BY <1>2 DEF Retry, OnePoller
<1>3. ASSUME NEW p \in Process, Continue(p)
      PROVE  Leads(p)
  BY <1>3, ContinueLeads DEF OnePoller
<1> QED
  BY <1>1, <1>2, <1>3, CrashLeads, BeginningLeads, AroundKeepsWorkers DEF EngineNext

LEMMA InitWorkers == EngineInit => WorkersInv
<1> SUFFICES ASSUME EngineInit
             PROVE  WorkersInv
  OBVIOUS
<1>1. /\ \A r \in Run, j \in JobId : jobs[r][j].handle = NoAttempt
      /\ \A i \in Item, j \in JobId : agent[i][j] # "live"
      /\ \A p \in Process : proc[p] = Idle
  BY DEF EngineInit, Init, NewJob
<1>2. OnRecord(jobs, status, agent)
  BY <1>1 DEF OnRecord, Working
<1> QED BY <1>1, <1>2, IdleIsOnTop DEF WorkersInv

LEMMA InvariantWorkers ==
  ASSUME OnePoller
  PROVE  EngineSpec => [](CopiesInv /\ WorkersInv)
<1>1. EngineInit => WorkersInv
  BY InitWorkers
<1>2. CopiesInv /\ WorkersInv /\ [EngineNext]_allVars => WorkersInv'
  BY NextWorkers
<1> QED BY <1>1, <1>2, InvariantCopies, PTL DEF EngineSpec

(* A run begins only when its group is free.                                *)
LEMMA OpensWhenFree ==
  ASSUME CopiesInv, [EngineNext]_allVars, NEW r \in Run,
         status[r] = "absent", status'[r] = "running", GroupOf[r] # NoGroup
  PROVE  RunningInGroup(r) = {}
<1>1. [Next]_vars
  BY StepAdvances DEF Stays, Advances
<1>2. status \in [Run -> RunStatus]
  BY LedgerJobs
<1>3. CASE UNCHANGED vars
  BY <1>3 DEF vars
<1>4. ASSUME NEW q \in Run, OpenWorkflowRun(q)
      PROVE  RunningInGroup(r) = {}
  <2>1. q = r
    BY <1>2, <1>4 DEF OpenWorkflowRun
  <2> QED BY <1>4, <2>1 DEF OpenWorkflowRun
<1>5. ASSUME NEW q \in Run, NEW outcome \in {"succeeded", "failed"},
             FinishWorkflowRun(q, outcome)
      PROVE  FALSE
  <2>1. status'[r] \in {status[r], outcome}
    BY <1>2, <1>5 DEF FinishWorkflowRun
  <2> QED BY <2>1
<1>6. ASSUME NEW q \in Run, NEW wanted \in SUBSET JobId, RetryWorkflowJobs(q, wanted)
      PROVE  FALSE
  <2>1. status[q] # "absent" /\ status' = [status EXCEPT ![q] = "running"]
    BY <1>6 DEF RetryWorkflowJobs
  <2>2. status'[r] = status[r]
    BY <1>2, <2>1
  <2> QED BY <2>2
<1>7. ASSUME NEW q \in Run, NEW j \in JobId, JobStep(q, j)
      PROVE  FALSE
  <2>1. status' = status
    BY <1>7 DEF JobStep, ClaimWorkflowJob, MarkWorkflowJobNeedsAttention,
                RenewWorkflowJobLease, UpdateWorkflowJob, LeaseLapses
  <2> QED BY <2>1
<1>8. CASE MarkExpiredClaims
  BY <1>8 DEF MarkExpiredClaims
<1> QED BY <1>1, <1>3, <1>4, <1>5, <1>6, <1>7, <1>8 DEF Next

(***************************************************************************)
(* With one polling process and no operator's command, a newer run of a       *)
(* group begins only when no worker an older run of it recorded is alive:    *)
(* whatever crashes, expires, is refused or stays in doubt, a run cannot end *)
(* while it records a worker that lives.                                    *)
(***************************************************************************)
THEOREM SupersededWorkersStoppedHolds ==
  ASSUME OnePoller
  PROVE  EngineSpec => SupersededWorkersStopped
<1>1. CopiesInv /\ WorkersInv /\ [EngineNext]_allVars =>
        [\A r, q \in Run :
           (/\ status[r] = "absent" /\ status'[r] = "running"
            /\ GroupOf[r] # NoGroup /\ GroupOf[q] = GroupOf[r])
             => \A j \in JobId : jobs[q][j].handle # NoAttempt => AgentOf(q, j) # "live"]_allVars
  <2> SUFFICES ASSUME CopiesInv, WorkersInv, [EngineNext]_allVars,
                      NEW r \in Run, NEW q \in Run,
                      status[r] = "absent", status'[r] = "running",
                      GroupOf[r] # NoGroup, GroupOf[q] = GroupOf[r],
                      NEW j \in JobId, jobs[q][j].handle # NoAttempt, AgentOf(q, j) = "live"
               PROVE  FALSE
    OBVIOUS
  <2>1. RunningInGroup(r) = {}
    BY OpensWhenFree
  <2>2. status[q] = "running"
    BY DEF WorkersInv, OnRecord, Working, AgentOf
  <2> QED BY <2>1, <2>2 DEF RunningInGroup, Running
<1> QED BY <1>1, InvariantWorkers, PTL DEF EngineSpec, SupersededWorkersStopped
=============================================================================
