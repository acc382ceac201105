----------------------- MODULE WorkflowLedger_proofs -----------------------
(***************************************************************************)
(* Proofs about WorkflowLedger, for every set of runs, jobs, tokens and     *)
(* groups and every bound on retries.                                       *)
(***************************************************************************)
EXTENDS WorkflowLedger, WorkflowJobs_proofs, SequenceTheorems, TLAPS

(***************************************************************************)
(* The inductive invariant.  WellOwned is about one job and the number n of *)
(* retries that have reset it:                                              *)
(*  - a token in flight is that of the newest trail entry, and the flag     *)
(*    agrees with that entry; only such a job has a lease;                  *)
(*  - no token occurs twice, so a sweep marks one entry;                    *)
(*  - an uncertain entry that is not the newest took a retry, and an        *)
(*    uncertain newest entry still blocks the job unless a retry has been.  *)
(* The last part is what makes UncertainNeedsRetry inductive: at the claim  *)
(* that turns the newest entry into an older one.                           *)
(***************************************************************************)
TokenBacked(job) ==
  Held(job) => /\ job.status = "pending"
               /\ job.history # << >>
               /\ LastEntry(job).attempt = job.attempt
               /\ job.attention <=> LastEntry(job).outcome = "uncertain"

TokensDistinct(job) ==
  \A i, k \in 1..Len(job.history) :
    job.history[i].attempt = job.history[k].attempt => i = k

UncertainBlocks(job, n) ==
  \A i \in 1..Len(job.history) :
    job.history[i].outcome = "uncertain" /\ n = 0
      => i = Len(job.history) /\ (job.attention \/ IsTerminal(job.status))

LeaseBacked(job) == job.lease # "none" => Held(job)

WellOwned(job, n) ==
  TokenBacked(job) /\ TokensDistinct(job) /\ UncertainBlocks(job, n) /\ LeaseBacked(job)

IInv ==
  TypeOK /\ \A r \in Run, j \in JobId : WellOwned(jobs[r][j], resets[r][j])

-----------------------------------------------------------------------------
(* One lemma per function of WorkflowJobs. *)

LEMMA NewJobOK == NewJob \in Job /\ \A n \in Nat : WellOwned(NewJob, n)
<1>1. << >> \in Seq(Entry) /\ Len(<< >>) = 0
  OBVIOUS
<1> QED
  BY <1>1 DEF NewJob, Job, JobStatus, WellOwned, TokenBacked, TokensDistinct,
              UncertainBlocks, LeaseBacked, Held

LEMMA ClaimedOK ==
  ASSUME NEW job \in Job, NEW n \in Nat, NEW a \in Attempt,
         WellOwned(job, n), Claimable(job),
         \A i \in DOMAIN job.history : job.history[i].attempt # a
  PROVE  Claimed(job, a) \in Job /\ WellOwned(Claimed(job, a), n)
<1> DEFINE new == Claimed(job, a)
           e == [attempt |-> a, outcome |-> "open"]
<1>1. /\ job.history \in Seq(Entry)
      /\ Len(job.history) \in Nat
      /\ DOMAIN job.history = 1..Len(job.history)
  BY TrailOfJob
<1>2. e \in Entry
  BY DEF Entry
<1>3. /\ new.history = Append(job.history, e)
      /\ new.status = job.status /\ new.attempt = a
      /\ new.attention = job.attention
  BY DEF Claimed, Job
<1>4. /\ Append(job.history, e) \in Seq(Entry)
      /\ Len(Append(job.history, e)) = Len(job.history) + 1
      /\ Append(job.history, e)[Len(job.history) + 1] = e
      /\ \A i \in 1..Len(job.history) : Append(job.history, e)[i] = job.history[i]
  BY <1>1, <1>2, AppendedTrail
<1>5. new \in Job
  BY <1>4 DEF Claimed, Job
<1> HIDE DEF new
<1>6. TokenBacked(new)
  <2>1. LastEntry(new) = e /\ new.history # << >>
    <3>1. Len(new.history) = Len(job.history) + 1
      BY <1>3, <1>4
    <3>2. LastEntry(new) = e
      BY <3>1, <1>3, <1>4 DEF LastEntry
    <3>3. new.history # << >>
      BY <3>1, <1>1
    <3> QED BY <3>2, <3>3
  <2> QED BY <2>1, <1>3 DEF TokenBacked, Claimable
<1>7. TokensDistinct(new)
  BY <1>1, <1>3, <1>4 DEF TokensDistinct, WellOwned
<1>8. UncertainBlocks(new, n)
  <2> SUFFICES ASSUME NEW i \in 1..Len(new.history),
                      new.history[i].outcome = "uncertain", n = 0
               PROVE  FALSE
    BY DEF UncertainBlocks
  <2>1. i # Len(job.history) + 1
    BY <1>3, <1>4
  <2>2. i \in 1..Len(job.history) /\ job.history[i].outcome = "uncertain"
    BY <2>1, <1>1, <1>3, <1>4
  <2> QED BY <2>2 DEF WellOwned, UncertainBlocks, Claimable, IsTerminal, Terminal
<1>9. LeaseBacked(new)
  BY <1>3, TokenAssumption DEF LeaseBacked, Held
<1> QED BY <1>5, <1>6, <1>7, <1>8, <1>9 DEF WellOwned, new

(***************************************************************************)
(* What the callers of updateWorkflowJob send.  Only a settling transition  *)
(* clears needsAttention.                                                   *)
(***************************************************************************)
Sendable(t) ==
  /\ t \in Transition
  /\ t.attention = "clear" => IsTerminal(t.status)

LEMMA UpdatedOK ==
  ASSUME NEW job \in Job, NEW n \in Nat, NEW t, Sendable(t),
         WellOwned(job, n), UpdateAccepted(job, t)
  PROVE  Updated(job, t) \in Job /\ WellOwned(Updated(job, t), n)
<1> DEFINE new == Updated(job, t)
           trail == RecordOutcome(job.history, t)
<1>1. /\ job.history \in Seq(Entry)
      /\ Len(job.history) \in Nat
      /\ DOMAIN job.history = 1..Len(job.history)
  BY TrailOfJob
<1>2. /\ trail \in Seq(Entry)
      /\ Len(trail) = Len(job.history)
      /\ \A i \in 1..Len(job.history) :
           /\ trail[i].attempt = job.history[i].attempt
           /\ trail[i].outcome = "uncertain" => job.history[i].outcome = "uncertain"
  BY <1>1, RecordedOutcome
<1> HIDE DEF trail
<1>3. /\ new.status = t.status
      /\ new.attempt = NoAttempt
      /\ new.attention = (IF t.attention = "keep" THEN job.attention ELSE t.attention = "set")
      /\ new.history \in {job.history, trail}
      /\ new.lease = (IF t.expected = NoAttempt THEN job.lease ELSE "none")
  BY DEF Updated, Merged, TokenAfter, AttentionAfter, UpdateAccepted, trail
<1>4. new \in Job
  BY <1>1, <1>2, <1>3 DEF Updated, Merged, TokenAfter, AttentionAfter, Job, Transition,
                          Sendable, trail
<1> HIDE DEF new
<1>5. TokenBacked(new)
  BY <1>3 DEF TokenBacked, Held
<1>6. TokensDistinct(new)
  BY <1>2, <1>3 DEF TokensDistinct, WellOwned
<1>7. UncertainBlocks(new, n)
  <2> SUFFICES ASSUME NEW i \in 1..Len(new.history),
                      new.history[i].outcome = "uncertain", n = 0
               PROVE  i = Len(new.history) /\ (new.attention \/ IsTerminal(new.status))
    BY DEF UncertainBlocks
  <2>1. i = Len(job.history) /\ job.attention
    BY <1>2, <1>3 DEF WellOwned, UncertainBlocks, UpdateAccepted
  <2>2. t.attention \in {"keep", "set", "clear"}
    BY DEF Sendable, Transition
  <2> QED BY <1>2, <1>3, <2>1, <2>2 DEF Sendable
<1>8. LeaseBacked(new)
  BY <1>3 DEF WellOwned, LeaseBacked, Held, UpdateAccepted
<1> QED BY <1>4, <1>5, <1>6, <1>7, <1>8 DEF WellOwned, new

LEMMA FlaggedOK ==
  ASSUME NEW job \in Job, NEW n \in Nat, WellOwned(job, n), Held(job)
  PROVE  Flagged(job) \in Job /\ WellOwned(Flagged(job), n)
<1> DEFINE new == Flagged(job)
           trail == MarkUncertain(job.history, job.attempt)
<1>1. /\ job.history \in Seq(Entry)
      /\ Len(job.history) \in Nat
      /\ DOMAIN job.history = 1..Len(job.history)
  BY TrailOfJob
<1>2. /\ trail \in Seq(Entry)
      /\ Len(trail) = Len(job.history)
      /\ \A i \in 1..Len(job.history) :
           /\ trail[i].attempt = job.history[i].attempt
           /\ job.history[i].attempt = job.attempt => trail[i].outcome = "uncertain"
           /\ job.history[i].attempt # job.attempt => trail[i] = job.history[i]
  BY <1>1, MarkedUncertain
<1> HIDE DEF trail
<1>3. /\ new.status = job.status /\ new.attempt = job.attempt
      /\ new.attention = TRUE /\ new.history = trail
  BY DEF Flagged, Job, trail
<1>4. new \in Job
  BY <1>2 DEF Flagged, Job, trail
<1> HIDE DEF new
<1>5. /\ Len(job.history) \in 1..Len(job.history)
      /\ job.history[Len(job.history)].attempt = job.attempt
      /\ job.status = "pending"
  BY <1>1 DEF WellOwned, TokenBacked, LastEntry
<1>6. TokenBacked(new)
  BY <1>1, <1>2, <1>3, <1>5 DEF TokenBacked, LastEntry
<1>7. TokensDistinct(new)
  BY <1>2, <1>3 DEF TokensDistinct, WellOwned
<1>8. UncertainBlocks(new, n)
  <2> SUFFICES ASSUME NEW i \in 1..Len(job.history),
                      trail[i].outcome = "uncertain", n = 0
               PROVE  i = Len(job.history)
    BY <1>2, <1>3 DEF UncertainBlocks
  <2>1. CASE job.history[i].attempt = job.attempt
    BY <2>1, <1>5 DEF WellOwned, TokensDistinct
  <2>2. CASE job.history[i].attempt # job.attempt
    BY <2>2, <1>2 DEF WellOwned, UncertainBlocks
  <2> QED BY <2>1, <2>2
<1>9. LeaseBacked(new)
  BY <1>3 DEF LeaseBacked, Held
<1> QED BY <1>4, <1>6, <1>7, <1>8, <1>9 DEF WellOwned, new

LEMMA ResetOK ==
  ASSUME NEW job \in Job, NEW n \in Nat, WellOwned(job, n)
  PROVE  Reset(job) \in Job /\ WellOwned(Reset(job), n + 1)
<1> DEFINE new == Reset(job)
<1>1. new.history = job.history /\ new.attempt = NoAttempt /\ new.lease = "none"
  BY DEF Reset, Job
<1>2. new \in Job
  BY DEF Reset, Job, JobStatus
<1> HIDE DEF new
<1>3. WellOwned(new, n + 1)
  BY <1>1 DEF WellOwned, TokenBacked, TokensDistinct, UncertainBlocks, LeaseBacked, Held
<1> QED BY <1>2, <1>3 DEF new

(* Renewal and the passing of time only move the lease. *)
LEMMA LeaseOK ==
  ASSUME NEW job \in Job, NEW n \in Nat, WellOwned(job, n),
         Held(job) \/ job.lease # "none", NEW l \in {"none", "live", "lapsed"}
  PROVE  /\ [job EXCEPT !.lease = l] \in Job
         /\ WellOwned([job EXCEPT !.lease = l], n)
BY DEF Job, WellOwned, TokenBacked, TokensDistinct, UncertainBlocks, LeaseBacked, Held,
       LastEntry

-----------------------------------------------------------------------------
(***************************************************************************)
(* Every step of the ledger, seen from one job, is one of six moves.  The    *)
(* invariants, the action properties and the refinement all follow from      *)
(* this case split.                                                         *)
(***************************************************************************)
LEMMA SentIsSendable ==
  ASSUME TypeOK, NEW r \in Run, NEW j \in JobId, NEW t \in TransitionsSent(r, j)
  PROVE  Sendable(t)
<1>1. TokensRead(r, j) \subseteq Attempt \union {NoAttempt}
  <2>1. jobs[r][j] \in Job
    BY DEF TypeOK
  <2> QED BY <2>1, TrailOfJob DEF TokensRead
<1>2. CASE t \in RevisionHold \union RefreshJob \union ReconcileJob
  BY <1>2 DEF RevisionHold, RefreshJob, ReconcileJob, Patch, Sendable, Transition,
              Token, JobStatus, IsTerminal, Terminal
<1>3. CASE \E k \in TokensRead(r, j) :
             t \in CatchFailure(k) \union Settle(k) \union CancelJob(k)
  BY <1>1, <1>3 DEF CatchFailure, Settle, CancelJob, Patch, Sendable, Transition,
                    Token, JobStatus, IsTerminal, Terminal
<1>4. CASE \E a \in TokensRead(r, j) \ {NoAttempt} :
             t \in FinishJob(a) \union FinishUncertain(a)
  BY <1>1, <1>4 DEF FinishJob, FinishUncertain, Patch, Sendable, Transition,
                    Token, JobStatus, IsTerminal, Terminal
<1> DEFINE FromToken == UNION {CatchFailure(k) \union Settle(k) \union CancelJob(k)
                              : k \in TokensRead(r, j)}
           FromOwner == UNION {FinishJob(a) \union FinishUncertain(a)
                              : a \in TokensRead(r, j) \ {NoAttempt}}
<1>5. t \in FromToken => \E k \in TokensRead(r, j) :
                           t \in CatchFailure(k) \union Settle(k) \union CancelJob(k)
  OBVIOUS
<1>6. t \in FromOwner => \E a \in TokensRead(r, j) \ {NoAttempt} :
                           t \in FinishJob(a) \union FinishUncertain(a)
  OBVIOUS
<1>7. t \in RevisionHold \union RefreshJob \union ReconcileJob \union FromToken \union FromOwner
  BY DEF TransitionsSent
<1> HIDE DEF FromToken, FromOwner
<1>8. t \in RevisionHold \union RefreshJob \union ReconcileJob \/ t \in FromToken \/ t \in FromOwner
  BY <1>7
<1> QED BY <1>2, <1>3, <1>4, <1>5, <1>6, <1>8

JobMove(r, j) ==
  LET job == jobs[r][j]
      new == jobs'[r][j]
  IN \/ /\ resets'[r][j] = resets[r][j]
        /\ \/ new = job
           \/ \E a \in Attempt : Claimable(job) /\ Fresh(a) /\ new = Claimed(job, a)
           \/ \E t \in Transition :
                Sendable(t) /\ UpdateAccepted(job, t) /\ new = Updated(job, t)
           \/ Held(job) /\ new = Flagged(job)
           \/ /\ Held(job) \/ job.lease # "none"
              /\ \E l \in {"none", "live", "lapsed"} : new = [job EXCEPT !.lease = l]
     \/ /\ resets'[r][j] = resets[r][j] + 1
        /\ Resettable(job) /\ new = Reset(job)

LEMMA StepIsJobMoves ==
  ASSUME TypeOK, [Next]_vars
  PROVE  /\ DOMAIN jobs' = Run /\ \A r \in Run : DOMAIN jobs'[r] = JobId
         /\ resets' \in [Run -> [JobId -> Nat]]
         /\ jobs' = [r \in Run |-> [j \in JobId |-> jobs'[r][j]]]
         /\ \A r \in Run, j \in JobId : JobMove(r, j)
<1> USE DEF TypeOK
<1> DEFINE Goal ==
      /\ DOMAIN jobs' = Run /\ \A r \in Run : DOMAIN jobs'[r] = JobId
      /\ resets' \in [Run -> [JobId -> Nat]]
      /\ jobs' = [r \in Run |-> [j \in JobId |-> jobs'[r][j]]]
      /\ \A r \in Run, j \in JobId : JobMove(r, j)
(* A step that saves one job and resets nothing is settled by that job. *)
<1>one. ASSUME NEW r \in Run, NEW j \in JobId, NEW new, SaveJob(r, j, new), resets' = resets,
               \/ \E a \in Attempt : /\ Claimable(jobs[r][j]) /\ Fresh(a)
                                     /\ new = Claimed(jobs[r][j], a)
               \/ \E t \in Transition : /\ Sendable(t) /\ UpdateAccepted(jobs[r][j], t)
                                        /\ new = Updated(jobs[r][j], t)
               \/ Held(jobs[r][j]) /\ new = Flagged(jobs[r][j])
               \/ /\ Held(jobs[r][j]) \/ jobs[r][j].lease # "none"
                  /\ \E l \in {"none", "live", "lapsed"} :
                       new = [jobs[r][j] EXCEPT !.lease = l]
        PROVE  Goal
  <2>1. /\ DOMAIN jobs' = Run
        /\ \A q \in Run : DOMAIN jobs'[q] = JobId
        /\ jobs'[r][j] = new
        /\ \A q \in Run, k \in JobId : q # r \/ k # j => jobs'[q][k] = jobs[q][k]
    BY <1>one DEF SaveJob
  <2>2. jobs' = [q \in Run |-> [k \in JobId |-> jobs'[q][k]]]
    BY <1>one DEF SaveJob
  <2>3. JobMove(r, j)
    BY <2>1, <1>one DEF JobMove
  <2>4. \A q \in Run, k \in JobId : q # r \/ k # j => JobMove(q, k)
    BY <2>1, <1>one DEF JobMove
  <2> QED BY <2>1, <2>2, <2>3, <2>4, <1>one
<1>same. ASSUME jobs' = jobs, resets' = resets
         PROVE  Goal
  <2>1. \A r \in Run, j \in JobId : JobMove(r, j)
    BY <1>same DEF JobMove
  <2> QED BY <2>1, <1>same
<1>1. ASSUME NEW r \in Run, OpenWorkflowRun(r)
      PROVE  Goal
  BY <1>1, <1>same DEF OpenWorkflowRun
<1>2. ASSUME NEW r \in Run, NEW j \in JobId, NEW a \in Attempt, ClaimWorkflowJob(r, j, a)
      PROVE  Goal
  BY <1>2, <1>one DEF ClaimWorkflowJob
<1>3. ASSUME NEW r \in Run, NEW j \in JobId, NEW a \in Attempt,
             MarkWorkflowJobNeedsAttention(r, j, a)
      PROVE  Goal
  BY <1>3, <1>one, TokenAssumption DEF MarkWorkflowJobNeedsAttention, Held
<1>4. ASSUME NEW r \in Run, NEW j \in JobId, NEW a \in Attempt, RenewWorkflowJobLease(r, j, a)
      PROVE  Goal
  BY <1>4, <1>one, TokenAssumption DEF RenewWorkflowJobLease, Held
<1>5. ASSUME NEW r \in Run, NEW j \in JobId, NEW t \in TransitionsSent(r, j),
             UpdateWorkflowJob(r, j, t)
      PROVE  Goal
  <2>1. Sendable(t) /\ t \in Transition
    BY SentIsSendable DEF Sendable
  <2> QED BY <2>1, <1>5, <1>one DEF UpdateWorkflowJob
<1>6. ASSUME NEW r \in Run, NEW j \in JobId, LeaseLapses(r, j)
      PROVE  Goal
  BY <1>6, <1>one DEF LeaseLapses
<1>7. ASSUME MarkExpiredClaims
      PROVE  Goal
  <2>1. /\ jobs' = [r \in Run |-> [j \in JobId |->
                      IF Running(r) /\ Expired(jobs[r][j])
                      THEN Flagged(jobs[r][j]) ELSE jobs[r][j]]]
        /\ resets' = resets
    BY <1>7 DEF MarkExpiredClaims
  <2>2. \A r \in Run, j \in JobId : JobMove(r, j)
    BY <2>1 DEF JobMove, Expired
  <2> QED BY <2>1, <2>2
<1>8. ASSUME NEW r \in Run, NEW outcome \in {"succeeded", "failed"}, FinishWorkflowRun(r, outcome)
      PROVE  Goal
  BY <1>8, <1>same DEF FinishWorkflowRun
<1>9. ASSUME NEW r \in Run, NEW wanted \in SUBSET JobId, RetryWorkflowJobs(r, wanted)
      PROVE  Goal
  <2> DEFINE chosen == {j \in wanted : Resettable(jobs[r][j])}
  <2>1. /\ jobs' = [jobs EXCEPT ![r] =
                      [j \in JobId |-> IF j \in chosen THEN Reset(jobs[r][j]) ELSE jobs[r][j]]]
        /\ resets' = [resets EXCEPT ![r] =
                      [j \in JobId |-> resets[r][j] + IF j \in chosen THEN 1 ELSE 0]]
    BY <1>9 DEF RetryWorkflowJobs
  <2>2. \A j \in JobId : j \in chosen => Resettable(jobs[r][j])
    OBVIOUS
  <2> HIDE DEF chosen
  <2>3. \A q \in Run, j \in JobId : JobMove(q, j)
    BY <2>1, <2>2 DEF JobMove
  <2>4. resets' \in [Run -> [JobId -> Nat]]
    BY <2>1
  <2>5. jobs' = [q \in Run |-> [j \in JobId |-> jobs'[q][j]]]
    BY <2>1
  <2> QED BY <2>1, <2>3, <2>4, <2>5
<1>10. ASSUME UNCHANGED vars
       PROVE  Goal
  BY <1>10, <1>same DEF vars
<1> HIDE DEF Goal
<1>11. ASSUME NEW r \in Run, NEW j \in JobId, JobStep(r, j)
       PROVE  Goal
  BY <1>11, <1>2, <1>3, <1>4, <1>5, <1>6 DEF JobStep
<1>12. ASSUME Next
       PROVE  Goal
  BY <1>12, <1>1, <1>7, <1>8, <1>9, <1>11 DEF Next
<1>13. Goal
  BY <1>10, <1>12
<1> QED BY <1>13 DEF Goal

-----------------------------------------------------------------------------
(* IInv is an invariant. *)

LEMMA InitIInv == Init => IInv
<1> SUFFICES ASSUME Init
             PROVE  IInv
  OBVIOUS
<1>1. TypeOK
  BY NewJobOK DEF Init, TypeOK, RunStatus
<1>2. \A r \in Run, j \in JobId : WellOwned(jobs[r][j], resets[r][j])
  BY NewJobOK DEF Init
<1> QED BY <1>1, <1>2 DEF IInv

LEMMA MoveKeepsJob ==
  ASSUME IInv, NEW r \in Run, NEW j \in JobId, JobMove(r, j)
  PROVE  jobs'[r][j] \in Job /\ WellOwned(jobs'[r][j], resets'[r][j])
<1> DEFINE job == jobs[r][j]
           new == jobs'[r][j]
           n == resets[r][j]
<1>1. job \in Job /\ n \in Nat /\ WellOwned(job, n)
  BY DEF IInv, TypeOK
<1>2. CASE resets'[r][j] = n /\ new = job
  BY <1>1, <1>2
<1>3. ASSUME NEW a \in Attempt, Claimable(job), Fresh(a), new = Claimed(job, a),
             resets'[r][j] = n
      PROVE  new \in Job /\ WellOwned(new, resets'[r][j])
  <2>1. \A i \in DOMAIN job.history : job.history[i].attempt # a
    BY <1>3 DEF Fresh
  <2> QED BY <1>1, <1>3, <2>1, ClaimedOK
<1>4. ASSUME NEW t \in Transition, Sendable(t), UpdateAccepted(job, t), new = Updated(job, t),
             resets'[r][j] = n
      PROVE  new \in Job /\ WellOwned(new, resets'[r][j])
  BY <1>1, <1>4, UpdatedOK
<1>5. CASE resets'[r][j] = n /\ Held(job) /\ new = Flagged(job)
  BY <1>1, <1>5, FlaggedOK
<1>6. ASSUME Held(job) \/ job.lease # "none",
             NEW l \in {"none", "live", "lapsed"}, new = [job EXCEPT !.lease = l],
             resets'[r][j] = n
      PROVE  new \in Job /\ WellOwned(new, resets'[r][j])
  <2>1. [job EXCEPT !.lease = l] \in Job /\ WellOwned([job EXCEPT !.lease = l], n)
    BY <1>1, <1>6, LeaseOK
  <2> HIDE DEF job, n
  <2> QED BY <1>6, <2>1
<1>7. CASE resets'[r][j] = n + 1 /\ new = Reset(job)
  BY <1>1, <1>7, ResetOK
<1> QED BY <1>2, <1>3, <1>4, <1>5, <1>6, <1>7 DEF JobMove

LEMMA NextStatus ==
  ASSUME TypeOK, [Next]_vars
  PROVE  status' \in [Run -> RunStatus] /\ reopened' \subseteq Run
<1> USE DEF TypeOK, RunStatus
<1>1. ASSUME NEW r \in Run, NEW j \in JobId, JobStep(r, j)
      PROVE  UNCHANGED <<status, reopened>>
  BY <1>1 DEF JobStep, ClaimWorkflowJob, MarkWorkflowJobNeedsAttention,
              RenewWorkflowJobLease, UpdateWorkflowJob, LeaseLapses
<1>2. ASSUME NEW r \in Run, OpenWorkflowRun(r)
      PROVE  status' \in [Run -> RunStatus] /\ reopened' \subseteq Run
  BY <1>2 DEF OpenWorkflowRun
<1>3. ASSUME NEW r \in Run, NEW wanted \in SUBSET JobId, RetryWorkflowJobs(r, wanted)
      PROVE  status' \in [Run -> RunStatus] /\ reopened' \subseteq Run
  BY <1>3 DEF RetryWorkflowJobs
<1>4. ASSUME NEW r \in Run, NEW outcome \in {"succeeded", "failed"}, FinishWorkflowRun(r, outcome)
      PROVE  status' \in [Run -> RunStatus] /\ reopened' \subseteq Run
  BY <1>4 DEF FinishWorkflowRun
<1>5. CASE MarkExpiredClaims
  BY <1>5 DEF MarkExpiredClaims
<1>6. CASE UNCHANGED vars
  BY <1>6 DEF vars
<1> QED BY <1>1, <1>2, <1>3, <1>4, <1>5, <1>6 DEF Next

LEMMA NextIInv == IInv /\ [Next]_vars => IInv'
<1> SUFFICES ASSUME IInv, [Next]_vars
             PROVE  IInv'
  OBVIOUS
<1>1. TypeOK
  BY DEF IInv
<1>2. /\ resets' \in [Run -> [JobId -> Nat]]
      /\ jobs' = [r \in Run |-> [j \in JobId |-> jobs'[r][j]]]
      /\ \A r \in Run, j \in JobId : JobMove(r, j)
  BY <1>1, StepIsJobMoves
<1>3. \A r \in Run, j \in JobId :
        jobs'[r][j] \in Job /\ WellOwned(jobs'[r][j], resets'[r][j])
  BY <1>2, MoveKeepsJob
<1>4. jobs' \in [Run -> [JobId -> Job]]
  BY <1>2, <1>3
<1>5. TypeOK'
  BY <1>1, <1>2, <1>4, NextStatus DEF TypeOK
<1> QED BY <1>3, <1>5 DEF IInv

LEMMA InvariantIInv == Spec => []IInv
BY InitIInv, NextIInv, PTL DEF Spec

-----------------------------------------------------------------------------
(* Every variable keeps its type, for any number of runs, jobs and retries. *)
THEOREM TypeCorrect == Spec => []TypeOK
<1>1. IInv => TypeOK
  BY DEF IInv
<1> QED BY <1>1, InvariantIInv, PTL

(***************************************************************************)
(* The token in flight is that of the newest claim and only a pending job    *)
(* has one (claimWorkflowJob, updateWorkflowJob, retryWorkflowJobs).        *)
(***************************************************************************)
THEOREM TokenIsNewestClaimHolds == Spec => []TokenIsNewestClaim
<1>1. IInv => TokenIsNewestClaim
  BY DEF IInv, WellOwned, TokenBacked, TokenIsNewestClaim
<1> QED BY <1>1, InvariantIInv, PTL

(* The flag of a job in flight and its attempt trail never disagree. *)
THEOREM AttentionMatchesTrailHolds == Spec => []AttentionMatchesTrail
<1>1. IInv => AttentionMatchesTrail
  BY DEF IInv, WellOwned, TokenBacked, AttentionMatchesTrail
<1> QED BY <1>1, InvariantIInv, PTL

(***************************************************************************)
(* An uncertain attempt is followed by another one only after a retry: no    *)
(* lease expiry, stale report or cancellation repeats an external effect.   *)
(***************************************************************************)
THEOREM UncertainNeedsRetryHolds == Spec => []UncertainNeedsRetry
<1>1. ASSUME IInv
      PROVE  UncertainNeedsRetry
  <2> SUFFICES ASSUME NEW r \in Run, NEW j \in JobId, NEW i \in DOMAIN jobs[r][j].history,
                      jobs[r][j].history[i].outcome = "uncertain",
                      i < Len(jobs[r][j].history)
               PROVE  resets[r][j] > 0
    BY DEF UncertainNeedsRetry
  <2>1. jobs[r][j] \in Job /\ resets[r][j] \in Nat /\ WellOwned(jobs[r][j], resets[r][j])
    BY <1>1 DEF IInv, TypeOK
  <2>2. i \in 1..Len(jobs[r][j].history) /\ Len(jobs[r][j].history) \in Nat
    BY <2>1, TrailOfJob
  <2> QED BY <2>1, <2>2 DEF WellOwned, UncertainBlocks
<1> QED BY <1>1, InvariantIInv, PTL

(* A settled job is moved by a retry only.                                  *)
LEMMA SettledIsLeft ==
  ASSUME IInv, [Next]_vars, NEW r \in Run, NEW j \in JobId,
         IsTerminal(jobs[r][j].status), jobs'[r][j] # jobs[r][j]
  PROVE  resets'[r][j] > resets[r][j]
<1>1. JobMove(r, j) /\ resets[r][j] \in Nat /\ WellOwned(jobs[r][j], resets[r][j])
  BY StepIsJobMoves DEF IInv, TypeOK
<1>2. ~Held(jobs[r][j]) /\ jobs[r][j].lease = "none"
  BY <1>1 DEF WellOwned, TokenBacked, LeaseBacked, IsTerminal, Terminal
<1>3. ~Claimable(jobs[r][j]) /\ \A t \in Transition : ~UpdateAccepted(jobs[r][j], t)
  BY DEF Claimable, UpdateAccepted, IsTerminal, Terminal
<1> QED BY <1>1, <1>2, <1>3 DEF JobMove

(***************************************************************************)
(* A settled job keeps its record until a retry resets it, whatever the     *)
(* other processes still send (the terminal guard of updateWorkflowJob).    *)
(***************************************************************************)
THEOREM SettledUntilRetryHolds == Spec => SettledUntilRetry
<1>1. ASSUME IInv, [Next]_vars,
             NEW r \in Run, NEW j \in JobId,
             IsTerminal(jobs[r][j].status), jobs'[r][j] # jobs[r][j]
      PROVE  resets'[r][j] > resets[r][j]
  BY <1>1, SettledIsLeft
<1>2. IInv /\ [Next]_vars =>
        [\A r \in Run, j \in JobId :
           IsTerminal(jobs[r][j].status) /\ jobs'[r][j] # jobs[r][j]
             => resets'[r][j] > resets[r][j]]_vars
  BY <1>1
<1> QED BY <1>2, InvariantIInv, PTL DEF Spec, SettledUntilRetry

(* What takes the flag of a job away.                                       *)
LEMMA AttentionIsKept ==
  ASSUME IInv, [Next]_vars, NEW r \in Run, NEW j \in JobId,
         jobs[r][j].attention, ~jobs'[r][j].attention
  PROVE  resets'[r][j] > resets[r][j] \/ IsTerminal(jobs'[r][j].status)
<1> DEFINE job == jobs[r][j]
           new == jobs'[r][j]
<1>1. JobMove(r, j) /\ resets[r][j] \in Nat /\ job \in Job
  BY StepIsJobMoves DEF IInv, TypeOK
<1>2. ASSUME NEW t \in Transition, Sendable(t), new = Updated(job, t)
      PROVE  IsTerminal(new.status)
  <2>1. /\ new.status = t.status
        /\ new.attention = (IF t.attention = "keep" THEN job.attention ELSE t.attention = "set")
    BY <1>2 DEF Updated, Merged, AttentionAfter
  <2> QED BY <1>2, <2>1 DEF Sendable, Transition
<1>3. ASSUME NEW l \in {"none", "live", "lapsed"}, new = [job EXCEPT !.lease = l]
      PROVE  FALSE
  BY <1>1, <1>3 DEF Job
<1>4. new # Flagged(job)
  BY <1>1 DEF Flagged, Job
<1>5. ~Claimable(job)
  BY DEF Claimable
<1> QED BY <1>1, <1>2, <1>3, <1>4, <1>5 DEF JobMove

(***************************************************************************)
(* needsAttention goes only with a retry or with the write that settles the  *)
(* job (updateWorkflowJob merges it, and no caller clears it otherwise).    *)
(***************************************************************************)
THEOREM AttentionSticksHolds == Spec => AttentionSticks
<1>1. IInv /\ [Next]_vars =>
        [\A r \in Run, j \in JobId :
           jobs[r][j].attention /\ ~jobs'[r][j].attention
             => \/ resets'[r][j] > resets[r][j]
                \/ IsTerminal(jobs'[r][j].status)]_vars
  BY AttentionIsKept
<1> QED BY <1>1, InvariantIInv, PTL DEF Spec, AttentionSticks

(***************************************************************************)
(* Opening a run never makes a concurrency group live twice: two live runs  *)
(* of a group need a retry that reopened one of them (openWorkflowRun).     *)
(***************************************************************************)
THEOREM GroupSharedOnlyByRetryHolds == Spec => []GroupSharedOnlyByRetry
<1>1. Init => GroupSharedOnlyByRetry
  BY DEF Init, GroupSharedOnlyByRetry, Running
<1>2. ASSUME TypeOK, GroupSharedOnlyByRetry, [Next]_vars
      PROVE  GroupSharedOnlyByRetry'
  <2> USE DEF GroupSharedOnlyByRetry, Running, RunningInGroup
  <2>1. ASSUME NEW r \in Run, NEW j \in JobId, JobStep(r, j)
        PROVE  UNCHANGED <<status, reopened>>
    BY <2>1 DEF JobStep, ClaimWorkflowJob, MarkWorkflowJobNeedsAttention,
                RenewWorkflowJobLease, UpdateWorkflowJob, LeaseLapses
  <2>2. CASE UNCHANGED <<status, reopened>>
    BY <1>2, <2>2
  <2>3. ASSUME NEW r \in Run, OpenWorkflowRun(r)
        PROVE  GroupSharedOnlyByRetry'
    BY <1>2, <2>3 DEF OpenWorkflowRun, TypeOK
  <2>4. ASSUME NEW r \in Run, NEW outcome \in {"succeeded", "failed"},
               FinishWorkflowRun(r, outcome)
        PROVE  GroupSharedOnlyByRetry'
    BY <1>2, <2>4 DEF FinishWorkflowRun, TypeOK
  <2>5. ASSUME NEW r \in Run, NEW wanted \in SUBSET JobId, RetryWorkflowJobs(r, wanted)
        PROVE  GroupSharedOnlyByRetry'
    <3>1. /\ status' = [status EXCEPT ![r] = "running"]
          /\ reopened \subseteq reopened'
          /\ Running(r) \/ r \in reopened'
      BY <2>5 DEF RetryWorkflowJobs
    <3>2. \A q \in Run : Running(q)' => Running(q) \/ q \in reopened'
      BY <1>2, <3>1 DEF TypeOK
    <3> QED BY <1>2, <3>1, <3>2
  <2>6. CASE MarkExpiredClaims
    BY <2>2, <2>6 DEF MarkExpiredClaims
  <2>7. CASE UNCHANGED vars
    BY <2>2, <2>7 DEF vars
  <2> QED BY <1>2, <2>1, <2>2, <2>3, <2>4, <2>5, <2>6, <2>7 DEF Next
<1> QED BY <1>1, <1>2, TypeCorrect, PTL DEF Spec

-----------------------------------------------------------------------------
(***************************************************************************)
(* The refinement, one job at a time.                                       *)
(***************************************************************************)
LEMMA SlotValues ==
  \A s \in Slot : /\ OwnerOf[s] = JobAt(s).attempt
                 /\ UsedOf[s] = Used(JobAt(s))
                 /\ HeldFor[s] = JobAt(s).attention
                 /\ Settled[s] = IsTerminal(JobAt(s).status)
BY DEF OwnerOf, UsedOf, HeldFor, Settled

LEMMA SameTokens ==
  ASSUME NEW old, NEW new, DOMAIN new.history = DOMAIN old.history,
         \A i \in DOMAIN old.history : new.history[i].attempt = old.history[i].attempt
  PROVE  Used(new) = Used(old)
BY DEF Used

LEMMA MoveIsSlotStep ==
  ASSUME IInv, NEW r \in Run, NEW j \in JobId, JobMove(r, j)
  PROVE  Ownership!SlotStep(<<r, j>>)
<1> DEFINE s == <<r, j>>
           job == jobs[r][j]
           new == jobs'[r][j]
           n == resets[r][j]
           Step == \/ \E a \in Attempt :
                        /\ job.attempt = NoAttempt /\ ~job.attention /\ ~IsTerminal(job.status)
                        /\ \A q \in Slot : a \notin Used(JobAt(q))
                        /\ new.attempt = a
                        /\ Used(new) = Used(job) \union {a}
                        /\ ~new.attention /\ ~IsTerminal(new.status)
                   \/ /\ ~IsTerminal(job.status)
                      /\ new.attempt = NoAttempt
                      /\ Used(new) = Used(job)
                      /\ job.attention => new.attention \/ IsTerminal(new.status)
                   \/ /\ job.attempt # NoAttempt
                      /\ new.attempt = job.attempt
                      /\ Used(new) = Used(job)
                      /\ new.attention
                      /\ IsTerminal(new.status) = IsTerminal(job.status)
                   \/ /\ job.attention \/ IsTerminal(job.status)
                      /\ new.attempt = NoAttempt
                      /\ Used(new) = Used(job)
                      /\ ~new.attention /\ ~IsTerminal(new.status)
                   \/ /\ new.attempt = job.attempt
                      /\ Used(new) = Used(job)
                      /\ new.attention = job.attention
                      /\ IsTerminal(new.status) = IsTerminal(job.status)
<1>1. job \in Job /\ n \in Nat /\ WellOwned(job, n) /\ s \in Slot
  BY DEF IInv, TypeOK, Slot
<1>2. /\ job.history \in Seq(Entry)
      /\ Len(job.history) \in Nat
      /\ DOMAIN job.history = 1..Len(job.history)
  BY <1>1, TrailOfJob
<1>3. ASSUME NEW a \in Attempt, Claimable(job), Fresh(a), new = Claimed(job, a)
      PROVE  Step
  <2> DEFINE e == [attempt |-> a, outcome |-> "open"]
  <2>1. /\ new.history = Append(job.history, e)
        /\ new.attempt = a
        /\ new.attention = job.attention /\ new.status = job.status
    BY <1>1, <1>3 DEF Claimed, Job
  <2>2. e \in Entry /\ e.attempt = a
    BY DEF Entry
  <2> HIDE DEF e
  <2>3. /\ DOMAIN new.history = 1..(Len(job.history) + 1)
        /\ new.history[Len(job.history) + 1] = e
        /\ \A i \in 1..Len(job.history) : new.history[i] = job.history[i]
    BY <1>2, <2>1, <2>2, AppendedTrail
  <2>4. Used(new) = Used(job) \union {a}
    <3>1. ASSUME NEW i \in DOMAIN new.history
          PROVE  new.history[i].attempt \in Used(job) \union {a}
      <4>1. CASE i = Len(job.history) + 1
        BY <4>1, <2>2, <2>3
      <4>2. CASE i \in 1..Len(job.history)
        <5>1. new.history[i].attempt = job.history[i].attempt /\ i \in DOMAIN job.history
          BY <4>2, <1>2, <2>3
        <5> QED BY <5>1 DEF Used
      <4> QED BY <4>1, <4>2, <1>2, <2>3
    <3>2. ASSUME NEW i \in DOMAIN job.history
          PROVE  job.history[i].attempt \in Used(new)
      <4>1. i \in 1..Len(job.history)
        BY <1>2
      <4>2. i \in 1..(Len(job.history) + 1)
        BY <4>1, <1>2
      <4>3. i \in DOMAIN new.history
        BY <4>2, <2>3
      <4>4. new.history[i] = job.history[i]
        BY <4>1, <2>3
      <4> QED BY <4>3, <4>4 DEF Used
    <3>3. a \in Used(new)
      <4>1. /\ Len(job.history) + 1 \in DOMAIN new.history
            /\ new.history[Len(job.history) + 1].attempt = a
        BY <1>2, <2>2, <2>3
      <4> QED BY <4>1 DEF Used
    <3>4. Used(new) \subseteq Used(job) \union {a}
      BY <3>1 DEF Used
    <3>5. Used(job) \subseteq Used(new)
      BY <3>2 DEF Used
    <3> QED BY <3>3, <3>4, <3>5
  <2>5. ASSUME NEW q \in Slot
        PROVE  a \notin Used(JobAt(q))
    <3>1. q[1] \in Run /\ q[2] \in JobId
      BY DEF Slot
    <3> QED BY <3>1, <1>3 DEF Fresh, Used, JobAt
  <2> QED BY <1>3, <2>1, <2>4, <2>5 DEF Claimable, IsTerminal, Terminal
<1>4. ASSUME NEW t \in Transition, Sendable(t), UpdateAccepted(job, t), new = Updated(job, t)
      PROVE  Step
  <2>1. /\ new.status = t.status
        /\ new.attempt = NoAttempt
        /\ new.attention = (IF t.attention = "keep" THEN job.attention ELSE t.attention = "set")
        /\ new.history \in {job.history, RecordOutcome(job.history, t)}
    BY <1>4 DEF Updated, Merged, TokenAfter, AttentionAfter, UpdateAccepted
  <2>2. Used(new) = Used(job)
    <3>1. CASE new.history = job.history
      BY <3>1 DEF Used
    <3>2. CASE new.history = RecordOutcome(job.history, t)
      <4>1. /\ DOMAIN new.history = DOMAIN job.history
            /\ \A i \in DOMAIN job.history : new.history[i].attempt = job.history[i].attempt
        BY <3>2, <1>2, RecordedOutcome
      <4> QED BY <4>1, SameTokens
    <3> QED BY <3>1, <3>2, <2>1
  <2>3. t.attention \in {"keep", "set", "clear"}
    BY DEF Transition
  <2> QED BY <1>4, <2>1, <2>2, <2>3 DEF UpdateAccepted, Sendable
<1>5. ASSUME Held(job), new = Flagged(job)
      PROVE  Step
  <2>1. /\ new.status = job.status /\ new.attempt = job.attempt
        /\ new.attention /\ new.history = MarkUncertain(job.history, job.attempt)
    BY <1>1, <1>5 DEF Flagged, Job
  <2>2. Used(new) = Used(job)
    <3>1. /\ DOMAIN new.history = DOMAIN job.history
          /\ \A i \in DOMAIN job.history : new.history[i].attempt = job.history[i].attempt
      BY <1>2, <2>1, MarkedUncertain
    <3> QED BY <3>1, SameTokens
  <2> QED BY <1>5, <2>1, <2>2 DEF Held
<1>6. ASSUME NEW l \in {"none", "live", "lapsed"}, new = [job EXCEPT !.lease = l]
      PROVE  Step
  BY <1>1, <1>6 DEF Job, Used
<1>7. ASSUME Resettable(job), new = Reset(job)
      PROVE  Step
  <2>1. /\ new.status = "pending" /\ new.attempt = NoAttempt
        /\ new.attention = FALSE /\ new.history = job.history
    BY <1>1, <1>7 DEF Reset, Job
  <2> QED BY <1>7, <2>1 DEF Resettable, Used, IsTerminal, Terminal
<1>8. ASSUME new = job
      PROVE  Step
  BY <1>8
<1>9. Step
  BY <1>3, <1>4, <1>5, <1>6, <1>7, <1>8 DEF JobMove
<1>10. s \in Slot /\ JobAt(s) = job /\ JobAt(s)' = new
  BY DEF JobAt, Slot
<1>11. /\ OwnerOf[s] = job.attempt /\ OwnerOf'[s] = new.attempt
       /\ UsedOf[s] = Used(job) /\ UsedOf'[s] = Used(new)
       /\ HeldFor[s] = job.attention /\ HeldFor'[s] = new.attention
       /\ Settled[s] = IsTerminal(job.status) /\ Settled'[s] = IsTerminal(new.status)
       /\ \A q \in Slot : UsedOf[q] = Used(JobAt(q))
  <2>1. \A q \in Slot : /\ OwnerOf'[q] = JobAt(q)'.attempt
                       /\ UsedOf'[q] = Used(JobAt(q)')
                       /\ HeldFor'[q] = JobAt(q)'.attention
                       /\ Settled'[q] = IsTerminal(JobAt(q)'.status)
    BY DEF OwnerOf, UsedOf, HeldFor, Settled, Used, IsTerminal
  <2> HIDE DEF s, job, new
  <2> QED BY <2>1, <1>10, SlotValues
<1> HIDE DEF s, job, new
<1>12. Ownership!SlotStep(s)
  BY <1>9, <1>10, <1>11 DEF Ownership!SlotStep, Ownership!Acquire, Ownership!Report,
     Ownership!Suspend, Ownership!Reopen, Ownership!Keep
<1> QED BY <1>12 DEF s

(***************************************************************************)
(* The ledger implements AttemptOwnership: initial states map to initial     *)
(* states, and every transaction is a step of each slot it touches.         *)
(***************************************************************************)
THEOREM OwnershipImplemented == Spec => ImplementsOwnership
<1>1. Init => Ownership!Init
  <2> SUFFICES ASSUME Init
               PROVE  Ownership!Init
    OBVIOUS
  <2>1. DOMAIN << >> = {}
    OBVIOUS
  <2>2. \A s \in Slot : /\ JobAt(s).attempt = NoAttempt
                       /\ Used(JobAt(s)) = {}
                       /\ JobAt(s).attention = FALSE
                       /\ IsTerminal(JobAt(s).status) = FALSE
    BY <2>1 DEF Init, JobAt, Used, Slot, NewJob, IsTerminal, Terminal
  <2> QED BY <2>2 DEF Ownership!Init, OwnerOf, UsedOf, HeldFor, Settled
<1>2. IInv /\ [Next]_vars => [Ownership!Next]_(Ownership!vars)
  <2> SUFFICES ASSUME IInv, [Next]_vars
               PROVE  Ownership!Next
    OBVIOUS
  <2>1. \A r \in Run, j \in JobId : JobMove(r, j)
    BY StepIsJobMoves DEF IInv
  <2>2. \A r \in Run, j \in JobId : Ownership!SlotStep(<<r, j>>)
    BY <2>1, MoveIsSlotStep
  <2> QED BY <2>2 DEF Ownership!Next, Slot
<1> QED BY <1>1, <1>2, InvariantIInv, PTL DEF Spec, ImplementsOwnership, Ownership!Spec
=============================================================================
