------------------------- MODULE TargetActions_proofs -------------------------
(***************************************************************************)
(* Proofs about TargetActions, for any relays, targets and tokens, whatever   *)
(* the calls return and however often the job is retried.                    *)
(***************************************************************************)
EXTENDS TargetActions, WorkflowJobs_proofs

Working(p) == work[p].pc # "idle"

(* Tokens are never used twice, for the job as for its targets.              *)
TokensAreOwn ==
  /\ \A p \in Process : Working(p) => work[p].attempt \in Claims(job)
  /\ \A p, q \in Process : Working(p) /\ Working(q) /\ p # q => work[p].attempt # work[q].attempt
  /\ \A t \in Target : action[t].status # "none" => action[t].attempt \in Claims(job)

(* Between its claim and its record an attempt is at one target; the claim is *)
(* its own as long as the call lasts.                                       *)
AtItsTarget ==
  \A p \in Process :
    /\ work[p].pc \in {"idle", "list", "next"} => work[p].target = {}
    /\ work[p].pc \in {"claim", "uncertain", "doubt", "call", "record"} => \E t \in Target : work[p].target = {t}
    /\ work[p].pc \in {"call", "record"} => \A t \in work[p].target : Owned(t, work[p].attempt)

(* The process an execution that is not settled belongs to.                  *)
Owner(p, t) ==
  /\ work[p].pc \in {"call", "record", "uncertain"}
  /\ t \in work[p].target /\ work[p].attempt = action[t].attempt

RunningIsOwned ==
  \A t \in Target : action[t].status = "running" => t \in interrupted \/ \E p \in Process : Owner(p, t)

InterruptedIsAlone ==
  \A t \in interrupted :
    action[t].status = "running" /\ \A p \in Process : Working(p) => work[p].attempt # action[t].attempt

(* What an earlier target came to is among the outcomes of the attempt.      *)
Counts(p, t) ==
  /\ action[t].output \in work[p].results
  /\ action[t].status = "failed" => action[t].output \in {"failed", "retryable"}

OutcomesCount ==
  \A p \in Process : \A t \in Target :
    Working(p) /\ t \notin work[p].target /\ t \in Made(p) => Counts(p, t)

TargetInv ==
  /\ TargetTypeOK
  /\ TokensAreOwn /\ AtItsTarget /\ RunningIsOwned /\ InterruptedIsAlone /\ OutcomesCount
-----------------------------------------------------------------------------
(***************************************************************************)
(* WHAT THE STEPS DO.                                                       *)
(***************************************************************************)
Hand == [ pc : {"idle", "list", "next", "claim", "call", "record", "uncertain", "doubt"},
          attempt : Attempt \union {NoAttempt},
          todo : SUBSET Target, target : SUBSET Target,
          output : Outcomes \union {"none"}, results : SUBSET (Outcomes \union {"none"}) ]

LEMMA IdleHand == Idle \in Hand /\ Idle.pc = "idle" /\ Idle.target = {} /\ Idle.attempt = NoAttempt
BY DEF Idle, Hand

LEMMA HandFields ==
  ASSUME NEW w \in Hand
  PROVE  /\ \A ts \in SUBSET Target : [w EXCEPT !.todo = ts] \in Hand /\ [w EXCEPT !.target = ts] \in Hand
         /\ \A rs \in SUBSET (Outcomes \union {"none"}) : [w EXCEPT !.results = rs] \in Hand
         /\ [w EXCEPT !.pc = "next"] \in Hand
BY DEF Hand

LEMMA Shapes ==
  ASSUME TargetTypeOK
  PROVE  /\ job \in Job /\ action \in [Target -> Execution] /\ work \in [Process -> Hand]
         /\ \A t \in Target : action[t] \in Execution
         /\ \A p \in Process : work[p] \in Hand
BY DEF TargetTypeOK, Hand

LEMMA TypedAgain ==
  ASSUME job' \in Job, action' \in [Target -> Execution], work' \in [Process -> Hand],
         interrupted' \subseteq Target, setbacks' \in Nat, resets' \in Nat
  PROVE  TargetTypeOK'
BY DEF TargetTypeOK, Hand

LEMMA TokensAreClaims == Tokens = Claims(job)
BY DEF Tokens, Claims

(* A report of an attempt, accepted or not.                                 *)
LEMMA UpdateKeeps ==
  ASSUME TargetTypeOK, NEW status \in JobStatus, NEW expected, NEW attention \in {"keep", "set"},
         Update(Patch(status, expected, attention))
  PROVE  /\ job' \in Job /\ Claims(job') = Claims(job)
         /\ job' # job => job'.status = status
<1> DEFINE t == Patch(status, expected, attention)
<1>1. t.status = status /\ t.handle = NoAttempt /\ t.attention = attention
  BY DEF Patch
<1>2. job \in Job /\ job' = IF UpdateAccepted(job, t) THEN Updated(job, t) ELSE job
  BY DEF Update, TargetTypeOK
<1> HIDE DEF t
<1>3. Updated(job, t).status = t.status
  BY DEF Updated, Merged
<1> QED BY <1>1, <1>2, <1>3, UpdateKeepsTokens

(* A process goes on with its attempt: it keeps what it is at, and only      *)
(* learns of more outcomes.                                                 *)
GoesOn(p) ==
  /\ UNCHANGED <<action, interrupted>>
  /\ Claims(job') = Claims(job)
  /\ \A q \in Process \ {p} : work'[q] = work[q]
  /\ Working(p) /\ work'[p].pc # "idle" /\ work'[p].attempt = work[p].attempt
  /\ work[p].target \subseteq work'[p].target /\ work[p].results \subseteq work'[p].results
  /\ work[p].pc \in {"call", "record", "uncertain"} => work'[p].pc \in {"call", "record", "uncertain"}
  /\ work'[p].pc \in {"list", "next"} => work'[p].target = {}
  /\ work'[p].pc \notin {"list", "next"} => \E t \in Target : work'[p].target = {t}
  /\ work'[p].pc \in {"call", "record"} => work[p].pc = "call" /\ work'[p].target = work[p].target

(* A process is through with its attempt.                                   *)
Leaves(p) ==
  /\ action' = action
  /\ Claims(job') = Claims(job)
  /\ work' = [work EXCEPT ![p] = Idle]
  /\ Working(p)

(* A process settles the claim it is at, if it is its own.                   *)
Settles(p) ==
  \E t \in Target, status \in {"succeeded", "failed", "skipped"}, output \in Outcomes \union {"none"} :
    /\ work[p].target = {t}
    /\ FinishActionExecution(t, work[p].attempt, status, output)
    /\ UNCHANGED <<job, interrupted>>
    /\ \A q \in Process \ {p} : work'[q] = work[q]
    /\ work'[p].attempt = work[p].attempt /\ work[p].results \subseteq work'[p].results
    /\ \/ work[p].pc = "uncertain" /\ work'[p].pc = "doubt" /\ work'[p].target = {t}
       \/ /\ work[p].pc = "record" /\ work'[p].pc = "next" /\ work'[p].target = {}
          /\ output \in work'[p].results /\ (status = "failed" => output \in {"failed", "retryable"})

LEMMA LoopGoesOn ==
  ASSUME TargetInv, NEW p \in Process,
         ListTargets(p) \/ Look(p) \/ CallReturns(p) \/ CallThrows(p) \/ (ClaimTarget(p) /\ action' = action)
  PROVE  GoesOn(p) /\ work' \in [Process -> Hand] /\ job' = job
<1>0. TargetTypeOK /\ work[p] \in Hand /\ work \in [Process -> Hand]
      /\ \A t : t \in work[p].target => t \in Target
  BY Shapes DEF TargetInv, Hand
<1>1. CASE ListTargets(p)
  <2>1. PICK ts \in SUBSET Target : work' = [work EXCEPT ![p].pc = "next", ![p].todo = ts]
    BY <1>1 DEF ListTargets
  <2>2. /\ work'[p].pc = "next" /\ work'[p].attempt = work[p].attempt /\ work'[p].target = work[p].target
        /\ work'[p].results = work[p].results
        /\ \A q \in Process \ {p} : work'[q] = work[q]
    BY <1>0, <2>1 DEF Hand
  <2>3. work' \in [Process -> Hand]
    BY <1>0, <2>1 DEF Hand
  <2> QED BY <1>0, <1>1, <2>2, <2>3 DEF GoesOn, ListTargets, At, Working, TargetInv, AtItsTarget, targetHistory
<1>2. CASE Look(p)
  <2>1. PICK t \in work[p].todo :
          work' = IF action[t].status = "succeeded"
                  THEN [work EXCEPT ![p].todo = @ \ {t}, ![p].results = @ \union {action[t].output}]
                  ELSE [work EXCEPT ![p].pc = "claim", ![p].target = {t}]
    BY <1>2 DEF Look
  <2>2. t \in Target /\ action[t].output \in Outcomes \union {"none"}
    BY <1>0, Shapes DEF Hand, Execution
  <2>3. CASE action[t].status = "succeeded"
    <3>1. work' = [work EXCEPT ![p].todo = @ \ {t}, ![p].results = @ \union {action[t].output}]
      BY <2>1, <2>3
    <3>2. /\ work'[p].pc = work[p].pc /\ work'[p].attempt = work[p].attempt /\ work'[p].target = work[p].target
          /\ work'[p].results = work[p].results \union {action[t].output}
          /\ \A q \in Process \ {p} : work'[q] = work[q]
      BY <1>0, <3>1 DEF Hand
    <3>3. work' \in [Process -> Hand]
      BY <1>0, <2>2, <3>1 DEF Hand
    <3> QED BY <1>0, <1>2, <3>2, <3>3 DEF GoesOn, Look, At, Working, TargetInv, AtItsTarget, targetHistory
  <2>4. CASE action[t].status # "succeeded"
    <3>1. work' = [work EXCEPT ![p].pc = "claim", ![p].target = {t}]
      BY <2>1, <2>4
    <3>2. /\ work'[p].pc = "claim" /\ work'[p].attempt = work[p].attempt /\ work'[p].target = {t}
          /\ work'[p].results = work[p].results
          /\ \A q \in Process \ {p} : work'[q] = work[q]
      BY <1>0, <3>1 DEF Hand
    <3>3. work' \in [Process -> Hand]
      BY <1>0, <2>2, <3>1 DEF Hand
    <3> QED BY <1>0, <1>2, <2>2, <3>2, <3>3 DEF GoesOn, Look, At, Working, TargetInv, AtItsTarget, targetHistory
  <2> QED BY <2>3, <2>4
<1>3. CASE CallReturns(p)
  <2>1. PICK o \in Outcomes : work' = [work EXCEPT ![p].pc = "record", ![p].output = o]
    BY <1>3 DEF CallReturns
  <2>2. /\ work'[p].pc = "record" /\ work'[p].attempt = work[p].attempt /\ work'[p].target = work[p].target
        /\ work'[p].results = work[p].results
        /\ \A q \in Process \ {p} : work'[q] = work[q]
    BY <1>0, <2>1 DEF Hand
  <2>3. work' \in [Process -> Hand]
    BY <1>0, <2>1 DEF Hand
  <2> QED BY <1>0, <1>3, <2>2, <2>3 DEF GoesOn, CallReturns, At, Working, TargetInv, AtItsTarget, targetHistory
<1>4. CASE CallThrows(p) \/ (ClaimTarget(p) /\ action' = action)
  <2>1. work[p].pc \in {"claim", "call"} /\ UNCHANGED <<job, action, interrupted>>
    BY <1>4 DEF CallThrows, ClaimTarget, At, targetHistory
  <2>2. work' = [work EXCEPT ![p].pc = "uncertain"]
    <3>1. CASE CallThrows(p)
      BY <3>1 DEF CallThrows, Goto
    <3>2. CASE ClaimTarget(p) /\ action' = action
      <4>1. PICK t \in work[p].target :
              IF Vacant(t) THEN ClaimActionExecution(t, work[p].attempt) /\ Goto(p, "call")
              ELSE UNCHANGED action /\ Goto(p, "uncertain")
        BY <3>2 DEF ClaimTarget
      <4>2. ~Vacant(t)
        <5> SUFFICES ASSUME Vacant(t) PROVE FALSE
          OBVIOUS
        <5>1. action'[t].status = "running"
          BY <1>0, <4>1, Shapes DEF ClaimActionExecution, NoExecution, Execution
        <5> QED BY <3>2, <5>1 DEF Vacant
      <4> QED BY <4>1, <4>2 DEF Goto
    <3> QED BY <1>4, <3>1, <3>2
  <2>3. /\ work'[p].pc = "uncertain" /\ work'[p].attempt = work[p].attempt /\ work'[p].target = work[p].target
        /\ work'[p].results = work[p].results
        /\ \A q \in Process \ {p} : work'[q] = work[q]
    BY <1>0, <2>2 DEF Hand
  <2>4. work' \in [Process -> Hand]
    BY <1>0, <2>2 DEF Hand
  <2> QED BY <1>0, <2>1, <2>3, <2>4 DEF GoesOn, Working, TargetInv, AtItsTarget
<1> QED BY <1>1, <1>2, <1>3, <1>4

LEMMA LoopLeaves ==
  ASSUME TargetInv, NEW p \in Process,
         ListingFails(p) \/ FinishJob(p) \/ FinishUncertainJob(p) \/ Crash(p)
  PROVE  Leaves(p) /\ work' \in [Process -> Hand] /\ job' \in Job
<1>0. TargetTypeOK /\ work[p] \in Hand /\ work \in [Process -> Hand]
  BY Shapes DEF TargetInv
<1>1. action' = action /\ work' = [work EXCEPT ![p] = Idle] /\ Working(p)
  BY DEF ListingFails, FinishJob, FinishUncertainJob, Crash, Rest, At, Working
<1>2. work' \in [Process -> Hand]
  BY <1>0, <1>1, IdleHand
<1>3. job' \in Job /\ Claims(job') = Claims(job)
  <2>1. CASE FinishJob(p)
    <3>1. PICK o \in Select(work[p].results) : Update(Patch(JobStatusOf(o), work[p].attempt, "keep"))
      BY <2>1 DEF FinishJob
    <3>2. o \in Outcomes \union {"none", "skipped", "succeeded", "failed"}
      BY <1>0, <3>1 DEF Select, Hand, Unfinished
    <3>3. CASE JobStatusOf(o) \in JobStatus
      BY <1>0, <3>1, <3>3, UpdateKeeps
    <3>4. CASE o = "none"
      BY <3>1, <3>4, <1>0 DEF Select, Unfinished
    <3>5. o # "none" => JobStatusOf(o) \in JobStatus
      BY <3>2, TargetAssumption DEF JobStatusOf, JobStatus, Terminal
    <3> QED BY <3>3, <3>4, <3>5
  <2>2. CASE ListingFails(p) \/ FinishUncertainJob(p)
    BY <1>0, <2>2, UpdateKeeps DEF ListingFails, FinishUncertainJob, JobStatus, Terminal
  <2>3. CASE Crash(p)
    BY <1>0, <2>3, Shapes DEF Crash
  <2> QED BY <2>1, <2>2, <2>3
<1> QED BY <1>1, <1>2, <1>3 DEF Leaves

(* A settled execution is an execution.                                     *)
LEMMA SettledExecution ==
  ASSUME TargetTypeOK, NEW t \in Target, NEW a, NEW status \in {"succeeded", "failed", "skipped"},
         NEW output \in Outcomes \union {"none"}, FinishActionExecution(t, a, status, output)
  PROVE  action' \in [Target -> Execution]
<1> DEFINE settled == [action[t] EXCEPT !.status = status, !.output = output]
<1>1. action \in [Target -> Execution] /\ action[t] \in Execution
  BY Shapes
<1>2. settled \in Execution
  BY <1>1 DEF Execution
<1>3. action' = [action EXCEPT ![t] = settled] \/ action' = action
  BY <1>1 DEF FinishActionExecution
<1> HIDE DEF settled
<1> QED BY <1>1, <1>2, <1>3

LEMMA LoopSettles ==
  ASSUME TargetInv, NEW p \in Process, FinishTarget(p) \/ FinishUncertainTarget(p)
  PROVE  Settles(p) /\ work' \in [Process -> Hand] /\ action' \in [Target -> Execution]
<1>0. TargetTypeOK /\ work[p] \in Hand /\ work \in [Process -> Hand]
  BY Shapes DEF TargetInv
<1>1. PICK t \in Target : work[p].target = {t}
  BY DEF TargetInv, AtItsTarget, FinishTarget, FinishUncertainTarget, At
<1>2. CASE FinishTarget(p)
  <2>0. UNCHANGED <<job, interrupted>> /\ work[p].pc = "record"
    BY <1>2 DEF FinishTarget, At, targetHistory
  <2>1. /\ FinishActionExecution(t, work[p].attempt, Recorded(work[p].output), work[p].output)
        /\ work' = [work EXCEPT ![p].pc = "next", ![p].todo = @ \ {t}, ![p].target = {},
                                ![p].results = @ \union {work[p].output}]
    BY <1>1, <1>2 DEF FinishTarget
  <2>2. /\ work'[p].pc = "next" /\ work'[p].attempt = work[p].attempt /\ work'[p].target = {}
        /\ work'[p].results = work[p].results \union {work[p].output}
        /\ \A q \in Process \ {p} : work'[q] = work[q]
    BY <1>0, <2>1 DEF Hand
  <2>3. work' \in [Process -> Hand]
    <3> DEFINE w == [work[p] EXCEPT !.pc = "next", !.todo = @ \ {t}, !.target = {}, !.results = @ \union {work[p].output}]
    <3>1. work[p].todo \ {t} \in SUBSET Target /\ {} \in SUBSET Target
          /\ work[p].results \union {work[p].output} \in SUBSET (Outcomes \union {"none"})
      BY <1>0 DEF Hand
    <3>2. w \in Hand
      BY <1>0, <3>1, HandFields, Zenon
    <3>3. work' = [work EXCEPT ![p] = w]
      BY <1>0, <2>1
    <3> HIDE DEF w
    <3> QED BY <1>0, <3>2, <3>3
  <2>4. /\ Recorded(work[p].output) \in {"succeeded", "failed", "skipped"}
        /\ Recorded(work[p].output) = "failed" => work[p].output \in {"failed", "retryable"}
        /\ work[p].output \in Outcomes \union {"none"}
    BY <1>0 DEF Recorded, Hand
  <2>5. action' \in [Target -> Execution]
    <3> DEFINE status == Recorded(work[p].output)
    <3>1. status \in {"succeeded", "failed", "skipped"} /\ FinishActionExecution(t, work[p].attempt, status, work[p].output)
      BY <2>1, <2>4
    <3> HIDE DEF status
    <3> QED BY <1>0, <2>4, <3>1, SettledExecution
  <2>6. Settles(p)
    <3> DEFINE status == Recorded(work[p].output)
    <3>1. /\ status \in {"succeeded", "failed", "skipped"}
          /\ FinishActionExecution(t, work[p].attempt, status, work[p].output)
          /\ work[p].output \in work'[p].results /\ (status = "failed" => work[p].output \in {"failed", "retryable"})
      BY <2>1, <2>2, <2>4
    <3> HIDE DEF status
    <3> QED BY <1>1, <2>0, <2>2, <2>4, <3>1 DEF Settles
  <2> QED BY <2>3, <2>5, <2>6
<1>3. CASE FinishUncertainTarget(p)
  <2>0. UNCHANGED <<job, interrupted>> /\ work[p].pc = "uncertain"
    BY <1>3 DEF FinishUncertainTarget, At, targetHistory
  <2>1. FinishActionExecution(t, work[p].attempt, "failed", "none") /\ work' = [work EXCEPT ![p].pc = "doubt"]
    BY <1>1, <1>3 DEF FinishUncertainTarget, FailClaim, Goto
  <2>2. /\ work'[p].pc = "doubt" /\ work'[p].attempt = work[p].attempt /\ work'[p].target = {t}
        /\ work'[p].results = work[p].results
        /\ \A q \in Process \ {p} : work'[q] = work[q]
    BY <1>0, <1>1, <2>1 DEF Hand
  <2>3. work' \in [Process -> Hand]
    BY <1>0, <2>1 DEF Hand
  <2>4. action' \in [Target -> Execution]
    BY <1>0, <2>1, SettledExecution
  <2> QED BY <1>1, <2>0, <2>1, <2>2, <2>3, <2>4 DEF Settles
<1> QED BY <1>2, <1>3

(* A claim of a target that was vacant.                                     *)
Takes(p) ==
  \E t \in Target :
    /\ work[p].target = {t} /\ Vacant(t) /\ Working(p)
    /\ ClaimActionExecution(t, work[p].attempt)
    /\ UNCHANGED <<job, interrupted>>
    /\ \A q \in Process \ {p} : work'[q] = work[q]
    /\ work'[p].pc = "call" /\ work'[p].target = {t}
    /\ work'[p].attempt = work[p].attempt /\ work'[p].results = work[p].results

LEMMA LoopTakes ==
  ASSUME TargetInv, NEW p \in Process, ClaimTarget(p)
  PROVE  \/ action' = action
         \/ Takes(p) /\ work' \in [Process -> Hand] /\ action' \in [Target -> Execution]
<1>0. TargetTypeOK /\ work[p] \in Hand /\ work \in [Process -> Hand]
  BY Shapes DEF TargetInv
<1>1. PICK t \in Target : work[p].target = {t}
  BY DEF TargetInv, AtItsTarget, ClaimTarget, At
<1>2. SUFFICES ASSUME Vacant(t)
               PROVE  Takes(p) /\ work' \in [Process -> Hand] /\ action' \in [Target -> Execution]
  BY <1>1 DEF ClaimTarget
<1>3. ClaimActionExecution(t, work[p].attempt) /\ work' = [work EXCEPT ![p].pc = "call"]
      /\ UNCHANGED <<job, interrupted>> /\ work[p].pc = "claim"
  BY <1>1, <1>2 DEF ClaimTarget, Goto, At, targetHistory
<1>4. /\ work'[p].pc = "call" /\ work'[p].attempt = work[p].attempt /\ work'[p].target = {t}
      /\ work'[p].results = work[p].results
      /\ \A q \in Process \ {p} : work'[q] = work[q]
  BY <1>0, <1>1, <1>3 DEF Hand
<1>5. work' \in [Process -> Hand]
  BY <1>0, <1>3 DEF Hand
<1>6. action' \in [Target -> Execution]
  <2>1. [NoExecution EXCEPT !.status = "running", !.attempt = work[p].attempt] \in Execution
    BY <1>0 DEF NoExecution, Execution, Hand
  <2> QED BY <1>0, <1>3, <2>1, Shapes DEF ClaimActionExecution
<1> QED BY <1>1, <1>2, <1>3, <1>4, <1>5, <1>6 DEF Takes, Working
-----------------------------------------------------------------------------
(***************************************************************************)
(* THE INVARIANT IS PRESERVED.                                              *)
(***************************************************************************)
TargetParts ==
  TokensAreOwn /\ AtItsTarget /\ RunningIsOwned /\ InterruptedIsAlone /\ OutcomesCount

LEMMA GoesOnPreserves ==
  ASSUME TargetInv, NEW p \in Process, GoesOn(p)
  PROVE  TargetParts'
<1>1. TokensAreOwn'
  BY DEF TargetInv, TokensAreOwn, GoesOn, Working
<1>2. AtItsTarget'
  BY DEF TargetInv, AtItsTarget, GoesOn, Owned
<1>3. RunningIsOwned'
  <2>1. \A q \in Process, t \in Target : Owner(q, t) => Owner(q, t)'
    BY DEF Owner, GoesOn
  <2> QED BY <2>1 DEF TargetInv, RunningIsOwned, GoesOn
<1>4. InterruptedIsAlone' /\ OutcomesCount'
  BY DEF TargetInv, InterruptedIsAlone, OutcomesCount, Counts, Made, GoesOn, Working
<1> QED BY <1>1, <1>2, <1>3, <1>4 DEF TargetParts

LEMMA LeavesPreserves ==
  ASSUME TargetInv, NEW p \in Process, Leaves(p),
         interrupted' = interrupted \union {t \in Target : Owned(t, work[p].attempt)}
  PROVE  TargetParts'
<1>0. work'[p] = Idle /\ \A q \in Process \ {p} : work'[q] = work[q]
  BY Shapes DEF Leaves, TargetInv
<1>1. TokensAreOwn'
  BY <1>0, IdleHand DEF TargetInv, TokensAreOwn, Leaves, Working
<1>2. AtItsTarget'
  BY <1>0, IdleHand DEF TargetInv, AtItsTarget, Leaves, Owned
<1>3. RunningIsOwned'
  <2>1. \A q \in Process \ {p}, t \in Target : Owner(q, t) => Owner(q, t)'
    BY <1>0 DEF Owner, Leaves
  <2>2. \A t \in Target : action[t].status = "running" /\ Owner(p, t) => t \in interrupted'
    BY DEF Owner, Owned
  <2> QED BY <2>1, <2>2 DEF TargetInv, RunningIsOwned, Leaves
<1>4. InterruptedIsAlone'
  <2>1. ASSUME NEW t \in Target, Owned(t, work[p].attempt), NEW q \in Process \ {p}, Working(q)
        PROVE  work[q].attempt # action[t].attempt
    BY <2>1 DEF TargetInv, TokensAreOwn, Owned, Leaves
  <2> QED BY <1>0, <2>1, IdleHand DEF TargetInv, InterruptedIsAlone, Leaves, Working, Owned
<1>5. OutcomesCount'
  BY <1>0, IdleHand DEF TargetInv, OutcomesCount, Counts, Made, Leaves, Working
<1> QED BY <1>1, <1>2, <1>3, <1>4, <1>5 DEF TargetParts

(* An attempt that is over without a crash owns nothing any more.            *)
LEMMA OwnsNothing ==
  ASSUME TargetInv, NEW p \in Process, work[p].pc \in {"list", "next", "doubt"}, NEW t \in Target
  PROVE  ~Owned(t, work[p].attempt)
<1> SUFFICES ASSUME Owned(t, work[p].attempt) PROVE FALSE
  OBVIOUS
<1>1. t \notin interrupted
  BY DEF TargetInv, InterruptedIsAlone, Owned, Working
<1>2. PICK q \in Process : Owner(q, t)
  BY <1>1 DEF TargetInv, RunningIsOwned, Owned
<1>3. q = p
  BY <1>2 DEF TargetInv, TokensAreOwn, Owner, Owned, Working
<1> QED BY <1>2, <1>3 DEF Owner

LEMMA SettlesPreserves ==
  ASSUME TargetInv, NEW p \in Process, Settles(p)
  PROVE  TargetParts'
<1>1. PICK t \in Target, status \in {"succeeded", "failed", "skipped"}, output \in Outcomes \union {"none"} :
        /\ work[p].target = {t}
        /\ FinishActionExecution(t, work[p].attempt, status, output)
        /\ UNCHANGED <<job, interrupted>>
        /\ \A q \in Process \ {p} : work'[q] = work[q]
        /\ work'[p].attempt = work[p].attempt /\ work[p].results \subseteq work'[p].results
        /\ \/ work[p].pc = "uncertain" /\ work'[p].pc = "doubt" /\ work'[p].target = {t}
           \/ /\ work[p].pc = "record" /\ work'[p].pc = "next" /\ work'[p].target = {}
              /\ output \in work'[p].results /\ (status = "failed" => output \in {"failed", "retryable"})
  BY DEF Settles
<1>2. /\ \A u \in Target \ {t} : action'[u] = action[u]
      /\ action'[t].attempt = action[t].attempt
      /\ action'[t] # action[t] => Owned(t, work[p].attempt)
      /\ Owned(t, work[p].attempt) => action'[t].status = status /\ action'[t].output = output
  BY <1>1, Shapes DEF FinishActionExecution, TargetInv, Execution, Owned
<1>3. \A q \in Process : Working(q) = Working(q)' /\ work'[q].attempt = work[q].attempt
  BY <1>1 DEF Working
<1>4. TokensAreOwn'
  BY <1>1, <1>2, <1>3 DEF TargetInv, TokensAreOwn, Owned
<1>5. \A q \in Process \ {p} : Working(q) => work[q].attempt # work[p].attempt
  BY <1>1 DEF TargetInv, TokensAreOwn, Working
<1>6. AtItsTarget'
  <2>1. ASSUME NEW q \in Process \ {p}, work[q].pc \in {"call", "record"}, NEW u \in work[q].target
        PROVE  Owned(u, work[q].attempt)'
    <3>1. Owned(u, work[q].attempt) /\ u \in Target
      BY <2>1 DEF TargetInv, AtItsTarget
    <3>2. work[q].attempt # work[p].attempt
      BY <1>5, <2>1 DEF Working
    <3> QED BY <1>1, <1>2, <2>1, <3>1, <3>2 DEF Owned
  <2> QED BY <1>1, <2>1 DEF TargetInv, AtItsTarget
<1>7. RunningIsOwned'
  <2>1. \A q \in Process \ {p}, u \in Target : Owner(q, u) => Owner(q, u)'
    BY <1>1, <1>2 DEF Owner
  <2>2. \A u \in Target : action'[u].status = "running" => action[u].status = "running" /\ ~Owner(p, u)
    BY <1>1, <1>2 DEF Owner, Owned
  <2> QED BY <1>1, <2>1, <2>2 DEF TargetInv, RunningIsOwned
<1>8. InterruptedIsAlone'
  <2>1. Working(p)
    BY <1>1 DEF Working
  <2>2. \A u \in interrupted : u \in Target /\ action'[u] = action[u]
    BY <1>1, <1>2, <2>1 DEF TargetInv, TargetTypeOK, InterruptedIsAlone, Owned
  <2> QED BY <1>1, <1>3, <2>2 DEF TargetInv, InterruptedIsAlone
<1>9. OutcomesCount'
  <2>1. ASSUME NEW q \in Process \ {p}, NEW u \in Target, Working(q), u \notin work[q].target, u \in Made(q)'
        PROVE  Counts(q, u)'
    <3>1. action'[u] = action[u] /\ work'[q] = work[q]
      BY <1>1, <1>2, <1>5, <2>1 DEF Owned, Made
    <3> QED BY <2>1, <3>1 DEF TargetInv, OutcomesCount, Counts, Made
  <2>2. ASSUME NEW u \in Target, u \notin work'[p].target, u \in Made(p)'
        PROVE  Counts(p, u)'
    <3>1. CASE u # t
      <4>1. action'[u] = action[u] /\ u \notin work[p].target /\ u \in Made(p) /\ Working(p)
        BY <1>1, <1>2, <1>3, <2>2, <3>1 DEF Made, Working
      <4>2. /\ action[u].output \in work[p].results
            /\ action[u].status = "failed" => action[u].output \in {"failed", "retryable"}
        BY <4>1 DEF TargetInv, OutcomesCount, Counts
      <4>3. work[p].results \subseteq work'[p].results
        BY <1>1
      <4>4. action'[u].output \in work'[p].results
        BY <4>1, <4>2, <4>3
      <4>5. action'[u].status = "failed" => action'[u].output \in {"failed", "retryable"}
        BY <4>1, <4>2
      <4> QED BY <4>4, <4>5 DEF Counts
    <3>2. CASE u = t
      <4>1. work[p].pc = "record" /\ output \in work'[p].results /\ (status = "failed" => output \in {"failed", "retryable"})
        BY <1>1, <2>2, <3>2
      <4>2. Owned(t, work[p].attempt)
        BY <1>1, <2>2, <3>2 DEF TargetInv, AtItsTarget
      <4>3. action'[t].status = status /\ action'[t].output = output
        BY <1>2, <4>2
      <4>4. action'[u].output \in work'[p].results
        BY <3>2, <4>1, <4>3
      <4>5. action'[u].status = "failed" => action'[u].output \in {"failed", "retryable"}
        BY <3>2, <4>1, <4>3
      <4> QED BY <4>4, <4>5 DEF Counts
    <3> QED BY <3>1, <3>2
  <2> QED BY <1>1, <1>3, <2>1, <2>2 DEF OutcomesCount
<1> QED BY <1>4, <1>6, <1>7, <1>8, <1>9 DEF TargetParts

LEMMA TakesPreserves ==
  ASSUME TargetInv, NEW p \in Process, Takes(p)
  PROVE  TargetParts'
<1>1. PICK t \in Target :
        /\ work[p].target = {t} /\ Vacant(t) /\ Working(p)
        /\ ClaimActionExecution(t, work[p].attempt)
        /\ UNCHANGED <<job, interrupted>>
        /\ \A q \in Process \ {p} : work'[q] = work[q]
        /\ work'[p].pc = "call" /\ work'[p].target = {t}
        /\ work'[p].attempt = work[p].attempt /\ work'[p].results = work[p].results
  BY DEF Takes
<1>2. /\ \A u \in Target \ {t} : action'[u] = action[u]
      /\ action'[t].status = "running" /\ action'[t].attempt = work[p].attempt
      /\ action[t].status # "running"
  BY <1>1, Shapes DEF ClaimActionExecution, NoExecution, TargetInv, Vacant
<1>3. \A q \in Process : Working(q) = Working(q)' /\ work'[q].attempt = work[q].attempt
  BY <1>1 DEF Working
<1>4. \A q \in Process \ {p} : Working(q) => work[q].attempt # work[p].attempt
  BY <1>1 DEF TargetInv, TokensAreOwn
<1>5. TokensAreOwn'
  BY <1>1, <1>2, <1>3 DEF TargetInv, TokensAreOwn
<1>6. AtItsTarget'
  <2>1. ASSUME NEW q \in Process \ {p}, work[q].pc \in {"call", "record"}, NEW u \in work[q].target
        PROVE  Owned(u, work[q].attempt)'
    <3>1. Owned(u, work[q].attempt) /\ u \in Target
      BY <2>1 DEF TargetInv, AtItsTarget
    <3> QED BY <1>1, <1>2, <2>1, <3>1 DEF Owned
  <2>2. Owned(t, work[p].attempt)'
    BY <1>1, <1>2 DEF Owned
  <2> QED BY <1>1, <2>1, <2>2 DEF TargetInv, AtItsTarget
<1>7. RunningIsOwned'
  <2>1. \A q \in Process \ {p}, u \in Target \ {t} : Owner(q, u) => Owner(q, u)'
    BY <1>1, <1>2 DEF Owner
  <2>2. \A u \in Target \ {t} : ~Owner(p, u)
    BY <1>1 DEF Owner
  <2>3. Owner(p, t)'
    BY <1>1, <1>2 DEF Owner
  <2> QED BY <1>1, <1>2, <2>1, <2>2, <2>3 DEF TargetInv, RunningIsOwned
<1>8. InterruptedIsAlone'
  <2>1. \A u \in interrupted : u \in Target /\ action'[u] = action[u]
    BY <1>1, <1>2 DEF TargetInv, TargetTypeOK, InterruptedIsAlone
  <2> QED BY <1>1, <1>3, <2>1 DEF TargetInv, InterruptedIsAlone
<1>9. OutcomesCount'
  <2>1. ASSUME NEW q \in Process, NEW u \in Target, Working(q), u \notin work'[q].target, u \in Made(q)'
        PROVE  Counts(q, u)'
    <3>1. u # t
      BY <1>1, <1>2, <1>3, <1>4, <2>1 DEF Made
    <3>2. action'[u] = action[u] /\ u \in Made(q) /\ work'[q].results = work[q].results
      BY <1>1, <1>2, <1>3, <2>1, <3>1 DEF Made
    <3>3. u \notin work[q].target
      BY <1>1, <2>1, <3>1
    <3>4. /\ action[u].output \in work[q].results
          /\ action[u].status = "failed" => action[u].output \in {"failed", "retryable"}
      BY <2>1, <3>2, <3>3 DEF TargetInv, OutcomesCount, Counts
    <3> QED BY <3>2, <3>4 DEF Counts
  <2> QED BY <1>3, <2>1 DEF OutcomesCount
<1> QED BY <1>5, <1>6, <1>7, <1>8, <1>9 DEF TargetParts

LEMMA ClaimJobPreserves ==
  ASSUME TargetInv, NEW p \in Process, ClaimJob(p)
  PROVE  TargetParts' /\ job' \in Job /\ work' \in [Process -> Hand]
<1>0. job \in Job /\ work \in [Process -> Hand] /\ work[p] \in Hand
  BY Shapes DEF TargetInv
<1>1. PICK a \in Attempt \ Tokens :
        /\ job' = Claimed(job, a)
        /\ work' = [work EXCEPT ![p] = [Idle EXCEPT !.pc = "list", !.attempt = a]]
  BY DEF ClaimJob
<1>2. job' \in Job /\ Claims(job') = Claims(job) \union {a} /\ a \notin Claims(job)
  BY <1>0, <1>1, ClaimAddsToken, TokensAreClaims
<1>3. [Idle EXCEPT !.pc = "list", !.attempt = a] \in Hand
  BY DEF Idle, Hand
<1>4. /\ work'[p].pc = "list" /\ work'[p].attempt = a /\ work'[p].target = {} /\ work[p].pc = "idle"
      /\ \A q \in Process \ {p} : work'[q] = work[q]
      /\ UNCHANGED <<action, interrupted>>
  BY <1>0, <1>1 DEF ClaimJob, At, Idle, targetHistory
<1>5. \A t \in Target : action[t].status # "none" => action[t].attempt # a
  BY <1>2 DEF TargetInv, TokensAreOwn
<1>6. TokensAreOwn'
  BY <1>2, <1>4 DEF TargetInv, TokensAreOwn, Working
<1>7. AtItsTarget'
  BY <1>4 DEF TargetInv, AtItsTarget, Owned
<1>8. RunningIsOwned'
  <2>1. \A q \in Process, t \in Target : Owner(q, t) => Owner(q, t)'
    BY <1>4 DEF Owner
  <2> QED BY <1>4, <2>1 DEF TargetInv, RunningIsOwned
<1>9. InterruptedIsAlone' /\ OutcomesCount'
  <2>1. \A t \in interrupted : t \in Target
    BY DEF TargetInv, TargetTypeOK
  <2>2. InterruptedIsAlone'
    BY <1>4, <1>5, <2>1 DEF TargetInv, InterruptedIsAlone, Working
  <2>3. OutcomesCount'
    BY <1>4, <1>5 DEF TargetInv, OutcomesCount, Counts, Made, Working
  <2> QED BY <2>2, <2>3
<1> QED BY <1>0, <1>1, <1>2, <1>3, <1>6, <1>7, <1>8, <1>9 DEF TargetParts

LEMMA OutsidePreserves ==
  ASSUME TargetInv,
         \/ \E t \in Target : FlagExpired(t)
         \/ SweepExpired \/ Observe \/ RetryJob \/ UNCHANGED targetVars
  PROVE  TargetInv'
<1>0. job \in Job /\ TargetTypeOK
  BY DEF TargetInv, TargetTypeOK
<1>1. UNCHANGED <<work, interrupted>>
  BY DEF FlagExpired, SweepExpired, Observe, RetryJob, targetVars, targetHistory
<1>2. job' \in Job /\ Claims(job') = Claims(job)
  <2>1. CASE (\E t \in Target : FlagExpired(t)) \/ UNCHANGED targetVars
    BY <1>0, <2>1 DEF FlagExpired, targetVars
  <2>2. CASE SweepExpired
    <3>1. [job EXCEPT !.lease = "lapsed"] \in Job /\ Claims([job EXCEPT !.lease = "lapsed"]) = Claims(job)
      BY <1>0 DEF Job, Claims
    <3> QED BY <2>2, <3>1, FlagKeepsTokens DEF SweepExpired
  <2>3. CASE Observe
    BY <1>0, <2>3, UpdateKeeps DEF Observe, JobStatus, Terminal
  <2>4. CASE RetryJob
    BY <1>0, <2>4, ResetKeepsTokens DEF RetryJob
  <2> QED BY <2>1, <2>2, <2>3, <2>4
<1>3. /\ action' \in [Target -> Execution]
      /\ \A t \in Target : /\ action'[t].status = action[t].status /\ action'[t].attempt = action[t].attempt
                          /\ action'[t].output = action[t].output
  <2>1. CASE action' = action
    BY <1>0, <2>1, Shapes
  <2>2. CASE \E t \in Target : FlagExpired(t)
    <3>1. PICK t \in Target : action' = [action EXCEPT ![t].flagged = TRUE]
      BY <2>2 DEF FlagExpired
    <3> QED BY <1>0, <3>1, Shapes DEF Execution
  <2> QED BY <2>1, <2>2 DEF SweepExpired, Observe, RetryJob, targetVars
<1>4. setbacks' \in Nat /\ resets' \in Nat
  BY <1>0 DEF FlagExpired, SweepExpired, Observe, RetryJob, targetVars, targetHistory, TargetTypeOK
<1>5. TargetTypeOK'
  BY <1>0, <1>1, <1>2, <1>3, <1>4 DEF TargetTypeOK
<1>6. TokensAreOwn' /\ AtItsTarget'
  BY <1>1, <1>2, <1>3 DEF TargetInv, TokensAreOwn, AtItsTarget, Working, Owned
<1>7. RunningIsOwned'
  <2>1. \A q \in Process, t \in Target : Owner(q, t) => Owner(q, t)'
    BY <1>1, <1>3 DEF Owner
  <2> QED BY <1>1, <1>3, <2>1 DEF TargetInv, RunningIsOwned
<1>8. InterruptedIsAlone' /\ OutcomesCount'
  <2>1. \A t \in interrupted : t \in Target
    BY <1>0 DEF TargetTypeOK
  <2> QED BY <1>1, <1>3, <2>1 DEF TargetInv, InterruptedIsAlone, OutcomesCount, Counts, Made, Working
<1> QED BY <1>5, <1>6, <1>7, <1>8 DEF TargetInv

LEMMA TargetInvPreserved == TargetInv /\ [TargetNext]_targetVars => TargetInv'
<1> SUFFICES ASSUME TargetInv, [TargetNext]_targetVars PROVE TargetInv'
  OBVIOUS
<1>0. TargetTypeOK
  BY DEF TargetInv
<1>1. ASSUME NEW p \in Process, ClaimJob(p) \/ InLoop(p) \/ Crash(p)
      PROVE  interrupted' \subseteq Target /\ setbacks' \in Nat /\ resets' \in Nat
  <2>1. CASE ListingFails(p) \/ CallThrows(p) \/ Crash(p)
    <3>1. setbacks' \in Nat /\ resets' \in Nat
      BY <1>0, <2>1 DEF ListingFails, CallThrows, Crash, Setback, TargetTypeOK
    <3>2. interrupted' \subseteq Target
      BY <1>0, <2>1 DEF ListingFails, CallThrows, Crash, TargetTypeOK
    <3> QED BY <3>1, <3>2
  <2>2. CASE ClaimJob(p) \/ ListTargets(p) \/ Look(p) \/ ClaimTarget(p) \/ CallReturns(p)
             \/ FinishTarget(p) \/ FinishJob(p) \/ FinishUncertainTarget(p) \/ FinishUncertainJob(p)
    <3>1. UNCHANGED targetHistory
      BY <2>2 DEF ClaimJob, ListTargets, Look, ClaimTarget, CallReturns, FinishTarget, FinishJob,
                  FinishUncertainTarget, FinishUncertainJob
    <3> QED BY <1>0, <3>1 DEF targetHistory, TargetTypeOK
  <2> QED BY <1>1, <2>1, <2>2 DEF InLoop
<1>2. ASSUME NEW p \in Process, ClaimJob(p) PROVE TargetInv'
  <2>1. action' \in [Target -> Execution]
    BY <1>0, <1>2, Shapes DEF ClaimJob
  <2> QED BY <1>1, <1>2, <2>1, ClaimJobPreserves, TypedAgain DEF TargetInv, TargetParts
<1>3. ASSUME NEW p \in Process,
             ListTargets(p) \/ Look(p) \/ CallReturns(p) \/ CallThrows(p) \/ (ClaimTarget(p) /\ action' = action)
      PROVE  TargetInv'
  <2>1. GoesOn(p) /\ work' \in [Process -> Hand] /\ job' = job
    BY <1>3, LoopGoesOn
  <2>2. action' \in [Target -> Execution] /\ job' \in Job
    BY <1>0, <2>1, Shapes DEF GoesOn
  <2>3. TargetTypeOK'
    BY <1>1, <1>3, <2>1, <2>2, TypedAgain DEF InLoop
  <2> QED BY <2>1, <2>3, GoesOnPreserves DEF TargetInv, TargetParts
<1>4. ASSUME NEW p \in Process, ListingFails(p) \/ FinishJob(p) \/ FinishUncertainJob(p) \/ Crash(p)
      PROVE  TargetInv'
  <2>1. Leaves(p) /\ work' \in [Process -> Hand] /\ job' \in Job
    BY <1>4, LoopLeaves
  <2>2. action' \in [Target -> Execution]
    BY <1>0, <2>1, Shapes DEF Leaves
  <2>3. interrupted' = interrupted \union {t \in Target : Owned(t, work[p].attempt)}
    <3>1. CASE Crash(p)
      BY <3>1 DEF Crash
    <3>2. CASE ListingFails(p) \/ FinishJob(p) \/ FinishUncertainJob(p)
      <4>1. work[p].pc \in {"list", "next", "doubt"} /\ interrupted' = interrupted
        BY <3>2 DEF ListingFails, FinishJob, FinishUncertainJob, At, targetHistory
      <4> QED BY <4>1, OwnsNothing
    <3> QED BY <1>4, <3>1, <3>2
  <2>4. TargetTypeOK'
    BY <1>1, <1>4, <2>1, <2>2, TypedAgain DEF InLoop
  <2> QED BY <2>1, <2>3, <2>4, LeavesPreserves DEF TargetInv, TargetParts
<1>5. ASSUME NEW p \in Process, FinishTarget(p) \/ FinishUncertainTarget(p) PROVE TargetInv'
  <2>1. Settles(p) /\ work' \in [Process -> Hand] /\ action' \in [Target -> Execution]
    BY <1>5, LoopSettles
  <2>2. job' \in Job
    BY <1>0, <2>1, Shapes DEF Settles
  <2>3. TargetTypeOK'
    BY <1>1, <1>5, <2>1, <2>2, TypedAgain DEF InLoop
  <2> QED BY <2>1, <2>3, SettlesPreserves DEF TargetInv, TargetParts
<1>6. ASSUME NEW p \in Process, ClaimTarget(p), action' # action PROVE TargetInv'
  <2>1. Takes(p) /\ work' \in [Process -> Hand] /\ action' \in [Target -> Execution]
    BY <1>6, LoopTakes
  <2>2. job' \in Job
    BY <1>0, <2>1, Shapes DEF Takes
  <2>3. TargetTypeOK'
    BY <1>1, <1>6, <2>1, <2>2, TypedAgain DEF InLoop
  <2> QED BY <2>1, <2>3, TakesPreserves DEF TargetInv, TargetParts
<1> QED BY <1>2, <1>3, <1>4, <1>5, <1>6, OutsidePreserves DEF TargetNext, InLoop

LEMMA TargetInvHolds == TargetSpec => []TargetInv
<1>1. TargetInit => TargetInv
  <2> SUFFICES ASSUME TargetInit PROVE TargetInv
    OBVIOUS
  <2>1. NewJob \in Job
    BY DEF NewJob, Job, JobStatus
  <2>2. NoExecution \in Execution /\ NoExecution.status = "none"
    BY DEF NoExecution, Execution
  <2>3. TargetTypeOK
    BY <2>1, <2>2, IdleHand DEF TargetInit, TargetTypeOK, Hand
  <2>4. \A p \in Process : work[p] = Idle
    BY DEF TargetInit
  <2>5. \A t \in Target : action[t].status = "none"
    BY <2>2 DEF TargetInit
  <2> QED BY <2>3, <2>4, <2>5, IdleHand
       DEF TargetInit, TargetInv, TokensAreOwn, AtItsTarget, RunningIsOwned, InterruptedIsAlone, OutcomesCount, Counts, Made, Working
<1> QED BY <1>1, TargetInvPreserved, PTL DEF TargetSpec
-----------------------------------------------------------------------------
(***************************************************************************)
(* THE THEOREMS.                                                            *)
(***************************************************************************)
(* The job, its executions and the loops of the relays keep their shapes.    *)
THEOREM TargetTypeCorrect == TargetSpec => []TargetTypeOK
<1>1. TargetInv => TargetTypeOK
  BY DEF TargetInv
<1> QED BY <1>1, TargetInvHolds, PTL

(* Two relays are never in the call for one target at a time.                *)
THEOREM OneCallAtATime == TargetSpec => []OneCallPerTarget
<1>1. TargetInv => OneCallPerTarget
  <2> SUFFICES ASSUME TargetInv, NEW p \in Process, NEW q \in Process, At(p, "call"), At(q, "call"), p # q,
                      NEW t \in work[p].target, t \in work[q].target
               PROVE  FALSE
    BY DEF OneCallPerTarget
  <2>1. Owned(t, work[p].attempt) /\ Owned(t, work[q].attempt)
    BY DEF TargetInv, AtItsTarget, At
  <2> QED BY <2>1 DEF TargetInv, TokensAreOwn, Owned, Working, At
<1> QED BY <1>1, TargetInvHolds, PTL

(* An execution that is not settled has its owner, or was interrupted.       *)
THEOREM UnsettledIsOwned == TargetSpec => []UnsettledHasOwner
<1>1. TargetInv => UnsettledHasOwner
  BY DEF TargetInv, RunningIsOwned, Owner, UnsettledHasOwner
<1> QED BY <1>1, TargetInvHolds, PTL

(* What a step of the loop may change in the executions.                     *)
LEMMA ExecutionsAfter ==
  ASSUME TargetInv, [TargetNext]_targetVars
  PROVE  \/ action' = action
         \/ \E p \in Process : Takes(p) \/ Settles(p)
         \/ \E t \in Target : FlagExpired(t)
<1>1. ASSUME NEW p \in Process, ClaimJob(p) \/ InLoop(p) \/ Crash(p)
      PROVE  action' = action \/ Takes(p) \/ Settles(p)
  BY <1>1, LoopGoesOn, LoopLeaves, LoopSettles, LoopTakes DEF InLoop, GoesOn, Leaves, ClaimJob
<1> QED BY <1>1 DEF TargetNext, SweepExpired, Observe, RetryJob, targetVars

(* A target that has succeeded stays that way.                               *)
THEOREM DoneIsKept == TargetSpec => DoneForGood
<1>1. ASSUME TargetInv, [TargetNext]_targetVars, NEW t \in Target, action[t].status = "succeeded"
      PROVE  action'[t] = action[t]
  <2>1. ASSUME NEW p \in Process, Takes(p) PROVE action'[t] = action[t]
    BY <1>1, <2>1, Shapes DEF Takes, ClaimActionExecution, Vacant, TargetInv
  <2>2. ASSUME NEW p \in Process, Settles(p) PROVE action'[t] = action[t]
    BY <1>1, <2>2, Shapes DEF Settles, FinishActionExecution, Owned, TargetInv
  <2>3. ASSUME NEW u \in Target, FlagExpired(u) PROVE action'[t] = action[t]
    BY <1>1, <2>3, Shapes DEF FlagExpired, TargetInv
  <2> QED BY <1>1, <2>1, <2>2, <2>3, ExecutionsAfter
<1>2. TargetInv /\ [TargetNext]_targetVars
        => [\A t \in Target : action[t].status = "succeeded" => action'[t] = action[t]]_targetVars
  BY <1>1
<1> QED BY <1>2, TargetInvHolds, PTL DEF TargetSpec, DoneForGood

(* What a crash interrupted stays as it is.                                  *)
THEOREM InterruptedIsKept == TargetSpec => InterruptedStays
<1>1. ASSUME TargetInv, [TargetNext]_targetVars, NEW t \in interrupted, action[t].status = "running"
      PROVE  action'[t].status = "running" /\ action'[t].attempt = action[t].attempt
  <2>0. t \in Target /\ \A p \in Process : Working(p) => ~Owned(t, work[p].attempt)
    BY <1>1 DEF TargetInv, TargetTypeOK, InterruptedIsAlone, Owned
  <2>1. ASSUME NEW p \in Process, Takes(p) PROVE action'[t] = action[t]
    BY <1>1, <2>0, <2>1, Shapes DEF Takes, ClaimActionExecution, Vacant, TargetInv
  <2>2. ASSUME NEW p \in Process, Settles(p) PROVE action'[t] = action[t]
    BY <1>1, <2>0, <2>2, Shapes DEF Settles, FinishActionExecution, TargetInv, Working
  <2>3. ASSUME NEW u \in Target, FlagExpired(u)
        PROVE  action'[t].status = "running" /\ action'[t].attempt = action[t].attempt
    BY <1>1, <2>0, <2>3, Shapes DEF FlagExpired, TargetInv, Execution
  <2> QED BY <1>1, <2>1, <2>2, <2>3, ExecutionsAfter
<1>2. TargetInv /\ [TargetNext]_targetVars
        => [\A t \in interrupted : action[t].status = "running"
              => action'[t].status = "running" /\ action'[t].attempt = action[t].attempt]_targetVars
  BY <1>1
<1> QED BY <1>2, TargetInvHolds, PTL DEF TargetSpec, InterruptedStays

(* Only the attempt that is over makes the job a success.                    *)
LEMMA SuccessIsReported ==
  ASSUME TargetInv, [TargetNext]_targetVars, NEW p \in Process,
         work'[p] = Idle, job' # job, job'.status = "succeeded"
  PROVE  work[p] = Idle \/ FinishJob(p)
<1>0. TargetTypeOK /\ job \in Job /\ work \in [Process -> Hand]
  BY Shapes DEF TargetInv
<1>1. ASSUME NEW q \in Process, ClaimJob(q) PROVE FALSE
  BY <1>0, <1>1 DEF ClaimJob, Claimable, Claimed, Job
<1>2. ASSUME NEW q \in Process, ListingFails(q) \/ FinishUncertainJob(q) PROVE FALSE
  BY <1>0, <1>2, UpdateKeeps DEF ListingFails, FinishUncertainJob, JobStatus, Terminal
<1>3. ASSUME NEW q \in Process, FinishJob(q), q # p PROVE work[p] = Idle
  BY <1>0, <1>3 DEF FinishJob, Rest
<1>4. ASSUME NEW q \in Process, InLoop(q) \/ Crash(q)
      PROVE  ListingFails(q) \/ FinishUncertainJob(q) \/ FinishJob(q)
  BY <1>4 DEF InLoop, ListTargets, Look, ClaimTarget, CallReturns, CallThrows, FinishTarget,
              FinishUncertainTarget, Crash
<1>5. CASE work' = work
  BY <1>5
<1> QED BY <1>1, <1>2, <1>3, <1>4, <1>5 DEF TargetNext, SweepExpired, Observe, RetryJob, FlagExpired, targetVars

(* An attempt makes the job a success only if each execution it has made was     *)
(* recorded with an outcome that counts as one (SuccessCoversTargets): neither    *)
(* failed, nor put off, nor left running.                                    *)
THEOREM SuccessIsComplete == TargetSpec => SuccessCoversTargets
<1>1. ASSUME TargetInv, [TargetNext]_targetVars, NEW p \in Process,
             work'[p] = Idle, job' # job, job'.status = "succeeded",
             NEW t \in Made(p)
      PROVE  /\ action[t].status \in {"succeeded", "skipped"}
             /\ action[t].output \notin {"failed"} \union Unfinished
  <2>0. /\ TargetTypeOK /\ t \in Target /\ action[t].status \in {"running", "succeeded", "failed", "skipped"}
        /\ action[t].attempt = work[p].attempt /\ action[t].status # "none"
    BY <1>1, Shapes DEF TargetInv, Execution, Made
  <2>1. CASE work[p] = Idle
    <3>1. NoAttempt \notin Claims(job)
      BY <2>0, TokenAssumption, TrailOfJob, Shapes DEF Claims
    <3>2. action[t].attempt = NoAttempt
      BY <2>0, <2>1, IdleHand
    <3> QED BY <1>1, <2>0, <3>1, <3>2 DEF TargetInv, TokensAreOwn
  <2>2. CASE FinishJob(p)
    <3>1. work[p].pc = "next" /\ work[p].target = {} /\ Working(p)
      BY <1>1, <2>2 DEF FinishJob, At, Working, TargetInv, AtItsTarget
    <3>2. PICK o \in Select(work[p].results) : Update(Patch(JobStatusOf(o), work[p].attempt, "keep"))
      BY <2>2 DEF FinishJob
    <3>3. job'.status = JobStatusOf(o)
      BY <1>1, <3>2 DEF Update, Updated, Merged, Patch
    <3>4. o = "succeeded"
      BY <1>1, <3>3 DEF JobStatusOf
    <3>5. work[p].results \intersect ({"failed"} \union Unfinished) = {}
      BY <3>2, <3>4 DEF Select, Unfinished
    <3>6. Counts(p, t)
      BY <1>1, <2>0, <3>1 DEF TargetInv, OutcomesCount
    <3>7. action[t].output \notin {"failed"} \union Unfinished
      BY <3>5, <3>6 DEF Counts
    <3>8. action[t].status # "failed"
      BY <3>6, <3>7 DEF Counts, Unfinished
    <3>9. action[t].status # "running"
      BY <1>1, <2>0, <3>1, OwnsNothing DEF Owned
    <3> QED BY <2>0, <3>7, <3>8, <3>9
  <2> QED BY <1>1, <2>1, <2>2, SuccessIsReported
<1>2. TargetInv /\ [TargetNext]_targetVars
        => [\A p \in Process : work'[p] = Idle /\ job' # job /\ job'.status = "succeeded"
              => \A t \in Made(p) : /\ action[t].status \in {"succeeded", "skipped"}
                                   /\ action[t].output \notin {"failed"} \union Unfinished]_targetVars
  BY <1>1
<1> QED BY <1>2, TargetInvHolds, PTL DEF TargetSpec, SuccessCoversTargets
=============================================================================
