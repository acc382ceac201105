------------------------ MODULE WorkflowJobs_proofs ------------------------
(***************************************************************************)
(* What the functions of WorkflowJobs do to the attempt trail of a job; the  *)
(* proofs about WorkflowLedger and TargetActions rest on these lemmas.       *)
(***************************************************************************)
EXTENDS WorkflowJobs, SequenceTheorems, TLAPS

(* Rewriting the entries of an attempt trail, as both sweeps and every      *)
(* accepted report do, keeps its length and its type.                       *)
(***************************************************************************)
LEMMA RewrittenTrail ==
  ASSUME NEW s \in Seq(Entry), NEW f,
         f = [i \in DOMAIN s |-> f[i]],
         \A i \in DOMAIN s : f[i] \in Entry
  PROVE  f \in Seq(Entry) /\ Len(f) = Len(s) /\ DOMAIN f = 1..Len(s)
<1>1. Len(s) \in Nat /\ DOMAIN s = 1..Len(s)
  OBVIOUS
<1>2. f \in [1..Len(s) -> Entry]
  BY <1>1
<1> QED BY <1>1, <1>2

(* Appending a fresh entry, as a claim does. *)
LEMMA AppendedTrail ==
  ASSUME NEW s \in Seq(Entry), NEW e \in Entry
  PROVE  /\ Append(s, e) \in Seq(Entry)
         /\ Len(Append(s, e)) = Len(s) + 1
         /\ Append(s, e)[Len(s) + 1] = e
         /\ \A i \in 1..Len(s) : Append(s, e)[i] = s[i]
         /\ DOMAIN Append(s, e) = 1..(Len(s) + 1)
OBVIOUS

(* Reports rewrite outcomes: no entry becomes uncertain, none changes token. *)
LEMMA RecordedOutcome ==
  ASSUME NEW s \in Seq(Entry), NEW t
  PROVE  /\ RecordOutcome(s, t) \in Seq(Entry)
         /\ Len(RecordOutcome(s, t)) = Len(s)
         /\ DOMAIN RecordOutcome(s, t) = 1..Len(s)
         /\ \A i \in 1..Len(s) :
              /\ RecordOutcome(s, t)[i].attempt = s[i].attempt
              /\ RecordOutcome(s, t)[i].outcome = "uncertain" => s[i].outcome = "uncertain"
<1> DEFINE f == RecordOutcome(s, t)
<1>1. f = [i \in DOMAIN s |-> f[i]] /\ DOMAIN s = 1..Len(s)
  BY DEF RecordOutcome
<1>2. \A i \in DOMAIN s : s[i] \in Entry
  OBVIOUS
<1>3. \A i \in DOMAIN s : /\ f[i] \in Entry
                          /\ f[i].attempt = s[i].attempt
                          /\ f[i].outcome = "uncertain" => s[i].outcome = "uncertain"
  BY <1>2 DEF RecordOutcome, Entry
<1> HIDE DEF f
<1>4. f \in Seq(Entry) /\ Len(f) = Len(s) /\ DOMAIN f = 1..Len(s)
  BY <1>1, <1>3, RewrittenTrail
<1> QED BY <1>1, <1>3, <1>4 DEF f

(* A sweep marks exactly the entries of the token in flight. *)
LEMMA MarkedUncertain ==
  ASSUME NEW s \in Seq(Entry), NEW a
  PROVE  /\ MarkUncertain(s, a) \in Seq(Entry)
         /\ Len(MarkUncertain(s, a)) = Len(s)
         /\ DOMAIN MarkUncertain(s, a) = 1..Len(s)
         /\ \A i \in 1..Len(s) :
              /\ MarkUncertain(s, a)[i].attempt = s[i].attempt
              /\ s[i].attempt = a => MarkUncertain(s, a)[i].outcome = "uncertain"
              /\ s[i].attempt # a => MarkUncertain(s, a)[i] = s[i]
<1> DEFINE f == MarkUncertain(s, a)
<1>1. f = [i \in DOMAIN s |-> f[i]] /\ DOMAIN s = 1..Len(s)
  BY DEF MarkUncertain
<1>2. \A i \in DOMAIN s : s[i] \in Entry
  OBVIOUS
<1>3. \A i \in DOMAIN s : /\ f[i] \in Entry
                          /\ f[i].attempt = s[i].attempt
                          /\ s[i].attempt = a => f[i].outcome = "uncertain"
                          /\ s[i].attempt # a => f[i] = s[i]
  BY <1>2 DEF MarkUncertain, Entry
<1> HIDE DEF f
<1>4. f \in Seq(Entry) /\ Len(f) = Len(s) /\ DOMAIN f = 1..Len(s)
  BY <1>1, <1>3, RewrittenTrail
<1> QED BY <1>1, <1>3, <1>4 DEF f

LEMMA TrailOfJob ==
  ASSUME NEW job \in Job
  PROVE  /\ job.history \in Seq(Entry)
         /\ Len(job.history) \in Nat
         /\ DOMAIN job.history = 1..Len(job.history)
         /\ \A i \in 1..Len(job.history) :
              job.history[i] \in Entry /\ job.history[i].attempt \in Attempt
<1>1. job.history \in Seq(Entry)
  BY DEF Job
<1>2. /\ Len(job.history) \in Nat
      /\ DOMAIN job.history = 1..Len(job.history)
      /\ \A i \in 1..Len(job.history) : job.history[i] \in Entry
  BY <1>1, LenProperties, ElementOfSeq
<1> QED BY <1>1, <1>2 DEF Entry

(* The tokens a job was ever claimed with.                                  *)
Claims(job) == {job.history[i].attempt : i \in DOMAIN job.history}

(* Only a claim adds a token to the trail, and it adds its own.              *)
LEMMA ClaimAddsToken ==
  ASSUME NEW job \in Job, NEW a \in Attempt
  PROVE  Claimed(job, a) \in Job /\ Claims(Claimed(job, a)) = Claims(job) \union {a}
<1> DEFINE e == [attempt |-> a, outcome |-> "open"]
           new == Claimed(job, a)
<1>1. e \in Entry /\ e.attempt = a
  BY DEF Entry
<1>2. new.history = Append(job.history, e)
  BY DEF Claimed, Job
<1> HIDE DEF e
<1>3. /\ Append(job.history, e) \in Seq(Entry)
      /\ Append(job.history, e)[Len(job.history) + 1] = e
      /\ \A i \in 1..Len(job.history) : Append(job.history, e)[i] = job.history[i]
      /\ DOMAIN Append(job.history, e) = 1..(Len(job.history) + 1)
  BY <1>1, TrailOfJob, AppendedTrail
<1>4. new \in Job
  BY <1>3 DEF Claimed, Job, e
<1> HIDE DEF new
<1>5. Len(job.history) \in Nat /\ DOMAIN job.history = 1..Len(job.history)
  BY TrailOfJob
<1>6. Claims(new) = Claims(job) \union {a}
  BY <1>1, <1>2, <1>3, <1>5 DEF Claims
<1> QED BY <1>4, <1>6 DEF new

LEMMA UpdateKeepsTokens ==
  ASSUME NEW job \in Job, NEW t, t.status \in JobStatus, t.handle \in Attempt \union {NoAttempt},
         t.attention \in {"keep", "set", "clear"}, UpdateAccepted(job, t)
  PROVE  Updated(job, t) \in Job /\ Claims(Updated(job, t)) = Claims(job)
<1> DEFINE trail == RecordOutcome(job.history, t)
           new == Updated(job, t)
<1>1. /\ job.history \in Seq(Entry) /\ DOMAIN job.history = 1..Len(job.history)
  BY TrailOfJob
<1>2. /\ trail \in Seq(Entry) /\ DOMAIN trail = 1..Len(job.history)
      /\ \A i \in 1..Len(job.history) : trail[i].attempt = job.history[i].attempt
  BY <1>1, RecordedOutcome
<1> HIDE DEF trail
<1>3. new.history \in {job.history, trail}
  BY DEF Updated, Merged, trail
<1>4. new \in Job
  BY <1>1, <1>2 DEF Updated, Merged, TokenAfter, AttentionAfter, Job, UpdateAccepted, trail
<1> HIDE DEF new
<1>5. Claims(new) = Claims(job)
  BY <1>1, <1>2, <1>3 DEF Claims
<1> QED BY <1>4, <1>5 DEF new

LEMMA FlagKeepsTokens ==
  ASSUME NEW job \in Job
  PROVE  Flagged(job) \in Job /\ Claims(Flagged(job)) = Claims(job)
<1> DEFINE trail == MarkUncertain(job.history, job.attempt)
           new == Flagged(job)
<1>1. /\ job.history \in Seq(Entry) /\ DOMAIN job.history = 1..Len(job.history)
  BY TrailOfJob
<1>2. /\ trail \in Seq(Entry) /\ DOMAIN trail = 1..Len(job.history)
      /\ \A i \in 1..Len(job.history) : trail[i].attempt = job.history[i].attempt
  BY <1>1, MarkedUncertain
<1> HIDE DEF trail
<1>3. new.history = trail
  BY DEF Flagged, Job, trail
<1>4. new \in Job
  BY <1>2 DEF Flagged, Job, trail
<1> HIDE DEF new
<1>5. Claims(new) = Claims(job)
  BY <1>1, <1>2, <1>3 DEF Claims
<1> QED BY <1>4, <1>5 DEF new

LEMMA ResetKeepsTokens ==
  ASSUME NEW job \in Job
  PROVE  Reset(job) \in Job /\ Claims(Reset(job)) = Claims(job)
<1>1. Reset(job).history = job.history
  BY DEF Reset, Job
<1>2. Reset(job) \in Job
  BY DEF Reset, Job, JobStatus
<1> QED BY <1>1, <1>2 DEF Claims
=============================================================================
