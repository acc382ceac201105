------------------------- MODULE WorkflowDecisions -------------------------
(***************************************************************************)
(* The pure half of the workflow engine (src/workflows/reconciler.ts and    *)
(* needSatisfaction of packages/domain/src/index.ts): what to do with a job  *)
(* given the statuses of all jobs of its run, and when a run is over.       *)
(*                                                                         *)
(* st is always a function from the jobs to their statuses, "pending" for   *)
(* a job without a record.  The wording of reasons is left out, and of the  *)
(* condition language only what depends on job statuses is kept: the four   *)
(* classes of an `if:` below.                                               *)
(***************************************************************************)
EXTENDS WorkflowJobs

CONSTANTS
  Needs,            (* job -> set of [name, status]: its `needs:`           *)
  NameOf,           (* job -> its declared name; a matrix shares one        *)
  Condition,        (* job -> the class of its `if:`                        *)
  ContinueOnError   (* the jobs with continueOnError                        *)

DagJob == DOMAIN Needs

Conditions == {"none", "always", "success", "failure"}

(* "unset": a need that names no status. *)
NeedStatus == {"started", "succeeded", "failed", "skipped", "unset"}

ASSUME DagAssumption ==
  /\ NameOf \in [DagJob -> STRING]
  /\ Condition \in [DagJob -> Conditions]
  /\ \A j \in DagJob : \A need \in Needs[j] :
       need.name \in STRING /\ need.status \in NeedStatus
  /\ ContinueOnError \subseteq DagJob

-----------------------------------------------------------------------------
(* needSatisfaction *)

Met(need, s) ==
  IF need.status = "unset" THEN s \in {"succeeded", "skipped"} ELSE s = need.status

Impossible(need, s) ==
  IF need.status = "unset" THEN s \in {"failed", "omitted"}
  ELSE IsTerminal(s) /\ s # need.status

(* instancesOf: every job a declared name covers *)
InstancesOf(name) == {k \in DagJob : NameOf[k] = name}

Known(need) == InstancesOf(need.name) # {}

(* aggregate: a matrix meets a need when all of it does, and cannot any     *)
(* more as soon as one instance cannot.                                     *)
GroupImpossible(need, st) ==
  \E k \in InstancesOf(need.name) : Impossible(need, st[k])

GroupMet(need, st) ==
  \A k \in InstancesOf(need.name) : Met(need, st[k])

GroupWaiting(need, st) == ~GroupMet(need, st) /\ ~GroupImpossible(need, st)

-----------------------------------------------------------------------------
(* expressionStatus, and an `if:` that reads success() or failure() *)

DependencyFailed(j, st) ==
  \E need \in Needs[j] : \E k \in InstancesOf(need.name) : st[k] \in {"failed", "omitted"}

ConditionHolds(j, st) ==
  CASE Condition[j] = "success" -> ~DependencyFailed(j, st)
    [] Condition[j] = "failure" -> DependencyFailed(j, st)
    [] OTHER -> TRUE

-----------------------------------------------------------------------------
(* decideJob: a pending job is settled, waits, or may run. *)

(* Mutant: an `if:` does not rescue the job. *)
OmitDespiteCondition(j, st) ==
  /\ st[j] = "pending"
  /\ \E need \in Needs[j] : ~Known(need) \/ GroupImpossible(need, st)

Omit(j, st) ==
  /\ st[j] = "pending"
  /\ \E need \in Needs[j] :
       ~Known(need) \/ (Condition[j] = "none" /\ GroupImpossible(need, st))

(* Mutant: one settled instance of a matrix is enough. *)
BlockedWhileAllWait(j, st) ==
  /\ st[j] = "pending"
  /\ \E need \in Needs[j] : \A k \in InstancesOf(need.name) :
       ~Met(need, st[k]) /\ ~Impossible(need, st[k])

Blocked(j, st) ==
  /\ st[j] = "pending"
  /\ \E need \in Needs[j] : Known(need) /\ GroupWaiting(need, st)

Skip(j, st) ==
  /\ st[j] = "pending" /\ ~Omit(j, st) /\ ~Blocked(j, st)
  /\ ~ConditionHolds(j, st)

(* Mutant: only the jobs that can still become met hold a job back. *)
MayRunUnblocked(j, st) ==
  /\ st[j] = "pending" /\ ~Omit(j, st)
  /\ ConditionHolds(j, st)

MayRun(j, st) ==
  /\ st[j] = "pending" /\ ~Omit(j, st) /\ ~Blocked(j, st)
  /\ ConditionHolds(j, st)

Hold(j, st) == st[j] # "pending" \/ (Blocked(j, st) /\ ~Omit(j, st))

-----------------------------------------------------------------------------
(* runOutcome *)

AllSettled(st) == \A j \in DagJob : IsTerminal(st[j])

(* Mutant: a started job does not hold the run open. *)
NothingPending(st) == \A j \in DagJob : st[j] # "pending"

Done(st) == AllSettled(st)

Outcome(st) ==
  IF \E j \in DagJob : st[j] = "failed" /\ j \notin ContinueOnError
  THEN "failed" ELSE "succeeded"

-----------------------------------------------------------------------------
(***************************************************************************)
(* A process decides from a copy of the run that other processes may have    *)
(* moved on since.  Without a retry they move it in one way only: a settled *)
(* job keeps its status.  Later is that order on status functions.          *)
(***************************************************************************)
StatusMap == [DagJob -> JobStatus]

Later(old, new) == \A k \in DagJob : IsTerminal(old[k]) => new[k] = old[k]

(* The needs of j as far as they can be relied on later: a job that was     *)
(* "started" may have ended meanwhile.                                      *)
NeedsAllow(j, st) ==
  \A need \in Needs[j] :
    \/ need.status = "started"
    \/ GroupMet(need, st)
    \/ Condition[j] # "none" /\ GroupImpossible(need, st)

(* A job whose verdict "run" outlives the copy.  A need on "started" may be *)
(* overtaken by its end; and success() may turn false beside a need that    *)
(* can no longer be met because one instance of a matrix went another way.   *)
Steady(j) ==
  \A need \in Needs[j] :
    /\ need.status # "started"
    /\ Condition[j] = "success" => need.status = "unset"
=============================================================================
