-------------------------- MODULE MCWorkflowEngine --------------------------
(***************************************************************************)
(* Instances of WorkflowEngine for TLC: two small workflows, and what may   *)
(* go wrong in each.                                                        *)
(***************************************************************************)
EXTENDS WorkflowEngine, TLC

CONSTANTS a1, a2, a3, a4, r1, r2, d1, d2, op, g1, i1, i2

Unset(name)      == [name |-> name, status |-> "unset"]
On(name, wanted) == [name |-> name, status |-> wanted]

Plain  == [j \in JobId |-> "none"]
Itself == [j \in JobId |-> j]
OneItem == [r \in Run |-> i1]
OwnItem == [r \in Run |-> IF r = r1 THEN i1 ELSE i2]
Alone   == [r \in Run |-> NoGroup]
Shared  == [r \in Run |-> g1]

(* A session that prompts are sent to, then a launch. *)
ChainOrder   == <<"plan", "build">>
SessionNeeds == [plan |-> {}, build |-> {On("plan", "started")}]
SessionKinds == [plan |-> "launch", build |-> "plain"]

(* Two instances of a matrix, a job for either outcome, one that needs both. *)
MatrixNeeds == [planA |-> {}, planB |-> {}, build |-> {Unset("plan")}, report |-> {Unset("plan")}]
MatrixNames == [planA |-> "plan", planB |-> "plan", build |-> "build", report |-> "report"]
MatrixIfs   == [planA |-> "none", planB |-> "none", build |-> "none", report |-> "failure"]
MatrixOrder == <<"planA", "planB", "build", "report">>
AllPlain    == [j \in JobId |-> "plain"]

(* one job that launches a worker *)
SingleNeeds == [build |-> {}]
SingleOrder == <<"build">>
LaunchKind  == [build |-> "launch"]
OperationKind == [build |-> "operation"]

Symmetric == Permutations(Attempt) \union Permutations(Daemon)
=============================================================================
