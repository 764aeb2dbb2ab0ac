----------------------------- MODULE RunLedger -----------------------------
(***************************************************************************)
(* What the run history promises a reader of the API, with no locks, no    *)
(* goroutines and no restarts: a run belongs to one deployment, is first   *)
(* pending, then running, then ends once and for good, and a deployment    *)
(* works on one run at a time.  Orchestrator.tla is shown to implement     *)
(* this specification.                                                     *)
(***************************************************************************)
CONSTANTS
  Deployments,    \* deployment records
  Runs,           \* run identifiers
  NoDeployment    \* the owner of a run that does not exist yet

VARIABLES
  owner,   \* owner[r]: the deployment run r was created for
  stage    \* stage[r]: how far run r has come

Outcomes == {"succeeded", "failed", "cancelled"}
Stages == {"absent", "pending", "running"} \cup Outcomes

(* A deployment is busy while one of its runs is being worked on. *)
Busy(d) == \E r \in Runs : owner[r] = d /\ stage[r] = "running"

Init ==
  /\ owner = [r \in Runs |-> NoDeployment]
  /\ stage = [r \in Runs |-> "absent"]

(* A run is recorded only while nothing runs for its deployment. *)
Create(r, d) ==
  /\ stage[r] = "absent"
  /\ ~Busy(d)
  /\ owner' = [owner EXCEPT ![r] = d]
  /\ stage' = [stage EXCEPT ![r] = "pending"]

Begin(r) ==
  /\ stage[r] = "pending"
  /\ ~Busy(owner[r])
  /\ stage' = [stage EXCEPT ![r] = "running"]
  /\ UNCHANGED owner

End(r, outcome) ==
  /\ stage[r] = "running"
  /\ stage' = [stage EXCEPT ![r] = outcome]
  /\ UNCHANGED owner

Next ==
  \E r \in Runs :
    \/ \E d \in Deployments : Create(r, d)
    \/ Begin(r)
    \/ \E o \in Outcomes : End(r, o)

vars == <<owner, stage>>
Spec == Init /\ [][Next]_vars
=============================================================================
