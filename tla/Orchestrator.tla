---------------------------- MODULE Orchestrator ----------------------------
(***************************************************************************)
(* The controller's job orchestration (internal/orch/orchestrator.go) with *)
(* the request handlers and the scheduler that start jobs and the store    *)
(* writes both make.  A deployment's row, its VM rows and its runs are     *)
(* durable; the active map, the contexts, the job goroutines and the       *)
(* requests in flight die with the process and are rebuilt, as far as they *)
(* are, by ResumeInterrupted.                                              *)
(*                                                                         *)
(* Every step is one store write or one critical section of o.mu, so the   *)
(* process can die between any two of them.  What a job does to the        *)
(* hypervisor is reduced to its outcome and to whether the deployment has  *)
(* VM rows; Reconcile.tla and Fill.tla look inside.                        *)
(***************************************************************************)
EXTENDS Naturals, FiniteSets

CONSTANTS
  Deployments,    \* deployment records
  Adopted,        \* those created by adoption (origin "adopted")
  Runs,           \* run identifiers
  Requests,       \* HTTP handlers and scheduler fires in flight at once
  Ops,            \* the operations callers ask for
  NoDeployment,   \* no deployment
  NoRun,          \* no run
  MaxRestarts     \* bound on controller restarts

FillOps == {"initial-fill", "incremental", "verify"}
PowerOps == {"power-on", "power-off"}
AllOps == {"deploy", "teardown", "adopt"} \cup FillOps \cup PowerOps
RunTypes == {"deploy", "scale-up", "teardown"} \cup FillOps \cup PowerOps

ASSUME OrchestratorAssumption ==
  /\ Adopted \subseteq Deployments
  /\ NoDeployment \notin Deployments
  /\ NoRun \notin Runs
  /\ Ops \subseteq AllOps
  /\ MaxRestarts \in Nat

VARIABLES
  status,     \* status[d]: deployments.status
  recorded,   \* recorded[d]: d has rows in managed_vms
  runOf,      \* runOf[r]: runs.deployment_id
  runType,    \* runType[r]: runs.type
  runStatus,  \* runStatus[r]: runs.status, "absent" before CreateRun
  active,     \* the keys of the orchestrator's active map
  cancelled,  \* deployments whose active context has been cancelled
  job,        \* job[r]: where the goroutine working on r stands
  outcome,    \* outcome[r]: the result that goroutine is about to record
  req,        \* req[q]: the request handler q
  restarts    \* restarts so far

durable == <<status, recorded, runOf, runType, runStatus>>
memory == <<active, cancelled, job, outcome, req>>
vars == <<durable, memory, restarts>>

Statuses == {"new", "deploying", "ready", "error", "deleting", "deleted"}
Outcomes == {"succeeded", "failed", "cancelled"}
RunStatuses == {"absent", "pending", "running"} \cup Outcomes
JobStages == {"none", "starting", "opening", "working",
              "finishing", "settling", "releasing"}
RequestStages == {"idle", "listing", "marking", "joining",
                  "acquiring", "creating", "launching"}

IdleRequest ==
  [stage |-> "idle", op |-> "none", dep |-> NoDeployment, run |-> NoRun]

IsReconcile(type) == type \in {"deploy", "scale-up"}
(* The run types whose jobs end by writing the deployment status. *)
SetsStatus(type) == IsReconcile(type) \/ type = "teardown"

(* Adopted deployments come into being "ready" with their VM row. *)
Init ==
  /\ status = [d \in Deployments |-> IF d \in Adopted THEN "ready" ELSE "new"]
  /\ recorded = [d \in Deployments |-> d \in Adopted]
  /\ runOf = [r \in Runs |-> NoDeployment]
  /\ runType = [r \in Runs |-> "none"]
  /\ runStatus = [r \in Runs |-> "absent"]
  /\ active = {}
  /\ cancelled = {}
  /\ job = [r \in Runs |-> "none"]
  /\ outcome = [r \in Runs |-> "none"]
  /\ req = [q \in Requests |-> IdleRequest]
  /\ restarts = 0

-----------------------------------------------------------------------------
(* Request handlers.  A handler reads the deployment, checks its status and *)
(* only then takes the lock: what it read may be stale by that time.        *)

MoveTo(q, stage) == req' = [req EXCEPT ![q].stage = stage]
Reply(q) == req' = [req EXCEPT ![q] = IdleRequest]

(* The statuses in which the API accepts an operation. *)
ApiAccepts(op, s) ==
  CASE op \in {"deploy"} \cup PowerOps -> s \notin {"deleting", "deleted"}
    [] op \in {"teardown", "adopt"} -> s # "deleted"
    [] op \in FillOps -> s = "ready"

(* The scheduler's own guards; it neither deploys, fills from scratch nor   *)
(* adopts.                                                                  *)
ScheduleAccepts(op, s) ==
  /\ op \in {"incremental", "verify", "teardown"} \cup PowerOps
  /\ s \notin {"deleting", "deleted"}
  /\ op \in FillOps => s = "ready"

(* Bound: every request in flight finds an unused run identifier. *)
RunsLeft ==
  Cardinality({q \in Requests : req[q].stage # "idle"})
    < Cardinality({r \in Runs : runStatus[r] = "absent"})

ApiRequest(q, op, d) ==
  /\ req[q].stage = "idle"
  /\ RunsLeft
  /\ ApiAccepts(op, status[d])
  /\ op = "deploy" => d \notin Adopted
  /\ op = "adopt" => d \in Adopted
  /\ req' = [req EXCEPT ![q] =
       [stage |-> CASE op = "teardown" -> "listing"
                    [] op = "adopt" -> "joining"
                    [] OTHER -> "acquiring",
        op |-> op, dep |-> d, run |-> NoRun]]
  /\ UNCHANGED <<durable, active, cancelled, job, outcome, restarts>>

ScheduleFires(q, op, d) ==
  /\ req[q].stage = "idle"
  /\ RunsLeft
  /\ ScheduleAccepts(op, status[d])
  /\ req' = [req EXCEPT ![q] =
       [stage |-> "acquiring", op |-> op, dep |-> d, run |-> NoRun]]
  /\ UNCHANGED <<durable, active, cancelled, job, outcome, restarts>>

(* teardownDeployment looks whether there is anything to tear down ... *)
ListForTeardown(q) ==
  /\ req[q].stage = "listing"
  /\ MoveTo(q, IF recorded[req[q].dep] THEN "acquiring" ELSE "marking")
  /\ UNCHANGED <<durable, active, cancelled, job, outcome, restarts>>

(* ... and if not deletes the deployment itself, without the lock. *)
DeleteEmpty(q) ==
  /\ req[q].stage = "marking"
  /\ status' = [status EXCEPT ![req[q].dep] = "deleted"]
  /\ Reply(q)
  /\ UNCHANGED <<recorded, runOf, runType, runStatus,
                 active, cancelled, job, outcome, restarts>>

(* An adoption that joins an existing adopted deployment adds a VM row;     *)
(* adoption never takes the lock.                                           *)
JoinAdopted(q) ==
  /\ req[q].stage = "joining"
  /\ recorded' = [recorded EXCEPT ![req[q].dep] = TRUE]
  /\ Reply(q)
  /\ UNCHANGED <<status, runOf, runType, runStatus,
                 active, cancelled, job, outcome, restarts>>

-----------------------------------------------------------------------------
(* Start*: take the lock, record the run, mark the deployment, spawn.       *)

(* Variant for the mutation runs: the active map is not consulted. *)
AcquireUnchecked(q) ==
  LET d == req[q].dep IN
  /\ req[q].stage = "acquiring"
  /\ active' = active \cup {d}
  /\ cancelled' = cancelled \ {d}
  /\ MoveTo(q, "creating")
  /\ UNCHANGED <<durable, job, outcome, restarts>>

Acquire(q) ==
  LET d == req[q].dep IN
  /\ req[q].stage = "acquiring"
  /\ \/ /\ d \in active                                      \* ErrBusy
        /\ Reply(q)
        /\ UNCHANGED <<active, cancelled>>
     \/ /\ d \notin active
        /\ active' = active \cup {d}
        /\ cancelled' = cancelled \ {d}                      \* a fresh context
        /\ MoveTo(q, "creating")
  /\ UNCHANGED <<durable, job, outcome, restarts>>

Release(d) ==
  /\ active' = active \ {d}
  /\ cancelled' = cancelled \ {d}

TypeOfRun(op, d) ==
  IF op = "deploy" /\ recorded[d] THEN "scale-up" ELSE op

HasSucceededRun(d, type) ==
  \E r \in Runs : /\ runOf[r] = d
                  /\ runType[r] = type
                  /\ runStatus[r] = "succeeded"

(* StartFill's preconditions: there are VMs, and an incremental or a verify *)
(* finds data.  The VMs' own inspection of their disks may vouch for data   *)
(* no run history shows, so a missing history only permits the refusal.     *)
MayRefuse(op, d) ==
  /\ op \in FillOps
  /\ \/ ~recorded[d]
     \/ /\ op # "initial-fill"
        /\ d \notin Adopted
        /\ ~HasSucceededRun(d, "initial-fill")

CreateRun(q) ==
  LET d == req[q].dep
      op == req[q].op IN
  /\ req[q].stage = "creating"
  /\ op \in FillOps => recorded[d]
  /\ \E r \in Runs :
       /\ runStatus[r] = "absent"
       /\ runOf' = [runOf EXCEPT ![r] = d]
       /\ runType' = [runType EXCEPT ![r] = TypeOfRun(op, d)]
       /\ runStatus' = [runStatus EXCEPT ![r] = "pending"]
       /\ req' = [req EXCEPT ![q].stage = "launching", ![q].run = r]
  /\ UNCHANGED <<status, recorded, active, cancelled, job, outcome, restarts>>

(* Variant: the early return forgets the release. *)
RefuseLeavingLock(q) ==
  /\ req[q].stage = "creating"
  /\ MayRefuse(req[q].op, req[q].dep)
  /\ Reply(q)
  /\ UNCHANGED <<durable, active, cancelled, job, outcome, restarts>>

(* A precondition fails under the lock, which is given back. *)
Refuse(q) ==
  /\ req[q].stage = "creating"
  /\ MayRefuse(req[q].op, req[q].dep)
  /\ Release(req[q].dep)
  /\ Reply(q)
  /\ UNCHANGED <<durable, job, outcome, restarts>>

(* The last store write of Start* and the go statement.  A fill's run is    *)
(* marked running here, every other run by its own goroutine.               *)
Launch(q) ==
  LET d == req[q].dep
      r == req[q].run
      fill == runType[r] \in FillOps IN
  /\ req[q].stage = "launching"
  /\ status' = [status EXCEPT ![d] =
       CASE IsReconcile(runType[r]) -> "deploying"
         [] runType[r] = "teardown" -> "deleting"
         [] OTHER -> @]
  /\ runStatus' = [runStatus EXCEPT ![r] = IF fill THEN "running" ELSE @]
  /\ job' = [job EXCEPT ![r] = IF fill THEN "opening" ELSE "starting"]
  /\ Reply(q)
  /\ UNCHANGED <<recorded, runOf, runType, active, cancelled, outcome, restarts>>

(* Variant: the handler drops the map entry instead of signalling. *)
CancelReleases(d) ==
  /\ d \in active
  /\ Release(d)
  /\ UNCHANGED <<durable, job, outcome, req, restarts>>

(* Cancel only signals; the job notices, records and releases. *)
Cancel(d) ==
  /\ d \in active
  /\ cancelled' = cancelled \cup {d}
  /\ UNCHANGED <<durable, active, job, outcome, req, restarts>>

-----------------------------------------------------------------------------
(* The job goroutine: runJob, or runFill for the fill types. *)

(* The goroutine's result is decided: it goes on to FinishRun. *)
Decide(r, result) ==
  /\ job' = [job EXCEPT ![r] = "finishing"]
  /\ outcome' = [outcome EXCEPT ![r] = result]

(* runJob's fail records a cancelled context as such; failFill does not look. *)
FailureOutcome(r) ==
  IF runOf[r] \in cancelled /\ runType[r] \notin FillOps
  THEN "cancelled" ELSE "failed"

StartRun(r) ==
  /\ job[r] = "starting"
  /\ runStatus' = [runStatus EXCEPT ![r] = "running"]
  /\ job' = [job EXCEPT ![r] = "opening"]
  /\ UNCHANGED <<status, recorded, runOf, runType,
                 active, cancelled, outcome, req, restarts>>

OpenDriver(r) ==
  /\ job[r] = "opening"
  /\ job' = [job EXCEPT ![r] = "working"]
  /\ UNCHANGED <<durable, active, cancelled, outcome, req, restarts>>

(* Variant: the error never reaches the run record. *)
OpenDriverDropsError(r) ==
  /\ job[r] = "opening"
  /\ job' = [job EXCEPT ![r] = "finishing"]
  /\ UNCHANGED <<durable, active, cancelled, outcome, req, restarts>>

(* Variant: the goroutine returns without ending the run. *)
OpenDriverGivesUp(r) ==
  /\ job[r] = "opening"
  /\ job' = [job EXCEPT ![r] = "releasing"]
  /\ UNCHANGED <<durable, active, cancelled, outcome, req, restarts>>

OpenDriverFails(r) ==
  /\ job[r] = "opening"
  /\ Decide(r, FailureOutcome(r))
  /\ UNCHANGED <<durable, active, cancelled, req, restarts>>

(* A reconcile job records a VM it created. *)
RecordVM(r) ==
  /\ job[r] = "working"
  /\ IsReconcile(runType[r])
  /\ ~recorded[runOf[r]]
  /\ recorded' = [recorded EXCEPT ![runOf[r]] = TRUE]
  /\ UNCHANGED <<status, runOf, runType, runStatus, memory, restarts>>

(* The job function returns nil, or the fill's last VM reported.  A profile *)
(* asks for at least one VM, and a teardown has removed every row it        *)
(* listed.                                                                  *)
WorkSucceeds(r) ==
  LET d == runOf[r] IN
  /\ job[r] = "working"
  /\ IsReconcile(runType[r]) => recorded[d]
  /\ recorded' = IF runType[r] = "teardown"
                 THEN [recorded EXCEPT ![d] = FALSE] ELSE recorded
  /\ Decide(r, "succeeded")
  /\ UNCHANGED <<status, runOf, runType, runStatus,
                 active, cancelled, req, restarts>>

(* A hypervisor call, or a fill, fails; with no VM rows a teardown or a     *)
(* power job has no call to make.                                           *)
WorkFails(r) ==
  /\ job[r] = "working"
  /\ runType[r] \in {"teardown"} \cup PowerOps => recorded[runOf[r]]
  /\ Decide(r, FailureOutcome(r))
  /\ UNCHANGED <<durable, active, cancelled, req, restarts>>

(* The fill's poll loop sees its context cancelled. *)
FillCancelled(r) ==
  /\ job[r] = "working"
  /\ runType[r] \in FillOps
  /\ runOf[r] \in cancelled
  /\ Decide(r, "cancelled")
  /\ UNCHANGED <<durable, active, cancelled, req, restarts>>

FinishRun(r) ==
  /\ job[r] = "finishing"
  /\ runStatus' = [runStatus EXCEPT ![r] = outcome[r]]
  /\ job' = [job EXCEPT ![r] =
       IF SetsStatus(runType[r]) THEN "settling" ELSE "releasing"]
  /\ UNCHANGED <<status, recorded, runOf, runType,
                 active, cancelled, outcome, req, restarts>>

(* Variant: a cancelled job leaves the status as it is. *)
SettleUnlessCancelled(r) ==
  /\ job[r] = "settling"
  /\ status' = [status EXCEPT ![runOf[r]] =
       CASE outcome[r] = "cancelled" -> @
         [] outcome[r] = "failed" -> "error"
         [] outcome[r] = "succeeded" /\ runType[r] = "teardown" -> "deleted"
         [] OTHER -> "ready"]
  /\ job' = [job EXCEPT ![r] = "releasing"]
  /\ UNCHANGED <<recorded, runOf, runType, runStatus,
                 active, cancelled, outcome, req, restarts>>

(* The status write after the run has ended. *)
Settle(r) ==
  /\ job[r] = "settling"
  /\ status' = [status EXCEPT ![runOf[r]] =
       CASE outcome[r] # "succeeded" -> "error"
         [] outcome[r] = "succeeded" /\ runType[r] = "teardown" -> "deleted"
         [] OTHER -> "ready"]
  /\ job' = [job EXCEPT ![r] = "releasing"]
  /\ UNCHANGED <<recorded, runOf, runType, runStatus,
                 active, cancelled, outcome, req, restarts>>

JobReturns(r) ==
  /\ job[r] = "releasing"
  /\ job' = [job EXCEPT ![r] = "none"]
  /\ outcome' = [outcome EXCEPT ![r] = "none"]
  /\ Release(runOf[r])
  /\ UNCHANGED <<durable, req, restarts>>

-----------------------------------------------------------------------------
(* The process dies and the next one resumes, before it serves requests:    *)
(* one goroutine per deployment with a running run, on that run.  A run     *)
(* still pending is not looked at.                                          *)

Interrupted == {r \in Runs : runStatus[r] = "running"}

(* One run per deployment that has an interrupted one: acquire refuses the  *)
(* rest.                                                                    *)
Resumable(R) ==
  /\ R \subseteq Interrupted
  /\ \A r \in Interrupted : \E s \in R : runOf[s] = runOf[r]
  /\ \A r, s \in R : runOf[r] = runOf[s] => r = s

(* Variant: only fills, whose agents keep working, are resumed. *)
ResumeFillsOnly(R) == R = {r \in Interrupted : runType[r] \in FillOps}

ResumeInterrupted(R) == Resumable(R)

Restart ==
  /\ restarts < MaxRestarts
  /\ restarts' = restarts + 1
  /\ req' = [q \in Requests |-> IdleRequest]
  /\ cancelled' = {}
  /\ outcome' = [r \in Runs |-> "none"]
  /\ \E R \in SUBSET Runs :
       /\ ResumeInterrupted(R)
       /\ active' = {runOf[r] : r \in R}
       /\ job' = [r \in Runs |->
            CASE r \notin R -> "none"
              [] r \in R /\ runType[r] \in FillOps -> "opening"
              [] OTHER -> "starting"]
  /\ UNCHANGED durable

-----------------------------------------------------------------------------
RequestStep(q) ==
  \/ ListForTeardown(q)
  \/ DeleteEmpty(q)
  \/ JoinAdopted(q)
  \/ Acquire(q)
  \/ CreateRun(q)
  \/ Refuse(q)
  \/ Launch(q)

JobStep(r) ==
  \/ StartRun(r)
  \/ OpenDriver(r)
  \/ OpenDriverFails(r)
  \/ RecordVM(r)
  \/ WorkSucceeds(r)
  \/ WorkFails(r)
  \/ FillCancelled(r)
  \/ FinishRun(r)
  \/ Settle(r)
  \/ JobReturns(r)

Next ==
  \/ \E q \in Requests, op \in Ops, d \in Deployments :
       ApiRequest(q, op, d) \/ ScheduleFires(q, op, d)
  \/ \E q \in Requests : RequestStep(q)
  \/ \E d \in Deployments : Cancel(d)
  \/ \E r \in Runs : JobStep(r)
  \/ Restart

(* Goroutines and handlers keep running, and driver calls are assumed to    *)
(* return: one that never did would hold its job, as the code sets it no    *)
(* deadline.  Nobody has to send a request, to cancel, or to kill the       *)
(* controller.                                                              *)
Fairness ==
  /\ \A q \in Requests : WF_vars(RequestStep(q))
  /\ \A r \in Runs : WF_vars(JobStep(r))

Spec == Init /\ [][Next]_vars /\ Fairness

-----------------------------------------------------------------------------
(* Properties *)

(* Every variable has its type; in particular no job ends its run with an   *)
(* outcome that nothing decided (runJob, orchestrator.go:297-333).          *)
TypeOK ==
  /\ status \in [Deployments -> Statuses]
  /\ recorded \in [Deployments -> BOOLEAN]
  /\ runOf \in [Runs -> Deployments \cup {NoDeployment}]
  /\ runType \in [Runs -> RunTypes \cup {"none"}]
  /\ runStatus \in [Runs -> RunStatuses]
  /\ active \subseteq Deployments
  /\ cancelled \subseteq Deployments
  /\ job \in [Runs -> JobStages]
  /\ outcome \in [Runs -> Outcomes \cup {"none"}]
  /\ req \in [Requests -> [stage : RequestStages,
                          op : AllOps \cup {"none"},
                          dep : Deployments \cup {NoDeployment},
                          run : Runs \cup {NoRun}]]
  /\ restarts \in Nat

Live(r) == job[r] # "none"
(* A handler between acquire and the go statement. *)
Holding(q) == req[q].stage \in {"creating", "launching"}

(* "One at a time per deployment": no two jobs, no two handlers past        *)
(* acquire, and no job and such a handler ever share a deployment, and      *)
(* whoever works on a deployment has it marked busy.                        *)
OneJobPerDeployment ==
  /\ \A r, s \in Runs : Live(r) /\ Live(s) /\ runOf[r] = runOf[s] => r = s
  /\ \A p, q \in Requests :
       Holding(p) /\ Holding(q) /\ req[p].dep = req[q].dep => p = q
  /\ \A r \in Runs, q \in Requests :
       Live(r) /\ Holding(q) => runOf[r] # req[q].dep
  /\ \A r \in Runs : Live(r) => runOf[r] \in active
  /\ \A q \in Requests : Holding(q) => req[q].dep \in active

(* A run that reads "running" is being worked on in this process: none is   *)
(* left behind by a handler, by a job that returned or by a restart.        *)
RunningRunHasJob ==
  \A r \in Runs : runStatus[r] = "running" => Live(r)

(* Unless the controller was restarted, an idle deployment does not read as *)
(* having a job in progress.                                                *)
SettledWhenIdle ==
  \A d \in Deployments :
    status[d] \in {"deploying", "deleting"} /\ restarts = 0 => d \in active

(* The run history keeps RunLedger's promises, restarts included. *)
Ledger == INSTANCE RunLedger WITH owner <- runOf, stage <- runStatus
ImplementsLedger == Ledger!Spec

(* Every run that started ends, also when the controller is restarted while *)
(* it runs.                                                                 *)
EveryRunEnds ==
  \A r \in Runs : runStatus[r] = "running" ~> runStatus[r] \in Outcomes

(* No deployment stays locked: whoever takes the lock, refused or not,      *)
(* cancelled or not, gives it back.                                         *)
LockIsGivenBack ==
  \A d \in Deployments : d \in active ~> d \notin active
=============================================================================
