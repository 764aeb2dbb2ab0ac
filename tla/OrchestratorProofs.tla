------------------------- MODULE OrchestratorProofs -------------------------
(***************************************************************************)
(* Orchestrator.tla keeps one job per deployment and implements            *)
(* RunLedger.tla, for any sets of deployments, runs and callers and any    *)
(* number of restarts.                                                     *)
(***************************************************************************)
EXTENDS Orchestrator, TLAPS

(* How a goroutine's position and its run's record go together. *)
JobMatchesRun ==
  \A r \in Runs :
    /\ job[r] = "starting" => runStatus[r] \in {"pending", "running"}
    /\ job[r] \in {"opening", "working", "finishing"} => runStatus[r] = "running"
    /\ job[r] \in {"settling", "releasing"} => runStatus[r] \in Outcomes
    /\ job[r] = "finishing" => outcome[r] \in Outcomes
    /\ runStatus[r] # "absent" => /\ runOf[r] \in Deployments
                                  /\ runType[r] \in RunTypes

(* What a handler holds when it is about to act. *)
RequestMatchesRun ==
  \A q \in Requests :
    /\ req[q].stage # "idle" => req[q].dep \in Deployments
    /\ req[q].stage # "idle" => req[q].op \in AllOps
    /\ req[q].stage \in {"listing", "acquiring", "creating"} => req[q].op # "adopt"
    /\ req[q].stage = "launching" =>
         /\ req[q].run \in Runs
         /\ runOf[req[q].run] = req[q].dep
         /\ runStatus[req[q].run] = "pending"
         /\ job[req[q].run] = "none"

IInv ==
  /\ TypeOK
  /\ JobMatchesRun
  /\ RequestMatchesRun
  /\ OneJobPerDeployment
  /\ RunningRunHasJob

-----------------------------------------------------------------------------

LEMMA InitIInv == Init => IInv
  <1> SUFFICES ASSUME Init PROVE IInv
    OBVIOUS
  <1> USE OrchestratorAssumption
  <1>1. TypeOK
    BY DEF Init, TypeOK, Statuses, RunStatuses, JobStages, RequestStages, IdleRequest
  <1>2. JobMatchesRun
    BY DEF Init, JobMatchesRun
  <1>3. RequestMatchesRun
    BY DEF Init, RequestMatchesRun, IdleRequest
  <1>4. OneJobPerDeployment
    BY DEF Init, OneJobPerDeployment, Live, Holding, IdleRequest
  <1>5. RunningRunHasJob
    BY DEF Init, RunningRunHasJob
  <1>6. QED
    BY <1>1, <1>2, <1>3, <1>4, <1>5 DEF IInv

LEMMA StutterIInv == IInv /\ UNCHANGED vars => IInv'
  BY DEF IInv, TypeOK, JobMatchesRun, RequestMatchesRun, OneJobPerDeployment,
         RunningRunHasJob, Live, Holding, vars, durable, memory

-----------------------------------------------------------------------------
(* What a step may do to runs and goroutines without disturbing a handler,  *)
(* and the deployments' exclusive use.                                      *)

LEMMA KeepsRequests ==
  ASSUME RequestMatchesRun,
         UNCHANGED <<runOf, req>>,
         \A r \in Runs : runStatus[r] = "pending" /\ job[r] = "none"
                         => UNCHANGED <<runStatus[r], job[r]>>
  PROVE  RequestMatchesRun'
  BY DEF RequestMatchesRun

LEMMA KeepsOneJob ==
  ASSUME OneJobPerDeployment,
         UNCHANGED <<runOf, active, req>>,
         \A r \in Runs : Live(r)' => Live(r)
  PROVE  OneJobPerDeployment'
  BY DEF OneJobPerDeployment, Holding

(* A handler's step leaves the other handlers alone. *)
LEMMA OtherRequests ==
  ASSUME TypeOK, NEW q \in Requests, NEW stage,
         MoveTo(q, stage) \/ Reply(q)
  PROVE  \A p \in Requests : p # q => req'[p] = req[p]
  BY DEF TypeOK, MoveTo, Reply

LEMMA MovedRequest ==
  ASSUME TypeOK, NEW q \in Requests, NEW stage, MoveTo(q, stage)
  PROVE  /\ req'[q].stage = stage
         /\ req'[q].op = req[q].op
         /\ req'[q].dep = req[q].dep
         /\ req'[q].run = req[q].run
  BY DEF TypeOK, MoveTo

LEMMA RepliedRequest ==
  ASSUME TypeOK, NEW q \in Requests, Reply(q)
  PROVE  /\ req'[q].stage = "idle"
         /\ req'[q].dep = NoDeployment
  BY DEF TypeOK, Reply, IdleRequest

-----------------------------------------------------------------------------
(* The job goroutine *)

LEMMA StartRunIInv ==
  ASSUME IInv, NEW r \in Runs, StartRun(r)
  PROVE  IInv'
  <1> USE DEF IInv, StartRun
  <1>1. TypeOK'
    BY DEF TypeOK, RunStatuses, JobStages
  <1>2. JobMatchesRun'
    BY DEF TypeOK, JobMatchesRun, Outcomes
  <1>3. RequestMatchesRun'
    BY KeepsRequests DEF TypeOK
  <1>4. OneJobPerDeployment'
    BY KeepsOneJob DEF TypeOK, Live
  <1>5. RunningRunHasJob'
    BY DEF TypeOK, RunningRunHasJob, JobMatchesRun, Live, Outcomes
  <1>6. QED
    BY <1>1, <1>2, <1>3, <1>4, <1>5

LEMMA OpenDriverIInv ==
  ASSUME IInv, NEW r \in Runs, OpenDriver(r)
  PROVE  IInv'
  <1> USE DEF IInv, OpenDriver, durable
  <1>1. TypeOK'
    BY DEF TypeOK, JobStages
  <1>2. JobMatchesRun'
    BY DEF TypeOK, JobMatchesRun
  <1>3. RequestMatchesRun'
    BY KeepsRequests DEF TypeOK
  <1>4. OneJobPerDeployment'
    BY KeepsOneJob DEF TypeOK, Live
  <1>5. RunningRunHasJob'
    BY DEF TypeOK, RunningRunHasJob, JobMatchesRun, Live, Outcomes
  <1>6. QED
    BY <1>1, <1>2, <1>3, <1>4, <1>5

LEMMA OpenDriverFailsIInv ==
  ASSUME IInv, NEW r \in Runs, OpenDriverFails(r)
  PROVE  IInv'
  <1> USE DEF IInv, OpenDriverFails, Decide, FailureOutcome, durable
  <1>1. TypeOK'
    BY DEF TypeOK, JobStages, Outcomes
  <1>2. JobMatchesRun'
    BY DEF TypeOK, JobMatchesRun, Outcomes
  <1>3. RequestMatchesRun'
    BY KeepsRequests DEF TypeOK
  <1>4. OneJobPerDeployment'
    BY KeepsOneJob DEF TypeOK, Live
  <1>5. RunningRunHasJob'
    BY DEF TypeOK, RunningRunHasJob, JobMatchesRun, Live, Outcomes
  <1>6. QED
    BY <1>1, <1>2, <1>3, <1>4, <1>5

LEMMA WorkFailsIInv ==
  ASSUME IInv, NEW r \in Runs, WorkFails(r)
  PROVE  IInv'
  <1> USE DEF IInv, WorkFails, Decide, FailureOutcome, durable
  <1>1. TypeOK'
    BY DEF TypeOK, JobStages, Outcomes
  <1>2. JobMatchesRun'
    BY DEF TypeOK, JobMatchesRun, Outcomes
  <1>3. RequestMatchesRun'
    BY KeepsRequests DEF TypeOK
  <1>4. OneJobPerDeployment'
    BY KeepsOneJob DEF TypeOK, Live
  <1>5. RunningRunHasJob'
    BY DEF TypeOK, RunningRunHasJob, JobMatchesRun, Live, Outcomes
  <1>6. QED
    BY <1>1, <1>2, <1>3, <1>4, <1>5

LEMMA FillCancelledIInv ==
  ASSUME IInv, NEW r \in Runs, FillCancelled(r)
  PROVE  IInv'
  <1> USE DEF IInv, FillCancelled, Decide, durable
  <1>1. TypeOK'
    BY DEF TypeOK, JobStages, Outcomes
  <1>2. JobMatchesRun'
    BY DEF TypeOK, JobMatchesRun, Outcomes
  <1>3. RequestMatchesRun'
    BY KeepsRequests DEF TypeOK
  <1>4. OneJobPerDeployment'
    BY KeepsOneJob DEF TypeOK, Live
  <1>5. RunningRunHasJob'
    BY DEF TypeOK, RunningRunHasJob, JobMatchesRun, Live, Outcomes
  <1>6. QED
    BY <1>1, <1>2, <1>3, <1>4, <1>5

LEMMA WorkSucceedsIInv ==
  ASSUME IInv, NEW r \in Runs, WorkSucceeds(r)
  PROVE  IInv'
  <1> USE DEF IInv, WorkSucceeds, Decide
  <1>1. TypeOK'
    BY DEF TypeOK, JobStages, Outcomes
  <1>2. JobMatchesRun'
    BY DEF TypeOK, JobMatchesRun, Outcomes
  <1>3. RequestMatchesRun'
    BY KeepsRequests DEF TypeOK
  <1>4. OneJobPerDeployment'
    BY KeepsOneJob DEF TypeOK, Live
  <1>5. RunningRunHasJob'
    BY DEF TypeOK, RunningRunHasJob, JobMatchesRun, Live, Outcomes
  <1>6. QED
    BY <1>1, <1>2, <1>3, <1>4, <1>5

LEMMA FinishRunIInv ==
  ASSUME IInv, NEW r \in Runs, FinishRun(r)
  PROVE  IInv'
  <1> USE DEF IInv, FinishRun
  <1>1. TypeOK'
    BY DEF TypeOK, JobMatchesRun, RunStatuses, JobStages
  <1>2. JobMatchesRun'
    BY DEF TypeOK, JobMatchesRun, Outcomes
  <1>3. RequestMatchesRun'
    BY KeepsRequests DEF TypeOK
  <1>4. OneJobPerDeployment'
    BY KeepsOneJob DEF TypeOK, Live
  <1>5. RunningRunHasJob'
    BY DEF TypeOK, RunningRunHasJob, JobMatchesRun, Live, Outcomes
  <1>6. QED
    BY <1>1, <1>2, <1>3, <1>4, <1>5

LEMMA SettleIInv ==
  ASSUME IInv, NEW r \in Runs, Settle(r)
  PROVE  IInv'
  <1> USE DEF IInv, Settle
  <1>1. TypeOK'
    BY DEF TypeOK, Statuses, JobStages
  <1>2. JobMatchesRun'
    BY DEF TypeOK, JobMatchesRun
  <1>3. RequestMatchesRun'
    BY KeepsRequests DEF TypeOK
  <1>4. OneJobPerDeployment'
    BY KeepsOneJob DEF TypeOK, Live
  <1>5. RunningRunHasJob'
    BY DEF TypeOK, RunningRunHasJob, JobMatchesRun, Live, Outcomes
  <1>6. QED
    BY <1>1, <1>2, <1>3, <1>4, <1>5

LEMMA RecordVMIInv ==
  ASSUME IInv, NEW r \in Runs, RecordVM(r)
  PROVE  IInv'
  BY DEF IInv, TypeOK, JobMatchesRun, RequestMatchesRun, OneJobPerDeployment,
         RunningRunHasJob, Live, Holding, RecordVM, memory

(* The job is the only one of its deployment, so nobody else's entry goes.  *)
LEMMA JobReturnsIInv ==
  ASSUME IInv, NEW r \in Runs, JobReturns(r)
  PROVE  IInv'
  <1> USE DEF IInv, JobReturns, Release, durable
  <1>1. TypeOK'
    BY DEF TypeOK, JobStages
  <1>2. JobMatchesRun'
    BY DEF TypeOK, JobMatchesRun
  <1>3. RequestMatchesRun'
    BY KeepsRequests DEF TypeOK
  <1>4. OneJobPerDeployment'
    <2>1. \A s \in Runs : Live(s)' => Live(s) /\ s # r
      BY DEF TypeOK, Live
    <2>2. Live(r)
      BY DEF Live
    <2>3. QED
      BY <2>1, <2>2 DEF OneJobPerDeployment, Holding
  <1>5. RunningRunHasJob'
    BY DEF TypeOK, RunningRunHasJob, JobMatchesRun, Live, Outcomes
  <1>6. QED
    BY <1>1, <1>2, <1>3, <1>4, <1>5

-----------------------------------------------------------------------------
(* The handlers *)

LEMMA ApiRequestIInv ==
  ASSUME IInv, NEW q \in Requests, NEW op \in Ops, NEW d \in Deployments,
         ApiRequest(q, op, d)
  PROVE  IInv'
  <1> USE DEF IInv, ApiRequest, durable
  <1>1. TypeOK'
    BY OrchestratorAssumption DEF TypeOK, RequestStages, AllOps
  <1>2. JobMatchesRun'
    BY DEF JobMatchesRun
  <1>3. \A p \in Requests : p # q => req'[p] = req[p]
    BY DEF TypeOK
  <1>4. /\ req'[q].stage \in {"listing", "joining", "acquiring"}
       /\ req'[q].stage \in {"listing", "acquiring"} => op # "adopt"
       /\ req'[q].dep = d /\ req'[q].op = op
    BY MovedRequest, RepliedRequest, OrchestratorAssumption DEF TypeOK
  <1>5. RequestMatchesRun'
    BY <1>3, <1>4, OrchestratorAssumption DEF RequestMatchesRun
  <1>6. OneJobPerDeployment'
    BY <1>3, <1>4 DEF OneJobPerDeployment, Holding, Live
  <1>7. RunningRunHasJob'
    BY DEF RunningRunHasJob, Live
  <1>8. QED
    BY <1>1, <1>2, <1>5, <1>6, <1>7

LEMMA ScheduleFiresIInv ==
  ASSUME IInv, NEW q \in Requests, NEW op \in Ops, NEW d \in Deployments,
         ScheduleFires(q, op, d)
  PROVE  IInv'
  <1> USE DEF IInv, ScheduleFires, ScheduleAccepts, FillOps, PowerOps, durable
  <1>1. TypeOK'
    BY OrchestratorAssumption DEF TypeOK, RequestStages, AllOps
  <1>2. JobMatchesRun'
    BY DEF JobMatchesRun
  <1>3. \A p \in Requests : p # q => req'[p] = req[p]
    BY DEF TypeOK
  <1>4. /\ req'[q].stage = "acquiring"
       /\ op # "adopt"
       /\ req'[q].dep = d /\ req'[q].op = op
    BY MovedRequest, RepliedRequest, OrchestratorAssumption DEF TypeOK
  <1>5. RequestMatchesRun'
    BY <1>3, <1>4, OrchestratorAssumption DEF RequestMatchesRun
  <1>6. OneJobPerDeployment'
    BY <1>3, <1>4 DEF OneJobPerDeployment, Holding, Live
  <1>7. RunningRunHasJob'
    BY DEF RunningRunHasJob, Live
  <1>8. QED
    BY <1>1, <1>2, <1>5, <1>6, <1>7

LEMMA ListForTeardownIInv ==
  ASSUME IInv, NEW q \in Requests, ListForTeardown(q)
  PROVE  IInv'
  <1> USE DEF IInv, ListForTeardown, MoveTo, durable
  <1>1. TypeOK'
    BY OrchestratorAssumption DEF TypeOK, RequestStages
  <1>2. JobMatchesRun'
    BY DEF JobMatchesRun
  <1>3. \A p \in Requests : p # q => req'[p] = req[p]
    BY DEF TypeOK
  <1>4. /\ req'[q].stage \in {"acquiring", "marking"}
       /\ req'[q].dep = req[q].dep /\ req'[q].op = req[q].op
    BY MovedRequest, RepliedRequest, OrchestratorAssumption DEF TypeOK
  <1>5. RequestMatchesRun'
    BY <1>3, <1>4, OrchestratorAssumption DEF RequestMatchesRun
  <1>6. OneJobPerDeployment'
    BY <1>3, <1>4 DEF OneJobPerDeployment, Holding, Live
  <1>7. RunningRunHasJob'
    BY DEF RunningRunHasJob, Live
  <1>8. QED
    BY <1>1, <1>2, <1>5, <1>6, <1>7

LEMMA DeleteEmptyIInv ==
  ASSUME IInv, NEW q \in Requests, DeleteEmpty(q)
  PROVE  IInv'
  <1> USE DEF IInv, DeleteEmpty, Reply
  <1>1. TypeOK'
    BY OrchestratorAssumption DEF TypeOK, RequestMatchesRun, Statuses, RequestStages, IdleRequest
  <1>2. JobMatchesRun'
    BY DEF JobMatchesRun
  <1>3. \A p \in Requests : p # q => req'[p] = req[p]
    BY DEF TypeOK
  <1>4. req'[q] = IdleRequest
    BY DEF TypeOK
  <1>5. RequestMatchesRun'
    BY <1>3, <1>4, OrchestratorAssumption DEF RequestMatchesRun, IdleRequest
  <1>6. OneJobPerDeployment'
    BY <1>3, <1>4 DEF OneJobPerDeployment, Holding, Live, IdleRequest
  <1>7. RunningRunHasJob'
    BY DEF RunningRunHasJob, Live
  <1>8. QED
    BY <1>1, <1>2, <1>5, <1>6, <1>7

LEMMA JoinAdoptedIInv ==
  ASSUME IInv, NEW q \in Requests, JoinAdopted(q)
  PROVE  IInv'
  <1> USE DEF IInv, JoinAdopted, Reply
  <1>1. TypeOK'
    BY OrchestratorAssumption DEF TypeOK, RequestMatchesRun, RequestStages, IdleRequest
  <1>2. JobMatchesRun'
    BY DEF JobMatchesRun
  <1>3. \A p \in Requests : p # q => req'[p] = req[p]
    BY DEF TypeOK
  <1>4. req'[q] = IdleRequest
    BY DEF TypeOK
  <1>5. RequestMatchesRun'
    BY <1>3, <1>4, OrchestratorAssumption DEF RequestMatchesRun, IdleRequest
  <1>6. OneJobPerDeployment'
    BY <1>3, <1>4 DEF OneJobPerDeployment, Holding, Live, IdleRequest
  <1>7. RunningRunHasJob'
    BY DEF RunningRunHasJob, Live
  <1>8. QED
    BY <1>1, <1>2, <1>5, <1>6, <1>7

(* A lock that was free admits the handler: no job and no other handler     *)
(* works on the deployment.                                                 *)
LEMMA AcquireIInv ==
  ASSUME IInv, NEW q \in Requests, Acquire(q)
  PROVE  IInv'
  <1> DEFINE d == req[q].dep
  <1> USE DEF IInv, durable
  <1>1. CASE d \in active /\ Reply(q) /\ UNCHANGED <<active, cancelled>>
    <2>1. /\ UNCHANGED <<durable, active, cancelled, job, outcome, restarts>>
          /\ req' = [req EXCEPT ![q] = IdleRequest]
      BY <1>1 DEF Acquire, Reply
    <2>2. TypeOK'
      BY <2>1, OrchestratorAssumption DEF TypeOK, RequestStages, IdleRequest
    <2>3. /\ \A p \in Requests : p # q => req'[p] = req[p]
          /\ req'[q] = IdleRequest
      BY <2>1 DEF TypeOK
    <2>4. JobMatchesRun'
      BY <2>1 DEF JobMatchesRun
    <2>5. RequestMatchesRun'
      BY <2>1, <2>3 DEF RequestMatchesRun, IdleRequest
    <2>6. OneJobPerDeployment'
      BY <2>1, <2>3 DEF OneJobPerDeployment, Holding, Live, IdleRequest
    <2>7. RunningRunHasJob'
      BY <2>1 DEF RunningRunHasJob, Live
    <2>8. QED
      BY <2>2, <2>4, <2>5, <2>6, <2>7
  <1>2. CASE d \notin active /\ MoveTo(q, "creating")
    <2>1. /\ UNCHANGED <<durable, job, outcome, restarts>>
          /\ active' = active \cup {d}
          /\ cancelled' = cancelled \ {d}
          /\ req' = [req EXCEPT ![q].stage = "creating"]
          /\ req[q].stage = "acquiring"
      BY <1>2 DEF Acquire, MoveTo
    <2>2. d \in Deployments
      BY <2>1 DEF RequestMatchesRun
    <2>3. TypeOK'
      BY <2>1, <2>2 DEF TypeOK, RequestStages
    <2>4. /\ \A p \in Requests : p # q => req'[p] = req[p]
          /\ req'[q].stage = "creating"
          /\ req'[q].op = req[q].op
          /\ req'[q].dep = d
      BY <2>1 DEF TypeOK
    <2>5. JobMatchesRun'
      BY <2>1 DEF JobMatchesRun
    <2>6. RequestMatchesRun'
      BY <2>1, <2>2, <2>4 DEF RequestMatchesRun
    <2>7. OneJobPerDeployment'
      <3>1. \A r \in Runs : Live(r) => runOf[r] # d
        BY <1>2 DEF OneJobPerDeployment
      <3>2. \A p \in Requests : Holding(p) => req[p].dep # d
        BY <1>2 DEF OneJobPerDeployment
      <3>3. \A p \in Requests : p # q => (Holding(p)' <=> Holding(p))
        BY <2>4 DEF Holding
      <3>4. \A r \in Runs : Live(r)' <=> Live(r)
        BY <2>1 DEF Live
      <3>5. QED
        BY <2>1, <2>4, <3>1, <3>2, <3>3, <3>4 DEF OneJobPerDeployment
    <2>8. RunningRunHasJob'
      BY <2>1 DEF RunningRunHasJob, Live
    <2>9. QED
      BY <2>3, <2>5, <2>6, <2>7, <2>8
  <1>3. QED
    BY <1>1, <1>2 DEF Acquire

(* A handler that moves on and names its run keeps a typed record. *)
LEMMA TypedRequest ==
  ASSUME NEW Stages, NEW Names, NEW Deps, NEW Rs,
         NEW f \in [Requests -> [stage : Stages, op : Names, dep : Deps, run : Rs]],
         NEW q \in Requests, NEW stage \in Stages, NEW r \in Rs
  PROVE  [f EXCEPT ![q].stage = stage, ![q].run = r]
           \in [Requests -> [stage : Stages, op : Names, dep : Deps, run : Rs]]
  <1>1. [[f[q] EXCEPT !.stage = stage] EXCEPT !.run = r]
           \in [stage : Stages, op : Names, dep : Deps, run : Rs]
    OBVIOUS
  <1>2. QED
    BY <1>1

(* The run is new, so no goroutine and no handler refers to it yet. *)
LEMMA CreateRunIInv ==
  ASSUME IInv, NEW q \in Requests, CreateRun(q)
  PROVE  IInv'
  <1> DEFINE d == req[q].dep
  <1> USE DEF IInv
  <1>1. PICK r \in Runs :
          /\ runStatus[r] = "absent"
          /\ runOf' = [runOf EXCEPT ![r] = d]
          /\ runType' = [runType EXCEPT ![r] = TypeOfRun(req[q].op, d)]
          /\ runStatus' = [runStatus EXCEPT ![r] = "pending"]
          /\ req' = [req EXCEPT ![q].stage = "launching", ![q].run = r]
    BY DEF CreateRun
  <1>2. /\ req[q].stage = "creating"
        /\ UNCHANGED <<status, recorded, active, cancelled, job, outcome, restarts>>
    BY DEF CreateRun
  <1>3. d \in Deployments /\ TypeOfRun(req[q].op, d) \in RunTypes
    BY <1>2 DEF RequestMatchesRun, TypeOfRun, AllOps, RunTypes
  <1>4. job[r] = "none"
    <2>1. job[r] \in JobStages
      BY DEF TypeOK
    <2>2. QED
      BY <1>1, <2>1 DEF JobMatchesRun, JobStages, Outcomes
  <1>5. TypeOK'
    <2>1. runOf' \in [Runs -> Deployments \cup {NoDeployment}]
      BY <1>1, <1>3 DEF TypeOK
    <2>2. runType' \in [Runs -> RunTypes \cup {"none"}]
      BY <1>1, <1>3 DEF TypeOK
    <2>3. runStatus' \in [Runs -> RunStatuses]
      BY <1>1 DEF TypeOK, RunStatuses
    <2>4. req' \in [Requests -> [stage : RequestStages,
                                 op : AllOps \cup {"none"},
                                 dep : Deployments \cup {NoDeployment},
                                 run : Runs \cup {NoRun}]]
      <3>1. req \in [Requests -> [stage : RequestStages,
                                  op : AllOps \cup {"none"},
                                  dep : Deployments \cup {NoDeployment},
                                  run : Runs \cup {NoRun}]]
        BY DEF TypeOK
      <3>2. "launching" \in RequestStages /\ r \in Runs \cup {NoRun}
        BY DEF RequestStages
      <3>3. QED
        BY ONLY <1>1, <3>1, <3>2, TypedRequest
    <2>5. QED
      BY <1>2, <2>1, <2>2, <2>3, <2>4 DEF TypeOK
  <1>6. JobMatchesRun'
    BY <1>1, <1>2, <1>3, <1>4 DEF TypeOK, JobMatchesRun
  <1>7. /\ \A p \in Requests : p # q => req'[p] = req[p]
        /\ req'[q].stage = "launching"
        /\ req'[q].op = req[q].op
        /\ req'[q].dep = d
        /\ req'[q].run = r
    BY <1>1 DEF TypeOK
  <1>8. \A s \in Runs : s # r => /\ runOf'[s] = runOf[s]
                                /\ runStatus'[s] = runStatus[s]
    BY <1>1 DEF TypeOK
  <1>9. runOf'[r] = d /\ runStatus'[r] = "pending"
    BY <1>1 DEF TypeOK
  <1>10. RequestMatchesRun'
    <2>1. \A p \in Requests :
            p # q /\ req[p].stage = "launching" => req[p].run # r
      BY <1>1 DEF RequestMatchesRun
    <2>2. QED
      BY <1>2, <1>3, <1>4, <1>7, <1>8, <1>9, <2>1 DEF RequestMatchesRun
  <1>11. OneJobPerDeployment'
    <2>1. \A s \in Runs : Live(s)' <=> Live(s) /\ s # r
      BY <1>2, <1>4 DEF Live
    <2>2. \A p \in Requests : /\ Holding(p)' <=> Holding(p)
                             /\ req'[p].dep = req[p].dep
      BY <1>2, <1>7 DEF Holding
    <2>3. QED
      BY <1>2, <1>8, <2>1, <2>2 DEF OneJobPerDeployment
  <1>12. RunningRunHasJob'
    BY <1>2, <1>8, <1>9 DEF RunningRunHasJob, Live
  <1>13. QED
    BY <1>5, <1>6, <1>10, <1>11, <1>12

LEMMA RefuseIInv ==
  ASSUME IInv, NEW q \in Requests, Refuse(q)
  PROVE  IInv'
  <1> DEFINE d == req[q].dep
  <1> USE DEF IInv
  <1>1. /\ req[q].stage = "creating"
        /\ active' = active \ {d}
        /\ cancelled' = cancelled \ {d}
        /\ req' = [req EXCEPT ![q] = IdleRequest]
        /\ UNCHANGED <<durable, job, outcome, restarts>>
    BY DEF Refuse, Release, Reply
  <1>2. TypeOK'
    BY <1>1, OrchestratorAssumption DEF TypeOK, RequestStages, IdleRequest, durable
  <1>3. /\ \A p \in Requests : p # q => req'[p] = req[p]
        /\ req'[q] = IdleRequest
    BY <1>1 DEF TypeOK
  <1>4. JobMatchesRun'
    BY <1>1 DEF JobMatchesRun, durable
  <1>5. RequestMatchesRun'
    BY <1>1, <1>3 DEF RequestMatchesRun, IdleRequest, durable
  <1>6. OneJobPerDeployment'
    <2>1. \A r \in Runs : (Live(r)' <=> Live(r)) /\ (Live(r) => runOf[r] # d)
      BY <1>1 DEF OneJobPerDeployment, Holding, Live
    <2>2. \A p \in Requests :
            Holding(p)' => Holding(p) /\ req'[p] = req[p] /\ req[p].dep # d
      BY <1>1, <1>3 DEF OneJobPerDeployment, Holding, IdleRequest
    <2>3. QED
      BY <1>1, <2>1, <2>2 DEF OneJobPerDeployment, durable
  <1>7. RunningRunHasJob'
    BY <1>1 DEF RunningRunHasJob, Live, durable
  <1>8. QED
    BY <1>2, <1>4, <1>5, <1>6, <1>7

(* The handler hands its claim on the deployment over to the goroutine. *)
LEMMA LaunchIInv ==
  ASSUME IInv, NEW q \in Requests, Launch(q)
  PROVE  IInv'
  <1> DEFINE d == req[q].dep
             r == req[q].run
             fill == runType[r] \in FillOps
  <1> USE DEF IInv
  <1>1. /\ req[q].stage = "launching"
        /\ runStatus' = [runStatus EXCEPT ![r] = IF fill THEN "running" ELSE @]
        /\ job' = [job EXCEPT ![r] = IF fill THEN "opening" ELSE "starting"]
        /\ req' = [req EXCEPT ![q] = IdleRequest]
        /\ UNCHANGED <<recorded, runOf, runType, active, cancelled, outcome, restarts>>
    BY DEF Launch, Reply
  <1>2. /\ r \in Runs
        /\ runOf[r] = d
        /\ runStatus[r] = "pending"
        /\ job[r] = "none"
        /\ d \in Deployments
    BY <1>1 DEF RequestMatchesRun
  <1>3. status' \in [Deployments -> Statuses]
    BY DEF Launch, TypeOK, Statuses
  <1>4. TypeOK'
    BY <1>1, <1>2, <1>3, OrchestratorAssumption
    DEF TypeOK, RunStatuses, JobStages, RequestStages, IdleRequest
  <1>5. /\ \A s \in Runs : s # r => /\ runStatus'[s] = runStatus[s]
                                  /\ job'[s] = job[s]
        /\ \/ job'[r] = "starting" /\ runStatus'[r] = "pending"
           \/ job'[r] = "opening" /\ runStatus'[r] = "running"
    BY <1>1, <1>2 DEF TypeOK
  <1>6. /\ \A p \in Requests : p # q => req'[p] = req[p]
        /\ req'[q] = IdleRequest
    BY <1>1 DEF TypeOK
  <1>7. JobMatchesRun'
    BY <1>1, <1>2, <1>5 DEF JobMatchesRun
  <1>8. RequestMatchesRun'
    <2>1. \A p \in Requests :
            p # q /\ req[p].stage = "launching" => req[p].run # r
      BY <1>1, <1>2 DEF RequestMatchesRun, OneJobPerDeployment, Holding
    <2>2. QED
      BY <1>1, <1>5, <1>6, <2>1 DEF RequestMatchesRun, IdleRequest
  <1>9. OneJobPerDeployment'
    <2>1. Holding(q)
      BY <1>1 DEF Holding
    <2>2. \A s \in Runs : Live(s)' => Live(s) \/ s = r
      BY <1>5 DEF Live
    <2>3. \A p \in Requests : Holding(p)' => /\ Holding(p)
                                            /\ p # q
                                            /\ req'[p] = req[p]
      BY <1>6 DEF Holding, IdleRequest
    <2>4. \A s \in Runs : Live(s) => runOf[s] # d
      BY <2>1 DEF OneJobPerDeployment
    <2>5. \A p \in Requests : Holding(p) /\ p # q => req[p].dep # d
      BY <2>1 DEF OneJobPerDeployment
    <2>6. d \in active
      BY <2>1 DEF OneJobPerDeployment
    <2>7. QED
      BY <1>1, <1>2, <2>2, <2>3, <2>4, <2>5, <2>6 DEF OneJobPerDeployment
  <1>10. RunningRunHasJob'
    BY <1>5 DEF RunningRunHasJob, Live
  <1>11. QED
    BY <1>4, <1>7, <1>8, <1>9, <1>10

-----------------------------------------------------------------------------
(* Cancellation and restarts *)

LEMMA CancelIInv ==
  ASSUME IInv, NEW d \in Deployments, Cancel(d)
  PROVE  IInv'
  BY DEF IInv, TypeOK, JobMatchesRun, RequestMatchesRun, OneJobPerDeployment,
         RunningRunHasJob, Live, Holding, Cancel, durable

(* Two running runs never share a deployment, so every one is resumed. *)
LEMMA AllInterruptedResume ==
  ASSUME IInv, NEW R \in SUBSET Runs, Resumable(R)
  PROVE  R = Interrupted
  <1>1. \A r, s \in Interrupted : runOf[r] = runOf[s] => r = s
    BY DEF IInv, OneJobPerDeployment, RunningRunHasJob, Interrupted
  <1>2. QED
    BY <1>1 DEF Resumable, Interrupted

LEMMA RestartIInv ==
  ASSUME IInv, Restart
  PROVE  IInv'
  <1> USE DEF IInv, durable
  <1>1. PICK R \in SUBSET Runs :
          /\ Resumable(R)
          /\ active' = {runOf[r] : r \in R}
          /\ job' = [r \in Runs |->
               CASE r \notin R -> "none"
                 [] r \in R /\ runType[r] \in FillOps -> "opening"
                 [] OTHER -> "starting"]
    BY DEF Restart, ResumeInterrupted
  <1>2. /\ restarts' = restarts + 1
        /\ req' = [q \in Requests |-> IdleRequest]
        /\ cancelled' = {}
        /\ outcome' = [r \in Runs |-> "none"]
        /\ UNCHANGED durable
    BY DEF Restart
  <1>3. R = Interrupted
    BY <1>1, AllInterruptedResume
  <1>4. \A r \in R : runStatus[r] = "running" /\ runOf[r] \in Deployments
    BY <1>3 DEF Interrupted, JobMatchesRun
  <1>5. /\ \A r \in R : job'[r] \in {"starting", "opening"}
        /\ \A r \in Runs : r \notin R => job'[r] = "none"
    BY <1>1
  <1>6. TypeOK'
    <2>1. job' \in [Runs -> JobStages]
      BY <1>1 DEF JobStages
    <2>2. active' \subseteq Deployments
      BY <1>1, <1>4
    <2>3. req' \in [Requests -> [stage : RequestStages,
                                op : AllOps \cup {"none"},
                                dep : Deployments \cup {NoDeployment},
                                run : Runs \cup {NoRun}]]
      BY <1>2 DEF IdleRequest, RequestStages
    <2>4. QED
      BY <1>2, <2>1, <2>2, <2>3 DEF TypeOK
  <1>7. JobMatchesRun'
    BY <1>2, <1>4, <1>5 DEF JobMatchesRun
  <1>8. RequestMatchesRun'
    BY <1>2 DEF RequestMatchesRun, IdleRequest
  <1>9. OneJobPerDeployment'
    <2>1. \A r \in Runs : Live(r)' => r \in R
      BY <1>5 DEF Live
    <2>2. \A q \in Requests : ~Holding(q)'
      BY <1>2 DEF Holding, IdleRequest
    <2>3. QED
      BY <1>1, <1>2, <2>1, <2>2 DEF OneJobPerDeployment, Resumable
  <1>10. RunningRunHasJob'
    BY <1>2, <1>3, <1>5 DEF RunningRunHasJob, Live, Interrupted
  <1>11. QED
    BY <1>6, <1>7, <1>8, <1>9, <1>10

-----------------------------------------------------------------------------

LEMMA NextIInv == IInv /\ [Next]_vars => IInv'
  <1> SUFFICES ASSUME IInv, [Next]_vars PROVE IInv'
    OBVIOUS
  <1>1. ASSUME NEW q \in Requests, NEW op \in Ops, NEW d \in Deployments,
               ApiRequest(q, op, d) \/ ScheduleFires(q, op, d)
        PROVE  IInv'
    BY <1>1, ApiRequestIInv, ScheduleFiresIInv
  <1>2. ASSUME NEW q \in Requests, RequestStep(q)
        PROVE  IInv'
    BY <1>2, ListForTeardownIInv, DeleteEmptyIInv, JoinAdoptedIInv, AcquireIInv,
       CreateRunIInv, RefuseIInv, LaunchIInv DEF RequestStep
  <1>3. ASSUME NEW d \in Deployments, Cancel(d)
        PROVE  IInv'
    BY <1>3, CancelIInv
  <1>4. ASSUME NEW r \in Runs, JobStep(r)
        PROVE  IInv'
    BY <1>4, StartRunIInv, OpenDriverIInv, OpenDriverFailsIInv, RecordVMIInv,
       WorkSucceedsIInv, WorkFailsIInv, FillCancelledIInv, FinishRunIInv,
       SettleIInv, JobReturnsIInv DEF JobStep
  <1>5. CASE Restart
    BY <1>5, RestartIInv
  <1>6. CASE UNCHANGED vars
    BY <1>6, StutterIInv
  <1>7. QED
    BY <1>1, <1>2, <1>3, <1>4, <1>5, <1>6 DEF Next

THEOREM Invariance == Spec => []IInv
  BY InitIInv, NextIInv, PTL DEF Spec

(* The handlers, jobs and restarts keep every variable of its type. *)
THEOREM TypeCorrect == Spec => []TypeOK
  BY Invariance, PTL DEF IInv

(* acquire serialises the work on a deployment: jobs and the handlers about *)
(* to start one never share a deployment, restarts included.                *)
THEOREM OneJob == Spec => []OneJobPerDeployment
  BY Invariance, PTL DEF IInv

(* A run whose record says "running" is worked on by this process. *)
THEOREM RunningRunOwned == Spec => []RunningRunHasJob
  BY Invariance, PTL DEF IInv

-----------------------------------------------------------------------------
(* The status of a deployment nobody works on                               *)

(* The job that is yet to write d's status. *)
Settles(r, d) ==
  /\ runOf[r] = d
  /\ SetsStatus(runType[r])
  /\ job[r] \in {"starting", "opening", "working", "finishing", "settling"}

Unsettled(d) == status[d] \in {"deploying", "deleting"}

MarkedHasJob ==
  \A d \in Deployments : Unsettled(d) /\ restarts = 0 => \E r \in Runs : Settles(r, d)

LEMMA KeepsMarked ==
  ASSUME MarkedHasJob, restarts' = restarts,
         \A d \in Deployments : Unsettled(d)' => Unsettled(d),
         \A d \in Deployments, r \in Runs :
           Unsettled(d)' /\ Settles(r, d) => Settles(r, d)'
  PROVE  MarkedHasJob'
  BY DEF MarkedHasJob

(* A step that leaves the statuses alone keeps the job where the status is  *)
(* still to be written. *)
LEMMA KeepsSettlers ==
  ASSUME MarkedHasJob, UNCHANGED <<restarts, status, runType, runOf>>,
         \A r \in Runs : SetsStatus(runType[r])
            /\ job[r] \in {"starting", "opening", "working", "finishing", "settling"}
            => job'[r] \in {"starting", "opening", "working", "finishing", "settling"}
  PROVE  MarkedHasJob'
  BY DEF MarkedHasJob, Settles, Unsettled

LEMMA RequestKeepsMarked ==
  ASSUME IInv, MarkedHasJob, NEW q \in Requests, RequestStep(q)
  PROVE  MarkedHasJob'
  <1>1. CASE ListForTeardown(q)
    BY <1>1, KeepsSettlers DEF ListForTeardown, durable
  <1>2. CASE DeleteEmpty(q)
    <2>1. UNCHANGED <<restarts, runOf, runType, job>>
      BY <1>2 DEF DeleteEmpty
    <2>2. \A d \in Deployments : Unsettled(d)' => Unsettled(d)
      BY <1>2 DEF DeleteEmpty, Unsettled, IInv, TypeOK
    <2> QED
      BY <2>1, <2>2, KeepsMarked DEF Settles
  <1>3. CASE JoinAdopted(q)
    BY <1>3, KeepsSettlers DEF JoinAdopted
  <1>4. CASE Acquire(q)
    BY <1>4, KeepsSettlers DEF Acquire, durable
  <1>5. CASE CreateRun(q)
    <2>1. PICK r \in Runs : /\ runStatus[r] = "absent"
                            /\ runOf' = [runOf EXCEPT ![r] = req[q].dep]
                            /\ runType' = [runType EXCEPT ![r] = TypeOfRun(req[q].op, req[q].dep)]
      BY <1>5 DEF CreateRun
    <2>2. job[r] = "none"
      BY <2>1 DEF IInv, TypeOK, JobStages, JobMatchesRun, Outcomes
    <2>3. \A s \in Runs : s # r => runOf'[s] = runOf[s] /\ runType'[s] = runType[s]
      BY <2>1 DEF IInv, TypeOK
    <2>4. UNCHANGED <<restarts, status, job>>
      BY <1>5 DEF CreateRun
    <2> QED
      BY <2>2, <2>3, <2>4, KeepsMarked DEF Settles, Unsettled
  <1>6. CASE Refuse(q)
    BY <1>6, KeepsSettlers DEF Refuse, durable
  <1>7. CASE Launch(q)
    <2>1. PICK d \in Deployments, r \in Runs : d = req[q].dep /\ r = req[q].run
      BY <1>7 DEF Launch, IInv, RequestMatchesRun
    <2>2. runOf[r] = d /\ job[r] = "none"
      BY <1>7, <2>1 DEF Launch, IInv, RequestMatchesRun
    <2>3. UNCHANGED <<restarts, runOf, runType>>
      BY <1>7 DEF Launch
    <2>4. job' = [job EXCEPT ![r] = IF runType[r] \in FillOps THEN "opening" ELSE "starting"]
      BY <1>7, <2>1 DEF Launch
    <2>5. \A s \in Runs : s # r => job'[s] = job[s]
      BY <2>4 DEF IInv, TypeOK
    <2>6. \A e \in Deployments, s \in Runs : Settles(s, e) => Settles(s, e)'
      BY <2>2, <2>3, <2>5 DEF Settles
    <2>7. CASE SetsStatus(runType[r])
      <3>1. job'[r] = "starting"
        BY <2>4, <2>7 DEF IInv, TypeOK, SetsStatus, IsReconcile, FillOps
      <3>2. Settles(r, d)'
        BY <2>2, <2>3, <2>7, <3>1 DEF Settles
      <3>3. \A e \in Deployments : e # d => status'[e] = status[e]
        BY <1>7, <2>1 DEF Launch, IInv, TypeOK
      <3> QED
        BY <2>3, <2>6, <3>2, <3>3 DEF MarkedHasJob, Unsettled
    <2>8. CASE ~SetsStatus(runType[r])
      <3>1. status' = status
        BY <1>7, <2>1, <2>8 DEF Launch, IInv, TypeOK, SetsStatus
      <3> QED
        BY <2>3, <2>6, <3>1, KeepsMarked DEF Unsettled
    <2> QED
      BY <2>7, <2>8
  <1> QED
    BY <1>1, <1>2, <1>3, <1>4, <1>5, <1>6, <1>7 DEF RequestStep

LEMMA JobKeepsMarked ==
  ASSUME IInv, MarkedHasJob, NEW r \in Runs, JobStep(r)
  PROVE  MarkedHasJob'
  <1> USE DEF IInv, TypeOK
  <1>1. CASE StartRun(r)
    BY <1>1, KeepsSettlers DEF StartRun
  <1>2. CASE OpenDriver(r)
    BY <1>2, KeepsSettlers DEF OpenDriver, durable
  <1>3. CASE OpenDriverFails(r)
    BY <1>3, KeepsSettlers DEF OpenDriverFails, Decide, durable
  <1>4. CASE RecordVM(r)
    BY <1>4, KeepsSettlers DEF RecordVM, memory
  <1>5. CASE WorkSucceeds(r)
    BY <1>5, KeepsSettlers DEF WorkSucceeds, Decide
  <1>6. CASE WorkFails(r)
    BY <1>6, KeepsSettlers DEF WorkFails, Decide, durable
  <1>7. CASE FillCancelled(r)
    BY <1>7, KeepsSettlers DEF FillCancelled, Decide, durable
  <1>8. CASE FinishRun(r)
    BY <1>8, KeepsSettlers DEF FinishRun
  <1>9. CASE Settle(r)
    <2>1. PICK d \in Deployments : d = runOf[r]
      BY <1>9 DEF Settle, JobMatchesRun, Outcomes
    <2>2. status'[d] \notin {"deploying", "deleting"}
      BY <1>9, <2>1 DEF Settle
    <2>3. UNCHANGED <<restarts, runOf, runType>>
      BY <1>9 DEF Settle
    <2>4. /\ \A e \in Deployments : e # d => status'[e] = status[e]
          /\ \A s \in Runs : s # r => job'[s] = job[s]
      BY <1>9, <2>1 DEF Settle
    <2> QED
      BY <2>1, <2>2, <2>3, <2>4, KeepsMarked DEF Settles, Unsettled
  <1>10. CASE JobReturns(r)
    BY <1>10, KeepsSettlers DEF JobReturns, durable
  <1> QED
    BY <1>1, <1>2, <1>3, <1>4, <1>5, <1>6, <1>7, <1>8, <1>9, <1>10 DEF JobStep

LEMMA NextKeepsMarked == IInv /\ MarkedHasJob /\ [Next]_vars => MarkedHasJob'
  <1> SUFFICES ASSUME IInv, MarkedHasJob, [Next]_vars PROVE MarkedHasJob'
    OBVIOUS
  <1>1. ASSUME NEW q \in Requests, NEW op \in Ops, NEW d \in Deployments,
               ApiRequest(q, op, d) \/ ScheduleFires(q, op, d)
        PROVE  MarkedHasJob'
    BY <1>1, KeepsSettlers DEF ApiRequest, ScheduleFires, durable
  <1>2. ASSUME NEW d \in Deployments, Cancel(d)
        PROVE  MarkedHasJob'
    BY <1>2, KeepsSettlers DEF Cancel, durable
  <1>3. CASE Restart
    BY <1>3 DEF Restart, MarkedHasJob, IInv, TypeOK
  <1>4. CASE UNCHANGED vars
    BY <1>4, KeepsSettlers DEF vars, durable, memory
  <1> QED
    BY <1>1, <1>2, <1>3, <1>4, RequestKeepsMarked, JobKeepsMarked DEF Next

(* Unless the controller was restarted, a deployment nobody works on does   *)
(* not read as having a job in progress (runJob, orchestrator.go:297-333).  *)
THEOREM Settled == Spec => []SettledWhenIdle
  <1>1. Init => MarkedHasJob
    BY DEF Init, MarkedHasJob, Unsettled
  <1>2. IInv /\ MarkedHasJob => SettledWhenIdle
    BY DEF IInv, MarkedHasJob, Unsettled, Settles, SettledWhenIdle, OneJobPerDeployment, Live
  <1> QED
    BY <1>1, <1>2, Invariance, NextKeepsMarked, PTL DEF Spec

-----------------------------------------------------------------------------
(* The run history *)

LEMMA InitRefines == Init => Ledger!Init
  BY DEF Init, Ledger!Init

(* While a handler holds the lock nothing runs for its deployment. *)
LEMMA HeldIsNotBusy ==
  ASSUME IInv, NEW q \in Requests, Holding(q)
  PROVE  ~Ledger!Busy(req[q].dep)
  BY DEF IInv, OneJobPerDeployment, RunningRunHasJob, Ledger!Busy

(* While a job has not begun its run nothing else runs for its deployment. *)
LEMMA LiveIsNotBusy ==
  ASSUME IInv, NEW r \in Runs, Live(r), runStatus[r] # "running"
  PROVE  ~Ledger!Busy(runOf[r])
  BY DEF IInv, OneJobPerDeployment, RunningRunHasJob, Ledger!Busy

LEMMA CreateRunRefines ==
  ASSUME IInv, NEW q \in Requests, CreateRun(q)
  PROVE  Ledger!Next
  <1>1. PICK r \in Runs :
          /\ runStatus[r] = "absent"
          /\ runOf' = [runOf EXCEPT ![r] = req[q].dep]
          /\ runStatus' = [runStatus EXCEPT ![r] = "pending"]
    BY DEF CreateRun
  <1>2. req[q].dep \in Deployments
    BY DEF CreateRun, IInv, RequestMatchesRun
  <1>3. ~Ledger!Busy(req[q].dep)
    BY HeldIsNotBusy DEF CreateRun, Holding
  <1>4. Ledger!Create(r, req[q].dep)
    BY <1>1, <1>3 DEF Ledger!Create
  <1>5. QED
    BY <1>2, <1>4 DEF Ledger!Next

LEMMA LaunchRefines ==
  ASSUME IInv, NEW q \in Requests, Launch(q)
  PROVE  Ledger!Next \/ UNCHANGED Ledger!vars
  <1> DEFINE r == req[q].run
  <1>1. /\ r \in Runs
        /\ runOf[r] = req[q].dep
        /\ runStatus[r] = "pending"
    BY DEF IInv, RequestMatchesRun, Launch
  <1>2. runOf' = runOf
    BY DEF Launch
  <1>3. CASE runType[r] \in FillOps
    <2>1. runStatus' = [runStatus EXCEPT ![r] = "running"]
      BY <1>3 DEF Launch
    <2>2. ~Ledger!Busy(runOf[r])
      BY <1>1, HeldIsNotBusy DEF Launch, Holding
    <2>3. Ledger!Begin(r)
      BY <1>1, <1>2, <2>1, <2>2 DEF Ledger!Begin
    <2>4. QED
      BY <1>1, <2>3 DEF Ledger!Next
  <1>4. CASE runType[r] \notin FillOps
    <2>1. runStatus' = runStatus
      BY <1>1, <1>4 DEF Launch, IInv, TypeOK
    <2>2. QED
      BY <1>2, <2>1 DEF Ledger!vars
  <1>5. QED
    BY <1>3, <1>4

LEMMA StartRunRefines ==
  ASSUME IInv, NEW r \in Runs, StartRun(r)
  PROVE  Ledger!Next \/ UNCHANGED Ledger!vars
  <1>1. /\ runStatus' = [runStatus EXCEPT ![r] = "running"]
        /\ runOf' = runOf
        /\ Live(r)
    BY DEF StartRun, Live
  <1>2. CASE runStatus[r] = "pending"
    <2>1. Ledger!Begin(r)
      BY <1>1, <1>2, LiveIsNotBusy DEF Ledger!Begin
    <2>2. QED
      BY <2>1 DEF Ledger!Next
  <1>3. CASE runStatus[r] = "running"
    <2>1. runStatus' = runStatus
      BY <1>1, <1>3 DEF IInv, TypeOK
    <2>2. QED
      BY <1>1, <2>1 DEF Ledger!vars
  <1>4. QED
    BY <1>2, <1>3 DEF StartRun, IInv, JobMatchesRun

LEMMA FinishRunRefines ==
  ASSUME IInv, NEW r \in Runs, FinishRun(r)
  PROVE  Ledger!Next
  <1>1. outcome[r] \in Ledger!Outcomes /\ runStatus[r] = "running"
    BY DEF FinishRun, IInv, JobMatchesRun, Outcomes, Ledger!Outcomes
  <1>2. Ledger!End(r, outcome[r])
    BY <1>1 DEF FinishRun, Ledger!End
  <1>3. QED
    BY <1>1, <1>2 DEF Ledger!Next

(* Every step extends the run history as RunLedger allows, or leaves it. *)
LEMMA NextRefines == IInv /\ [Next]_vars => [Ledger!Next]_(Ledger!vars)
  <1> SUFFICES ASSUME IInv, [Next]_vars
               PROVE  Ledger!Next \/ UNCHANGED Ledger!vars
    OBVIOUS
  <1> USE DEF durable, Ledger!vars
  <1>1. ASSUME NEW q \in Requests, NEW op \in Ops, NEW d \in Deployments,
               ApiRequest(q, op, d) \/ ScheduleFires(q, op, d)
        PROVE  UNCHANGED Ledger!vars
    BY <1>1 DEF ApiRequest, ScheduleFires
  <1>2. ASSUME NEW q \in Requests, RequestStep(q)
        PROVE  Ledger!Next \/ UNCHANGED Ledger!vars
    <2>1. CASE CreateRun(q)
      BY <2>1, CreateRunRefines
    <2>2. CASE Launch(q)
      BY <2>2, LaunchRefines
    <2>3. CASE ListForTeardown(q) \/ DeleteEmpty(q) \/ JoinAdopted(q)
               \/ Acquire(q) \/ Refuse(q)
      BY <2>3 DEF ListForTeardown, DeleteEmpty, JoinAdopted, Acquire, Refuse
    <2>4. QED
      BY <1>2, <2>1, <2>2, <2>3 DEF RequestStep
  <1>3. ASSUME NEW d \in Deployments, Cancel(d)
        PROVE  UNCHANGED Ledger!vars
    BY <1>3 DEF Cancel
  <1>4. ASSUME NEW r \in Runs, JobStep(r)
        PROVE  Ledger!Next \/ UNCHANGED Ledger!vars
    <2>1. CASE StartRun(r)
      BY <2>1, StartRunRefines
    <2>2. CASE FinishRun(r)
      BY <2>2, FinishRunRefines
    <2>3. CASE OpenDriver(r) \/ OpenDriverFails(r) \/ RecordVM(r) \/ WorkSucceeds(r)
               \/ WorkFails(r) \/ FillCancelled(r) \/ Settle(r) \/ JobReturns(r)
      BY <2>3 DEF OpenDriver, OpenDriverFails, RecordVM, WorkSucceeds, WorkFails,
                  FillCancelled, Settle, JobReturns
    <2>4. QED
      BY <1>4, <2>1, <2>2, <2>3 DEF JobStep
  <1>5. CASE Restart
    BY <1>5 DEF Restart
  <1>6. CASE UNCHANGED vars
    BY <1>6 DEF vars
  <1>7. QED
    BY <1>1, <1>2, <1>3, <1>4, <1>5, <1>6 DEF Next

(* The run history keeps RunLedger's promises, restarts included. *)
THEOREM Refinement == Spec => ImplementsLedger
  BY Invariance, InitRefines, NextRefines, PTL DEF Spec, ImplementsLedger, Ledger!Spec

=============================================================================
