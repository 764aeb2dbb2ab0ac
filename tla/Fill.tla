-------------------------------- MODULE Fill --------------------------------
(***************************************************************************)
(* The fill runs of one deployment (internal/orch/fill.go): the job that   *)
(* boots the fleet, polls the VM rows and ends the run; the agents inside  *)
(* the VMs (cmd/agent), which call register and heartbeat, carry out the   *)
(* work order they are handed and report; and the request handlers         *)
(* (internal/api/boot.go) between them.                                    *)
(*                                                                         *)
(* A VM row, a run record and the lock change in single statements, so     *)
(* everything that takes several of them can be interleaved and can be cut *)
(* off by the death of the controller.  Time is abstracted to what the     *)
(* code compares: a heartbeat is recent or not, a VM has been heard from   *)
(* since its last boot or not, and a limit that has not been reached only  *)
(* permits the job to wait.                                                *)
(***************************************************************************)
EXTENDS Naturals, FiniteSets, Sequences, Functions

CONSTANTS
  VMs,              \* the deployment's managed VMs
  Runs,             \* run identifiers
  NoRun,            \* no run
  MaxParallel,      \* profile: maxParallelVMs, 0 = all at once
  Shutdown,         \* profile: the fleet is powered off after a run
  MaxBootAttempts,  \* fill.go: boots per VM and run
  MaxRestarts,      \* bound on controller restarts
  MaxDeaths,        \* bound on guests that crash or hang
  MaxLost           \* bound on terminal reports nobody acknowledged

ASSUME FillAssumption ==
  /\ NoRun \notin Runs
  /\ IsFiniteSet(VMs) /\ VMs # {}
  /\ MaxParallel \in Nat
  /\ Shutdown \in BOOLEAN
  /\ MaxBootAttempts \in Nat \ {0}
  /\ {MaxRestarts, MaxDeaths, MaxLost} \subseteq Nat

VARIABLES
  runStatus,   \* runStatus[r]: runs.status
  fillRun,     \* fillRun[v]: managed_vms.fill_run_id
  fillStatus,  \* fillStatus[v]: managed_vms.fill_status
  recent,      \* agent_seen_at is recent
  heard,       \* agent_seen_at is later than bootAt: the job's start or last reset
  job,         \* the goroutine of the deployment's run
  tries,       \* boot attempts of the job's run
  cancelled,   \* the job's context is cancelled
  vm,          \* vm[v]: power and guest, "off", "booting" or "up"
  doing,       \* doing[v][r]: the agent's goroutine for run r
  current,     \* the agent's c.running
  completed,   \* the agent's c.completed
  call,        \* the handler of the VM's register or heartbeat
  waiting,     \* the agent still awaits that handler's reply
  wrote,       \* history: the VMs' agents that carried out run r to the end
  disowned,    \* history: the controller itself has declared a VM failed
  overtaken,   \* history: a run began while agents were at work for another
  deaths, lost, restarts

store == <<runStatus, fillRun, fillStatus, recent>>
jobVars == <<heard, job, tries, cancelled>>
agents == <<vm, doing, current, completed>>
calls == <<call, waiting>>
bounds == <<disowned, overtaken, deaths, lost, restarts>>
vars == <<store, jobVars, agents, calls, wrote, bounds>>

FillStatuses == {"none", "pending", "working", "done", "failed"}
Ended == {"succeeded", "failed", "cancelled"}
InFlight == {"pending", "working"}
VMStates == {"off", "booting", "up"}
AgentStages == {"none", "writing", "done", "error"}
JobStages == {"none", "assigning", "opening", "booting", "sleeping",
              "watching", "closing"}
CallStages == {"none", "read", "checked", "counted", "order"}

NoJob ==
  [stage |-> "none", run |-> NoRun, todo |-> {}, fresh |-> {},
   tally |-> "none", silent |-> FALSE, idle |-> FALSE, plan |-> <<>>]
NoCall == [stage |-> "none", run |-> NoRun, status |-> "none"]
NoWork == [r \in Runs |-> "none"]

Init ==
  /\ runStatus = [r \in Runs |-> "absent"]
  /\ fillRun = [v \in VMs |-> NoRun]
  /\ fillStatus = [v \in VMs |-> "none"]
  /\ recent = [v \in VMs |-> FALSE]
  /\ heard = [v \in VMs |-> FALSE]
  /\ job = NoJob
  /\ tries = [v \in VMs |-> 0]
  /\ cancelled = FALSE
  /\ vm = [v \in VMs |-> "off"]
  /\ doing = [v \in VMs |-> NoWork]
  /\ current = [v \in VMs |-> NoRun]
  /\ completed = [v \in VMs |-> {}]
  /\ call = [v \in VMs |-> NoCall]
  /\ waiting = [v \in VMs |-> FALSE]
  /\ wrote = [r \in Runs |-> {}]
  /\ disowned = FALSE
  /\ overtaken = FALSE
  /\ deaths = 0
  /\ lost = 0
  /\ restarts = 0

-----------------------------------------------------------------------------
(* Power and guests *)

(* The guest of v is gone or starts afresh: the agent forgets everything    *)
(* and no longer waits for a reply.                                         *)
Power(v, state) ==
  /\ vm' = [vm EXCEPT ![v] = state]
  /\ doing' = [doing EXCEPT ![v] = NoWork]
  /\ current' = [current EXCEPT ![v] = NoRun]
  /\ completed' = [completed EXCEPT ![v] = {}]
  /\ waiting' = [waiting EXCEPT ![v] = FALSE]

(* powerCycle: either call may fail, which is only logged. *)
PowerCycle(v) ==
  \/ Power(v, "booting")
  \/ Power(v, "off")
  \/ UNCHANGED <<agents, waiting>>

(* A boot may also never get this far. *)
AgentStarts(v) ==
  /\ vm[v] = "booting"
  /\ vm' = [vm EXCEPT ![v] = "up"]
  /\ UNCHANGED <<store, jobVars, doing, current, completed, calls, wrote, bounds>>

(* The guest hangs or reboots on its own. *)
AgentDies(v) ==
  /\ vm[v] = "up"
  /\ deaths < MaxDeaths
  /\ deaths' = deaths + 1
  /\ Power(v, "booting")
  /\ UNCHANGED <<store, jobVars, call, wrote, disowned, overtaken, lost, restarts>>

(* No heartbeat got through for a while.  A live agent's is only seen to be *)
(* old by a job that slept, or that starts.                                 *)
HeartbeatAges(v) ==
  /\ recent[v]
  /\ job.stage \in {"none", "sleeping"} \/ vm[v] # "up"
  /\ recent' = [recent EXCEPT ![v] = FALSE]
  /\ UNCHANGED <<runStatus, fillRun, fillStatus, jobVars, agents, calls, wrote, bounds>>

-----------------------------------------------------------------------------
(* StartFill and the start of runFill *)

(* Under the lock: list the VMs and create the run.  History: agents and     *)
(* handlers that are not through with an earlier run by then.                *)
StartFill(r) ==
  /\ job.stage = "none"
  /\ runStatus[r] = "absent"
  /\ runStatus' = [runStatus EXCEPT ![r] = "pending"]
  /\ job' = [NoJob EXCEPT !.stage = "assigning", !.run = r, !.todo = VMs,
                          !.fresh = {v \in VMs : recent[v]}]
  /\ cancelled' = FALSE
  /\ overtaken' = (overtaken \/ \E v \in VMs : doing[v] # NoWork \/ call[v] # NoCall)
  /\ UNCHANGED <<fillRun, fillStatus, recent, heard, tries, agents, calls,
                 wrote, disowned, deaths, lost, restarts>>

AssignFill(v) ==
  /\ job.stage = "assigning"
  /\ v \in job.todo
  /\ fillRun' = [fillRun EXCEPT ![v] = job.run]
  /\ fillStatus' = [fillStatus EXCEPT ![v] = "pending"]
  /\ job' = [job EXCEPT !.todo = @ \ {v}]
  /\ UNCHANGED <<runStatus, recent, heard, tries, cancelled, agents, calls,
                 wrote, bounds>>

StartRun ==
  /\ job.stage = "assigning"
  /\ job.todo = {}
  /\ runStatus' = [runStatus EXCEPT ![job.run] = "running"]
  /\ job' = [job EXCEPT !.stage = "opening"]
  /\ UNCHANGED <<fillRun, fillStatus, recent, heard, tries, cancelled, agents,
                 calls, wrote, bounds>>

OpenDriver ==
  /\ job.stage = "opening"
  /\ job' = [job EXCEPT !.stage = "booting", !.todo = VMs]
  /\ tries' = [v \in VMs |-> 1]
  /\ UNCHANGED <<store, heard, cancelled, agents, calls, wrote, bounds>>

(* From here on the job only carries out plan, to end its run as result,    *)
(* and returns; what it knew of boots and heartbeats is of no more use.     *)
Close(plan, result) ==
  /\ job' = [NoJob EXCEPT !.stage = "closing", !.run = job.run, !.plan = plan,
                !.tally = result,
                !.todo = IF "stop" \in Range(plan) THEN VMs ELSE {}]
  /\ heard' = [v \in VMs |-> FALSE]
  /\ tries' = [v \in VMs |-> 0]
  /\ UNCHANGED <<store, cancelled, agents, calls, wrote, bounds>>

(* Variant: the job gives up without recording its failure. *)
OpenDriverFailsQuietly ==
  /\ job.stage = "opening"
  /\ Close(<<>>, "failed")

OpenDriverFails ==
  /\ job.stage = "opening"
  /\ Close(<<"finish">>, "failed")

(* bootVM: a VM that is off is powered on; one that is on is left alone if  *)
(* the row listed before the run showed a live agent (and the heartbeat is  *)
(* not too old by now), and power-cycled otherwise.  A driver call may fail. *)
BootVM(v) ==
  /\ job.stage = "booting"
  /\ v \in job.todo
  /\ \/ vm[v] = "off" /\ Power(v, "booting")
     \/ (vm[v] = "off" \/ v \in job.fresh) /\ UNCHANGED <<agents, waiting>>
     \/ vm[v] # "off" /\ PowerCycle(v)
  /\ job' = [job EXCEPT !.todo = @ \ {v}]
  /\ UNCHANGED <<store, heard, tries, cancelled, call, wrote, bounds>>

FleetBooted ==
  /\ job.stage = "booting"
  /\ job.todo = {}
  /\ job' = [job EXCEPT !.stage = "sleeping", !.fresh = {}]
  /\ UNCHANGED <<store, heard, tries, cancelled, agents, calls, wrote, bounds>>

-----------------------------------------------------------------------------
(* The poll loop *)

OfRun(r, status) == {v \in VMs : fillRun[v] = r /\ fillStatus[v] = status}

(* List the rows and tally them.  job.todo are the pending VMs not heard    *)
(* from since their boot, job.silent whether a working VM's heartbeat is    *)
(* old, and job.idle whether nobody is writing.                             *)
Poll ==
  LET r == job.run
      settled == OfRun(r, "done") \cup OfRun(r, "failed") IN
  /\ job.stage = "sleeping"
  /\ job' = [job EXCEPT
       !.stage = "watching",
       !.todo = {v \in OfRun(r, "pending") : ~heard[v]},
       !.tally = IF settled # VMs THEN "none"
                 ELSE IF OfRun(r, "failed") # {} THEN "failed" ELSE "succeeded",
       !.silent = \E v \in OfRun(r, "working") : ~recent[v],
       !.idle = OfRun(r, "working") = {}]
  /\ UNCHANGED <<store, heard, tries, cancelled, agents, calls, wrote, bounds>>

(* The VM's boot timeout is not over, nor then is the stall limit. *)
WatchdogWaits(v) ==
  /\ job.stage = "watching"
  /\ v \in job.todo
  /\ job' = [job EXCEPT !.todo = @ \ {v}, !.idle = FALSE]
  /\ UNCHANGED <<store, heard, tries, cancelled, agents, calls, wrote, bounds>>

(* Variant: the attempts are not limited. *)
WatchdogCyclesForever(v) ==
  /\ job.stage = "watching"
  /\ v \in job.todo
  /\ PowerCycle(v)
  /\ tries' = [tries EXCEPT ![v] = @ + 1]
  /\ heard' = [heard EXCEPT ![v] = FALSE]
  /\ job' = [job EXCEPT !.todo = @ \ {v}, !.idle = FALSE]
  /\ UNCHANGED <<store, cancelled, call, wrote, bounds>>

WatchdogCycles(v) ==
  /\ job.stage = "watching"
  /\ v \in job.todo
  /\ tries[v] < MaxBootAttempts
  /\ PowerCycle(v)
  /\ tries' = [tries EXCEPT ![v] = @ + 1]
  /\ heard' = [heard EXCEPT ![v] = FALSE]
  /\ job' = [job EXCEPT !.todo = @ \ {v}, !.idle = FALSE]
  /\ UNCHANGED <<store, cancelled, call, wrote, bounds>>

(* FailFillVM does not look at the row it overwrites. *)
WatchdogGivesUp(v) ==
  /\ job.stage = "watching"
  /\ v \in job.todo
  /\ tries[v] >= MaxBootAttempts
  /\ fillStatus' = [fillStatus EXCEPT ![v] = "failed"]
  /\ disowned' = TRUE
  /\ job' = [job EXCEPT !.todo = @ \ {v}]
  /\ UNCHANGED <<runStatus, fillRun, recent, heard, tries, cancelled, agents,
                 calls, wrote, overtaken, deaths, lost, restarts>>

Watched == job.stage = "watching" /\ job.todo = {}
(* Mid-run failures are recorded before the fleet is powered off. *)
FailFill == Close(IF Shutdown THEN <<"finish", "stop">> ELSE <<"finish">>, "failed")

(* A working VM's agent has been silent for longer than the limit. *)
SilentFails == Watched /\ job.silent /\ FailFill

(* Nothing has moved for longer than the limit. *)
StallFails == Watched /\ job.idle /\ FailFill

(* The whole run is over its time. *)
DeadlineFails == Watched /\ job.tally = "none" /\ FailFill

(* Variant: failed VMs do not count against the run. *)
FinishIgnoringFailures ==
  /\ Watched
  /\ job.tally # "none"
  /\ Close(IF Shutdown THEN <<"stop", "finish">> ELSE <<"finish">>, "succeeded")

(* Every VM is done or failed: power off first, then record the result. *)
FinishFill ==
  /\ Watched
  /\ job.tally # "none"
  /\ Close(IF Shutdown THEN <<"stop", "finish">> ELSE <<"finish">>, job.tally)

KeepPolling ==
  /\ Watched
  /\ job.tally = "none"
  /\ job' = [job EXCEPT !.stage = "sleeping", !.silent = FALSE, !.idle = FALSE]
  /\ UNCHANGED <<store, heard, tries, cancelled, agents, calls, wrote, bounds>>

(* The select sees the cancelled context. *)
CancelFill ==
  /\ job.stage = "sleeping"
  /\ cancelled
  /\ Close(<<"reset", "finish">>, "cancelled")

-----------------------------------------------------------------------------
(* The end of the job *)

Closing(step) ==
  /\ job.stage = "closing"
  /\ job.plan # <<>>
  /\ Head(job.plan) = step
NextStep == job' = [job EXCEPT !.plan = Tail(@)]

CancelUnfinishedFills ==
  /\ Closing("reset")
  /\ fillStatus' = [v \in VMs |->
       IF fillRun[v] = job.run /\ fillStatus[v] \in InFlight
       THEN "failed" ELSE fillStatus[v]]
  /\ disowned' = TRUE
  /\ NextStep
  /\ UNCHANGED <<runStatus, fillRun, recent, heard, tries, cancelled, agents,
                 calls, wrote, overtaken, deaths, lost, restarts>>

(* applyAfterFill: power off, and forget the heartbeat of the agent that is *)
(* gone; a VM that cannot be powered off keeps its agent.                   *)
StopVM(v) ==
  /\ Closing("stop")
  /\ v \in job.todo
  /\ job' = [job EXCEPT !.todo = @ \ {v},
                        !.plan = IF job.todo = {v} THEN Tail(@) ELSE @]
  /\ \/ /\ Power(v, "off")
        /\ recent' = [recent EXCEPT ![v] = FALSE]
     \/ UNCHANGED <<agents, waiting, recent>>
  /\ UNCHANGED <<runStatus, fillRun, fillStatus, heard, tries, cancelled, call, wrote,
                 bounds>>

FinishRun ==
  /\ Closing("finish")
  /\ runStatus' = [runStatus EXCEPT ![job.run] = job.tally]
  /\ NextStep
  /\ UNCHANGED <<fillRun, fillStatus, recent, heard, tries, cancelled, agents,
                 calls, wrote, bounds>>

JobReturns ==
  /\ job.stage = "closing"
  /\ job.plan = <<>>
  /\ job' = NoJob
  /\ cancelled' = FALSE
  /\ UNCHANGED <<store, heard, tries, agents, calls, wrote, bounds>>

(* Orchestrator.Cancel; a job that is closing no longer looks. *)
Cancel ==
  /\ job.stage \notin {"none", "closing"}
  /\ ~cancelled
  /\ cancelled' = TRUE
  /\ UNCHANGED <<store, heard, job, tries, agents, calls, wrote, bounds>>

-----------------------------------------------------------------------------
(* register and heartbeat.  Bound: the controller works on one of them per  *)
(* VM at a time.                                                            *)

(* The job goes by what is heard after it started, not after it booted a VM. *)
Attending == job.stage \in {"opening", "booting", "sleeping", "watching"}

Heard(v) ==
  /\ recent' = [recent EXCEPT ![v] = TRUE]
  /\ heard' = [heard EXCEPT ![v] = Attending]

(* The agent calls, and agentAuth reads the VM's row. *)
AgentCalls(v) ==
  /\ vm[v] = "up"
  /\ ~waiting[v]
  /\ call[v].stage = "none"
  /\ \/ /\ fillStatus[v] \in InFlight
        /\ waiting' = [waiting EXCEPT ![v] = TRUE]
        /\ call' = [call EXCEPT ![v] =
             [stage |-> "read", run |-> fillRun[v], status |-> fillStatus[v]]]
        /\ UNCHANGED <<recent, heard>>
     \/ /\ fillStatus[v] \notin InFlight     \* idle whatever follows
        /\ Heard(v)
        /\ UNCHANGED calls
  /\ UNCHANGED <<runStatus, fillRun, fillStatus, job, tries, cancelled, agents,
                 wrote, bounds>>

AnswerIdle(v) ==
  /\ call' = [call EXCEPT ![v] = NoCall]
  /\ waiting' = [waiting EXCEPT ![v] = FALSE]

(* TouchAgent, then what WorkOrderForToken asks of the run as it is now and *)
(* of the row as it was read.                                               *)
CheckOrder(v) ==
  LET c == call[v]
      active == runStatus[c.run] = "running" IN
  /\ c.stage = "read"
  /\ Heard(v)
  /\ \/ ~active /\ AnswerIdle(v)
     \/ /\ active
        /\ call' = [call EXCEPT ![v].stage =
             IF c.status = "pending" THEN "checked" ELSE "order"]
        /\ UNCHANGED waiting
  /\ UNCHANGED <<runStatus, fillRun, fillStatus, job, tries, cancelled, agents,
                 wrote, bounds>>

SlotFree(r) == MaxParallel = 0 \/ Cardinality(OfRun(r, "working")) < MaxParallel

(* Variant: the gate counts without holding the mutex. *)
CountUnlocked(v) ==
  /\ call[v].stage = "checked"
  /\ \/ ~SlotFree(call[v].run) /\ AnswerIdle(v)
     \/ /\ SlotFree(call[v].run)
        /\ call' = [call EXCEPT ![v].stage = "counted"]
        /\ UNCHANGED waiting
  /\ UNCHANGED <<store, jobVars, agents, wrote, bounds>>

(* The gate, under o.mu: no other handler is between count and write. *)
CountWorking(v) ==
  /\ call[v].stage = "checked"
  /\ \A u \in VMs : call[u].stage # "counted"
  /\ \/ ~SlotFree(call[v].run) /\ AnswerIdle(v)
     \/ /\ SlotFree(call[v].run)
        /\ call' = [call EXCEPT ![v].stage = "counted"]
        /\ UNCHANGED waiting
  /\ UNCHANGED <<store, jobVars, agents, wrote, bounds>>

Promote(v) ==
  /\ call[v].stage = "counted"
  /\ fillStatus' = [fillStatus EXCEPT ![v] = "working"]
  /\ call' = [call EXCEPT ![v].stage = "order"]
  /\ UNCHANGED <<runStatus, fillRun, recent, jobVars, agents, waiting, wrote, bounds>>

Begins(v, r) ==
  /\ current' = [current EXCEPT ![v] = r]
  /\ doing' = [doing EXCEPT ![v][r] = "writing"]

(* Variant: what the agent has completed is forgotten. *)
DispatchUnlessRunning(v) ==
  LET r == call[v].run IN
  /\ call[v].stage = "order"
  /\ waiting[v]
  /\ AnswerIdle(v)
  /\ \/ current[v] = r /\ UNCHANGED <<doing, current>>
     \/ current[v] # r /\ Begins(v, r)
  /\ UNCHANGED <<store, jobVars, vm, completed, wrote, bounds>>

(* dispatch: the order is skipped if its run is c.running or completed. *)
Dispatch(v) ==
  LET r == call[v].run IN
  /\ call[v].stage = "order"
  /\ waiting[v]
  /\ AnswerIdle(v)
  /\ \/ /\ current[v] = r \/ r \in completed[v]
        /\ UNCHANGED <<doing, current>>
     \/ /\ current[v] # r /\ r \notin completed[v]
        /\ Begins(v, r)
  /\ UNCHANGED <<store, jobVars, vm, completed, wrote, bounds>>

(* The reply is lost, or nobody awaits it any more. *)
ReplyLost(v) ==
  /\ call[v].stage = "order"
  /\ AnswerIdle(v)
  /\ UNCHANGED <<store, jobVars, agents, wrote, bounds>>

-----------------------------------------------------------------------------
(* The goroutine of a run in the agent.  Its reports carry the VM's token   *)
(* but no run: ReportFillProgress writes whatever the row is assigned to.   *)

ReportFillProgress(v, status) ==
  /\ fillStatus' = [fillStatus EXCEPT ![v] = status]
  /\ Heard(v)

Sample(v, r) ==
  /\ doing[v][r] = "writing"
  /\ ReportFillProgress(v, "working")
  /\ UNCHANGED <<runStatus, fillRun, job, tries, cancelled, agents, calls,
                 wrote, bounds>>

(* The run is carried out to the end, or breaks. *)
FinishWork(v, r) ==
  /\ doing[v][r] = "writing"
  /\ \/ /\ doing' = [doing EXCEPT ![v][r] = "done"]
        /\ wrote' = [wrote EXCEPT ![r] = @ \cup {v}]
     \/ /\ doing' = [doing EXCEPT ![v][r] = "error"]
        /\ UNCHANGED wrote
  /\ UNCHANGED <<store, jobVars, vm, current, completed, calls, bounds>>

(* The goroutine is over; c.running is cleared whatever it says. *)
WorkOver(v, r) ==
  /\ doing' = [doing EXCEPT ![v][r] = "none"]
  /\ completed' = [completed EXCEPT ![v] = @ \cup {r}]
  /\ current' = [current EXCEPT ![v] = NoRun]

(* postReliable: a report that lands but is not acknowledged is repeated. *)
TerminalReport(v, r) ==
  /\ doing[v][r] \in {"done", "error"}
  /\ ReportFillProgress(v, IF doing[v][r] = "done" THEN "done" ELSE "failed")
  /\ \/ WorkOver(v, r)
     \/ UNCHANGED <<doing, completed, current>>
  /\ UNCHANGED <<runStatus, fillRun, job, tries, cancelled, vm, calls, wrote, bounds>>

(* ... until the attempts are used up. *)
ReportGivesUp(v, r) ==
  /\ doing[v][r] \in {"done", "error"}
  /\ lost < MaxLost
  /\ lost' = lost + 1
  /\ WorkOver(v, r)
  /\ UNCHANGED <<store, jobVars, vm, calls, wrote, disowned, overtaken, deaths, restarts>>

-----------------------------------------------------------------------------
(* The controller dies and ResumeInterrupted re-attaches to a running run.  *)
(* VMs and agents go on; a call in flight fails.                            *)
Restart ==
  /\ restarts < MaxRestarts
  /\ restarts' = restarts + 1
  /\ cancelled' = FALSE
  /\ heard' = [v \in VMs |-> FALSE]
  /\ tries' = [v \in VMs |-> 0]
  /\ call' = [v \in VMs |-> NoCall]
  /\ waiting' = [v \in VMs |-> FALSE]
  /\ \/ /\ \A r \in Runs : runStatus[r] # "running"
        /\ job' = NoJob
     \/ \E r \in Runs :
          /\ runStatus[r] = "running"
          /\ job' = [NoJob EXCEPT !.stage = "opening", !.run = r,
                                  !.fresh = {v \in VMs : recent[v]}]
  /\ UNCHANGED <<store, agents, wrote, disowned, overtaken, deaths, lost>>

-----------------------------------------------------------------------------
WatchdogFires(v) == WatchdogCycles(v) \/ WatchdogGivesUp(v)

JobStep ==
  \/ StartRun \/ OpenDriver \/ OpenDriverFails \/ FleetBooted
  \/ Poll \/ FinishFill \/ KeepPolling \/ CancelFill
  \/ CancelUnfinishedFills \/ FinishRun \/ JobReturns
  \/ \E v \in VMs : AssignFill(v) \/ BootVM(v) \/ WatchdogWaits(v) \/ StopVM(v)

LimitFails == SilentFails \/ StallFails
CallStep(v) == AgentCalls(v) \/ CheckOrder(v) \/ CountWorking(v) \/ Promote(v)
GoesSilent(v) == vm[v] # "up" /\ HeartbeatAges(v)
WorkStep(v, r) == FinishWork(v, r) \/ TerminalReport(v, r)

Next ==
  \/ JobStep
  \/ \E r \in Runs : StartFill(r)
  \/ LimitFails \/ DeadlineFails
  \/ Cancel
  \/ Restart
  \/ \E v \in VMs :
       \/ WatchdogFires(v)
       \/ AgentStarts(v) \/ AgentDies(v) \/ HeartbeatAges(v)
       \/ CallStep(v) \/ Dispatch(v) \/ ReplyLost(v)
       \/ \E r \in Runs : Sample(v, r) \/ WorkStep(v, r) \/ ReportGivesUp(v, r)

(* The job keeps running and its limits pass, so a limit that poll after    *)
(* poll could have been reached is; agents keep calling, an order gets      *)
(* through now and then, and the heartbeat of an agent that is gone ages; a *)
(* run's work ends and a report on it is repeated until it lands.  Nothing  *)
(* says that a VM ever boots, and the 12 h deadline is not relied upon.     *)
Fairness ==
  /\ WF_vars(JobStep)
  /\ SF_vars(LimitFails)
  /\ \A v \in VMs :
       /\ SF_vars(WatchdogFires(v))
       /\ WF_vars(CallStep(v) \/ ReplyLost(v))
       /\ SF_vars(Dispatch(v))
       /\ WF_vars(GoesSilent(v))
       /\ \A r \in Runs : WF_vars(WorkStep(v, r))

Spec == Init /\ [][Next]_vars /\ Fairness

-----------------------------------------------------------------------------
(* Properties *)

(* Every variable of the job, the rows, the agents and the calls between    *)
(* them has its type; in particular no VM is booted more often than         *)
(* maxBootAttempts allows (fill.go:203).                                    *)
TypeOK ==
  /\ runStatus \in [Runs -> {"absent", "pending", "running"} \cup Ended]
  /\ fillRun \in [VMs -> Runs \cup {NoRun}]
  /\ fillStatus \in [VMs -> FillStatuses]
  /\ recent \in [VMs -> BOOLEAN]
  /\ heard \in [VMs -> BOOLEAN]
  /\ job \in [stage : JobStages, run : Runs \cup {NoRun}, todo : SUBSET VMs,
              fresh : SUBSET VMs, tally : Ended \cup {"none"}, silent : BOOLEAN,
              idle : BOOLEAN, plan : Seq({"reset", "stop", "finish"})]
  /\ tries \in [VMs -> 0 .. MaxBootAttempts]
  /\ cancelled \in BOOLEAN
  /\ vm \in [VMs -> VMStates]
  /\ doing \in [VMs -> [Runs -> AgentStages]]
  /\ current \in [VMs -> Runs \cup {NoRun}]
  /\ completed \in [VMs -> SUBSET Runs]
  /\ call \in [VMs -> [stage : CallStages, run : Runs \cup {NoRun},
                       status : FillStatuses]]
  /\ waiting \in [VMs -> BOOLEAN]
  /\ wrote \in [Runs -> SUBSET VMs]
  /\ disowned \in BOOLEAN /\ overtaken \in BOOLEAN
  /\ {deaths, lost, restarts} \subseteq Nat

Writers(r) == {v \in VMs : doing[v][r] = "writing"}

(* maxParallelVMs staggers the writing itself, not only the rows' statuses: *)
(* through lost replies, dying agents and restarts, no more agents than     *)
(* that write for a run, unless the controller has itself declared a VM     *)
(* failed that may be writing, or began a run over the agents of another.   *)
StaggerHolds ==
  \A r \in Runs :
    MaxParallel = 0 \/ disowned \/ overtaken \/ Cardinality(Writers(r)) <= MaxParallel

(* A fill that reads succeeded was carried out by every VM's agent: failed  *)
(* VMs, restarts and repeated reports never add up to a false success,      *)
(* unless a run began while agents were not through with an earlier one,    *)
(* whose reports say nothing of the run they are about.                     *)
SucceededMeansWritten ==
  \A r \in Runs : runStatus[r] = "succeeded" => overtaken \/ wrote[r] = VMs

(* ... and none is writing for it any more: no order read before an agent   *)
(* reported, and no controller that has not yet heard, makes it write again *)
(* to disks that count as filled.                                           *)
SucceededMeansQuiet ==
  \A r \in Runs : runStatus[r] = "succeeded" => overtaken \/ Writers(r) = {}

(* A running fill ends without its deadline, whatever VM never boots, hangs *)
(* or falls silent and also across a restart, as long as no agent has given *)
(* up on a report.                                                          *)
EveryFillEnds ==
  \A r \in Runs : runStatus[r] = "running" ~> runStatus[r] \in Ended \/ lost > 0

(* model.go of FillDone, "agent finished this run": a row reads as done     *)
(* only when the VM's agent has carried out the run it is assigned to.      *)
DoneMeansFinished ==
  \A v \in VMs : fillStatus[v] = "done" => v \in wrote[fillRun[v]]
=============================================================================
