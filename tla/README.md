# GhostFleet in TLA+

GhostFleet is a controller that keeps fleets of OS-less VMs on a hypervisor, fills
their disks with generated data through an agent that PXE-boots inside each VM,
and churns that data on a schedule. This directory holds TLA+ models of the parts of it in
which several actors change the same state or in which work can be cut off: the
controller's jobs, the fill protocol between controller and agents, the
reconciliation of a deployment with the hypervisor, what an agent leaves on its disks,
the scheduler, the adoption of restored VMs, and the configuration all of them act on.

| Module | Models | Run by | Proofs |
|---|---|---|---|
| `Orchestrator` | locks, runs, statuses and restarts of the job engine | `Orchestrator` | `OrchestratorProofs` |
| `RunLedger` | what the run history promises, abstractly | refined by `Orchestrator` | `OrchestratorProofs` |
| `Fill` | the fill job, the agents and the calls between them | `FillSafety`, `-Live`, `-StaleDone` | `FillProofs` |
| `AgentDisk` | the data disks of one VM under fills, churns, verifies and power cuts | `AgentDisk`, `AgentDiskRedo` | `AgentDiskProofs` |
| `Reconcile` | deploy, scale-up and teardown against the hypervisor | `ReconcileSafety`, `-Retry` | `ReconcileProofs` |
| `Scheduler` | schedules, their tick loop, their edits, and the recurrence | `Scheduler` | `SchedulerProofs` |
| `Adoption` | discovery and adoption of restored machines | `AdoptionSafety`, `-Live` | `AdoptionProofs` |
| `Configuration` | connections, profile versions, specs, and the jobs that act on them | `Configuration` | `ConfigurationProofs` |

`MCFill` adds the symmetry set for TLC, `MCReconcile` who asks for which conflict mode, `MCConfiguration` the specs callers
send; `PROJECT.json` maps every definition to the source lines it stands for.

## 1. Inventory

Paths are below `src/`.

**Job orchestration** (`internal/orch/orchestrator.go`, `internal/api/operations.go`).
State: `deployments` and `runs` rows; in memory the map `active` of busy deployments with their
cancel functions. Operations: `StartDeploy`, `StartTeardown`, `StartPower`, `StartFill`,
`Cancel`, `runJob`, `ResumeInterrupted`. HTTP handlers and the scheduler call it; it starts a
goroutine per job, which gives back the lock its caller took. Hard: status checks made before the lock
is held; a dozen early returns that must release it; a run record, a status and a
VM row are separate writes, and the process may die between any two. Correct means: one
job per deployment, every run ends once, no status or lock is left over, and a
restart resumes exactly what was running.

**Reconcile and teardown** (`reconcileCore`, `findConflicts`, `teardown`;
`internal/hypervisor/vsphere/driver.go`). State: VMs on the hypervisor with owner annotation and disks,
`managed_vms` rows, the deployment's spec. Hard: driver calls fail before or after they
took effect; the row is written after the call; VMs are created in parallel; the
spec grows under a running job; several deployments and strangers share a folder.
Correct means: nobody's VM is touched without being asked to, a successful deploy has everything on record and nothing
left over, an interrupted one can be repeated.

**Fill runs and work orders** (`internal/orch/fill.go`, `internal/api/boot.go`,
`cmd/agent/main.go`). State: per-VM fill columns of `managed_vms`, the run, the job's
boot bookkeeping, each agent's `running`/`completed`. Operations: boot pass, poll loop with boot
watchdog, silence, stall and 12 h limits, `finishFill`, `cancelFill`; `register`, `heartbeat` and
`progress`; the agent's `dispatch` and reliable reports. Hard: rows are read before a
mutex is taken and written after; reports carry no run; replies, agents
and the controller get lost at any time. Correct means: the stagger limit holds for actual writing,
success is never false, every run ends.

**Scheduler** (`internal/sched/sched.go`, `internal/store/schedules.go`, `internal/api/schedules.go`). State: `schedules` rows
(next fire time, enabled, history), in memory `busySince`. Operations: tick, fire, advance; API edits. Hard:
a crash between starting a run and advancing; edits during a tick; the busy grace.
Correct means: an occurrence fires at most once and on time, and none stays due.

**Adoption** (`internal/orch/adopt.go`, `internal/api/discovery.go`, `internal/api/boot.go`). State: `discovered_vms`, and the VM and
deployment rows it creates or rebinds. Hard: check-then-act without a lock, four
writes in a row, joins that race with teardown. Correct means: a VM is adopted once,
ends up with its own data state and comes up managed.

**Agent data generation** (`cmd/agent/gen.go`, `manifest.go`, `verify.go`, `discover.go`). State:
files, manifest, identity and run marker per disk. Hard: a crash at any write; a repeated
order. Correct means: a run that is done is on every disk and verifies, and a disk reported as filled is.

**Effective configuration** (`internal/model`, `internal/api/profiles.go`, `deployments.go`, `connections.go`, their tables).
State: `connections`, `profiles`, `profile_versions`, the spec of each deployment. Hard: handlers read, check and
write by separate statements; jobs act on the spec they were started with. Correct means: references hold, a spec
is that of its version, a fleet never outgrows its spec.

**Data generation algorithms** (`internal/datagen`). Pure functions: sizes of the
regions, seeds, work orders, the data state that markers add up to.

**Store** (`internal/store`). Each statement is atomic (SQLite, foreign keys on); the models use it one statement per step.

**Secrets, HTTP server and sessions, web client, packaging.** No protocol state of
their own; not modelled.

How they interact: handlers and scheduler call the orchestrator; its jobs call the driver and write the store; agents call
the handlers, which read and write the same rows the fill job polls; adoption writes rows under running jobs.

## 2. The models

### Orchestrator and RunLedger

Variables are the durable rows (`status`, `recorded`: the deployment has VM rows, `runOf`, `runType`, `runStatus`), the
process's memory (`active`, `cancelled`, `job` with the stage of each goroutine, `outcome`) and `req`, the
handlers and scheduler fires in flight. Each action is one store write or one
critical section of `o.mu`: `ApiRequest`/`ScheduleFires` (read and check the status),
`Acquire`, `CreateRun`, `Launch`, `Refuse`, then `StartRun`, `OpenDriver`, the work, `FinishRun`,
`Settle`, `JobReturns`. `DeleteEmpty` is the teardown of an empty deployment, made
without the lock, and `JoinAdopted` adoption's VM row, likewise. `Restart`
forgets the memory and resumes the running runs. What the work does is
reduced to success, failure and whether VM rows appear. The scheduler is one goroutine in the code;
`ScheduleFires` allows it to be several, which only adds behaviours.

`RunLedger` is the abstract specification: a run is created, begun and ended once and for good, never two at a time for a
deployment. It has no lock, no goroutines and no restarts. `Orchestrator` implements it with
`owner <- runOf, stage <- runStatus`.

### Fill

One deployment's fill runs. The job goes through assigning, opening, booting and
then polls (`sleeping`, `watching`) until it closes the run; `plan` holds the rest of the order in which it
resets rows, powers off and records the result. Rows are changed by single
statements: a handler that reads its row (`AgentCalls`), checks the order (`CheckOrder`), counts (`CountWorking`)
and promotes (`Promote`) can be overtaken between any two, except that count and promotion exclude each other
by `fillMu`. The agent's side is `Dispatch`, `Sample`, `FinishWork`, `TerminalReport`, `ReportGivesUp`.
`wrote`, `disowned` and `overtaken` (a run began while agents or handlers of an earlier one were at work) are history variables for the properties. Abstracted: time to what the code compares (a heartbeat is recent or not, a VM has called since its
last boot or not; a limit not yet reached merely permits the job to wait); bytes and rates
(a VM that works counts as progress); a VM has one register or heartbeat handler in the
controller at a time; after a cancel the job may take one more poll, as Go's `select` may.

### Reconcile

The hypervisor's VMs (`hv`, one per name, counted by creation so that a row's reference can be stale), each deployment's rows, its
spec (`want`) and its job. The deployments are placed in one folder and share the naming scheme, which is the
worst case; VMs of unknown owner may be there from the beginning. A job checks for conflicts once, cleans or adopts, creates
the missing VMs with one worker each (`CreateVM`, then `AddManagedVM`), then grows the recorded ones
(`AddDisks`, then `UpdateManagedVMDisks`); a teardown destroys and forgets VM after
VM. Every driver call has a failing twin, which may have had its effect; a cancelled job is
one whose calls fail. `CreateVM` takes over a VM that has the name, as the driver does, and its re-stamping may fail
silently (`AdoptUnstamped`). `Restart` resumes with today's spec, in the mode abort.
Left out: disk sizes (extending compares with the real disks and can be repeated; only its failing matters), placement,
power, the store's failures, a duplicate-file fault without a VM of that name, and the parallelism limit of 4 (the workers may run all at once or one by one).

### AgentDisk

One VM, its disks, and the orders it is given one after the other. `disk` is what a mount shows, `platter` what a
power cut leaves of the manifest (a rename is durable only after `syncDir`); the data of a job is durable when fio has ended with
`end_fsync`. `RunFill` first asks whether all markers are the run's own (`RunAlreadyComplete`); an initial fill then wipes and
writes disk after disk, an incremental plans each disk (`PlanChurn`: files listed by name, a change set picked
by a generator seeded with the run, growth files named after it) and applies the plan one fio job at a time (`BeginJob`,
`EndJob`); identity, manifest (`UpdateDiskManifest`, `SyncDir`) and run markers (`WriteMarker`, disk after disk) follow, then the
report. `StepFails`, `Crash`, `PowerCut` and `PowerOff` come between any two of these; `Register` reports
what the next boot finds (`DataState`), and `Dispatch` hands out the same order again. The generator is an arbitrary function of
run and number of files (`picks`), chosen when first used. Sizes are counted in whole files and a file's content is named after the job that
wrote it. `cutOff` is history. Left out: the agent's two goroutines of one run (`Fill` has them), partial hashing, compression.

### Scheduler

One deployment and its schedules. A tick lists the due rows and goes through them (`Fetch`, `Start`,
`StartBusy`, `StartRefused`, `Advance`), with the row read at the start; the API's `Call`, then `StoreSchedule`, is split the same
way; a schedule may be created paused, and an update replaces its action and its definition. `NextAfter` is the recurrence: intervals, daily times with a weekday filter walked day by day as the code does, and
one-time fires. The deployment's other jobs (`StartByHand`, `JobEnds`, `TeardownFails`, `MarkDeleted`, `DropSchedules`) make it busy, or remove it under the
loop. `Die` and `Boot` lose `busySince` and the tick. Time is a small clock (a day has `DayLen` units, the grace is `Grace`); the
loop may tick any number of times in a unit. `last` and `overwritten` are history. Times are UTC: time
zones and the days they make longer or shorter are left out.

### Adoption

The original VM of one deployment and the copies a backup product restores from it. A machine stands for its MAC and its
hypervisor reference; `machine` is where its boot is (`BootScript`, `DiscoveryBoot`, `DiscoveryReport`, `DiscoveryHeartbeat`,
`Register`), `dv` its discovery record, `rows` and `dep` the records and deployments it can be bound to. A
request reads (`Read`), then writes statement by statement: `RebindManagedVM` or `CreateDeployment`/`Join` and `AddManagedVM`, then
`SetDataState` and `MarkAdopted`, each of which may fail or be cut off by `Restart`; requests take no lock. A teardown works from a list
(`ListManagedVMs`, `TearDownVM`). `tangled`, `usurped` and `miscounted` are history: the machines, records and
deployments for which the code's lack of a lock has shown, which the properties leave aside and name. Abstracted: all reads
before the first write are one step; a torn-down VM and its row go in one step; deployments have no names; the
identity on the disks stays the original's; heartbeats of managed agents and edits of an adopted deployment's spec are left out.

### Configuration

The tables of connections, profiles with their versions, and deployments, with their foreign keys (`MayInsert`; `DeleteProfile` cascades to the
versions and sets references to none; `DeleteConnection` is refused as long as any row refers to it, that of a deleted deployment included,
so a connection once used stays). A handler is a sequence of statements in `request`: `ResolveProfile`, `ResolveSpec`, `CreateDeployment`; `CheckSpec`,
`UpdateDeploymentSpec`; a count and a delete; `ReadForJob` and the start of the job. A deploy builds up to the spec its handler read, a resumed one to
today's (`Restart`); a fill assigns totals by the spec its handler read (`StartFill`), and hands out orders made from
today's (`Promote`, `OrderAgain`, with `PerVMRate` and `BuildWorkOrder`, which gives all disks of an order the same payload). A spec has the fields that decide any of this: VMs, stagger,
rate, disks, data per disk and the share of it all VMs have in common. VMs are counted. `outdated` and `detached` are history.
Left out: names (a rename that precedes an invalid spec in one call is kept although the call fails, `profiles.go:65-76`),
placements, connection edits, the disks VMs have (a fill after an edit orders disks that only the next deploy adds), and the corrections of a total by what
its agent reports, verifies and incrementals included.

## 3. The runs

| Run | Bounds | Shows |
|---|---|---|
| `orchestrator` | an operator's and an adopted deployment, 2 callers, 2 runs, 1 restart, 6 operations; 0.2 M states | `TypeOK`; `OneJobPerDeployment`; `RunningRunHasJob`; `SettledWhenIdle`; `ImplementsLedger`; `EveryRunEnds`; `LockIsGivenBack` |
| `fill_safety` | 2 VMs, `maxParallelVMs` 1, 1 run, 1 restart; 1.3 M states | `StaggerHolds`; `SucceededMeansWritten`; `SucceededMeansQuiet`; `TypeOK` |
| `fill_live` | 1 VM, 1 run, 2 boots, 1 restart, 1 death, 1 lost report; 95 k states | `EveryFillEnds` |
| `stale_done` | 1 VM, 2 runs, no faults | violation, see below |
| `agent_disk` | 2 disks of 3 files, 2 runs of any type, 1 dying guest, 1 failing step or lost report; 0.1 M states | `DoneVerifies`; `DoneMeansWritten`; `FilledReportIsTrue`; `TypeOK` |
| `agent_redo` | 1 disk, 2 runs, 1 dying guest | violation |
| `reconcile_safety` | 2 deployments and strangers, 2 names, 2 creations per name, up to 2 disks for one of them, 1 fault (a failing call or a restart); the one that grows cleans or adopts, the other aborts; 1.3 M states | `ReadyMeansNoOrphans`; `ForeignSpared`; `CleanSparesRecorded`; `DeployDelivers`; `RecordsOutliveVMs`; `TypeOK` |
| `repeated_growth` | 1 deployment, 1 name, 1 fault | violation |
| `scheduler` | 1 schedule of every kind, 4 units of time, days of 2, grace 2, 2 edits, 1 other job, 1 restart, 1 failing read; 0.8 M states | `NextAfterIsEarliest`; `SkippedAfterGrace`; `RowsFireOnTime`; `FiresArePaced`; `DueIsDealtWith`; `TypeOK` |
| `adoption_safety` | 2 copies and the original, 2 adoptions, 1 teardown, 1 upset; 0.7 M states | `OneRecordPerMachine`; `RowReadsItsOwnDisks`; `JoinsAreCounted`; `TypeOK` |
| `adoption_live` | the same without the teardown; 78 k states | `AdoptedComesUp` |
| `configuration` | 1 connection, 1 profile of 2 versions, 1 deployment of up to 2 VMs, 2 handlers, 5 calls, 1 restart, 3 specs each growing into the next and an invalid one; 3.8 M states | `SpecOfItsVersion`; `FleetWithinSpec`; `ActiveKeepsProfile`; `RateCapHolds`; `OrdersMeetEstimate`; `TypeOK` |

Why these bounds are enough to be interesting. The theorems of section 4 hold without any bound, so for most safety properties
a run has to show only that the cases happen and that a broken model is caught. *Orchestrator*: two callers suffice for every race for
a lock, and with two runs one can be left over from before a restart when a caller works on the other. *Fill*: with two agents and one slot
the slot is contested, and the ways to break the stagger (a stale read, a lost order, a controller that restarts) need one event
each; one run is enough for what a run means. Dying guests and lost reports are in `fill_live`, with one VM, and in the theorems with any
number; the two-run `stale_done` shows what goes wrong between runs. *Reconcile*: two
deployments contest one name while the other is uncontested; two creations per name let one replace the
other's VM (`MaxGen` blocks a third); one fault at any place leaves every possible half-done job behind. Every mode is in use, though
not by every deployment. *AgentDisk*: two disks are what it takes for a run to be on one and not on the other; one crash or power cut
comes at any write, and the order is repeated over what it left. *Scheduler*: days of two units leave room for a fire, a skip and the grace between them; the
run of `NextAfterIsEarliest` asks for the times of the day ahead, its theorem for all; two edits make one overtake the other.
*Adoption*: two requests suffice for every race for a machine, a record or a count; the
upset is at any step; coming up managed is checked without teardowns, which end that promise. *Configuration*: two handlers suffice for every check-then-act, and five calls
for making a deployment, building it, filling it and editing it twice; 3 KB in a "MB" and 4 bytes in a "GiB"
make the divisions of the rate and the payload leave remainders, as 1024 and odd percentages do.
`MaxRestarts`, `MaxDeaths`, `MaxLost`, `MaxBootAttempts`, `MaxFaults`, `MaxGen`, `MaxDisks`, `Growing`, `MaxRuns`, `MaxCrashes`, `MaxTime`, `MaxEdits`, `MaxJobs`, `MaxCopies`, `MaxRequests`, `MaxTeardowns`, `MaxUpsets`,
`MaxVersions`, `MaxCalls` and the sets of runs and requests are the bounds; limits of the code are `MaxBootAttempts` (3 in the code) and
`Configuration`'s `MaxVMs` (1000, and at most `KB`, which is what keeps a share of the rate from being 0). Deadlock is not reported where the system may stop: identifiers used up, everything deleted.

What the safety properties say. `OneJobPerDeployment` covers goroutines and the handlers
between taking the lock and starting one. `SettledWhenIdle` says that without a restart no idle deployment reads as busy.
`StaggerHolds` counts the agents that write, not the rows that say so; it excludes the runs in which the controller has itself
declared a VM failed (`disowned`), because the boot watchdog acts on rows it read earlier and may disown an agent that has just
registered (`fill.go:205`); like the other two it excludes what comes after a run began over agents at work (`overtaken`), as in `stale_done`. `SucceededMeansWritten` and `SucceededMeansQuiet` say that a fill which reads succeeded was carried out by every VM's
agent and that none still writes. `ReadyMeansNoOrphans` says that a deploy which succeeds has taken up whatever earlier attempts lost; `ForeignSpared` that a stranger's VM is
left alone unless the caller said otherwise, restart included; `CleanSparesRecorded` that a deploy never destroys what its own deployment has on
record; `RecordsOutliveVMs` that a teardown can be repeated.

In `AgentDisk`, `DoneVerifies` says that a run which is done matches the manifests on all disks after any crash, and `DoneMeansWritten` that it was
carried out in full; disks with an incremental that was cut off and redone over another list of files are excepted from the first
(`agent_redo`). `FilledReportIsTrue` leaves aside disks an incremental has written to: a refill that is cut off leaves the row and the run history
saying filled, an incremental may follow, and it stamps the disk it was run over without asking. With a change percentage and a growth of 0
it writes nothing and stamps all the same, so the property is about profiles that change something.

In `Scheduler`, `FiresArePaced` counts the fires (`last.count`) and compares the occurrence of each with what the one before left to come;
it excepts a fire whose advance a restart cut off (it is fired again), `RowsFireOnTime` the rows an advance wrote over an
edit it had not read (a pause or a new time is lost that way), `SkippedAfterGrace` an edit made while the schedule waited.

In `Adoption`, `OneRecordPerMachine` excepts machines whose adoptions overlapped, were cut off after the record was bound, or whose boot script
was handed out before it was; `RowReadsItsOwnDisks` records whose former machine still runs; `JoinsAreCounted` two joins at once.

In `Configuration`, `FleetWithinSpec` excepts deployments on which two edits overlapped, `ActiveKeepsProfile` those inserted while the
profile was being deleted and those a job revived, `RateCapHolds` fills whose spec was edited. `OrdersMeetEstimate` says two things of a fill: no order asks for less than was assigned,
unless two edits overlapped, and every order asks for exactly that, unless the spec was edited. Without each of these exceptions TLC shows the race.

### Where the code and its words disagree

Shown by runs:

- `stale_done`: a report names no run, so the agent still busy with an earlier run marks its VM done for the next (`boot.go:179`, against `model.go:322`).
- `agent_redo`: an incremental cut off while its growth is written and dispatched again picks other files, and those of the first attempt
  keep a stale checksum, so that a completed run does not verify (`gen.go:400`, against `gen.go:406`: "redoes exactly the same work").
- `repeated_growth`: a scale-up interrupted between `AddDisks` and the row's update adds the disks again (`orchestrator.go:469`, against `hypervisor.go:94`: "All calls must be safe to retry").

Reachable in the models and not kept as runs:

- a teardown that found no rows marks the deployment deleted without the lock while a deploy job is about
  to record VMs (`operations.go:135`, against `model.go:263`), and the job's end makes it ready again;
- a restart between creating a run and starting it leaves the deployment in `deploying` with no
  job (`orchestrator.go:165`, against `model.go:259`);
- after a cancelled fill its VMs may show as working again (`fill.go:380`, against the comment above it);
- a VM whose creation failed at its last step has no row, and deleting the deployment
  leaves it behind (`operations.go:135`, "nothing on the hypervisor");
- a rebind keeps the record's boot token, so the agent of the machine that lost the record goes on reporting as it (`managed_vms.go:121`, against `adopt.go:91`),
  and that machine, or one whose record was torn down, is told to reboot for ever once it boots into discovery;
- a pause stored during a tick is undone by the advance (`sched.go:169`, against `schedules.go:10`);
- two edits of a spec, each growing what it read, can shrink it below the fleet (`deployments.go:98`, against the comment at 75, PRO-6);
- a cancel is forgotten by a restart, and the job resumed.

### Fairness

*Orchestrator*: weak fairness of every handler and every job, because goroutines run and driver calls are assumed to
return (the code sets them no deadline; one that never returned would hold its job and its deployment). No caller has to call, cancel or restart. *Fill*: weak fairness of the job's steps, of the
agents' calls and of their work; strong fairness of what is repeated poll after poll or heartbeat after heartbeat: a limit
that could again and again have been reached is, and an order gets through now and then. The heartbeat of a guest
that is gone ages. No boot is fair: a VM may never come up. The 12 h deadline is not relied on.
`EveryFillEnds` excepts an agent that has given up on a report, which only the deadline ends.
*Scheduler*: weak fairness of the loop's steps, of the jobs and of the controller's return after a crash; reads fail boundedly often. *Adoption*:
weak fairness of each machine's agent, which boots and polls for ever; the operator and the requests have none.
`AgentDisk`, `Reconcile` and `Configuration` have no liveness property and no fairness.

## 4. What is proved

`OrchestratorProofs` proves, for any deployments, runs, callers and operations and any number of restarts, from
`OrchestratorAssumption` alone:

- `TypeCorrect`: `Spec => []TypeOK`;
- `OneJob`: `Spec => []OneJobPerDeployment`;
- `Settled`: `Spec => []SettledWhenIdle`;
- `RunningRunOwned`: `Spec => []RunningRunHasJob`;
- `Refinement`: `Spec => ImplementsLedger`, that is `Ledger!Spec`.

`OneJobPerDeployment` is not inductive: that a job and a handler do not collide when the handler launches its run depends on the run
belonging to the handler's deployment and not being worked on yet. The inductive invariant `IInv` adds what
connects the pieces: `JobMatchesRun` (the stage of a goroutine agrees with the status and the type of its
run) and `RequestMatchesRun` (a handler that holds the lock has a run that is its own, still pending, and
without a job). With `TypeOK`, `OneJobPerDeployment` and `RunningRunHasJob` it is preserved by each action; there is a
lemma per action, and `NextIInv` puts them together. In a restart the interesting fact is that a deployment
has at most one running run, so that `ResumeInterrupted` skips none (`AllInterruptedResume`).

The refinement needs two facts about `IInv`: a deployment whose lock a handler holds has no running run (`HeldIsNotBusy`), nor
has one whose job has not started yet, apart from that job's (`LiveIsNotBusy`). So creating and beginning a run meet
`RunLedger`'s guards; ending one is `End`, and every other step, a restart included, leaves the run history alone.

`ConfigurationProofs` proves, for any connections, profiles, deployments, callers and specs and any number of calls and restarts, from
`ConfigurationAssumption` alone:

- `TypeCorrect`: `Spec => []TypeOK`, the foreign keys included;
- `SpecIsOfItsVersion`: `Spec => []SpecOfItsVersion`;
- `FleetStaysWithinSpec`: `Spec => []FleetWithinSpec`;
- `ActiveKeepsItsProfile`: `Spec => []ActiveKeepsProfile`;
- `OrdersMeetTheEstimate`: `Spec => []OrdersMeetEstimate`;
- `RateIsShared`, about every spec: the shares of the VMs that may write at once are positive and stay below the cap.

None of these invariants is inductive, because a handler acts on what it read some steps ago. The invariant `IInv` adds what a request still
knows (`RequestOK`): an edit has not shrunk what it read, a deploy's spec is no larger than the row's unless the row
is outdated, a resolved spec is that of its version if the profile is still there, and a row that a count of uses has seen and
found unused is unused unless a job revived it. `GrownOK` says the same of jobs. Rows are touched in few ways, so most actions are instances of
`OnlyRequest` (handlers that read), `RowKept` (jobs) and `VersionsGrow` (profiles). `OrdersMeetTheEstimate` has an invariant of its own on top of it (`FillInv`): what a handler has
read for a fill, and what a running fill was assigned, is no more than the row's spec asks for today, because an edit that replaces the spec it was
checked against shrinks neither disks nor data (`BytesGrow`), and an order asks for just what today's spec does (`OrderIsEstimate`). A restart is simple here, because
requests are forgotten and jobs go on with the spec of the row.

`ReconcileProofs` proves, for any deployments, names, disks, conflict modes, creations, failing calls and restarts, from
`ReconcileAssumption` alone (`MaxGen > 0` says no more than that a VM can be created):

- `TypeCorrect`: `Spec => []TypeOK`; `NoOrphans`: `Spec => []ReadyMeansNoOrphans`;
- the action properties `RecordsOutlive` (`RecordsOutliveVMs`), `SparesRecorded` (`CleanSparesRecorded`), `SparesForeign`
  (`ForeignSpared`) and `Delivers` (`DeployDelivers`).

That a ready deployment has no orphans depends on everything the deploy before it did. `IInv` has two conjuncts per deployment that
hold in any phase, `RowsBehind` (a row names a VM there has been) and `StampsKept` (a VM with the stamp is the recorded one), and one
per phase of the job; the central one is `CreatesMissing`: while VMs are created each target is on record, created and not yet recorded, still to do, or lost
to a failing worker. The action properties follow from the conjunct of the phase they are about. Another deployment's step
reaches these conjuncts through the hypervisor only; `HvStep` lists the few ways (a VM is never older, never comes back and changes
hands only to who acts), and one lemma carries the invariant over it.

`FillProofs` proves, for any VMs, runs, stagger, boots, deaths, lost reports and restarts, from `FillAssumption` alone (there are
finitely many VMs, at least one, and a VM is booted at least once):

- `TypeCorrect`, `Staggered`, `Written` and `Quiet`: `TypeOK`, `StaggerHolds`, `SucceededMeansWritten`, `SucceededMeansQuiet`.

`StaggerHolds` counts agents, the code counts rows. `AgentOK` says how far they may be apart (an agent that writes has a row that reads
working, or failed once `disowned`), `CallOK` what a handler between its read and its write may still rely on, and `GateHolds` that the rows that work and
the handler that has counted are together within the limit. The last two theorems rest on `TallyStands`: once the poll loop has
tallied success every row is done and stays so. All of this holds only while no run was begun over agents at work: that
`overtaken` is needed was found by the attempt to prove the invariant without it, which `stale_done` contradicts.

`AdoptionProofs` proves, for any number of copies, requests, teardowns and upsets, from `AdoptionAssumption` alone:

- `TypeCorrect`, `OneRecord`, `OwnDisks` and `Counted`: `TypeOK`, `OneRecordPerMachine`, `RowReadsItsOwnDisks`, `JoinsAreCounted`.

Each needs what the adoptions in flight may still do: `BoundOnce` (one adoption per machine, which it has not bound before it writes the
record), `ReadsOwnDisks` (who writes a data state to a record is the machine it is bound to), `RecordUnused` and `CountsClaims`
(a deployment counts its records and those about to be added). The exceptions of the properties (`tangled`, `usurped`, `miscounted`)
are exceptions of these conjuncts, so what is excepted for one machine holds for the others.

`SchedulerProofs` proves, for any schedules, definitions, days, grace, edits, jobs, failing reads and restarts, from
`SchedulerAssumption` alone (a tick lists the due rows in a sequence, so there are finitely many):

- `NextOccurs`, about every definition and every time: `NextAfter` returns the earliest occurrence after now. The argument is that
  seven days after today's weekday it comes round again (`WeekIsWhole`), which is why the walk takes eight days;
- `TypeCorrect`, `Earliest`, `Skipped` and `OnTime`: `TypeOK`, `NextAfterIsEarliest`, `SkippedAfterGrace`, `RowsFireOnTime`;
- `FiresApart`: the action property `FiresArePaced`, a one-shot's single fire included.

The loop acts on rows it listed a while ago, so none of the last three is inductive. `EntryOK` ties a listed row to the table by the
edit it stems from: the table has it unchanged or holds another edit. With it go what the busy memory and the last fire mean for a row of their edit
(`RowOK`), that the edit of a call in flight is known to nobody (`RequestOK`), and that `NextAfter` is monotone in time
(`NextIsMonotone`): a row that is advanced again without being fired never falls back behind what its last fire had computed.

`AgentDiskProofs` proves, for any disks, files, percentages, runs, power cuts and faults, from `AgentDiskAssumption` alone
(at least one disk and one run; no more than all files change):

- `TypeCorrect`, `DoneIsVerified` and `DoneIsWritten`: `TypeOK`, `DoneVerifies`, `DoneMeansWritten`;
- `FilledReports`: the action property `FilledReportIsTrue`.

`IInv` (`Inductive`) says of each disk two things. `DiskOK` holds whatever the agent is doing: checksums that differ from the files are those of a cut-off
churn or of the one at work (`SumsOK`), growth files are numbered within what the disk's files make them (`GrowthOK`), no file or marker is of a run to come (`AgesOK`),
what this run left torn is its growth or its pick (`ChurnOK`), and a stamp has an origin (`StampOK`). The other part is what the stage of the agent adds: a plan that covers
everything still torn (`Planned`), a fill that is all there is on its disk (`Filling`), a disk the run is through with (`Finished`). The crucial case is the
second attempt at an incremental. Its disk may have grown, so that another list is planned over, but the growth of the new plan contains that of the old
(`Monotone`), and a file torn by the old pick can only exist if the list is still the same: growth is written after the last rewrite. That is why nothing stays half-written,
though old checksums may, which is what `cutOff` excuses and `agent_redo` shows. The two other pivots are a power cut (`DiskCut`: no manifest names what it
takes, and no stamp vouches for it) and the planning itself (`PlanOver`, over positions in the order of names, `PositionsTaken`). The lemmas are about one disk as
a value; each action has one that carries them to the state (`BeginJobKeeps` and the like).

Each inductive invariant was first checked by TLC as an invariant of runs of its module, in part with larger bounds than those of section 3 where
that was feasible.

Only model-checked: the liveness properties (`EveryRunEnds`, `LockIsGivenBack`, `EveryFillEnds`, `DueIsDealtWith`, `AdoptedComesUp`), because fairness is out of the
prover's reach; `RateCapHolds`, which adds up a sequence (an induction over
data): what is proved is the single share it rests on (`RateIsShared`).

## 5. What is not modelled

Store statements are assumed to succeed except in `Adoption` and in the scheduler's reads (in the code most of their errors are logged and passed over). Power
jobs are modelled as jobs (`Orchestrator`), not by what they do to each VM. Hashing of seeds is taken to be free of collisions. Not worth a model:
encryption at rest, sessions and routing, the web client, packaging; the driver beyond the calls `Reconcile` makes is I/O.

## 6. Plan

What would come next: power jobs and the parallelism limit in `Reconcile`; the disks VMs have in `Configuration`; `Fill` and `AgentDisk` composed, so that the
row's report and the disks' markers meet over several VMs. Every safety property of the runs but `RateCapHolds` has its theorem; a
composition could take the theorems of `Fill` and `AgentDisk` as they are.
