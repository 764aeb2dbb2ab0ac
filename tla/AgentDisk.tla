------------------------------ MODULE AgentDisk ------------------------------
(***************************************************************************)
(* The agent and the data disks of one VM (cmd/agent): what a work order   *)
(* does to the files, the checksum manifest, the identity and the run      *)
(* marker of each disk, when the guest may die or lose power between any   *)
(* two writes and be handed the same order again after its next boot.      *)
(*                                                                         *)
(* Sizes are counted in whole files.  A file's content is named after the  *)
(* fio job that wrote it, which is what its seed stands for.  The agent    *)
(* carries out one order at a time; two at once are a matter of Fill.      *)
(***************************************************************************)
EXTENDS Naturals, Sequences, FiniteSets, FiniteSetsExt

CONSTANTS
  NDisks,          \* profile: disksPerVM
  GlobalFiles,     \* files of a disk's global region
  LocalFiles,      \* files of a disk's local region after an initial fill
  ChangePercent,   \* profile: changePercent
  GrowthPercent,   \* profile: growthPercent
  MaxRuns,         \* bound on the runs of the deployment
  MaxCrashes,      \* bound on guests that die while an order is open
  MaxFaults        \* bound on failing steps and lost reports

ASSUME AgentDiskAssumption ==
  /\ {NDisks, MaxRuns} \subseteq Nat \ {0}
  /\ {GlobalFiles, LocalFiles, ChangePercent, GrowthPercent, MaxCrashes,
      MaxFaults} \subseteq Nat
  /\ ChangePercent <= 100

Disks == 1 .. NDisks
Runs == 1 .. MaxRuns
Types == {"initial-fill", "incremental", "verify"}

VARIABLES
  disk,        \* disk[d]: the filesystem as a mount shows it
  platter,     \* platter[d]: the manifest a power cut leaves on disk d
  agent,       \* the goroutine carrying out an order
  up,          \* the guest runs and its agent has registered
  completed,   \* the agent's c.completed
  order,       \* the VM row's fill_run_id, fill_status, and the run's type
  data,        \* the VM row's data_state, data_run_id, data_manifest
  filled,      \* the deployment has a succeeded initial fill
  picks,       \* what the generator seeded by a run picks out of n files
  cutOff,      \* history: churns of disk d that were cut off before their
               \* manifest and not redone over the same list of files
  crashes, faults

world == <<disk, platter, picks, cutOff>>
row == <<order, data, filled>>
vars == <<world, agent, up, completed, row, crashes, faults>>

Stages == {"idle", "check", "plan", "mkfs", "jobs", "writing", "identity",
           "manifest", "sync", "marking", "flush", "report"}

File(kind, run, n) == [kind |-> kind, run |-> run, n |-> n]
Content(run, job, at) == [run |-> run, job |-> job, at |-> at]
NoManifest == [run |-> 0, sums |-> <<>>]
EmptyDisk ==
  [fs |-> FALSE, files |-> <<>>, manifest |-> NoManifest, id |-> FALSE,
   marker |-> 0]
Idle ==
  [stage |-> "idle", run |-> 0, type |-> "verify", d |-> 0, plans |-> <<>>,
   listed |-> <<>>, changed |-> {}, fresh |-> {}, result |-> "none"]

GlobalRegion == {File("global", 0, n) : n \in 1 .. GlobalFiles}
LocalRegion == {File("local", 0, n) : n \in 1 .. LocalFiles}
Growth(r, n) == {File("grow", r, i) : i \in 1 .. n}

Init ==
  /\ disk = [d \in Disks |-> EmptyDisk]
  /\ platter = [d \in Disks |-> NoManifest]
  /\ agent = Idle
  /\ up = FALSE
  /\ completed = {}
  /\ order = [run |-> 0, type |-> "verify", status |-> "none"]
  /\ data = [state |-> "unknown", run |-> 0, manifest |-> FALSE]
  /\ filled = FALSE
  /\ picks = {}
  /\ cutOff = [d \in Disks |-> {}]
  /\ crashes = 0
  /\ faults = 0

-----------------------------------------------------------------------------
(* What a boot-time inspection makes of the disks *)

Marked(d) == disk[d].fs /\ (disk[d].id \/ disk[d].marker # 0)
MarkedDisks == {d \in Disks : Marked(d)}
RunOnDisks ==
  LET runs == {d \in MarkedDisks : disk[d].marker # 0} IN
  IF runs = {} THEN 0 ELSE disk[Min(runs)].marker

(* Variant: one disk with data is enough. *)
DataStateOfAny ==
  [state |-> IF MarkedDisks = {} THEN "empty" ELSE "filled",
   run |-> RunOnDisks,
   manifest |-> MarkedDisks # {} /\ \A d \in MarkedDisks : disk[d].manifest.run # 0]

DataState ==
  [state |-> IF MarkedDisks = {} THEN "empty"
             ELSE IF MarkedDisks = Disks THEN "filled" ELSE "partial",
   run |-> RunOnDisks,
   manifest |-> MarkedDisks # {} /\ \A d \in MarkedDisks : disk[d].manifest.run # 0]

-----------------------------------------------------------------------------
(* The controller's side of an order *)

(* StartFill, with its precondition.  Bound: not while the agent is busy.   *)
NewRun(type) ==
  /\ order.status # "open"
  /\ order.run < MaxRuns
  /\ agent.stage = "idle"
  /\ type # "initial-fill" => filled \/ data.state = "filled"
  /\ order' = [run |-> order.run + 1, type |-> type, status |-> "open"]
  /\ UNCHANGED <<world, agent, up, completed, data, filled, crashes, faults>>

(* The run ends without its agent: cancelled, stalled, silent, too late. *)
EndRun ==
  /\ order.status = "open"
  /\ order' = [order EXCEPT !.status = "failed"]
  /\ UNCHANGED <<world, agent, up, completed, data, filled, crashes, faults>>

(* Any boot: inspectDisks, and the register call that reports what it saw. *)
Register ==
  /\ ~up
  /\ up' = TRUE
  /\ data' = DataState
  /\ UNCHANGED <<world, agent, completed, order, filled, crashes, faults>>

(* A heartbeat brings an order the agent is not busy with and has not       *)
(* finished in this lifetime.                                               *)
Dispatch ==
  /\ up
  /\ order.status = "open"
  /\ agent.stage = "idle"
  /\ order.run \notin completed
  /\ agent' = [Idle EXCEPT !.stage = "check", !.run = order.run, !.type = order.type]
  /\ UNCHANGED <<world, up, completed, row, crashes, faults>>

-----------------------------------------------------------------------------
(* The start of an order *)

(* Variant: any completed run is taken for this one. *)
AnyRunComplete(r) == \A d \in Disks : disk[d].fs /\ disk[d].marker # 0

RunAlreadyComplete(r) == \A d \in Disks : disk[d].fs /\ disk[d].marker = r

FirstStage(type) == IF type = "initial-fill" THEN "mkfs" ELSE "plan"

(* runFill: an order whose markers are all there is only confirmed. *)
RunFill ==
  /\ agent.stage = "check"
  /\ agent.type # "verify"
  /\ agent' = IF RunAlreadyComplete(agent.run)
              THEN [agent EXCEPT !.stage = "flush", !.result = "done"]
              ELSE [agent EXCEPT !.stage = FirstStage(agent.type), !.d = 1,
                                 !.plans = [d \in Disks |-> <<>>],
                                 !.listed = [d \in Disks |-> {}]]
  /\ UNCHANGED <<world, up, completed, row, crashes, faults>>

Verifies(d) == disk[d].fs /\ disk[d].manifest.run # 0 /\ disk[d].manifest.sums = disk[d].files

(* runVerify: sizes and checksums match, nothing missing, nothing extra. *)
RunVerify ==
  /\ agent.stage = "check"
  /\ agent.type = "verify"
  /\ agent' = [agent EXCEPT !.stage = "report",
                 !.result = IF \A d \in Disks : Verifies(d) THEN "done" ELSE "error"]
  /\ UNCHANGED <<world, up, completed, row, crashes, faults>>

-----------------------------------------------------------------------------
(* planChurn *)

(* os.ReadDir of the local directory: the order of names, growth first. *)
NameBefore(f, g) ==
  \/ f.kind = "grow" /\ g.kind = "local"
  \/ f.kind = g.kind /\ f.run < g.run
  \/ f.kind = g.kind /\ f.run = g.run /\ f.n < g.n
Local(d) == {f \in DOMAIN disk[d].files : f.kind # "global"}
Position(f, files) == Cardinality({g \in files : NameBefore(g, f)}) + 1

NChange(n) ==
  IF ChangePercent > 0 /\ n > 0
  THEN Max({1, Min({n, (n * ChangePercent + 50) \div 100})}) ELSE 0
NGrow(n) == (n * GrowthPercent) \div 100

(* The shuffle is the same for the same run and number of files. *)
PickChangeSet(r, n, at) ==
  /\ at \in kSubset(NChange(n), 1 .. n)
  /\ \A p \in picks : (p.run = r /\ p.n = n) => p.at = at
  /\ picks' = picks \cup {[run |-> r, n |-> n, at |-> at]}

(* One fio job per file to rewrite, by name, and one for all of the growth. *)
Rewrites(r, files) ==
  [i \in 1 .. Cardinality(files) |->
     [files |-> {f \in files : Position(f, files) = i}, content |-> Content(r, "change", i)]]
GrowJob(r, n) ==
  IF NGrow(n) = 0 THEN <<>>
  ELSE <<[files |-> Growth(r, NGrow(n)), content |-> Content(r, "grow", 0)]>>

PlanChurn ==
  LET d == agent.d
      listed == Local(d)
      n == Cardinality(listed) IN
  /\ agent.stage = "plan"
  /\ disk[d].fs /\ listed # {}
  /\ \E at \in SUBSET (1 .. n) :
       /\ PickChangeSet(agent.run, n, at)
       /\ agent' = [agent EXCEPT
            !.plans[d] = Rewrites(agent.run, {f \in listed : Position(f, listed) \in at})
                         \o GrowJob(agent.run, n),
            !.listed[d] = listed,
            !.d = IF d < NDisks THEN d + 1 ELSE 1,
            !.stage = IF d < NDisks THEN "plan" ELSE "jobs"]
  /\ UNCHANGED <<disk, platter, cutOff, up, completed, row, crashes, faults>>

(* Nothing to churn: no filesystem, or no local directory. *)
PlanFails ==
  /\ agent.stage = "plan"
  /\ ~disk[agent.d].fs \/ Local(agent.d) = {}
  /\ agent' = [agent EXCEPT !.stage = "report", !.result = "error"]
  /\ UNCHANGED <<world, up, completed, row, crashes, faults>>

-----------------------------------------------------------------------------
(* makeFS and fillRegion: disk after disk, the old data goes first *)

(* Variant: what identified the disk survives. *)
WipeData ==
  /\ agent.stage = "mkfs"
  /\ disk[agent.d].fs
  /\ disk' = [disk EXCEPT ![agent.d].fs = FALSE, ![agent.d].files = <<>>]
  /\ platter' = [platter EXCEPT ![agent.d] = NoManifest]
  /\ cutOff' = [cutOff EXCEPT ![agent.d] = {}]
  /\ UNCHANGED <<picks, agent, up, completed, row, crashes, faults>>

Wipe ==
  /\ agent.stage = "mkfs"
  /\ disk[agent.d].fs
  /\ disk' = [disk EXCEPT ![agent.d] = EmptyDisk]
  /\ platter' = [platter EXCEPT ![agent.d] = NoManifest]
  /\ cutOff' = [cutOff EXCEPT ![agent.d] = {}]
  /\ UNCHANGED <<picks, agent, up, completed, row, crashes, faults>>

(* One fio job per region; a region of no bytes has no job. *)
Region(r, files, name) ==
  IF files = {} THEN <<>>
  ELSE <<[files |-> files, content |-> Content(r, name, 0)]>>

MakeFS ==
  /\ agent.stage = "mkfs"
  /\ ~disk[agent.d].fs
  /\ disk' = [disk EXCEPT ![agent.d].fs = TRUE]
  /\ agent' = [agent EXCEPT !.stage = "jobs",
       !.plans[agent.d] = Region(agent.run, GlobalRegion, "global")
                            \o Region(agent.run, LocalRegion, "local")]
  /\ UNCHANGED <<platter, picks, cutOff, up, completed, row, crashes, faults>>

-----------------------------------------------------------------------------
(* fio: a job lays out its files, then writes them *)

HalfWritten ==
  Content(agent.run, IF agent.type = "initial-fill" THEN "unwritten" ELSE "torn", 0)
Written(d, files, content) ==
  [f \in files \cup DOMAIN disk[d].files |->
     IF f \in files THEN content ELSE disk[d].files[f]]

BeginJob ==
  LET d == agent.d
      job == Head(agent.plans[d]) IN
  /\ agent.stage = "jobs"
  /\ agent.plans[d] # <<>>
  /\ disk' = [disk EXCEPT ![d].files = Written(d, job.files, HalfWritten)]
  /\ agent' = [agent EXCEPT !.stage = "writing",
                            !.fresh = job.files \ DOMAIN disk[d].files]
  /\ UNCHANGED <<platter, picks, cutOff, up, completed, row, crashes, faults>>

(* end_fsync: the files of a job that has ended are durable.  The files of  *)
(* an incremental are noted as changed; every growth file of the run is.    *)
EndJob ==
  LET d == agent.d
      job == Head(agent.plans[d]) IN
  /\ agent.stage = "writing"
  /\ disk' = [disk EXCEPT ![d].files = Written(d, job.files, job.content)]
  /\ agent' = [agent EXCEPT !.stage = "jobs", !.plans[d] = Tail(@), !.fresh = {},
       !.changed =
         IF agent.type = "initial-fill" THEN {}
         ELSE IF job.content.job = "change" THEN @ \cup job.files
         ELSE @ \cup {f \in DOMAIN disk[d].files : f.kind = "grow" /\ f.run = agent.run}]
  /\ UNCHANGED <<platter, picks, cutOff, up, completed, row, crashes, faults>>

DiskWritten ==
  /\ agent.stage = "jobs"
  /\ agent.plans[agent.d] = <<>>
  /\ agent' = [agent EXCEPT !.stage = "identity"]
  /\ UNCHANGED <<world, up, completed, row, crashes, faults>>

-----------------------------------------------------------------------------
(* What makes a disk self-describing: identity, manifest, run marker *)

WriteIdentity ==
  /\ agent.stage = "identity"
  /\ disk' = [disk EXCEPT ![agent.d].id = TRUE]
  /\ agent' = [agent EXCEPT !.stage = "manifest"]
  /\ UNCHANGED <<platter, picks, cutOff, up, completed, row, crashes, faults>>

(* A failing identity write is only logged.  Bound: MaxFaults. *)
SkipIdentity ==
  /\ agent.stage = "identity"
  /\ faults < MaxFaults
  /\ faults' = faults + 1
  /\ agent' = [agent EXCEPT !.stage = "manifest"]
  /\ UNCHANGED <<world, up, completed, row, crashes>>

(* Variant: a file that has an entry keeps it. *)
ChecksumsOfNewFiles(d, changed) ==
  LET old == disk[d].manifest.sums IN
  [f \in DOMAIN disk[d].files |->
     IF f \in DOMAIN old THEN old[f] ELSE disk[d].files[f]]

(* Files not in `changed` keep the checksum the old manifest has. *)
Checksums(d, changed) ==
  LET old == disk[d].manifest.sums IN
  [f \in DOMAIN disk[d].files |->
     IF f \in DOMAIN old \ changed THEN old[f] ELSE disk[d].files[f]]

(* updateDiskManifest up to the rename. *)
UpdateDiskManifest ==
  /\ agent.stage = "manifest"
  /\ disk' = [disk EXCEPT ![agent.d].manifest =
       [run |-> agent.run, sums |-> Checksums(agent.d, agent.changed)]]
  /\ agent' = [agent EXCEPT !.stage = "sync"]
  /\ UNCHANGED <<platter, picks, cutOff, up, completed, row, crashes, faults>>

(* syncDir makes the renamed manifest durable; then the next disk.          *)
SyncDir ==
  LET d == agent.d IN
  /\ agent.stage = "sync"
  /\ platter' = [platter EXCEPT ![d] = disk[d].manifest]
  /\ cutOff' = [cutOff EXCEPT ![d] = @ \ {[run |-> agent.run, listed |-> agent.listed[d]]}]
  /\ agent' = [agent EXCEPT !.changed = {},
       !.d = IF d < NDisks THEN d + 1 ELSE 1,
       !.stage = IF d = NDisks THEN "marking"
                 ELSE IF agent.type = "initial-fill" THEN "mkfs" ELSE "jobs"]
  /\ UNCHANGED <<disk, picks, up, completed, row, crashes, faults>>

NextMarker ==
  agent' = [agent EXCEPT !.d = IF @ < NDisks THEN @ + 1 ELSE 1,
              !.stage = IF agent.d < NDisks THEN "marking" ELSE "flush",
              !.result = IF agent.d < NDisks THEN @ ELSE "done"]

(* Markers are written when every disk is finished, disk after disk. *)
WriteMarker ==
  /\ agent.stage = "marking"
  /\ disk' = [disk EXCEPT ![agent.d].marker = agent.run]
  /\ NextMarker
  /\ UNCHANGED <<platter, picks, cutOff, up, completed, row, crashes, faults>>

(* Best effort: a failing marker write is only logged.  Bound: MaxFaults. *)
SkipMarker ==
  /\ agent.stage = "marking"
  /\ faults < MaxFaults
  /\ faults' = faults + 1
  /\ NextMarker
  /\ UNCHANGED <<world, up, completed, row, crashes>>

(* flushDisks: a global sync, and everything unmounted. *)
FlushDisks ==
  /\ agent.stage = "flush"
  /\ platter' = [d \in Disks |-> disk[d].manifest]
  /\ agent' = [agent EXCEPT !.stage = "report", !.fresh = {}]
  /\ UNCHANGED <<disk, picks, cutOff, up, completed, row, crashes, faults>>

-----------------------------------------------------------------------------
(* Steps that fail, reports, crashes *)

(* The churn that is over without its manifest, if there is one. *)
ChurnCutOff ==
  IF agent.type = "incremental"
     /\ \/ agent.stage = "writing"
        \/ agent.stage \in {"jobs", "identity", "manifest", "sync"}
           /\ agent.changed # {}
  THEN [cutOff EXCEPT ![agent.d] = @ \cup {[run |-> agent.run, listed |-> agent.listed[agent.d]]}]
  ELSE cutOff

(* mkfs, fio, hashing or writing fails: the disks are flushed, and the error *)
(* is reported.  Bound: MaxFaults.                                           *)
StepFails ==
  /\ agent.stage \in {"mkfs", "writing", "manifest"}
  /\ faults < MaxFaults
  /\ faults' = faults + 1
  /\ cutOff' = ChurnCutOff
  /\ agent' = [agent EXCEPT !.stage = "flush", !.result = "error"]
  /\ UNCHANGED <<disk, platter, picks, up, completed, row, crashes>>

(* The call of the agent is answered: ReportFillProgress. *)
Report ==
  LET done == agent.result = "done"
      writes == agent.type # "verify" IN
  /\ agent.stage = "report"
  /\ order' = [order EXCEPT !.status = IF done THEN "done" ELSE "failed"]
  /\ data' = IF done /\ writes
             THEN [state |-> "filled", run |-> order.run, manifest |-> TRUE] ELSE data
  /\ filled' = (filled \/ (done /\ agent.type = "initial-fill" /\ order.status = "open"))
  /\ completed' = completed \cup {agent.run}
  /\ agent' = Idle
  /\ UNCHANGED <<world, up, crashes, faults>>

(* postReliable gives up.  Bound: MaxFaults. *)
LoseReport ==
  /\ agent.stage = "report"
  /\ faults < MaxFaults
  /\ faults' = faults + 1
  /\ completed' = completed \cup {agent.run}
  /\ agent' = Idle
  /\ UNCHANGED <<world, up, row, crashes>>

(* What a power cut may leave of disk d: files of the running job that were *)
(* not durable are gone, and a marker file in the middle of its rewriting   *)
(* is old, empty or new.                                                    *)
AfterPowerCut(d, gone, id, marker) ==
  [disk[d] EXCEPT
     !.files = [f \in DOMAIN disk[d].files \ (IF d = agent.d THEN gone ELSE {}) |-> disk[d].files[f]],
     !.id = IF d = agent.d /\ agent.stage = "identity" THEN id ELSE @,
     !.marker = IF d = agent.d /\ agent.stage = "marking"
                THEN CASE marker = "old" -> @ [] marker = "empty" -> 0 [] OTHER -> agent.run
                ELSE @]

(* A rename that was not synced may be on the disk all the same. *)
PowerCut ==
  /\ up
  /\ \E gone \in SUBSET agent.fresh, id \in BOOLEAN,
        marker \in {"old", "empty", "new"}, kept \in SUBSET Disks :
       LET left == [d \in Disks |-> IF d \in kept THEN disk[d].manifest ELSE platter[d]] IN
       /\ disk' = [d \in Disks |->
            [AfterPowerCut(d, gone, id, marker) EXCEPT !.manifest = left[d]]]
       /\ platter' = left
  /\ cutOff' = ChurnCutOff
  /\ agent' = Idle
  /\ up' = FALSE
  /\ completed' = {}
  /\ UNCHANGED <<picks, row, faults>>

(* The guest dies while an order is open.  Bound: MaxCrashes. *)
Crash ==
  /\ order.status = "open"
  /\ crashes < MaxCrashes
  /\ crashes' = crashes + 1
  /\ PowerCut

(* The controller switches the VM off after a run, whatever it is doing. *)
PowerOff ==
  /\ order.status # "open"
  /\ UNCHANGED crashes
  /\ PowerCut

-----------------------------------------------------------------------------

Next ==
  \/ \E type \in Types : NewRun(type)
  \/ EndRun \/ Register \/ Dispatch
  \/ RunFill \/ RunVerify \/ PlanChurn \/ PlanFails
  \/ Wipe \/ MakeFS \/ BeginJob \/ EndJob \/ DiskWritten
  \/ WriteIdentity \/ SkipIdentity \/ UpdateDiskManifest \/ SyncDir
  \/ WriteMarker \/ SkipMarker \/ FlushDisks
  \/ StepFails \/ Report \/ LoseReport \/ Crash \/ PowerOff

Spec == Init /\ [][Next]_vars

-----------------------------------------------------------------------------
(* Properties *)

Contents == [run : Runs, job : {"global", "local", "change", "grow", "unwritten", "torn"}, at : Nat]
IsManifest(m) == m.run \in 0 .. MaxRuns /\ \A f \in DOMAIN m.sums : m.sums[f] \in Contents

(* Every file a disk, a manifest or a plan names has a content that some    *)
(* job of a run left there, and an agent at work has an order and a disk.   *)
TypeOK ==
  /\ \A d \in Disks :
       /\ IsManifest(disk[d].manifest) /\ IsManifest(platter[d])
       /\ \A f \in DOMAIN disk[d].files : disk[d].files[f] \in Contents
       /\ disk[d].id \in BOOLEAN /\ disk[d].marker \in 0 .. MaxRuns
       /\ ~disk[d].fs => disk[d] = EmptyDisk
  /\ agent.stage \in Stages
  /\ agent.stage # "idle" => up /\ agent.run = order.run /\ agent.run \in Runs
  /\ agent.stage \in {"mkfs", "plan", "jobs", "writing", "identity", "manifest", "sync", "marking"}
       => agent.d \in Disks
  /\ agent.stage \in {"jobs", "writing", "identity", "manifest", "sync", "marking"}
       => disk[agent.d].fs
  /\ completed \subseteq Runs
  /\ order.status \in {"none", "open", "done", "failed"} /\ order.type \in Types
  /\ data.state \in {"unknown", "empty", "partial", "filled"}
  /\ up \in BOOLEAN /\ filled \in BOOLEAN
  /\ crashes \in 0 .. MaxCrashes /\ faults \in 0 .. MaxFaults

Churned == order.status = "done" /\ order.type # "verify"

(* manifest.go 17-36: once a run that writes is done, what is on every disk *)
(* matches its manifest, whatever crashed on the way and also when the VM   *)
(* is switched off right after the report; the exception are disks with an  *)
(* incremental that was cut off and was not redone over the same files.     *)
DoneVerifies ==
  Churned => \A d \in Disks : cutOff[d] = {} => Verifies(d)

(* gen.go 46-48: a run reported done has been carried out on every disk, in *)
(* this attempt or in one before a crash: all of an initial fill, the first *)
(* churn and the growth of an incremental (more where there was more data,  *)
(* less where an initial fill was cut off); nothing is left half-written.    *)
DoneMeansWritten ==
  Churned =>
    \A d \in Disks :
      LET files == disk[d].files
          mine == {f \in DOMAIN files : files[f].run = order.run} IN
      /\ order.type = "initial-fill" => mine = GlobalRegion \cup LocalRegion
      /\ order.type = "incremental" /\ ChangePercent > 0 =>
           \E f \in mine : files[f].job = "change"
      /\ order.type = "incremental" /\ LocalRegion \subseteq DOMAIN files =>
           Growth(order.run, NGrow(LocalFiles)) \subseteq mine
      /\ \A f \in mine : files[f].job \notin {"unwritten", "torn"}

Whole(d) ==
  /\ disk[d].fs
  /\ GlobalRegion \cup LocalRegion \subseteq DOMAIN disk[d].files
  /\ \A f \in DOMAIN disk[d].files : disk[d].files[f].job # "unwritten"

ByIncremental(d) ==
  \E f \in DOMAIN disk[d].files : disk[d].files[f].job \in {"change", "grow", "torn"}

(* model.go 282-290, boot.go 110-117: when a register or a report makes the *)
(* row of a VM say that its disks are filled, they are: every data disk has *)
(* been through all of an initial fill, and none has since been wiped for   *)
(* another attempt.  A disk an incremental has written to is left aside: it *)
(* is stamped by the incremental, which does not ask what it was run over;  *)
(* of no change and no growth, it even stamps a disk it writes nothing to.  *)
FilledReportIsTrue ==
  [][ChangePercent > 0 /\ data' # data /\ data'.state = "filled"
       => (\A d \in Disks : Whole(d) \/ ByIncremental(d))']_vars

(* gen.go 46-48, 406-407: "a re-dispatched run redoes exactly the same work" *)
(* and is safe: a run that is done verifies, whatever happened before it.    *)
CompletedRunVerifies ==
  Churned => \A d \in Disks : Verifies(d)

=============================================================================
