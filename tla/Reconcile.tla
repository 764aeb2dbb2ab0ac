----------------------------- MODULE Reconcile -----------------------------
(***************************************************************************)
(* What deploy, scale-up and teardown jobs do on the hypervisor            *)
(* (internal/orch/orchestrator.go: reconcileCore, findConflicts, teardown; *)
(* internal/hypervisor/vsphere/driver.go: CreateVM, AddDisks, DeleteVM).   *)
(*                                                                         *)
(* The deployments share one folder and one naming scheme, so that their   *)
(* i-th VMs compete for one name; VMs that no deployment of this           *)
(* controller created may be there as well.  Orchestrator.tla shows that a *)
(* deployment has one job at a time, which is where this module starts.    *)
(* A driver call may fail before or after it took effect; cancelling the   *)
(* job makes its calls fail.  The disks' size is left out: ExtendDisks     *)
(* compares with the disks that exist, so that only its failing matters.   *)
(***************************************************************************)
EXTENDS Naturals, FiniteSetsExt

CONSTANTS
  Deployments,   \* deployments placed in the folder
  Foreign,       \* the owner of a VM whose annotation names no deployment
  Nobody,        \* the owner of a name no VM has
  Modes,         \* Modes[d]: the conflict modes the callers of d ask for
  MaxVMs,        \* bound on vmCount
  Growing,       \* those whose disksPerVM callers raise
  MaxDisks,      \* bound on disksPerVM
  MaxGen,        \* bound on the VMs ever created under one name
  MaxFaults      \* bound on failing driver calls and controller restarts

ASSUME ReconcileAssumption ==
  /\ Foreign \notin Deployments /\ Nobody \notin Deployments \cup {Foreign}
  /\ Modes \in [Deployments -> SUBSET {"abort", "clean", "adopt"}]
  /\ Growing \subseteq Deployments
  /\ {MaxVMs, MaxDisks, MaxGen, MaxFaults} \subseteq Nat
  /\ MaxVMs > 0 /\ MaxDisks > 0 /\ MaxGen > 0

VARIABLES
  hv,        \* hv[n]: the VM named n, with the number of its creation
  rows,      \* rows[d][n]: d's managed_vms row for n, with the VM's reference
  want,      \* want[d]: deployments.spec
  status,    \* status[d]: deployments.status
  job,       \* job[d]: the goroutine working on d
  faults     \* failing driver calls and restarts so far

vars == <<hv, rows, want, status, job, faults>>

Names == 1..MaxVMs
Specs == [count : Names, disks : 1..MaxDisks]
NoRow == [gen |-> 0, disks |-> 0]
NoVM(gen) == [gen |-> gen, owner |-> Nobody, disks |-> 0]

(* spec: the configuration the job was started with; conflicts: the VMs the *)
(* clean mode is to delete; todo and made: the missing VMs without a worker *)
(* and those created but not recorded; left: the rows to grow or tear down; *)
(* failed: some worker failed.                                              *)
Phases == {"checking", "cleaning", "creating", "growing", "recording",
           "destroying", "forgetting"}
NoJob ==
  [phase |-> "none", mode |-> "abort", spec |-> [count |-> 1, disks |-> 1],
   conflicts |-> {}, todo |-> {}, made |-> [n \in Names |-> 0],
   left |-> {}, failed |-> FALSE]

Init ==
  /\ hv \in [Names -> {NoVM(0), [gen |-> 1, owner |-> Foreign, disks |-> 1]}]
  /\ rows = [d \in Deployments |-> [n \in Names |-> NoRow]]
  /\ want = [d \in Deployments |-> [count |-> 1, disks |-> 1]]
  /\ status = [d \in Deployments |-> "new"]
  /\ job = [d \in Deployments |-> NoJob]
  /\ faults = 0

Exists(n) == hv[n].owner # Nobody
Recorded(d) == {n \in Names : rows[d][n] # NoRow}
Target(d) == 1..job[d].spec.count
(* The row's reference still names a VM. *)
Alive(d, n) == Exists(n) /\ hv[n].gen = rows[d][n].gen

MoveJob(d, j) == job' = [job EXCEPT ![d] = j]
EndJob(d, s) ==
  /\ MoveJob(d, NoJob)
  /\ status' = [status EXCEPT ![d] = s]
Fault == faults < MaxFaults /\ faults' = faults + 1

-----------------------------------------------------------------------------
(* What callers ask for.                                                    *)

(* The spec can only grow, and may do so while a job is running. *)
UpdateDeploymentSpec(d) ==
  /\ \E s \in Specs :
       /\ s # want[d]
       /\ s.count >= want[d].count /\ s.disks >= want[d].disks
       /\ s.disks > want[d].disks => d \in Growing
       /\ want' = [want EXCEPT ![d] = s]
  /\ UNCHANGED <<hv, rows, status, job, faults>>

DeployJob(d, mode) ==
  [NoJob EXCEPT !.phase = "checking", !.mode = mode, !.spec = want[d]]

StartDeploy(d) ==
  /\ job[d] = NoJob
  /\ status[d] \notin {"deleting", "deleted"}
  /\ \E mode \in Modes[d] : MoveJob(d, DeployJob(d, mode))
  /\ status' = [status EXCEPT ![d] = "deploying"]
  /\ UNCHANGED <<hv, rows, want, faults>>

TeardownJob(d) ==
  [NoJob EXCEPT !.phase = "destroying", !.left = Recorded(d)]

StartTeardown(d) ==
  /\ job[d] = NoJob
  /\ status[d] # "deleted"
  /\ Recorded(d) # {}
  /\ MoveJob(d, TeardownJob(d))
  /\ status' = [status EXCEPT ![d] = "deleting"]
  /\ UNCHANGED <<hv, rows, want, faults>>

(* A deployment without rows is deleted on the spot, whatever its job does. *)
DeleteEmpty(d) ==
  /\ status[d] # "deleted"
  /\ Recorded(d) = {}
  /\ status' = [status EXCEPT ![d] = "deleted"]
  /\ UNCHANGED <<hv, rows, want, job, faults>>

-----------------------------------------------------------------------------
(* Conflicts: names to be created that a VM of another owner has.           *)

(* Variant: only the VMs of deployments the controller knows. *)
KnownConflicts(d) ==
  {<<n, hv[n].gen>> : n \in {m \in Target(d) \ Recorded(d) :
                               hv[m].owner \in Deployments \ {d}}}

(* Variant: among all the target names. *)
AllConflicts(d) ==
  {<<n, hv[n].gen>> : n \in {m \in Target(d) :
                               hv[m].owner \notin {Nobody, d}}}

Conflicts(d) ==
  {<<n, hv[n].gen>> : n \in {m \in Target(d) \ Recorded(d) :
                               hv[m].owner \notin {Nobody, d}}}

(* Variant: VMs that bear the deployment's stamp count as done. *)
MissingUnstamped(d) == {n \in Target(d) \ Recorded(d) : hv[n].owner # d}

(* Variant: a zero-based loop over one-based names. *)
MissingZeroBased(d) == {n \in Target(d) \ Recorded(d) : n < job[d].spec.count}

(* The VMs still to be created, from the rows the job read at its start. *)
Missing(d) == Target(d) \ Recorded(d)

Resolved(d) ==
  [job[d] EXCEPT !.phase = "creating", !.todo = Missing(d), !.conflicts = {}]

FindNoConflict(d) ==
  /\ job[d].phase = "checking"
  /\ Conflicts(d) = {} \/ job[d].mode = "adopt"
  /\ MoveJob(d, Resolved(d))
  /\ UNCHANGED <<hv, rows, want, status, faults>>

AbortOnConflict(d) ==
  /\ job[d].phase = "checking"
  /\ Conflicts(d) # {}
  /\ job[d].mode = "abort"
  /\ EndJob(d, "error")
  /\ UNCHANGED <<hv, rows, want, faults>>

CleanConflicts(d) ==
  /\ job[d].phase = "checking"
  /\ Conflicts(d) # {}
  /\ job[d].mode = "clean"
  /\ MoveJob(d, [job[d] EXCEPT !.phase = "cleaning",
                               !.conflicts = Conflicts(d)])
  /\ UNCHANGED <<hv, rows, want, status, faults>>

(* The hypervisor without the VM that a reference names, if there is one. *)
Without(n, gen) ==
  IF hv[n].gen = gen THEN [hv EXCEPT ![n] = NoVM(gen)] ELSE hv

DeleteConflict(d) ==
  /\ job[d].phase = "cleaning"
  /\ \E c \in job[d].conflicts :
       /\ hv' = Without(c[1], c[2])
       /\ MoveJob(d, IF job[d].conflicts = {c} THEN Resolved(d)
                     ELSE [job[d] EXCEPT !.conflicts = @ \ {c}])
  /\ UNCHANGED <<rows, want, status, faults>>

DeleteConflictFails(d) ==
  /\ job[d].phase = "cleaning"
  /\ Fault
  /\ \E c \in job[d].conflicts : hv' \in {hv, Without(c[1], c[2])}
  /\ EndJob(d, "error")
  /\ UNCHANGED <<rows, want>>

FindConflictsFails(d) ==
  /\ job[d].phase = "checking"
  /\ Fault
  /\ EndJob(d, "error")
  /\ UNCHANGED <<hv, rows, want>>

-----------------------------------------------------------------------------
(* Creating: one worker per missing VM, in parallel.                        *)

(* vSphere's duplicate-name fault makes CreateVM take the VM there is. *)
Created(d, n) ==
  [hv EXCEPT ![n] =
     IF Exists(n) THEN [@ EXCEPT !.owner = d]
     ELSE [gen |-> @.gen + 1, owner |-> d, disks |-> job[d].spec.disks]]

Creating(d, n) ==
  /\ job[d].phase = "creating"
  /\ n \in job[d].todo
  /\ Exists(n) \/ hv[n].gen < MaxGen

CreateVM(d, n) ==
  /\ Creating(d, n)
  /\ hv' = Created(d, n)
  /\ MoveJob(d, [job[d] EXCEPT !.todo = @ \ {n}, !.made[n] = hv'[n].gen])
  /\ UNCHANGED <<rows, want, status, faults>>

(* An error of the re-stamping is ignored. *)
AdoptUnstamped(d, n) ==
  /\ Creating(d, n)
  /\ Exists(n)
  /\ Fault
  /\ MoveJob(d, [job[d] EXCEPT !.todo = @ \ {n}, !.made[n] = hv[n].gen])
  /\ UNCHANGED <<hv, rows, want, status>>

(* Before the VM exists, or after: tagging it comes last.  The other workers *)
(* carry on.                                                                 *)
CreateVMFails(d, n) ==
  /\ Creating(d, n)
  /\ Fault
  /\ hv' \in {hv, Created(d, n)}
  /\ MoveJob(d, [job[d] EXCEPT !.todo = @ \ {n}, !.failed = TRUE])
  /\ UNCHANGED <<rows, want, status>>

AddManagedVM(d, n) ==
  /\ job[d].phase = "creating"
  /\ job[d].made[n] # 0
  /\ rows' = [rows EXCEPT ![d][n] =
       [gen |-> job[d].made[n], disks |-> job[d].spec.disks]]
  /\ MoveJob(d, [job[d] EXCEPT !.made[n] = 0])
  /\ UNCHANGED <<hv, want, status, faults>>

WorkersDone(d) ==
  /\ job[d].phase = "creating"
  /\ job[d].todo = {}
  /\ \A n \in Names : job[d].made[n] = 0

(* The rows this run added have the wanted shape, so that the rows read at  *)
(* its start are the only ones to grow.                                     *)
GoOnToGrow(d) ==
  /\ WorkersDone(d)
  /\ ~job[d].failed
  /\ MoveJob(d, [job[d] EXCEPT !.phase = "growing",
       !.left = {n \in Recorded(d) : rows[d][n].disks # job[d].spec.disks}])
  /\ UNCHANGED <<hv, rows, want, status, faults>>

WorkerFailed(d) ==
  /\ WorkersDone(d)
  /\ job[d].failed
  /\ EndJob(d, "error")
  /\ UNCHANGED <<hv, rows, want, faults>>

-----------------------------------------------------------------------------
(* Growing: one recorded VM after the other, in the order of their names.   *)

GrowthOf(d, n) == job[d].spec.disks - rows[d][n].disks
WithMoreDisks(d, n) == [hv EXCEPT ![n].disks = @ + GrowthOf(d, n)]

(* Variant: the row is taken off the list before it is updated. *)
AddDisksPops(d) ==
  /\ job[d].phase = "growing"
  /\ job[d].left # {}
  /\ LET n == Min(job[d].left) IN
       /\ Alive(d, n)
       /\ hv' = WithMoreDisks(d, n)
       /\ MoveJob(d, [job[d] EXCEPT !.phase = "recording", !.left = @ \ {n}])
  /\ UNCHANGED <<rows, want, status, faults>>

AddDisks(d) ==
  /\ job[d].phase = "growing"
  /\ job[d].left # {}
  /\ LET n == Min(job[d].left) IN
       Alive(d, n) /\ hv' = WithMoreDisks(d, n)
  /\ MoveJob(d, [job[d] EXCEPT !.phase = "recording"])
  /\ UNCHANGED <<rows, want, status, faults>>

(* The call does not return its success, or its VM is gone. *)
AddDisksFails(d) ==
  /\ job[d].phase = "growing"
  /\ job[d].left # {}
  /\ LET n == Min(job[d].left) IN
       \/ Alive(d, n) /\ Fault /\ hv' \in {hv, WithMoreDisks(d, n)}
       \/ ~Alive(d, n) /\ UNCHANGED <<hv, faults>>
  /\ EndJob(d, "error")
  /\ UNCHANGED <<rows, want>>

(* Extending the disks of the same VM comes before its row is written. *)
ExtendDisksFails(d) ==
  /\ job[d].phase = "recording"
  /\ Fault
  /\ EndJob(d, "error")
  /\ UNCHANGED <<hv, rows, want>>

UpdateManagedVMDisks(d) ==
  /\ job[d].phase = "recording"
  /\ LET n == Min(job[d].left) IN
       /\ rows' = [rows EXCEPT ![d][n].disks = job[d].spec.disks]
       /\ MoveJob(d, [job[d] EXCEPT !.phase = "growing", !.left = @ \ {n}])
  /\ UNCHANGED <<hv, want, status, faults>>

FinishDeploy(d) ==
  /\ job[d].phase = "growing"
  /\ job[d].left = {}
  /\ EndJob(d, "ready")
  /\ UNCHANGED <<hv, rows, want, faults>>

-----------------------------------------------------------------------------
(* Teardown: the VM, then its row; a VM already gone is no error.           *)

DeleteVM(d) ==
  /\ job[d].phase = "destroying"
  /\ job[d].left # {}
  /\ LET n == Min(job[d].left) IN hv' = Without(n, rows[d][n].gen)
  /\ MoveJob(d, [job[d] EXCEPT !.phase = "forgetting"])
  /\ UNCHANGED <<rows, want, status, faults>>

(* Variant: a failing call is logged and passed over. *)
DeleteVMPassesOver(d) ==
  /\ job[d].phase = "destroying"
  /\ job[d].left # {}
  /\ Fault
  /\ LET n == Min(job[d].left) IN hv' \in {hv, Without(n, rows[d][n].gen)}
  /\ MoveJob(d, [job[d] EXCEPT !.phase = "forgetting"])
  /\ UNCHANGED <<rows, want, status>>

DeleteVMFails(d) ==
  /\ job[d].phase = "destroying"
  /\ job[d].left # {}
  /\ Fault
  /\ LET n == Min(job[d].left) IN hv' \in {hv, Without(n, rows[d][n].gen)}
  /\ EndJob(d, "error")
  /\ UNCHANGED <<rows, want>>

DeleteManagedVM(d) ==
  /\ job[d].phase = "forgetting"
  /\ LET n == Min(job[d].left) IN
       /\ rows' = [rows EXCEPT ![d][n] = NoRow]
       /\ MoveJob(d, [job[d] EXCEPT !.phase = "destroying", !.left = @ \ {n}])
  /\ UNCHANGED <<hv, want, status, faults>>

FinishTeardown(d) ==
  /\ job[d].phase = "destroying"
  /\ job[d].left = {}
  /\ EndJob(d, "deleted")
  /\ UNCHANGED <<hv, rows, want, faults>>

-----------------------------------------------------------------------------
(* A restart loses the goroutines; ResumeInterrupted starts them anew with  *)
(* the spec and the rows of today, and deploys in the abort mode.           *)
Resume(d) ==
  IF job[d] = NoJob THEN NoJob
  ELSE IF job[d].phase \in {"destroying", "forgetting"} THEN TeardownJob(d)
  ELSE DeployJob(d, "abort")

Restart ==
  /\ Fault
  /\ job' = [d \in Deployments |-> Resume(d)]
  /\ UNCHANGED <<hv, rows, want, status>>

CallerNext(d) ==
  UpdateDeploymentSpec(d) \/ StartDeploy(d) \/ StartTeardown(d) \/ DeleteEmpty(d)

ConflictNext(d) ==
  \/ FindNoConflict(d) \/ AbortOnConflict(d) \/ CleanConflicts(d)
  \/ DeleteConflict(d) \/ DeleteConflictFails(d) \/ FindConflictsFails(d)

CreateNext(d) ==
  \/ \E n \in Names :
       \/ CreateVM(d, n) \/ AdoptUnstamped(d, n) \/ CreateVMFails(d, n)
       \/ AddManagedVM(d, n)
  \/ GoOnToGrow(d) \/ WorkerFailed(d)

GrowNext(d) ==
  \/ AddDisks(d) \/ AddDisksFails(d) \/ ExtendDisksFails(d)
  \/ UpdateManagedVMDisks(d) \/ FinishDeploy(d)

TeardownNext(d) ==
  DeleteVM(d) \/ DeleteVMFails(d) \/ DeleteManagedVM(d) \/ FinishTeardown(d)

Next ==
  \/ \E d \in Deployments :
       \/ CallerNext(d) \/ ConflictNext(d) \/ CreateNext(d)
       \/ GrowNext(d) \/ TeardownNext(d)
  \/ Restart

Spec == Init /\ [][Next]_vars

-----------------------------------------------------------------------------
(* Every variable has its type, and a job in a phase of its own kind. *)
TypeOK ==
  /\ hv \in [Names -> [gen : 0..MaxGen,
                       owner : Deployments \cup {Foreign, Nobody},
                       disks : Nat]]
  /\ rows \in [Deployments -> [Names -> [gen : 0..MaxGen, disks : 0..MaxDisks]]]
  /\ want \in [Deployments -> Specs]
  /\ status \in [Deployments -> {"new", "deploying", "ready", "error",
                                 "deleting", "deleted"}]
  /\ \A d \in Deployments :
       /\ job[d].phase \in Phases \cup {"none"}
       /\ job[d].spec \in Specs
       /\ job[d].conflicts \subseteq Names \X (1..MaxGen)
       /\ job[d].todo \cup job[d].left \subseteq Names
       /\ job[d].made \in [Names -> 0..MaxGen]
       /\ job[d].phase \in {"recording", "forgetting"} => job[d].left # {}
  /\ faults \in 0..MaxFaults

(* A VM of unknown owner that no deployment has on record is taken over or   *)
(* deleted only by a job whose caller asked for it: a deploy in the abort    *)
(* mode leaves it alone, and so does one resumed after a restart             *)
(* (findConflicts, orchestrator.go:375-394).                                 *)
ForeignSpared ==
  [][\A n \in Names :
       /\ hv[n].owner = Foreign /\ hv'[n] # hv[n]
       /\ \A d \in Deployments : rows[d][n].gen # hv[n].gen
       =>
         \E d \in Deployments : job'[d] # job[d] /\ job[d].mode # "abort"]_vars

(* A deploy never deletes a VM its own deployment has on record, not even   *)
(* when the VM's annotation names somebody else (findConflicts looks only   *)
(* at names without a row, orchestrator.go:517-520).                        *)
CleanSparesRecorded ==
  [][\A d \in Deployments, n \in Names :
       /\ job'[d] # job[d]
       /\ job[d].phase \in {"checking", "cleaning", "creating", "growing"}
       /\ n \in Recorded(d) /\ Alive(d, n)
       => Alive(d, n)']_vars

(* A deploy that ends well leaves no VM behind which carries the            *)
(* deployment's stamp but is not on record: whatever an earlier attempt     *)
(* created and lost to an error, a cancel or a restart has been taken up    *)
(* (CreateVM's retry-safety, driver.go:405-419).                            *)
ReadyMeansNoOrphans ==
  \A d \in Deployments, n \in Names :
    status[d] = "ready" /\ hv[n].owner = d => n \in Recorded(d) /\ Alive(d, n)

(* A deploy that ends well has every VM it was asked for on record and all  *)
(* its rows in the wanted shape, whatever the spec, an earlier attempt or a *)
(* teardown that failed half-way left behind (orchestrator.go:399-485).     *)
DeployDelivers ==
  [][\A d \in Deployments :
       job[d].phase = "growing" /\ job'[d] = NoJob /\ status'[d] = "ready" =>
         /\ Target(d) \subseteq Recorded(d)
         /\ \A n \in Recorded(d) : rows[d][n].disks = job[d].spec.disks]_vars

(* A row is dropped only when its VM is gone, so that a teardown which is   *)
(* interrupted or fails can be repeated (teardown, orchestrator.go:564-579).*)
RecordsOutliveVMs ==
  [][\A d \in Deployments, n \in Names :
       n \in Recorded(d) /\ n \notin Recorded(d)' => ~Alive(d, n)]_vars

-----------------------------------------------------------------------------
(* Not so, see README.md: every driver call is safe to retry                *)
(* (hypervisor.go:94-95), so that no VM a deployment created has more disks *)
(* than the deployment has ever asked for.                                  *)
RetryAddsNothing ==
  \A d \in Deployments, n \in Names :
    hv[n].owner = d => hv[n].disks <= want[d].disks
=============================================================================
