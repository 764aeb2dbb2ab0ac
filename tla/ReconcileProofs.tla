-------------------------- MODULE ReconcileProofs --------------------------
(***************************************************************************)
(* Theorems about Reconcile: what a deploy and a teardown leave behind on   *)
(* the hypervisor and in the rows, for any number of deployments, VMs,      *)
(* disks, faults and restarts.                                              *)
(*                                                                         *)
(* The inductive invariant is, for each deployment, one conjunct per phase  *)
(* of its job, over two that hold in any phase: the rows never run ahead of *)
(* the hypervisor, and a VM that bears the deployment's stamp is the one    *)
(* its row names.  A step of another deployment reaches this one's part     *)
(* through the hypervisor only, in the few ways HvStep lists.               *)
(***************************************************************************)
EXTENDS Reconcile, WellFoundedInduction, TLAPS

-----------------------------------------------------------------------------
(* The inductive invariant.                                                 *)

VMs == [gen : 0..MaxGen, owner : Deployments \cup {Foreign, Nobody}, disks : Nat]
Rows == [gen : 0..MaxGen, disks : 0..MaxDisks]
Statuses == {"new", "deploying", "ready", "error", "deleting", "deleted"}
Jobs ==
  [phase : Phases \cup {"none"}, mode : {"abort", "clean", "adopt"}, spec : Specs,
   conflicts : SUBSET (Names \X (1..MaxGen)), todo : SUBSET Names,
   made : [Names -> 0..MaxGen], left : SUBSET Names, failed : BOOLEAN]

DeployPhases == {"checking", "cleaning", "creating", "growing", "recording"}

(* Every variable has its type, and a VM that exists was created. *)
Typed ==
  /\ hv \in [Names -> VMs]
  /\ rows \in [Deployments -> [Names -> Rows]]
  /\ want \in [Deployments -> Specs]
  /\ status \in [Deployments -> Statuses]
  /\ job \in [Deployments -> Jobs]
  /\ faults \in 0..MaxFaults
  /\ \A n \in Names : Exists(n) => hv[n].gen > 0

(* A row names a VM there has been, of no more disks than were asked for. *)
RowsBehind(d) ==
  \A n \in Names :
    /\ rows[d][n].gen <= hv[n].gen
    /\ rows[d][n].disks <= want[d].disks
    /\ n \in Recorded(d) => rows[d][n].gen > 0

(* A VM with d's stamp is one d asked for, and no other than the recorded. *)
StampsKept(d) ==
  \A n \in Names : hv[n].owner = d =>
    /\ n <= want[d].count
    /\ n \in Recorded(d) => hv[n].gen = rows[d][n].gen

(* A deploy's spec is no newer than the one asked for, but new enough for *)
(* everything that is there.                                              *)
DeployCovers(d) ==
  job[d].phase \in DeployPhases =>
    /\ job[d].spec.count <= want[d].count
    /\ job[d].spec.disks <= want[d].disks
    /\ \A n \in Names :
         /\ rows[d][n].disks <= job[d].spec.disks
         /\ hv[n].owner = d => n \in Target(d)

NothingMadeYet(d) ==
  job[d].phase \in {"checking", "cleaning"} => \A n \in Names : job[d].made[n] = 0

(* Only the clean mode deletes, and no name with a row. *)
CleansUnrecorded(d) ==
  job[d].phase = "cleaning" =>
    /\ job[d].mode = "clean"
    /\ \A c \in job[d].conflicts : c[1] \notin Recorded(d)

(* Every target is on record, on its way or lost to a failing worker; so is *)
(* every VM with d's stamp.                                                 *)
CreatesMissing(d) ==
  job[d].phase = "creating" =>
    /\ job[d].todo \cap Recorded(d) = {}
    /\ job[d].todo \subseteq Target(d)
    /\ \A n \in Names :
         /\ job[d].made[n] <= hv[n].gen
         /\ job[d].made[n] # 0 => n \notin Recorded(d) /\ n \notin job[d].todo
         /\ \/ job[d].failed
            \/ n \in Recorded(d) \cup job[d].todo
            \/ job[d].made[n] # 0
            \/ n \notin Target(d)
         /\ hv[n].owner = d /\ job[d].made[n] # 0 => job[d].made[n] = hv[n].gen
    /\ job[d].mode = "abort" => \A n \in job[d].todo : hv[n].owner # Foreign

GrowsRecorded(d) ==
  job[d].phase \in {"growing", "recording"} =>
    /\ job[d].left \subseteq Recorded(d)
    /\ Target(d) \subseteq Recorded(d)
    /\ \A n \in Recorded(d) \ job[d].left : rows[d][n].disks = job[d].spec.disks
    /\ job[d].phase = "recording" => job[d].left # {}

TearsDownRecorded(d) ==
  job[d].phase \in {"destroying", "forgetting"} =>
    /\ job[d].left \subseteq Recorded(d)
    /\ job[d].phase = "forgetting" =>
         job[d].left # {} /\ ~Alive(d, Min(job[d].left))

ReadyIsAtRest(d) ==
  status[d] = "ready" =>
    /\ job[d] = NoJob
    /\ \A n \in Names : hv[n].owner = d => n \in Recorded(d)

DeploymentInv(d) ==
  /\ RowsBehind(d) /\ StampsKept(d) /\ DeployCovers(d) /\ NothingMadeYet(d)
  /\ CleansUnrecorded(d) /\ CreatesMissing(d) /\ GrowsRecorded(d) /\ TearsDownRecorded(d)
  /\ ReadyIsAtRest(d)

IInv == Typed /\ \A d \in Deployments : DeploymentInv(d)

-----------------------------------------------------------------------------
(* What a step does to the hypervisor, and to the other deployments.        *)

(* No VM becomes older, comes back or changes hands except to d, and one    *)
(* that keeps its owner is the same VM.                                     *)
HvStep(d) ==
  \A n \in Names :
    /\ hv'[n].gen >= hv[n].gen
    /\ hv'[n].owner # Nobody /\ hv'[n].gen = hv[n].gen => Exists(n)
    /\ hv'[n].owner \in {hv[n].owner, Nobody, d}
    /\ hv'[n].owner = hv[n].owner /\ Exists(n) => hv'[n].gen = hv[n].gen

(* No VM gets d's stamp that did not have it. *)
NoNewStamp(d) ==
  \A n \in Names : hv'[n].owner = d => hv[n].owner = d

OthersKept(d) ==
  \A e \in Deployments : e # d =>
    rows'[e] = rows[e] /\ want'[e] = want[e] /\ status'[e] = status[e] /\ job'[e] = job[e]

LEMMA MinOfNames ==
  ASSUME NEW S \in SUBSET Names, S # {}
  PROVE  Min(S) \in S
<1>1. S \subseteq Nat
  BY DEF Names
<1> DEFINE R == {ss \in Nat \X Nat : ss[1] < ss[2]}
<1>2. IsWellFoundedOn(R, Nat)
  BY NatLessThanWellFounded DEF OpToRel
<1> HIDE DEF R
<1>3. PICK x \in S : \A y \in S : ~(<<y, x>> \in R)
  BY <1>1, <1>2, WFMin
<1>4. \A y \in S : x <= y
  <2> SUFFICES ASSUME NEW y \in S, y < x
               PROVE  FALSE
    BY <1>1
  <2>1. <<y, x>> \in Nat \X Nat /\ <<y, x>>[1] < <<y, x>>[2]
    BY <1>1
  <2>2. <<y, x>> \in R
    BY <2>1 DEF R
  <2> QED
    BY <1>3, <2>2
<1> QED
  BY <1>4 DEF Min

LEMMA NamesAreNumbers == Names \subseteq Nat \ {0}
BY ReconcileAssumption DEF Names

LEMMA HvUnchanged ==
  ASSUME Typed, NEW d \in Deployments, hv' = hv
  PROVE  HvStep(d) /\ NoNewStamp(d)
BY DEF Typed, VMs, HvStep, NoNewStamp, Exists

LEMMA OtherDeployment ==
  ASSUME Typed, Typed', NEW d \in Deployments, NEW e \in Deployments, e # d,
         DeploymentInv(e), HvStep(d), OthersKept(d)
  PROVE  DeploymentInv(e)'
<1> USE NamesAreNumbers
<1>1. /\ rows'[e] = rows[e] /\ want'[e] = want[e] /\ status'[e] = status[e]
      /\ job'[e] = job[e]
  BY DEF OthersKept
<1>2. ASSUME NEW n \in Names, hv'[n].owner = e
      PROVE  hv[n].owner = e /\ hv'[n].gen = hv[n].gen /\ Exists(n)
  BY <1>2, ReconcileAssumption DEF HvStep, Exists
<1>3. Recorded(e)' = Recorded(e) /\ Target(e)' = Target(e)
  BY <1>1 DEF Recorded, Target
<1>4. RowsBehind(e)'
  <2> SUFFICES ASSUME NEW n \in Names
               PROVE  /\ rows'[e][n].gen <= hv'[n].gen
                      /\ rows'[e][n].disks <= want'[e].disks
                      /\ n \in Recorded(e)' => rows'[e][n].gen > 0
    BY DEF RowsBehind
  <2>1. rows[e][n].gen <= hv[n].gen /\ hv[n].gen <= hv'[n].gen
    BY DEF DeploymentInv, RowsBehind, HvStep
  <2>2. rows[e][n].gen \in Nat /\ hv[n].gen \in Nat /\ hv'[n].gen \in Nat
    BY DEF Typed, Rows, VMs
  <2>3. /\ rows'[e][n].disks <= want'[e].disks
        /\ n \in Recorded(e)' => rows'[e][n].gen > 0
    BY <1>1, <1>3 DEF DeploymentInv, RowsBehind
  <2> QED
    BY <1>1, <2>1, <2>2, <2>3
<1>5. StampsKept(e)'
  BY <1>1, <1>2, <1>3 DEF DeploymentInv, StampsKept
<1>6. DeployCovers(e)'
  BY <1>1, <1>2, <1>3 DEF DeploymentInv, DeployCovers
<1>7. NothingMadeYet(e)' /\ CleansUnrecorded(e)'
  BY <1>1, <1>3 DEF DeploymentInv, NothingMadeYet, CleansUnrecorded
<1>8. CreatesMissing(e)'
  <2> SUFFICES ASSUME job[e].phase = "creating"
               PROVE  CreatesMissing(e)'
    BY <1>1 DEF CreatesMissing
  <2>1. ASSUME NEW n \in Names
        PROVE  job[e].made[n] <= hv'[n].gen
    <3>1. job[e].made[n] <= hv[n].gen /\ hv[n].gen <= hv'[n].gen
      BY DEF DeploymentInv, CreatesMissing, HvStep
    <3>2. job[e].made[n] \in Nat /\ hv[n].gen \in Nat /\ hv'[n].gen \in Nat
      BY DEF Typed, Jobs, VMs
    <3> QED
      BY <3>1, <3>2
  <2>2. ASSUME NEW n \in Names, hv'[n].owner = Foreign
        PROVE  hv[n].owner = Foreign
    BY <2>2, ReconcileAssumption DEF HvStep
  <2>3. job[e].todo \subseteq Names
    BY DEF Typed, Jobs
  <2> QED
    BY <1>1, <1>2, <1>3, <2>1, <2>2, <2>3 DEF DeploymentInv, CreatesMissing
<1>9. GrowsRecorded(e)'
  BY <1>1, <1>3 DEF DeploymentInv, GrowsRecorded
<1>10. TearsDownRecorded(e)'
  <2> SUFFICES ASSUME job[e].phase = "forgetting"
               PROVE  ~Alive(e, Min(job[e].left))'
    BY <1>1, <1>3 DEF DeploymentInv, TearsDownRecorded
  <2>1. PICK n \in Names : n = Min(job[e].left)
    BY MinOfNames DEF DeploymentInv, TearsDownRecorded, Typed, Jobs
  <2>2. ~Alive(e, n) /\ rows[e][n].gen <= hv[n].gen
    BY <2>1 DEF DeploymentInv, TearsDownRecorded, RowsBehind
  <2>3. rows[e][n].gen \in Nat /\ hv[n].gen \in Nat /\ hv'[n].gen \in Nat
    BY DEF Typed, Rows, VMs
  <2>4. ~Alive(e, n)'
    <3>1. hv'[n].gen >= hv[n].gen
      BY DEF HvStep
    <3>2. hv'[n].owner # Nobody /\ hv'[n].gen = hv[n].gen => hv[n].owner # Nobody
      BY DEF HvStep, Exists
    <3> QED
      BY <1>1, <2>2, <2>3, <3>1, <3>2 DEF Alive, Exists
  <2> QED
    BY <1>1, <2>1, <2>4
<1>11. ReadyIsAtRest(e)'
  BY <1>1, <1>2, <1>3 DEF DeploymentInv, ReadyIsAtRest, NoJob
<1> QED
  BY <1>4, <1>5, <1>6, <1>7, <1>8, <1>9, <1>10, <1>11 DEF DeploymentInv

LEMMA SpecsAreNumbers ==
  ASSUME NEW s \in Specs
  PROVE  s.count \in Nat \ {0} /\ s.disks \in Nat \ {0}
<1>1. s.count \in Names /\ s.disks \in 1..MaxDisks
  BY DEF Specs
<1> QED
  <2>1. \A k \in 1..MaxDisks : k \in Nat \ {0}
    BY ReconcileAssumption
  <2> QED
    BY <1>1, <2>1, NamesAreNumbers

(* A step of d preserves the invariant when it does so for d alone. *)
LEMMA StepOfDeployment ==
  ASSUME IInv, NEW d \in Deployments, Typed', HvStep(d), OthersKept(d), DeploymentInv(d)'
  PROVE  IInv'
BY OtherDeployment DEF IInv

LEMMA JobMoves ==
  ASSUME Typed, NEW d \in Deployments, NEW j \in Jobs, MoveJob(d, j)
  PROVE  /\ job' \in [Deployments -> Jobs]
         /\ job'[d] = j
         /\ \A e \in Deployments : e # d => job'[e] = job[e]
BY DEF Typed, MoveJob

LEMMA NoJobIsOne ==
  /\ NoJob \in Jobs
  /\ NoJob.phase = "none"
  /\ NoJob.left = {}
<1>1. 1 \in Names /\ 1 \in 1..MaxDisks
  BY ReconcileAssumption DEF Names
<1>2. [count |-> 1, disks |-> 1] \in Specs
  BY <1>1 DEF Specs
<1>3. [n \in Names |-> 0] \in [Names -> 0..MaxGen]
  BY ReconcileAssumption
<1> QED
  BY <1>2, <1>3 DEF NoJob, Jobs, Phases

LEMMA FaultCounted ==
  ASSUME Typed, Fault
  PROVE  faults' \in 0..MaxFaults
BY ReconcileAssumption DEF Typed, Fault

LEMMA Deleted ==
  ASSUME Typed, NEW n \in Names, NEW gen \in 0..MaxGen, hv' = Without(n, gen)
  PROVE  /\ hv' \in [Names -> VMs]
         /\ \A m \in Names : hv'[m].owner # Nobody => hv'[m].gen > 0
         /\ \A d \in Deployments : HvStep(d) /\ NoNewStamp(d)
         /\ ~(hv'[n].owner # Nobody /\ hv'[n].gen = gen)
         /\ \A m \in Names : m # n => hv'[m] = hv[m]
         /\ hv'[n] # hv[n] => hv[n].gen = gen
<1>1. CASE hv[n].gen # gen
  <2>1. hv' = hv
    BY <1>1 DEF Without
  <2> QED
    BY <1>1, <2>1, HvUnchanged DEF Typed, Exists
<1>2. CASE hv[n].gen = gen
  <2>1. hv' = [hv EXCEPT ![n] = NoVM(gen)]
    BY <1>2 DEF Without
  <2>2. NoVM(gen) \in VMs /\ NoVM(gen).gen = gen /\ NoVM(gen).owner = Nobody
    BY DEF NoVM, VMs
  <2> DEFINE vm == NoVM(gen)
  <2> HIDE DEF vm
  <2>3. hv' \in [Names -> VMs] /\ hv'[n] = vm /\ \A m \in Names : m # n => hv'[m] = hv[m]
    BY <2>1, <2>2 DEF Typed, vm
  <2>4. vm.gen = gen /\ vm.owner = Nobody
    BY <2>2 DEF vm
  <2>5. \A m \in Names : hv[m].gen \in Nat
    BY DEF Typed, VMs
  <2>6. \A d \in Deployments : NoNewStamp(d)
    BY <2>3, <2>4, ReconcileAssumption DEF NoNewStamp
  <2>7. \A d \in Deployments : HvStep(d)
    BY <1>2, <2>3, <2>4, <2>5 DEF HvStep, Exists
  <2> QED
    BY <1>2, <2>3, <2>4, <2>6, <2>7 DEF Typed, Exists
<1> QED
  BY <1>1, <1>2

LEMMA Stamped ==
  ASSUME Typed, NEW d \in Deployments, NEW n \in Names, hv' = Created(d, n),
         Exists(n) \/ hv[n].gen < MaxGen
  PROVE  /\ hv' \in [Names -> VMs]
         /\ \A m \in Names : hv'[m].owner # Nobody => hv'[m].gen > 0
         /\ HvStep(d)
         /\ hv'[n].gen > 0
         /\ \A m \in Names : m # n => hv'[m] = hv[m]
         /\ Exists(n) => hv'[n].gen = hv[n].gen
<1> DEFINE vm == IF Exists(n) THEN [hv[n] EXCEPT !.owner = d]
                 ELSE [gen |-> hv[n].gen + 1, owner |-> d, disks |-> job[d].spec.disks]
<1>1. hv' = [hv EXCEPT ![n] = vm]
  BY DEF Created
<1>2. hv[n].gen \in 0..MaxGen /\ hv[n].disks \in Nat /\ hv[n] \in VMs
  BY DEF Typed, VMs
<1>3. job[d].spec.disks \in Nat
  BY DEF Typed, Jobs, Specs
<1>4. /\ vm \in VMs /\ vm.owner = d
      /\ Exists(n) => vm.gen = hv[n].gen
      /\ ~Exists(n) => vm.gen = hv[n].gen + 1
  <2>1. CASE Exists(n)
    BY <1>2, <2>1 DEF VMs
  <2>2. CASE ~Exists(n)
    BY <1>2, <1>3, <2>2, ReconcileAssumption DEF VMs
  <2> QED
    BY <2>1, <2>2
<1> HIDE DEF vm
<1>5. hv' \in [Names -> VMs] /\ hv'[n] = vm /\ \A m \in Names : m # n => hv'[m] = hv[m]
  BY <1>1, <1>4 DEF Typed
<1>6. vm.gen > 0 /\ vm.gen >= hv[n].gen /\ (vm.gen = hv[n].gen => Exists(n))
  BY <1>2, <1>4 DEF Typed
<1>7. \A m \in Names : hv[m].gen \in Nat
  BY DEF Typed, VMs
<1>8. HvStep(d)
  BY <1>4, <1>5, <1>6, <1>7 DEF HvStep, Exists
<1> QED
  BY <1>4, <1>5, <1>6, <1>8 DEF Typed, Exists

LEMMA Grown ==
  ASSUME Typed, NEW d \in Deployments, NEW n \in Names, hv' = WithMoreDisks(d, n),
         rows[d][n].disks <= job[d].spec.disks
  PROVE  /\ hv' \in [Names -> VMs]
         /\ \A m \in Names : hv'[m].owner # Nobody => hv'[m].gen > 0
         /\ HvStep(d) /\ NoNewStamp(d)
         /\ \A m \in Names : hv'[m].gen = hv[m].gen /\ hv'[m].owner = hv[m].owner
         /\ \A m \in Names : m # n => hv'[m] = hv[m]
<1> DEFINE vm == [hv[n] EXCEPT !.disks = @ + GrowthOf(d, n)]
<1>1. hv' = [hv EXCEPT ![n] = vm]
  BY DEF WithMoreDisks
<1>2. GrowthOf(d, n) \in Nat
  BY DEF GrowthOf, Typed, Jobs, Specs, Rows
<1>3. vm \in VMs /\ vm.gen = hv[n].gen /\ vm.owner = hv[n].owner
  <2>1. hv[n] \in VMs
    BY DEF Typed
  <2>2. hv[n].disks + GrowthOf(d, n) \in Nat
    BY <1>2, <2>1 DEF VMs
  <2> HIDE DEF vm
  <2>3. PICK g \in Nat : vm = [hv[n] EXCEPT !.disks = g]
    BY <2>2 DEF vm
  <2> QED
    BY <2>1, <2>3 DEF VMs
<1> HIDE DEF vm
<1>4. hv' \in [Names -> VMs] /\ hv'[n] = vm /\ \A m \in Names : m # n => hv'[m] = hv[m]
  BY <1>1, <1>3 DEF Typed
<1>5. \A m \in Names : hv'[m].gen = hv[m].gen /\ hv'[m].owner = hv[m].owner
  BY <1>3, <1>4
<1>6. \A m \in Names : hv[m].gen \in Nat
  BY DEF Typed, VMs
<1>7. HvStep(d) /\ NoNewStamp(d)
  BY <1>5, <1>6 DEF HvStep, NoNewStamp, Exists
<1> QED
  BY <1>4, <1>5, <1>7 DEF Typed, Exists

(* What holds in any phase survives a step that leaves d's rows alone and   *)
(* gives no new stamp.                                                      *)
LEMMA RowsUntouched ==
  ASSUME Typed, Typed', NEW d \in Deployments, DeploymentInv(d), HvStep(d), NoNewStamp(d),
         rows'[d] = rows[d], want'[d] = want[d]
  PROVE  RowsBehind(d)' /\ StampsKept(d)'
<1>1. Recorded(d)' = Recorded(d)
  BY DEF Recorded
<1>2. ASSUME NEW n \in Names
      PROVE  rows[d][n].gen <= hv'[n].gen
  <2>1. rows[d][n].gen <= hv[n].gen /\ hv[n].gen <= hv'[n].gen
    BY DEF DeploymentInv, RowsBehind, HvStep
  <2>2. rows[d][n].gen \in Nat /\ hv[n].gen \in Nat /\ hv'[n].gen \in Nat
    BY DEF Typed, Rows, VMs
  <2> QED
    BY <2>1, <2>2
<1>3. RowsBehind(d)'
  BY <1>1, <1>2 DEF DeploymentInv, RowsBehind
<1>4. \A n \in Names : hv'[n].owner = d => hv[n].owner = d /\ hv'[n].gen = hv[n].gen
  BY ReconcileAssumption DEF HvStep, NoNewStamp, Exists
<1>5. StampsKept(d)'
  BY <1>1, <1>4 DEF DeploymentInv, StampsKept
<1> QED
  BY <1>3, <1>5

(* A deploy that goes on under the same spec covers what it covered. *)
LEMMA SpecUntouched ==
  ASSUME Typed, Typed', NEW d \in Deployments, DeploymentInv(d), NoNewStamp(d),
         rows'[d] = rows[d], want'[d] = want[d],
         job[d].phase \in DeployPhases, job'[d].spec = job[d].spec
  PROVE  DeployCovers(d)'
BY DEF DeploymentInv, DeployCovers, NoNewStamp, Target

(* Every step that ends a job otherwise than ready. *)
LEMMA JobEnds ==
  ASSUME IInv, NEW d \in Deployments, NEW s \in Statuses, s # "ready", EndJob(d, s),
         hv' \in [Names -> VMs], \A n \in Names : hv'[n].owner # Nobody => hv'[n].gen > 0,
         HvStep(d), NoNewStamp(d), UNCHANGED <<rows, want>>, faults' \in 0..MaxFaults
  PROVE  IInv'
<1>1. /\ job' \in [Deployments -> Jobs] /\ job'[d] = NoJob
      /\ \A e \in Deployments : e # d => job'[e] = job[e]
  BY JobMoves, NoJobIsOne DEF IInv, EndJob
<1>2. /\ status' \in [Deployments -> Statuses] /\ status'[d] = s
      /\ \A e \in Deployments : e # d => status'[e] = status[e]
  BY DEF IInv, Typed, EndJob
<1>3. Typed'
  BY <1>1, <1>2 DEF IInv, Typed, Exists
<1>4. OthersKept(d)
  BY <1>1, <1>2 DEF OthersKept
<1>5. RowsBehind(d)' /\ StampsKept(d)'
  BY <1>3, RowsUntouched DEF IInv
<1>6. job'[d].phase = "none"
  BY <1>1, NoJobIsOne
<1>7. DeploymentInv(d)'
  BY <1>2, <1>5, <1>6 DEF DeploymentInv, DeployCovers, DeployPhases, NothingMadeYet, CleansUnrecorded,
     CreatesMissing, GrowsRecorded, TearsDownRecorded, ReadyIsAtRest
<1> QED
  BY <1>3, <1>4, <1>7, StepOfDeployment

-----------------------------------------------------------------------------
(* The initial states.                                                      *)

LEMMA InitIInv == Init => IInv
<1> SUFFICES ASSUME Init
             PROVE  IInv
  OBVIOUS
<1> USE NamesAreNumbers
<1>1. \A n \in Names : hv[n] \in {NoVM(0), [gen |-> 1, owner |-> Foreign, disks |-> 1]}
  BY DEF Init
<1>2. NoVM(0) \in VMs /\ [gen |-> 1, owner |-> Foreign, disks |-> 1] \in VMs
  BY ReconcileAssumption DEF NoVM, VMs
<1>3. hv \in [Names -> VMs]
  BY <1>2 DEF Init
<1>4. \A n \in Names : /\ hv[n].gen >= 0
                       /\ hv[n].owner \in {Nobody, Foreign}
                       /\ Exists(n) => hv[n].gen > 0
  <2> SUFFICES ASSUME NEW n \in Names
               PROVE  /\ hv[n].gen >= 0
                      /\ hv[n].owner \in {Nobody, Foreign}
                      /\ Exists(n) => hv[n].gen > 0
    OBVIOUS
  <2>1. CASE hv[n] = NoVM(0)
    BY <2>1 DEF NoVM, Exists
  <2>2. CASE hv[n] = [gen |-> 1, owner |-> Foreign, disks |-> 1]
    BY <2>2 DEF Exists
  <2> QED
    BY <1>1, <2>1, <2>2
<1>5. NoRow \in Rows /\ NoRow.gen = 0 /\ NoRow.disks = 0
  BY ReconcileAssumption DEF NoRow, Rows
<1>6. 1 \in Names /\ 1 \in 1..MaxDisks
  BY ReconcileAssumption DEF Names
<1> DEFINE first == [count |-> 1, disks |-> 1]
<1>7. first \in Specs /\ first.disks = 1
  BY <1>6 DEF Specs
<1> HIDE DEF first
<1>8. /\ rows \in [Deployments -> [Names -> Rows]]
      /\ \A d \in Deployments, n \in Names : rows[d][n] = NoRow
  BY <1>5 DEF Init
<1>9. want \in [Deployments -> Specs] /\ \A d \in Deployments : want[d] = first
  BY <1>7 DEF Init, first
<1>10. status \in [Deployments -> Statuses] /\ \A d \in Deployments : status[d] # "ready"
  BY DEF Init, Statuses
<1>11. job \in [Deployments -> Jobs] /\ \A d \in Deployments : job[d].phase = "none"
  BY NoJobIsOne DEF Init
<1>12. Typed
  BY <1>3, <1>4, <1>8, <1>9, <1>10, <1>11, ReconcileAssumption DEF Init, Typed
<1>13. ASSUME NEW d \in Deployments
       PROVE  DeploymentInv(d)
  <2>1. Recorded(d) = {}
    BY <1>8 DEF Recorded
  <2>2. RowsBehind(d)
    <3>1. \A n \in Names : rows[d][n].gen = 0 /\ rows[d][n].disks = 0 /\ want[d].disks = 1
      BY <1>5, <1>7, <1>8, <1>9
    <3>2. ASSUME NEW n \in Names
          PROVE  rows[d][n].gen <= hv[n].gen /\ rows[d][n].disks <= want[d].disks
      <4>1. 0 <= hv[n].gen
        BY <1>4
      <4> QED
        BY <3>1, <4>1
    <3> QED
      BY <2>1, <3>2 DEF RowsBehind
  <2>3. StampsKept(d)
    BY <1>4, ReconcileAssumption DEF StampsKept
  <2> QED
    BY <1>10, <1>11, <2>2, <2>3 DEF DeploymentInv, DeployCovers, DeployPhases,
       NothingMadeYet, CleansUnrecorded, CreatesMissing, GrowsRecorded, TearsDownRecorded, ReadyIsAtRest
<1> QED
  BY <1>12, <1>13 DEF IInv

-----------------------------------------------------------------------------
(* Steps that touch neither the hypervisor nor the rows.                    *)

LEMMA UpdateDeploymentSpecIInv ==
  ASSUME IInv, NEW d \in Deployments, UpdateDeploymentSpec(d)
  PROVE  IInv'
<1>1. PICK s \in Specs : /\ s.count >= want[d].count /\ s.disks >= want[d].disks
                         /\ want' = [want EXCEPT ![d] = s]
  BY DEF UpdateDeploymentSpec
<1>2. UNCHANGED <<hv, rows, status, job, faults>>
  BY DEF UpdateDeploymentSpec
<1>3. /\ want' \in [Deployments -> Specs] /\ want'[d] = s
      /\ \A e \in Deployments : e # d => want'[e] = want[e]
  BY <1>1 DEF IInv, Typed
<1>4. Typed'
  BY <1>2, <1>3 DEF IInv, Typed, Exists
<1>5. OthersKept(d) /\ HvStep(d)
  BY <1>2, <1>3, HvUnchanged DEF OthersKept, IInv
<1>6. /\ want[d].count \in Nat /\ want[d].disks \in Nat /\ s.count \in Nat /\ s.disks \in Nat
      /\ job[d].spec.count \in Nat /\ job[d].spec.disks \in Nat
      /\ \A n \in Names : rows[d][n].disks \in Nat
  <2>1. want[d] \in Specs /\ job[d].spec \in Specs
    BY DEF IInv, Typed, Jobs
  <2>2. \A p \in Specs : p.count \in Nat /\ p.disks \in Nat
    BY SpecsAreNumbers
  <2>3. \A n \in Names : rows[d][n].disks \in Nat
    BY DEF IInv, Typed, Rows
  <2> QED
    BY <2>1, <2>2, <2>3
<1>7. Recorded(d)' = Recorded(d) /\ Target(d)' = Target(d)
  BY <1>2 DEF Recorded, Target
<1>8. RowsBehind(d)'
  <2>1. \A n \in Names : rows[d][n].disks <= want[d].disks
    BY DEF IInv, DeploymentInv, RowsBehind
  <2>2. \A n \in Names : rows[d][n].disks <= s.disks
    BY <1>1, <1>6, <2>1
  <2> QED
    BY <1>2, <1>3, <1>7, <2>2 DEF IInv, DeploymentInv, RowsBehind
<1>9. StampsKept(d)'
  <2>1. \A n \in Names : hv[n].owner = d => n <= want[d].count
    BY DEF IInv, DeploymentInv, StampsKept
  <2>2. \A n \in Names : hv[n].owner = d => n <= s.count
    BY <1>1, <1>6, <2>1, NamesAreNumbers
  <2> QED
    BY <1>2, <1>3, <1>7, <2>2 DEF IInv, DeploymentInv, StampsKept
<1>10. DeployCovers(d)'
  <2> SUFFICES ASSUME job[d].phase \in DeployPhases
               PROVE  DeployCovers(d)'
    BY <1>2 DEF DeployCovers
  <2>1. job[d].spec.count <= want[d].count /\ job[d].spec.disks <= want[d].disks
    BY DEF IInv, DeploymentInv, DeployCovers
  <2>2. job[d].spec.count <= s.count /\ job[d].spec.disks <= s.disks
    BY <1>1, <1>6, <2>1
  <2> QED
    BY <1>2, <1>3, <1>7, <2>2 DEF IInv, DeploymentInv, DeployCovers
<1>11. /\ NothingMadeYet(d)' /\ CleansUnrecorded(d)' /\ CreatesMissing(d)' /\ GrowsRecorded(d)'
       /\ TearsDownRecorded(d)' /\ ReadyIsAtRest(d)'
  <2>1. NothingMadeYet(d)' /\ CleansUnrecorded(d)' /\ GrowsRecorded(d)'
    BY <1>2, <1>7 DEF IInv, DeploymentInv, NothingMadeYet, CleansUnrecorded, GrowsRecorded
  <2>4. ReadyIsAtRest(d)'
    BY <1>2, <1>7 DEF IInv, DeploymentInv, ReadyIsAtRest, NoJob
  <2>2. CreatesMissing(d)'
    BY <1>2, <1>7 DEF IInv, DeploymentInv, CreatesMissing
  <2>3. TearsDownRecorded(d)'
    BY <1>2, <1>7 DEF IInv, DeploymentInv, TearsDownRecorded, Alive, Exists
  <2> QED
    BY <2>1, <2>2, <2>3, <2>4
<1>12. DeploymentInv(d)'
  BY <1>8, <1>9, <1>10, <1>11 DEF DeploymentInv
<1> QED
  BY <1>4, <1>5, <1>12, StepOfDeployment

(* A job that starts finds the deployment as any job may leave it. *)
LEMMA DeployStarts ==
  ASSUME IInv, Typed', NEW d \in Deployments, NEW mode \in {"abort", "clean", "adopt"},
         job'[d] = DeployJob(d, mode), UNCHANGED <<hv, rows, want>>, status'[d] # "ready"
  PROVE  DeploymentInv(d)'
<1>1. /\ job'[d].phase = "checking" /\ job'[d].spec = want[d]
      /\ \A n \in Names : job'[d].made[n] = 0
  BY DEF DeployJob, NoJob
<1>2. RowsBehind(d)' /\ StampsKept(d)'
  <2>1. Typed /\ DeploymentInv(d) /\ HvStep(d) /\ NoNewStamp(d)
    BY HvUnchanged DEF IInv
  <2>2. rows'[d] = rows[d] /\ want'[d] = want[d]
    OBVIOUS
  <2> QED
    BY <2>1, <2>2, RowsUntouched
<1>3. want[d].count \in Nat /\ want[d].disks \in Nat
  BY SpecsAreNumbers DEF IInv, Typed
<1>4. DeployCovers(d)'
  <2>1. \A n \in Names : rows[d][n].disks <= want[d].disks
    BY DEF IInv, DeploymentInv, RowsBehind
  <2>2. \A n \in Names : hv[n].owner = d => n \in 1..want[d].count
    BY NamesAreNumbers, <1>3 DEF IInv, DeploymentInv, StampsKept
  <2> QED
    BY <1>1, <1>3, <2>1, <2>2 DEF DeployCovers, Target
<1> QED
  BY <1>1, <1>2, <1>4 DEF DeploymentInv, NothingMadeYet, CleansUnrecorded, CreatesMissing, GrowsRecorded,
     TearsDownRecorded, ReadyIsAtRest

LEMMA DeployJobIsOne ==
  ASSUME Typed, NEW d \in Deployments, NEW mode \in {"abort", "clean", "adopt"}
  PROVE  DeployJob(d, mode) \in Jobs
BY NoJobIsOne DEF Typed, DeployJob, Jobs, Phases

LEMMA TeardownJobIsOne ==
  ASSUME Typed, NEW d \in Deployments
  PROVE  /\ TeardownJob(d) \in Jobs
         /\ TeardownJob(d).phase = "destroying"
         /\ TeardownJob(d).left = Recorded(d)
<1>1. Recorded(d) \subseteq Names
  BY DEF Recorded
<1> QED
  BY <1>1, NoJobIsOne DEF TeardownJob, Jobs, Phases, NoJob

LEMMA TeardownStarts ==
  ASSUME IInv, Typed', NEW d \in Deployments,
         job'[d] = TeardownJob(d), UNCHANGED <<hv, rows, want>>, status'[d] # "ready"
  PROVE  DeploymentInv(d)'
<1>1. job'[d].phase = "destroying" /\ job'[d].left = Recorded(d)
  BY TeardownJobIsOne DEF IInv
<1>2. RowsBehind(d)' /\ StampsKept(d)'
  BY RowsUntouched, HvUnchanged DEF IInv
<1>3. Recorded(d)' = Recorded(d)
  BY DEF Recorded
<1> QED
  BY <1>1, <1>2, <1>3 DEF DeploymentInv, DeployCovers, DeployPhases, NothingMadeYet, CleansUnrecorded,
     CreatesMissing, GrowsRecorded, TearsDownRecorded, ReadyIsAtRest

LEMMA StartDeployIInv ==
  ASSUME IInv, NEW d \in Deployments, StartDeploy(d)
  PROVE  IInv'
<1>1. PICK mode \in Modes[d] : MoveJob(d, DeployJob(d, mode))
  BY DEF StartDeploy
<1>2. mode \in {"abort", "clean", "adopt"}
  BY ReconcileAssumption
<1>3. /\ job' \in [Deployments -> Jobs] /\ job'[d] = DeployJob(d, mode)
      /\ \A e \in Deployments : e # d => job'[e] = job[e]
  BY <1>1, <1>2, DeployJobIsOne, JobMoves DEF IInv
<1>4. UNCHANGED <<hv, rows, want, faults>>
  BY DEF StartDeploy
<1>5. /\ status' \in [Deployments -> Statuses] /\ status'[d] = "deploying"
      /\ \A e \in Deployments : e # d => status'[e] = status[e]
  BY DEF StartDeploy, IInv, Typed, Statuses
<1>6. Typed'
  BY <1>3, <1>4, <1>5 DEF IInv, Typed, Exists
<1>7. DeploymentInv(d)'
  BY <1>2, <1>3, <1>4, <1>5, <1>6, DeployStarts
<1> QED
  BY <1>3, <1>4, <1>5, <1>6, <1>7, HvUnchanged, StepOfDeployment DEF OthersKept, IInv

LEMMA StartTeardownIInv ==
  ASSUME IInv, NEW d \in Deployments, StartTeardown(d)
  PROVE  IInv'
<1>1. /\ job' \in [Deployments -> Jobs] /\ job'[d] = TeardownJob(d)
      /\ \A e \in Deployments : e # d => job'[e] = job[e]
  BY TeardownJobIsOne, JobMoves DEF IInv, StartTeardown
<1>2. UNCHANGED <<hv, rows, want, faults>>
  BY DEF StartTeardown
<1>3. /\ status' \in [Deployments -> Statuses] /\ status'[d] = "deleting"
      /\ \A e \in Deployments : e # d => status'[e] = status[e]
  BY DEF StartTeardown, IInv, Typed, Statuses
<1>4. Typed'
  BY <1>1, <1>2, <1>3 DEF IInv, Typed, Exists
<1>5. DeploymentInv(d)'
  BY <1>1, <1>2, <1>3, <1>4, TeardownStarts
<1> QED
  BY <1>1, <1>2, <1>3, <1>4, <1>5, HvUnchanged, StepOfDeployment DEF OthersKept, IInv

(* A deployment's own part, when only its status and the faults change. *)
LEMMA DeleteEmptyIInv ==
  ASSUME IInv, NEW d \in Deployments, DeleteEmpty(d)
  PROVE  IInv'
<1>1. UNCHANGED <<hv, rows, want, job, faults>>
  BY DEF DeleteEmpty
<1>2. /\ status' \in [Deployments -> Statuses] /\ status'[d] = "deleted"
      /\ \A e \in Deployments : e # d => status'[e] = status[e]
  BY DEF DeleteEmpty, IInv, Typed, Statuses
<1>3. Typed'
  BY <1>1, <1>2 DEF IInv, Typed, Exists
<1>4. Recorded(d)' = Recorded(d) /\ Target(d)' = Target(d)
  BY <1>1 DEF Recorded, Target
<1>5. DeploymentInv(d)'
  BY <1>1, <1>2, <1>4 DEF IInv, DeploymentInv, RowsBehind, StampsKept, DeployCovers,
     NothingMadeYet, CleansUnrecorded, CreatesMissing, GrowsRecorded, TearsDownRecorded, ReadyIsAtRest,
     Alive, Exists
<1> QED
  BY <1>1, <1>2, <1>3, <1>5, HvUnchanged, StepOfDeployment DEF OthersKept, IInv

LEMMA RestartIInv ==
  ASSUME IInv, Restart
  PROVE  IInv'
<1>1. UNCHANGED <<hv, rows, want, status>> /\ faults' \in 0..MaxFaults
  BY FaultCounted DEF Restart, IInv
<1>2. \A d \in Deployments : job'[d] = Resume(d)
  BY DEF Restart
<1>3. \A d \in Deployments : Resume(d) \in Jobs
  BY NoJobIsOne, DeployJobIsOne, TeardownJobIsOne DEF Resume, IInv
<1>4. Typed'
  BY <1>1, <1>3 DEF IInv, Typed, Exists, Restart
<1>5. ASSUME NEW d \in Deployments
      PROVE  DeploymentInv(d)'
  <2>1. CASE job[d] = NoJob
    <3>1. job'[d] = NoJob
      BY <1>2, <2>1 DEF Resume
    <3>2. Recorded(d)' = Recorded(d)
      BY <1>1 DEF Recorded
    <3>3. RowsBehind(d)' /\ StampsKept(d)'
      BY <1>1, <1>4, RowsUntouched, HvUnchanged DEF IInv
    <3>4. ReadyIsAtRest(d)'
      BY <1>1, <3>1, <3>2 DEF IInv, DeploymentInv, ReadyIsAtRest, NoJob
    <3>5. job'[d].phase = "none"
      BY <3>1, NoJobIsOne
    <3> QED
      BY <3>3, <3>4, <3>5 DEF DeploymentInv, DeployCovers, DeployPhases, NothingMadeYet, CleansUnrecorded,
         CreatesMissing, GrowsRecorded, TearsDownRecorded
  <2>2. CASE job[d] # NoJob
    <3>1. status'[d] # "ready"
      BY <1>1, <2>2 DEF IInv, DeploymentInv, ReadyIsAtRest
    <3>2. job'[d] = TeardownJob(d) \/ job'[d] = DeployJob(d, "abort")
      BY <1>2, <2>2 DEF Resume
    <3> QED
      BY <1>1, <1>4, <3>1, <3>2, TeardownStarts, DeployStarts
  <2> QED
    BY <2>1, <2>2
<1> QED
  BY <1>4, <1>5 DEF IInv

-----------------------------------------------------------------------------
(* Conflicts.                                                               *)

LEMMA ResolvedIsOne ==
  ASSUME Typed, NEW d \in Deployments
  PROVE  /\ Resolved(d) \in Jobs
         /\ Resolved(d).phase = "creating"
         /\ Resolved(d).todo = Missing(d)
         /\ Resolved(d).mode = job[d].mode
         /\ Resolved(d).spec = job[d].spec
         /\ Resolved(d).made = job[d].made
<1>1. job[d] \in Jobs
  BY DEF Typed
<1>2. Target(d) \subseteq Names
  <2>1. job[d].spec.count \in Names
    BY <1>1 DEF Jobs, Specs
  <2> QED
    BY <2>1, ReconcileAssumption DEF Target, Names
<1>3. Missing(d) \in SUBSET Names
  BY <1>2 DEF Missing
<1> QED
  BY <1>1, <1>3 DEF Resolved, Jobs, Phases

(* The workers start on what is missing; in the abort mode none of it is a  *)
(* VM of unknown owner.                                                     *)
LEMMA CreatingStarts ==
  ASSUME IInv, Typed', NEW d \in Deployments, job[d].phase \in {"checking", "cleaning"},
         job'[d] = Resolved(d), UNCHANGED <<rows, want, status>>,
         HvStep(d), NoNewStamp(d),
         job[d].mode = "abort" => Conflicts(d) = {} /\ hv' = hv
  PROVE  DeploymentInv(d)'
<1>1. /\ job'[d].phase = "creating" /\ job'[d].todo = Missing(d)
      /\ job'[d].mode = job[d].mode /\ job'[d].spec = job[d].spec
      /\ job'[d].made = job[d].made
  BY ResolvedIsOne DEF IInv
<1>2. RowsBehind(d)' /\ StampsKept(d)'
  BY RowsUntouched DEF IInv
<1>3. DeployCovers(d)'
  BY <1>1, SpecUntouched DEF IInv, DeployPhases
<1>4. Recorded(d)' = Recorded(d) /\ Target(d)' = Target(d)
  BY <1>1 DEF Recorded, Target
<1>5. CreatesMissing(d)'
  <2>1. /\ job'[d].todo \cap Recorded(d)' = {}
        /\ job'[d].todo \subseteq Target(d)'
        /\ \A n \in Names : n \in Recorded(d)' \cup job'[d].todo \/ n \notin Target(d)'
    BY <1>1, <1>4 DEF Missing
  <2>2. \A n \in Names : job'[d].made[n] = 0 /\ hv'[n].gen \in Nat
    BY <1>1 DEF Typed, VMs, IInv, DeploymentInv, NothingMadeYet
  <2>3. ASSUME job'[d].mode = "abort", NEW n \in job'[d].todo
        PROVE  hv'[n].owner # Foreign
    <3>1. hv'[n].owner = hv[n].owner /\ Conflicts(d) = {} /\ n \in Missing(d)
      BY <1>1, <2>3
    <3>2. n \in Names
      BY <2>3 DEF Typed, Jobs
    <3>3. ASSUME hv[n].owner = Foreign
          PROVE  <<n, hv[n].gen>> \in Conflicts(d)
      BY <3>1, <3>2, <3>3, ReconcileAssumption DEF Conflicts, Missing
    <3> QED
      BY <3>1, <3>3
  <2> QED
    BY <2>1, <2>2, <2>3 DEF CreatesMissing
<1>6. status'[d] # "ready"
  BY NoJobIsOne DEF IInv, DeploymentInv, ReadyIsAtRest
<1> QED
  BY <1>1, <1>2, <1>3, <1>5, <1>6 DEF DeploymentInv, NothingMadeYet, CleansUnrecorded, GrowsRecorded,
     TearsDownRecorded, ReadyIsAtRest

(* The part of a step's proof that is the same for every step of a job. *)
LEMMA JobStep ==
  ASSUME IInv, NEW d \in Deployments, NEW j \in Jobs, MoveJob(d, j),
         hv' \in [Names -> VMs], \A n \in Names : hv'[n].owner # Nobody => hv'[n].gen > 0,
         UNCHANGED <<rows, want, status>>, faults' \in 0..MaxFaults
  PROVE  Typed' /\ OthersKept(d) /\ job'[d] = j
<1>1. /\ job' \in [Deployments -> Jobs] /\ job'[d] = j
      /\ \A e \in Deployments : e # d => job'[e] = job[e]
  BY JobMoves DEF IInv
<1> QED
  BY <1>1 DEF IInv, Typed, OthersKept, Exists

(* A deployment with a job does not read ready. *)
LEMMA BusyIsNotReady ==
  ASSUME IInv, NEW d \in Deployments, job[d].phase # "none"
  PROVE  status[d] # "ready"
BY NoJobIsOne DEF IInv, DeploymentInv, ReadyIsAtRest

LEMMA FindNoConflictIInv ==
  ASSUME IInv, NEW d \in Deployments, FindNoConflict(d)
  PROVE  IInv'
<1>1. /\ job[d].phase = "checking" /\ MoveJob(d, Resolved(d))
      /\ UNCHANGED <<hv, rows, want, status, faults>>
      /\ job[d].mode = "abort" => Conflicts(d) = {}
  BY DEF FindNoConflict
<1>2. Typed' /\ OthersKept(d) /\ job'[d] = Resolved(d)
  BY <1>1, ResolvedIsOne, JobStep DEF IInv, Typed, Exists
<1>3. HvStep(d) /\ NoNewStamp(d)
  BY <1>1, HvUnchanged DEF IInv
<1>4. DeploymentInv(d)'
  BY <1>1, <1>2, <1>3, CreatingStarts
<1> QED
  BY <1>2, <1>3, <1>4, StepOfDeployment

(* Steps that end the job and touch nothing else. *)
LEMMA EndsOnly ==
  ASSUME IInv, NEW d \in Deployments, NEW s \in Statuses, s # "ready", EndJob(d, s),
         UNCHANGED <<hv, rows, want>>, faults' = faults \/ Fault
  PROVE  IInv'
<1>1. faults' \in 0..MaxFaults
  BY FaultCounted DEF IInv, Typed
<1>2. HvStep(d) /\ NoNewStamp(d)
  BY HvUnchanged DEF IInv
<1>3. hv' \in [Names -> VMs] /\ \A n \in Names : hv'[n].owner # Nobody => hv'[n].gen > 0
  BY DEF IInv, Typed, Exists
<1> QED
  BY <1>1, <1>2, <1>3, JobEnds

LEMMA AbortOnConflictIInv ==
  ASSUME IInv, NEW d \in Deployments, AbortOnConflict(d)
  PROVE  IInv'
BY EndsOnly DEF AbortOnConflict, Statuses

LEMMA FindConflictsFailsIInv ==
  ASSUME IInv, NEW d \in Deployments, FindConflictsFails(d)
  PROVE  IInv'
BY EndsOnly DEF FindConflictsFails, Statuses

LEMMA ConflictsAreNames ==
  ASSUME IInv, NEW d \in Deployments
  PROVE  /\ Conflicts(d) \in SUBSET (Names \X (1..MaxGen))
         /\ \A c \in Conflicts(d) : c[1] \notin Recorded(d)
<1> SUFFICES ASSUME NEW c \in Conflicts(d)
             PROVE  c \in Names \X (1..MaxGen) /\ c[1] \notin Recorded(d)
  OBVIOUS
<1>1. PICK m \in Target(d) \ Recorded(d) :
        hv[m].owner \notin {Nobody, d} /\ c = <<m, hv[m].gen>>
  BY DEF Conflicts
<1>2. Target(d) \subseteq Names
  <2>1. job[d].spec.count \in Names
    BY DEF IInv, Typed, Jobs, Specs
  <2> QED
    BY <2>1, ReconcileAssumption DEF Target, Names
<1>3. hv[m].gen \in 1..MaxGen
  BY <1>1, <1>2, ReconcileAssumption DEF IInv, Typed, VMs, Exists
<1> QED
  BY <1>1, <1>2, <1>3

LEMMA CleanConflictsIInv ==
  ASSUME IInv, NEW d \in Deployments, CleanConflicts(d)
  PROVE  IInv'
<1> DEFINE j == [job[d] EXCEPT !.phase = "cleaning", !.conflicts = Conflicts(d)]
<1>1. /\ job[d].phase = "checking" /\ job[d].mode = "clean" /\ MoveJob(d, j)
      /\ UNCHANGED <<hv, rows, want, status, faults>>
  BY DEF CleanConflicts
<1>2. /\ j \in Jobs /\ j.phase = "cleaning" /\ j.mode = "clean" /\ j.spec = job[d].spec
      /\ j.conflicts = Conflicts(d) /\ j.made = job[d].made
  <2>1. job[d] \in Jobs
    BY DEF IInv, Typed
  <2>2. PICK C \in SUBSET (Names \X (1..MaxGen)) : C = Conflicts(d)
    BY ConflictsAreNames
  <2>3. j = [job[d] EXCEPT !.phase = "cleaning", !.conflicts = C]
    BY <2>2
  <2> HIDE DEF j
  <2> QED
    BY <1>1, <2>1, <2>2, <2>3 DEF Jobs, Phases
<1> HIDE DEF j
<1>3. Typed' /\ OthersKept(d) /\ job'[d] = j
  BY <1>1, <1>2, JobStep DEF IInv, Typed, Exists
<1>4. HvStep(d) /\ NoNewStamp(d)
  BY <1>1, HvUnchanged DEF IInv
<1>5. RowsBehind(d)' /\ StampsKept(d)'
  BY <1>1, <1>3, <1>4, RowsUntouched DEF IInv
<1>6. DeployCovers(d)'
  BY <1>1, <1>2, <1>3, <1>4, SpecUntouched DEF IInv, DeployPhases
<1>7. Recorded(d)' = Recorded(d)
  BY <1>1 DEF Recorded
<1>8. NothingMadeYet(d)' /\ CleansUnrecorded(d)'
  BY <1>1, <1>2, <1>3, <1>7, ConflictsAreNames
     DEF IInv, DeploymentInv, NothingMadeYet, CleansUnrecorded
<1>9. status'[d] # "ready"
  BY <1>1, BusyIsNotReady
<1>10. DeploymentInv(d)'
  BY <1>2, <1>3, <1>5, <1>6, <1>8, <1>9
     DEF DeploymentInv, CreatesMissing, GrowsRecorded, TearsDownRecorded, ReadyIsAtRest
<1> QED
  BY <1>3, <1>4, <1>10, StepOfDeployment

(* The VM of a conflict, and what deleting it leaves. *)
LEMMA ConflictDeleted ==
  ASSUME IInv, NEW d \in Deployments, NEW c \in job[d].conflicts, hv' = Without(c[1], c[2])
  PROVE  /\ hv' \in [Names -> VMs]
         /\ \A m \in Names : hv'[m].owner # Nobody => hv'[m].gen > 0
         /\ HvStep(d) /\ NoNewStamp(d)
         /\ \A m \in Names : m # c[1] => hv'[m] = hv[m]
<1>1. c[1] \in Names /\ c[2] \in 0..MaxGen
  <2>1. c \in Names \X (1..MaxGen)
    BY DEF IInv, Typed, Jobs
  <2> QED
    BY <2>1, ReconcileAssumption
<1>2. PICK n \in Names, gen \in 0..MaxGen : n = c[1] /\ gen = c[2]
  BY <1>1
<1>3. hv' = Without(n, gen)
  BY <1>2
<1> QED
  BY <1>2, <1>3, Deleted DEF IInv

LEMMA DeleteConflictIInv ==
  ASSUME IInv, NEW d \in Deployments, DeleteConflict(d)
  PROVE  IInv'
<1>1. PICK c \in job[d].conflicts :
        /\ hv' = Without(c[1], c[2])
        /\ MoveJob(d, IF job[d].conflicts = {c} THEN Resolved(d)
                      ELSE [job[d] EXCEPT !.conflicts = @ \ {c}])
  BY DEF DeleteConflict
<1>2. job[d].phase = "cleaning" /\ UNCHANGED <<rows, want, status, faults>>
  BY DEF DeleteConflict
<1>3. /\ hv' \in [Names -> VMs]
      /\ \A m \in Names : hv'[m].owner # Nobody => hv'[m].gen > 0
      /\ HvStep(d) /\ NoNewStamp(d)
  BY <1>1, ConflictDeleted
<1>4. faults' \in 0..MaxFaults
  BY <1>2 DEF IInv, Typed
<1>5. job[d].mode = "clean"
  BY <1>2 DEF IInv, DeploymentInv, CleansUnrecorded
<1>6. CASE job[d].conflicts = {c}
  <2>1. Typed' /\ OthersKept(d) /\ job'[d] = Resolved(d)
    BY <1>1, <1>2, <1>3, <1>4, <1>6, ResolvedIsOne, JobStep DEF IInv
  <2>2. DeploymentInv(d)'
    BY <1>2, <1>3, <1>5, <2>1, CreatingStarts
  <2> QED
    BY <1>3, <2>1, <2>2, StepOfDeployment
<1>7. CASE job[d].conflicts # {c}
  <2> DEFINE j == [job[d] EXCEPT !.conflicts = @ \ {c}]
  <2>1. /\ j \in Jobs /\ j.phase = job[d].phase /\ j.mode = job[d].mode
        /\ j.spec = job[d].spec /\ j.conflicts = job[d].conflicts \ {c}
        /\ j.made = job[d].made
    <3>1. job[d] \in Jobs
      BY DEF IInv, Typed
    <3>2. PICK C \in SUBSET (Names \X (1..MaxGen)) : C = job[d].conflicts \ {c}
      BY <3>1 DEF Jobs
    <3>3. j = [job[d] EXCEPT !.conflicts = C]
      BY <3>2
    <3> HIDE DEF j
    <3> QED
      BY <3>1, <3>2, <3>3 DEF Jobs
  <2>2. MoveJob(d, j)
    BY <1>1, <1>7
  <2> HIDE DEF j
  <2>3. Typed' /\ OthersKept(d) /\ job'[d] = j
    BY <1>2, <1>3, <1>4, <2>1, <2>2, JobStep
  <2>4. RowsBehind(d)' /\ StampsKept(d)'
    BY <1>2, <1>3, <2>3, RowsUntouched DEF IInv
  <2>5. DeployCovers(d)'
    BY <1>2, <1>3, <2>1, <2>3, SpecUntouched DEF IInv, DeployPhases
  <2>6. Recorded(d)' = Recorded(d)
    BY <1>2 DEF Recorded
  <2>7. NothingMadeYet(d)' /\ CleansUnrecorded(d)'
    BY <1>2, <2>1, <2>3, <2>6 DEF IInv, DeploymentInv, NothingMadeYet, CleansUnrecorded
  <2>8. status'[d] # "ready"
    BY <1>2, BusyIsNotReady
  <2>9. DeploymentInv(d)'
    BY <1>2, <2>1, <2>3, <2>4, <2>5, <2>7, <2>8
       DEF DeploymentInv, CreatesMissing, GrowsRecorded, TearsDownRecorded, ReadyIsAtRest
  <2> QED
    BY <1>3, <2>3, <2>9, StepOfDeployment
<1> QED
  BY <1>6, <1>7

LEMMA DeleteConflictFailsIInv ==
  ASSUME IInv, NEW d \in Deployments, DeleteConflictFails(d)
  PROVE  IInv'
<1>1. PICK c \in job[d].conflicts : hv' \in {hv, Without(c[1], c[2])}
  BY DEF DeleteConflictFails
<1>2. EndJob(d, "error") /\ Fault /\ UNCHANGED <<rows, want>>
  BY DEF DeleteConflictFails
<1>3. CASE hv' = hv
  BY <1>2, <1>3, EndsOnly DEF Statuses
<1>4. CASE hv' = Without(c[1], c[2])
  BY <1>2, <1>4, ConflictDeleted, FaultCounted, JobEnds DEF Statuses, IInv
<1> QED
  BY <1>1, <1>3, <1>4

-----------------------------------------------------------------------------
(* Creating.                                                                *)

(* A worker leaves the set todo, with or without a VM to record. *)
LEMMA WorkerMoves ==
  ASSUME IInv, Typed', NEW d \in Deployments, NEW n \in job[d].todo, NEW gen \in 0..MaxGen,
         job[d].phase = "creating",
         job'[d].phase = "creating", job'[d].spec = job[d].spec, job'[d].mode = job[d].mode,
         job'[d].todo = job[d].todo \ {n},
         job'[d].made = [job[d].made EXCEPT ![n] = gen],
         job[d].failed => job'[d].failed, gen # 0 \/ job'[d].failed,
         UNCHANGED <<rows, want, status>>, HvStep(d),
         \A m \in Names : m # n => hv'[m] = hv[m],
         gen # 0 => gen = hv'[n].gen
  PROVE  DeploymentInv(d)'
<1>1. /\ n \in Names /\ n \in Target(d) /\ n \notin Recorded(d) /\ job[d].made[n] = 0
      /\ job[d].todo \subseteq Names
  BY DEF IInv, Typed, Jobs, DeploymentInv, CreatesMissing
<1>2. Recorded(d)' = Recorded(d) /\ Target(d)' = Target(d)
  BY DEF Recorded, Target
<1>3. \A m \in Names : job'[d].made[m] = IF m = n THEN gen ELSE job[d].made[m]
  BY DEF IInv, Typed, Jobs
<1>4. \A m \in Names : hv[m].gen \in Nat /\ hv'[m].gen \in Nat /\ rows[d][m].gen \in Nat
  BY DEF IInv, Typed, VMs, Rows
<1>5. RowsBehind(d)'
  <2>1. \A m \in Names : rows[d][m].gen <= hv[m].gen /\ hv[m].gen <= hv'[m].gen
    BY DEF IInv, DeploymentInv, RowsBehind, HvStep
  <2>2. \A m \in Names : rows[d][m].gen <= hv'[m].gen
    BY <1>4, <2>1
  <2> QED
    BY <1>2, <2>2 DEF IInv, DeploymentInv, RowsBehind
<1>6. n <= want[d].count
  <2>1. n <= job[d].spec.count /\ job[d].spec.count <= want[d].count
    BY <1>1 DEF IInv, DeploymentInv, DeployCovers, DeployPhases, Target
  <2>2. n \in Nat /\ job[d].spec.count \in Nat /\ want[d].count \in Nat
    BY <1>1, NamesAreNumbers, SpecsAreNumbers DEF IInv, Typed, Jobs
  <2> QED
    BY <2>1, <2>2
<1>7. StampsKept(d)'
  BY <1>1, <1>2, <1>6 DEF IInv, DeploymentInv, StampsKept
<1>8. DeployCovers(d)'
  BY <1>1, <1>2 DEF IInv, DeploymentInv, DeployCovers, DeployPhases
<1>9. CreatesMissing(d)'
  <2>1. job'[d].todo \cap Recorded(d)' = {} /\ job'[d].todo \subseteq Target(d)'
    BY <1>2 DEF IInv, DeploymentInv, CreatesMissing
  <2>2. ASSUME NEW m \in Names
        PROVE  /\ job'[d].made[m] <= hv'[m].gen
               /\ job'[d].made[m] # 0 => m \notin Recorded(d)' /\ m \notin job'[d].todo
               /\ \/ job'[d].failed
                  \/ m \in Recorded(d)' \cup job'[d].todo
                  \/ job'[d].made[m] # 0
                  \/ m \notin Target(d)'
               /\ hv'[m].owner = d /\ job'[d].made[m] # 0 => job'[d].made[m] = hv'[m].gen
    <3>1. CASE m = n
      BY <1>1, <1>2, <1>3, <1>4, <3>1
    <3>2. CASE m # n
      BY <1>2, <1>3, <3>2 DEF IInv, DeploymentInv, CreatesMissing
    <3> QED
      BY <3>1, <3>2
  <2>3. ASSUME job'[d].mode = "abort", NEW m \in job'[d].todo
        PROVE  hv'[m].owner # Foreign
    <3>1. m \in job[d].todo /\ m # n /\ m \in Names
      BY <1>1
    <3>2. job[d].mode = "abort"
      BY <2>3
    <3>3. hv[m].owner # Foreign
      BY <3>1, <3>2 DEF IInv, DeploymentInv, CreatesMissing
    <3> QED
      BY <3>1, <3>3
  <2> QED
    BY <2>1, <2>2, <2>3 DEF CreatesMissing
<1>10. status'[d] # "ready"
  BY BusyIsNotReady
<1> QED
  BY <1>5, <1>7, <1>8, <1>9, <1>10 DEF DeploymentInv, NothingMadeYet, CleansUnrecorded,
     GrowsRecorded, TearsDownRecorded, ReadyIsAtRest

LEMMA CreateVMIInv ==
  ASSUME IInv, NEW d \in Deployments, NEW n \in Names, CreateVM(d, n)
  PROVE  IInv'
<1>1. /\ job[d].phase = "creating" /\ n \in job[d].todo
      /\ Exists(n) \/ hv[n].gen < MaxGen
      /\ hv' = Created(d, n)
      /\ UNCHANGED <<rows, want, status, faults>>
  BY DEF CreateVM, Creating
<1>2. /\ hv' \in [Names -> VMs]
      /\ \A m \in Names : hv'[m].owner # Nobody => hv'[m].gen > 0
      /\ HvStep(d) /\ hv'[n].gen > 0
      /\ \A m \in Names : m # n => hv'[m] = hv[m]
  BY <1>1, Stamped DEF IInv
<1>3. PICK gen \in 0..MaxGen : gen = hv'[n].gen
  BY <1>2 DEF VMs
<1>4. PICK T \in SUBSET Names : T = job[d].todo \ {n}
  BY DEF IInv, Typed, Jobs
<1> DEFINE j == [job[d] EXCEPT !.todo = T, !.made[n] = gen]
<1>5. MoveJob(d, j)
  BY <1>3, <1>4 DEF CreateVM
<1> HIDE DEF j
<1>6. /\ j \in Jobs /\ j.phase = job[d].phase /\ j.spec = job[d].spec
      /\ j.mode = job[d].mode /\ j.todo = T /\ j.failed = job[d].failed
      /\ j.made = [job[d].made EXCEPT ![n] = gen]
  <2> DEFINE made == [job[d].made EXCEPT ![n] = gen]
  <2>1. job[d] \in Jobs
    BY DEF IInv, Typed
  <2>2. made \in [Names -> 0..MaxGen]
    BY <2>1 DEF Jobs
  <2>3. j = [job[d] EXCEPT !.todo = T, !.made = made]
    BY DEF j
  <2> HIDE DEF made
  <2>4. /\ j \in Jobs /\ j.phase = job[d].phase /\ j.spec = job[d].spec
        /\ j.mode = job[d].mode /\ j.todo = T /\ j.failed = job[d].failed
        /\ j.made = made
    BY <2>1, <2>2, <2>3 DEF Jobs
  <2> QED
    BY <2>4 DEF made
<1>7. faults' \in 0..MaxFaults
  BY <1>1 DEF IInv, Typed
<1>8. Typed' /\ OthersKept(d) /\ job'[d] = j
  BY <1>1, <1>2, <1>5, <1>6, <1>7, JobStep
<1>9. gen # 0
  BY <1>2, <1>3
<1>10. DeploymentInv(d)'
  BY <1>1, <1>2, <1>3, <1>4, <1>6, <1>8, <1>9, WorkerMoves
<1> QED
  BY <1>2, <1>8, <1>10, StepOfDeployment

LEMMA AdoptUnstampedIInv ==
  ASSUME IInv, NEW d \in Deployments, NEW n \in Names, AdoptUnstamped(d, n)
  PROVE  IInv'
<1>1. /\ job[d].phase = "creating" /\ n \in job[d].todo /\ Exists(n) /\ Fault
      /\ UNCHANGED <<hv, rows, want, status>>
  BY DEF AdoptUnstamped, Creating
<1>2. /\ hv' \in [Names -> VMs]
      /\ \A m \in Names : hv'[m].owner # Nobody => hv'[m].gen > 0
      /\ HvStep(d) /\ hv'[n].gen > 0
  BY <1>1, HvUnchanged DEF IInv, Typed, Exists
<1>3. PICK gen \in 0..MaxGen : gen = hv[n].gen
  BY DEF IInv, Typed, VMs
<1>4. PICK T \in SUBSET Names : T = job[d].todo \ {n}
  BY DEF IInv, Typed, Jobs
<1> DEFINE j == [job[d] EXCEPT !.todo = T, !.made[n] = gen]
<1>5. MoveJob(d, j)
  BY <1>3, <1>4 DEF AdoptUnstamped
<1> HIDE DEF j
<1>6. /\ j \in Jobs /\ j.phase = job[d].phase /\ j.spec = job[d].spec
      /\ j.mode = job[d].mode /\ j.todo = T /\ j.failed = job[d].failed
      /\ j.made = [job[d].made EXCEPT ![n] = gen]
  <2> DEFINE made == [job[d].made EXCEPT ![n] = gen]
  <2>1. job[d] \in Jobs
    BY DEF IInv, Typed
  <2>2. made \in [Names -> 0..MaxGen]
    BY <2>1 DEF Jobs
  <2>3. j = [job[d] EXCEPT !.todo = T, !.made = made]
    BY DEF j
  <2> HIDE DEF made
  <2>4. /\ j \in Jobs /\ j.phase = job[d].phase /\ j.spec = job[d].spec
        /\ j.mode = job[d].mode /\ j.todo = T /\ j.failed = job[d].failed
        /\ j.made = made
    BY <2>1, <2>2, <2>3 DEF Jobs
  <2> QED
    BY <2>4 DEF made
<1>7. faults' \in 0..MaxFaults
  BY <1>1, FaultCounted DEF IInv
<1>8. Typed' /\ OthersKept(d) /\ job'[d] = j
  BY <1>1, <1>2, <1>5, <1>6, <1>7, JobStep
<1>9. gen # 0 /\ gen = hv'[n].gen
  BY <1>1, <1>2, <1>3
<1>10. \A m \in Names : hv'[m] = hv[m]
  BY <1>1
<1>11. DeploymentInv(d)'
  BY <1>1, <1>2, <1>4, <1>6, <1>8, <1>9, <1>10, WorkerMoves
<1> QED
  BY <1>2, <1>8, <1>11, StepOfDeployment

LEMMA CreateVMFailsIInv ==
  ASSUME IInv, NEW d \in Deployments, NEW n \in Names, CreateVMFails(d, n)
  PROVE  IInv'
<1>1. /\ job[d].phase = "creating" /\ n \in job[d].todo /\ Fault
      /\ Exists(n) \/ hv[n].gen < MaxGen
      /\ hv' \in {hv, Created(d, n)}
      /\ UNCHANGED <<rows, want, status>>
  BY DEF CreateVMFails, Creating
<1>2. /\ hv' \in [Names -> VMs]
      /\ \A m \in Names : hv'[m].owner # Nobody => hv'[m].gen > 0
      /\ HvStep(d)
      /\ \A m \in Names : m # n => hv'[m] = hv[m]
  <2>1. CASE hv' = hv
    BY <2>1, HvUnchanged DEF IInv, Typed, Exists
  <2>2. CASE hv' = Created(d, n)
    BY <1>1, <2>2, Stamped DEF IInv
  <2> QED
    BY <1>1, <2>1, <2>2
<1>3. PICK T \in SUBSET Names : T = job[d].todo \ {n}
  BY DEF IInv, Typed, Jobs
<1> DEFINE j == [job[d] EXCEPT !.todo = T, !.failed = TRUE]
<1>4. MoveJob(d, j)
  BY <1>3 DEF CreateVMFails
<1>5. job[d] \in Jobs /\ job[d].made[n] = 0
  BY <1>1 DEF IInv, Typed, DeploymentInv, CreatesMissing
<1>6. /\ j \in Jobs /\ j.phase = job[d].phase /\ j.spec = job[d].spec
      /\ j.mode = job[d].mode /\ j.todo = T /\ j.failed /\ j.made = job[d].made
  BY <1>5 DEF Jobs
<1> HIDE DEF j
<1>7. j.made = [job[d].made EXCEPT ![n] = 0]
  BY <1>5, <1>6 DEF Jobs
<1>8. faults' \in 0..MaxFaults /\ 0 \in 0..MaxGen
  BY <1>1, FaultCounted, ReconcileAssumption DEF IInv
<1>9. Typed' /\ OthersKept(d) /\ job'[d] = j
  BY <1>1, <1>2, <1>4, <1>6, <1>8, JobStep
<1>10. DeploymentInv(d)'
  BY <1>1, <1>2, <1>3, <1>6, <1>7, <1>8, <1>9, WorkerMoves
<1> QED
  BY <1>2, <1>9, <1>10, StepOfDeployment

LEMMA AddManagedVMIInv ==
  ASSUME IInv, NEW d \in Deployments, NEW n \in Names, AddManagedVM(d, n)
  PROVE  IInv'
<1>1. /\ job[d].phase = "creating" /\ job[d].made[n] # 0
      /\ UNCHANGED <<hv, want, status, faults>>
  BY DEF AddManagedVM
<1> DEFINE row == [gen |-> job[d].made[n], disks |-> job[d].spec.disks]
<1>2. job[d] \in Jobs /\ job[d].made[n] \in 0..MaxGen /\ job[d].spec.disks \in 0..MaxDisks
  <2>1. job[d] \in Jobs /\ job[d].spec \in Specs
    BY DEF IInv, Typed, Jobs
  <2>2. job[d].spec.disks \in 1..MaxDisks
    BY <2>1 DEF Specs
  <2>3. 1..MaxDisks \subseteq 0..MaxDisks
    BY ReconcileAssumption
  <2> QED
    BY <2>1, <2>2, <2>3 DEF Jobs
<1>3. row \in Rows /\ row.gen = job[d].made[n] /\ row.disks = job[d].spec.disks
  BY <1>2 DEF Rows
<1> HIDE DEF row
<1>4. rows' = [rows EXCEPT ![d] = [rows[d] EXCEPT ![n] = row]]
  BY DEF AddManagedVM, row
<1>5. rows[d] \in [Names -> Rows]
  BY DEF IInv, Typed
<1>6. /\ rows' \in [Deployments -> [Names -> Rows]]
      /\ rows'[d][n] = row
      /\ \A m \in Names : m # n => rows'[d][m] = rows[d][m]
      /\ \A e \in Deployments : e # d => rows'[e] = rows[e]
  BY <1>3, <1>4, <1>5 DEF IInv, Typed
<1> DEFINE made == [job[d].made EXCEPT ![n] = 0]
           j == [job[d] EXCEPT !.made = made]
<1>7. MoveJob(d, j)
  BY DEF AddManagedVM
<1>8. made \in [Names -> 0..MaxGen]
  BY <1>2, ReconcileAssumption DEF Jobs
<1>9. \A m \in Names : made[m] = IF m = n THEN 0 ELSE job[d].made[m]
  BY <1>2 DEF Jobs
<1> HIDE DEF made
<1>10. /\ j \in Jobs /\ j.phase = "creating" /\ j.spec = job[d].spec /\ j.mode = job[d].mode
       /\ j.todo = job[d].todo /\ j.failed = job[d].failed /\ j.made = made
  BY <1>1, <1>2, <1>8 DEF Jobs
<1> HIDE DEF j
<1>11. /\ job' \in [Deployments -> Jobs] /\ job'[d] = j
       /\ \A e \in Deployments : e # d => job'[e] = job[e]
  BY <1>7, <1>10, JobMoves DEF IInv
<1>12. Typed' /\ OthersKept(d) /\ HvStep(d)
  BY <1>1, <1>6, <1>11, HvUnchanged DEF IInv, Typed, Exists, OthersKept
<1>13. /\ n \notin Recorded(d) /\ n \notin job[d].todo /\ job[d].made[n] <= hv[n].gen
       /\ hv[n].owner = d => job[d].made[n] = hv[n].gen
  BY <1>1 DEF IInv, DeploymentInv, CreatesMissing
<1>14. row # NoRow /\ row.gen > 0
  BY <1>1, <1>2, <1>3 DEF NoRow
<1>15. Recorded(d)' = Recorded(d) \cup {n}
  BY <1>6, <1>14 DEF Recorded
<1>16. Target(d)' = Target(d)
  BY <1>10, <1>11 DEF Target
<1>17. RowsBehind(d)'
  <2>1. job[d].spec.disks <= want[d].disks
    BY <1>1 DEF IInv, DeploymentInv, DeployCovers, DeployPhases
  <2>2. ASSUME NEW m \in Names
        PROVE  /\ rows'[d][m].gen <= hv'[m].gen
               /\ rows'[d][m].disks <= want'[d].disks
               /\ m \in Recorded(d)' => rows'[d][m].gen > 0
    <3>1. CASE m = n
      BY <1>1, <1>3, <1>6, <1>13, <1>14, <2>1, <3>1
    <3>2. CASE m # n
      BY <1>1, <1>6, <1>15, <3>2 DEF IInv, DeploymentInv, RowsBehind
    <3> QED
      BY <3>1, <3>2
  <2> QED
    BY <2>2 DEF RowsBehind
<1>18. StampsKept(d)'
  <2>1. ASSUME NEW m \in Names, hv'[m].owner = d
        PROVE  m <= want'[d].count /\ (m \in Recorded(d)' => hv'[m].gen = rows'[d][m].gen)
    <3>1. CASE m = n
      BY <1>1, <1>3, <1>6, <1>13, <2>1, <3>1 DEF IInv, DeploymentInv, StampsKept
    <3>2. CASE m # n
      BY <1>1, <1>6, <1>15, <2>1, <3>2 DEF IInv, DeploymentInv, StampsKept
    <3> QED
      BY <3>1, <3>2
  <2> QED
    BY <2>1 DEF StampsKept
<1>19. DeployCovers(d)'
  <2>1. job[d].spec.disks <= job[d].spec.disks
    BY <1>2
  <2>2. ASSUME NEW m \in Names
        PROVE  rows'[d][m].disks <= job[d].spec.disks
    BY <1>1, <1>3, <1>6, <2>1 DEF IInv, DeploymentInv, DeployCovers, DeployPhases
  <2> QED
    BY <1>1, <1>10, <1>11, <1>16, <2>2 DEF IInv, DeploymentInv, DeployCovers, DeployPhases
<1>20. CreatesMissing(d)'
  <2>1. job'[d].todo \cap Recorded(d)' = {} /\ job'[d].todo \subseteq Target(d)'
    BY <1>1, <1>10, <1>11, <1>13, <1>15, <1>16 DEF IInv, DeploymentInv, CreatesMissing
  <2>2. ASSUME NEW m \in Names
        PROVE  /\ job'[d].made[m] <= hv'[m].gen
               /\ job'[d].made[m] # 0 => m \notin Recorded(d)' /\ m \notin job'[d].todo
               /\ \/ job'[d].failed
                  \/ m \in Recorded(d)' \cup job'[d].todo
                  \/ job'[d].made[m] # 0
                  \/ m \notin Target(d)'
               /\ hv'[m].owner = d /\ job'[d].made[m] # 0 => job'[d].made[m] = hv'[m].gen
    <3>1. CASE m = n
      <4>1. hv[n].gen \in Nat
        BY DEF IInv, Typed, VMs
      <4> QED
        BY <1>1, <1>9, <1>10, <1>11, <1>15, <3>1, <4>1
    <3>2. CASE m # n
      BY <1>1, <1>9, <1>10, <1>11, <1>15, <1>16, <3>2 DEF IInv, DeploymentInv, CreatesMissing
    <3> QED
      BY <3>1, <3>2
  <2>3. job'[d].mode = "abort" => \A m \in job'[d].todo : hv'[m].owner # Foreign
    BY <1>1, <1>10, <1>11 DEF IInv, DeploymentInv, CreatesMissing
  <2> QED
    BY <2>1, <2>2, <2>3 DEF CreatesMissing
<1>21. status'[d] # "ready"
  BY <1>1, BusyIsNotReady
<1>22. DeploymentInv(d)'
  BY <1>10, <1>11, <1>17, <1>18, <1>19, <1>20, <1>21 DEF DeploymentInv, NothingMadeYet,
     CleansUnrecorded, GrowsRecorded, TearsDownRecorded, ReadyIsAtRest
<1> QED
  BY <1>12, <1>22, StepOfDeployment

LEMMA GoOnToGrowIInv ==
  ASSUME IInv, NEW d \in Deployments, GoOnToGrow(d)
  PROVE  IInv'
<1> DEFINE L == {n \in Recorded(d) : rows[d][n].disks # job[d].spec.disks}
           j == [job[d] EXCEPT !.phase = "growing", !.left = L]
<1>1. /\ job[d].phase = "creating" /\ job[d].todo = {} /\ ~job[d].failed
      /\ \A n \in Names : job[d].made[n] = 0
      /\ MoveJob(d, j) /\ UNCHANGED <<hv, rows, want, status, faults>>
  BY DEF GoOnToGrow, WorkersDone
<1>2. L \in SUBSET Names
  BY DEF Recorded
<1>3. \A n \in Recorded(d) \ L : rows[d][n].disks = job[d].spec.disks
  OBVIOUS
<1>4. L \subseteq Recorded(d)
  OBVIOUS
<1>5. job[d] \in Jobs
  BY DEF IInv, Typed
<1> HIDE DEF L
<1>6. j \in Jobs /\ j.phase = "growing" /\ j.left = L /\ j.spec = job[d].spec
  BY <1>2, <1>5 DEF Jobs, Phases
<1> HIDE DEF j
<1>7. Typed' /\ OthersKept(d) /\ job'[d] = j
  BY <1>1, <1>6, JobStep DEF IInv, Typed, Exists
<1>8. HvStep(d) /\ NoNewStamp(d)
  BY <1>1, HvUnchanged DEF IInv
<1>9. RowsBehind(d)' /\ StampsKept(d)'
  BY <1>1, <1>7, <1>8, RowsUntouched DEF IInv
<1>10. DeployCovers(d)'
  BY <1>1, <1>6, <1>7, <1>8, SpecUntouched DEF IInv, DeployPhases
<1>11. Recorded(d)' = Recorded(d) /\ Target(d)' = Target(d)
  BY <1>1, <1>6, <1>7 DEF Recorded, Target
<1>12. Target(d) \subseteq Recorded(d)
  <2>1. \A n \in Names : n \in Recorded(d) \/ n \notin Target(d)
    BY <1>1 DEF IInv, DeploymentInv, CreatesMissing
  <2>2. Target(d) \subseteq Names
    BY <1>5, ReconcileAssumption DEF Target, Names, Jobs, Specs
  <2> QED
    BY <2>1, <2>2
<1>13. GrowsRecorded(d)'
  BY <1>1, <1>3, <1>4, <1>6, <1>7, <1>11, <1>12 DEF GrowsRecorded
<1>14. status'[d] # "ready"
  BY <1>1, BusyIsNotReady
<1>15. DeploymentInv(d)'
  BY <1>6, <1>7, <1>9, <1>10, <1>13, <1>14 DEF DeploymentInv, NothingMadeYet,
     CleansUnrecorded, CreatesMissing, TearsDownRecorded, ReadyIsAtRest
<1> QED
  BY <1>7, <1>8, <1>15, StepOfDeployment

LEMMA WorkerFailedIInv ==
  ASSUME IInv, NEW d \in Deployments, WorkerFailed(d)
  PROVE  IInv'
BY EndsOnly DEF WorkerFailed, Statuses

-----------------------------------------------------------------------------
(* Growing.                                                                 *)

LEMMA NextToGrow ==
  ASSUME IInv, NEW d \in Deployments, job[d].left # {},
         job[d].phase \in {"growing", "recording", "destroying", "forgetting"}
  PROVE  /\ Min(job[d].left) \in job[d].left
         /\ Min(job[d].left) \in Names
         /\ Min(job[d].left) \in Recorded(d)
<1>1. job[d].left \in SUBSET Names
  BY DEF IInv, Typed, Jobs
<1>2. Min(job[d].left) \in job[d].left
  BY <1>1, MinOfNames
<1>3. job[d].left \subseteq Recorded(d)
  BY DEF IInv, DeploymentInv, GrowsRecorded, TearsDownRecorded
<1> QED
  BY <1>1, <1>2, <1>3

LEMMA AddDisksIInv ==
  ASSUME IInv, NEW d \in Deployments, AddDisks(d)
  PROVE  IInv'
<1> DEFINE j == [job[d] EXCEPT !.phase = "recording"]
<1>1. /\ job[d].phase = "growing" /\ job[d].left # {} /\ MoveJob(d, j)
      /\ UNCHANGED <<rows, want, status, faults>>
  BY DEF AddDisks
<1>2. PICK n \in Names : n = Min(job[d].left)
  BY <1>1, NextToGrow
<1>3. hv' = WithMoreDisks(d, n)
  BY <1>2 DEF AddDisks
<1>4. rows[d][n].disks <= job[d].spec.disks
  BY <1>1 DEF IInv, DeploymentInv, DeployCovers, DeployPhases
<1>5. /\ hv' \in [Names -> VMs]
      /\ \A m \in Names : hv'[m].owner # Nobody => hv'[m].gen > 0
      /\ HvStep(d) /\ NoNewStamp(d)
  BY <1>3, <1>4, Grown DEF IInv
<1>6. /\ j \in Jobs /\ j.phase = "recording" /\ j.left = job[d].left /\ j.spec = job[d].spec
  <2>1. job[d] \in Jobs
    BY DEF IInv, Typed
  <2> QED
    BY <2>1 DEF Jobs, Phases
<1> HIDE DEF j
<1>7. Typed' /\ OthersKept(d) /\ job'[d] = j
  BY <1>1, <1>5, <1>6, JobStep DEF IInv, Typed
<1>8. RowsBehind(d)' /\ StampsKept(d)'
  BY <1>1, <1>5, <1>7, RowsUntouched DEF IInv
<1>9. DeployCovers(d)'
  BY <1>1, <1>5, <1>6, <1>7, SpecUntouched DEF IInv, DeployPhases
<1>10. Recorded(d)' = Recorded(d) /\ Target(d)' = Target(d)
  BY <1>1, <1>6, <1>7 DEF Recorded, Target
<1>11. GrowsRecorded(d)'
  BY <1>1, <1>6, <1>7, <1>10 DEF IInv, DeploymentInv, GrowsRecorded
<1>12. status'[d] # "ready"
  BY <1>1, BusyIsNotReady
<1>13. DeploymentInv(d)'
  BY <1>6, <1>7, <1>8, <1>9, <1>11, <1>12 DEF DeploymentInv, NothingMadeYet,
     CleansUnrecorded, CreatesMissing, TearsDownRecorded, ReadyIsAtRest
<1> QED
  BY <1>5, <1>7, <1>13, StepOfDeployment

LEMMA AddDisksFailsIInv ==
  ASSUME IInv, NEW d \in Deployments, AddDisksFails(d)
  PROVE  IInv'
<1>1. /\ job[d].phase = "growing" /\ job[d].left # {} /\ EndJob(d, "error")
      /\ UNCHANGED <<rows, want>>
  BY DEF AddDisksFails
<1>2. PICK n \in Names : n = Min(job[d].left)
  BY <1>1, NextToGrow
<1>3. \/ Fault /\ hv' \in {hv, WithMoreDisks(d, n)}
      \/ UNCHANGED <<hv, faults>>
  BY <1>2 DEF AddDisksFails
<1>4. CASE hv' = hv
  <2>1. faults' = faults \/ Fault
    BY <1>3
  <2> QED
    BY <1>1, <1>4, <2>1, EndsOnly DEF Statuses
<1>5. CASE Fault /\ hv' = WithMoreDisks(d, n)
  <2>1. rows[d][n].disks <= job[d].spec.disks
    BY <1>1 DEF IInv, DeploymentInv, DeployCovers, DeployPhases
  <2>2. /\ hv' \in [Names -> VMs]
        /\ \A m \in Names : hv'[m].owner # Nobody => hv'[m].gen > 0
        /\ HvStep(d) /\ NoNewStamp(d)
    BY <1>5, <2>1, Grown DEF IInv
  <2>3. faults' \in 0..MaxFaults
    BY <1>5, FaultCounted DEF IInv
  <2> QED
    BY <1>1, <2>2, <2>3, JobEnds DEF Statuses
<1> QED
  BY <1>3, <1>4, <1>5

LEMMA ExtendDisksFailsIInv ==
  ASSUME IInv, NEW d \in Deployments, ExtendDisksFails(d)
  PROVE  IInv'
BY EndsOnly DEF ExtendDisksFails, Statuses

LEMMA UpdateManagedVMDisksIInv ==
  ASSUME IInv, NEW d \in Deployments, UpdateManagedVMDisks(d)
  PROVE  IInv'
<1>1. job[d].phase = "recording" /\ UNCHANGED <<hv, want, status, faults>>
  BY DEF UpdateManagedVMDisks
<1>2. job[d].left # {}
  BY <1>1 DEF IInv, DeploymentInv, GrowsRecorded
<1>3. PICK n \in Names : n = Min(job[d].left) /\ n \in Recorded(d)
  BY <1>1, <1>2, NextToGrow
<1> DEFINE row == [rows[d][n] EXCEPT !.disks = job[d].spec.disks]
           L == job[d].left \ {n}
           j == [job[d] EXCEPT !.phase = "growing", !.left = L]
<1>4. MoveJob(d, j)
  BY <1>3 DEF UpdateManagedVMDisks
<1>5. job[d] \in Jobs /\ job[d].spec.disks \in 1..MaxDisks
  BY DEF IInv, Typed, Jobs, Specs
<1>6. row \in Rows /\ row.gen = rows[d][n].gen /\ row.disks = job[d].spec.disks
  <2>1. rows[d][n] \in Rows
    BY DEF IInv, Typed
  <2>2. job[d].spec.disks \in 0..MaxDisks
    BY <1>5, ReconcileAssumption
  <2> QED
    BY <2>1, <2>2 DEF Rows
<1>7. rows' = [rows EXCEPT ![d] = [rows[d] EXCEPT ![n] = row]]
  BY <1>3 DEF UpdateManagedVMDisks
<1> HIDE DEF row
<1>8. rows[d] \in [Names -> Rows]
  BY DEF IInv, Typed
<1>9. /\ rows' \in [Deployments -> [Names -> Rows]]
      /\ rows'[d][n] = row
      /\ \A m \in Names : m # n => rows'[d][m] = rows[d][m]
      /\ \A e \in Deployments : e # d => rows'[e] = rows[e]
  BY <1>6, <1>7, <1>8 DEF IInv, Typed
<1>10. L \in SUBSET Names
  BY <1>5 DEF Jobs
<1> HIDE DEF L
<1>11. j \in Jobs /\ j.phase = "growing" /\ j.left = L /\ j.spec = job[d].spec
  BY <1>5, <1>10 DEF Jobs, Phases
<1> HIDE DEF j
<1>12. /\ job' \in [Deployments -> Jobs] /\ job'[d] = j
       /\ \A e \in Deployments : e # d => job'[e] = job[e]
  BY <1>4, <1>11, JobMoves DEF IInv
<1>13. Typed' /\ OthersKept(d) /\ HvStep(d)
  BY <1>1, <1>9, <1>12, HvUnchanged DEF IInv, Typed, Exists, OthersKept
<1>14. rows[d][n].gen > 0
  BY <1>3 DEF IInv, DeploymentInv, RowsBehind
<1>15. Recorded(d)' = Recorded(d) /\ Target(d)' = Target(d)
  <2>1. rows'[d][n] # NoRow
    BY <1>6, <1>9, <1>14 DEF NoRow
  <2>2. Recorded(d)' = Recorded(d)
    BY <1>3, <1>9, <2>1 DEF Recorded
  <2> QED
    BY <1>11, <1>12, <2>2 DEF Target
<1>16. job[d].spec.disks <= want[d].disks /\ job[d].spec.disks <= job[d].spec.disks
  BY <1>1, <1>5 DEF IInv, DeploymentInv, DeployCovers, DeployPhases
<1>17. \A m \in Names : rows'[d][m].gen = rows[d][m].gen
  BY <1>6, <1>9
<1>18. RowsBehind(d)'
  <2>1. \A m \in Names : rows'[d][m].disks <= want[d].disks
    BY <1>6, <1>9, <1>16 DEF IInv, DeploymentInv, RowsBehind
  <2> QED
    BY <1>1, <1>15, <1>17, <2>1 DEF IInv, DeploymentInv, RowsBehind
<1>19. StampsKept(d)'
  BY <1>1, <1>15, <1>17 DEF IInv, DeploymentInv, StampsKept
<1>20. DeployCovers(d)'
  <2>1. \A m \in Names : rows'[d][m].disks <= job[d].spec.disks
    BY <1>1, <1>6, <1>9, <1>16 DEF IInv, DeploymentInv, DeployCovers, DeployPhases
  <2> QED
    BY <1>1, <1>11, <1>12, <1>15, <2>1 DEF IInv, DeploymentInv, DeployCovers, DeployPhases
<1>21. GrowsRecorded(d)'
  <2>1. L \subseteq Recorded(d)
    BY <1>1 DEF L, IInv, DeploymentInv, GrowsRecorded
  <2>2. ASSUME NEW m \in Recorded(d) \ L
        PROVE  rows'[d][m].disks = job[d].spec.disks
    <3>1. m \in Names
      BY DEF Recorded
    <3>2. CASE m = n
      BY <1>6, <1>9, <3>2
    <3>3. CASE m # n
      BY <1>1, <1>9, <3>1, <3>3 DEF L, IInv, DeploymentInv, GrowsRecorded
    <3> QED
      BY <3>2, <3>3
  <2> QED
    BY <1>1, <1>11, <1>12, <1>15, <2>1, <2>2 DEF IInv, DeploymentInv, GrowsRecorded
<1>22. status'[d] # "ready"
  BY <1>1, BusyIsNotReady
<1>23. DeploymentInv(d)'
  BY <1>11, <1>12, <1>18, <1>19, <1>20, <1>21, <1>22 DEF DeploymentInv, NothingMadeYet,
     CleansUnrecorded, CreatesMissing, TearsDownRecorded, ReadyIsAtRest
<1> QED
  BY <1>13, <1>23, StepOfDeployment

LEMMA FinishDeployIInv ==
  ASSUME IInv, NEW d \in Deployments, FinishDeploy(d)
  PROVE  IInv'
<1>1. /\ job[d].phase = "growing" /\ EndJob(d, "ready")
      /\ UNCHANGED <<hv, rows, want, faults>>
  BY DEF FinishDeploy
<1>2. /\ job' \in [Deployments -> Jobs] /\ job'[d] = NoJob
      /\ \A e \in Deployments : e # d => job'[e] = job[e]
  BY <1>1, JobMoves, NoJobIsOne DEF IInv, EndJob
<1>3. /\ status' \in [Deployments -> Statuses]
      /\ \A e \in Deployments : e # d => status'[e] = status[e]
  BY <1>1 DEF IInv, Typed, EndJob, Statuses
<1>4. Typed' /\ OthersKept(d)
  BY <1>1, <1>2, <1>3 DEF IInv, Typed, Exists, OthersKept
<1>5. HvStep(d) /\ NoNewStamp(d)
  BY <1>1, HvUnchanged DEF IInv
<1>6. RowsBehind(d)' /\ StampsKept(d)'
  BY <1>1, <1>4, <1>5, RowsUntouched DEF IInv
<1>7. \A n \in Names : hv[n].owner = d => n \in Recorded(d)
  BY <1>1 DEF IInv, DeploymentInv, DeployCovers, DeployPhases, GrowsRecorded
<1>8. Recorded(d)' = Recorded(d)
  BY <1>1 DEF Recorded
<1>9. ReadyIsAtRest(d)'
  BY <1>1, <1>2, <1>7, <1>8 DEF ReadyIsAtRest, NoJob
<1>10. job'[d].phase = "none"
  BY <1>2, NoJobIsOne
<1>11. DeploymentInv(d)'
  BY <1>6, <1>9, <1>10 DEF DeploymentInv, DeployCovers, DeployPhases, NothingMadeYet,
     CleansUnrecorded, CreatesMissing, GrowsRecorded, TearsDownRecorded
<1> QED
  BY <1>4, <1>5, <1>11, StepOfDeployment

-----------------------------------------------------------------------------
(* Teardown.                                                                *)

(* The VM of the next row, deleted or already gone. *)
LEMMA RecordedDeleted ==
  ASSUME IInv, NEW d \in Deployments, NEW n \in Names, hv' = Without(n, rows[d][n].gen)
  PROVE  /\ hv' \in [Names -> VMs]
         /\ \A m \in Names : hv'[m].owner # Nobody => hv'[m].gen > 0
         /\ HvStep(d) /\ NoNewStamp(d)
         /\ ~(hv'[n].owner # Nobody /\ hv'[n].gen = rows[d][n].gen)
<1>1. rows[d][n].gen \in 0..MaxGen
  BY DEF IInv, Typed, Rows
<1> QED
  BY <1>1, Deleted DEF IInv

LEMMA DeleteVMIInv ==
  ASSUME IInv, NEW d \in Deployments, DeleteVM(d)
  PROVE  IInv'
<1> DEFINE j == [job[d] EXCEPT !.phase = "forgetting"]
<1>1. /\ job[d].phase = "destroying" /\ job[d].left # {} /\ MoveJob(d, j)
      /\ UNCHANGED <<rows, want, status, faults>>
  BY DEF DeleteVM
<1>2. PICK n \in Names : n = Min(job[d].left)
  BY <1>1, NextToGrow
<1>3. hv' = Without(n, rows[d][n].gen)
  BY <1>2 DEF DeleteVM
<1>4. /\ hv' \in [Names -> VMs]
      /\ \A m \in Names : hv'[m].owner # Nobody => hv'[m].gen > 0
      /\ HvStep(d) /\ NoNewStamp(d)
      /\ ~(hv'[n].owner # Nobody /\ hv'[n].gen = rows[d][n].gen)
  BY <1>3, RecordedDeleted
<1>5. /\ j \in Jobs /\ j.phase = "forgetting" /\ j.left = job[d].left
  <2>1. job[d] \in Jobs
    BY DEF IInv, Typed
  <2> QED
    BY <2>1 DEF Jobs, Phases
<1> HIDE DEF j
<1>6. Typed' /\ OthersKept(d) /\ job'[d] = j
  BY <1>1, <1>4, <1>5, JobStep DEF IInv, Typed
<1>7. RowsBehind(d)' /\ StampsKept(d)'
  BY <1>1, <1>4, <1>6, RowsUntouched DEF IInv
<1>8. Recorded(d)' = Recorded(d)
  BY <1>1 DEF Recorded
<1>9. TearsDownRecorded(d)'
  <2>1. Min(job'[d].left) = n
    BY <1>2, <1>5, <1>6
  <2>2. ~Alive(d, n)'
    BY <1>1, <1>4 DEF Alive, Exists
  <2> QED
    BY <1>1, <1>5, <1>6, <1>8, <2>1, <2>2 DEF IInv, DeploymentInv, TearsDownRecorded
<1>10. status'[d] # "ready"
  BY <1>1, BusyIsNotReady
<1>11. DeploymentInv(d)'
  BY <1>5, <1>6, <1>7, <1>9, <1>10 DEF DeploymentInv, DeployCovers, DeployPhases,
     NothingMadeYet, CleansUnrecorded, CreatesMissing, GrowsRecorded, ReadyIsAtRest
<1> QED
  BY <1>4, <1>6, <1>11, StepOfDeployment

LEMMA DeleteVMFailsIInv ==
  ASSUME IInv, NEW d \in Deployments, DeleteVMFails(d)
  PROVE  IInv'
<1>1. /\ job[d].phase = "destroying" /\ job[d].left # {} /\ Fault /\ EndJob(d, "error")
      /\ UNCHANGED <<rows, want>>
  BY DEF DeleteVMFails
<1>2. PICK n \in Names : n = Min(job[d].left)
  BY <1>1, NextToGrow
<1>3. hv' \in {hv, Without(n, rows[d][n].gen)}
  BY <1>2 DEF DeleteVMFails
<1>4. CASE hv' = hv
  BY <1>1, <1>4, EndsOnly DEF Statuses
<1>5. CASE hv' = Without(n, rows[d][n].gen)
  BY <1>1, <1>5, RecordedDeleted, FaultCounted, JobEnds DEF Statuses, IInv
<1> QED
  BY <1>3, <1>4, <1>5

LEMMA DeleteManagedVMIInv ==
  ASSUME IInv, NEW d \in Deployments, DeleteManagedVM(d)
  PROVE  IInv'
<1>1. job[d].phase = "forgetting" /\ UNCHANGED <<hv, want, status, faults>>
  BY DEF DeleteManagedVM
<1>2. job[d].left # {}
  BY <1>1 DEF IInv, DeploymentInv, TearsDownRecorded
<1>3. PICK n \in Names : n = Min(job[d].left) /\ n \in Recorded(d)
  BY <1>1, <1>2, NextToGrow
<1>4. ~Alive(d, n)
  BY <1>1, <1>3 DEF IInv, DeploymentInv, TearsDownRecorded
<1> DEFINE L == job[d].left \ {n}
           j == [job[d] EXCEPT !.phase = "destroying", !.left = L]
<1>5. MoveJob(d, j)
  BY <1>3 DEF DeleteManagedVM
<1>6. rows' = [rows EXCEPT ![d] = [rows[d] EXCEPT ![n] = NoRow]]
  BY <1>3 DEF DeleteManagedVM
<1>7. NoRow \in Rows /\ NoRow.gen = 0 /\ NoRow.disks = 0
  BY ReconcileAssumption DEF NoRow, Rows
<1>8. rows[d] \in [Names -> Rows]
  BY DEF IInv, Typed
<1>9. /\ rows' \in [Deployments -> [Names -> Rows]]
      /\ rows'[d][n] = NoRow
      /\ \A m \in Names : m # n => rows'[d][m] = rows[d][m]
      /\ \A e \in Deployments : e # d => rows'[e] = rows[e]
  BY <1>6, <1>7, <1>8 DEF IInv, Typed
<1>10. job[d] \in Jobs /\ L \in SUBSET Names
  BY DEF IInv, Typed, Jobs
<1> HIDE DEF L
<1>11. j \in Jobs /\ j.phase = "destroying" /\ j.left = L
  BY <1>10 DEF Jobs, Phases
<1> HIDE DEF j
<1>12. /\ job' \in [Deployments -> Jobs] /\ job'[d] = j
       /\ \A e \in Deployments : e # d => job'[e] = job[e]
  BY <1>5, <1>11, JobMoves DEF IInv
<1>13. Typed' /\ OthersKept(d) /\ HvStep(d)
  BY <1>1, <1>9, <1>12, HvUnchanged DEF IInv, Typed, Exists, OthersKept
<1>14. Recorded(d)' = Recorded(d) \ {n}
  BY <1>9 DEF Recorded
<1>15. RowsBehind(d)'
  <2>1. hv[n].gen \in Nat /\ want[d].disks \in Nat
    BY SpecsAreNumbers DEF IInv, Typed, VMs
  <2>2. ASSUME NEW m \in Names
        PROVE  /\ rows'[d][m].gen <= hv'[m].gen
               /\ rows'[d][m].disks <= want'[d].disks
               /\ m \in Recorded(d)' => rows'[d][m].gen > 0
    <3>1. CASE m = n
      BY <1>1, <1>7, <1>9, <1>14, <2>1, <3>1
    <3>2. CASE m # n
      BY <1>1, <1>9, <1>14, <3>2 DEF IInv, DeploymentInv, RowsBehind
    <3> QED
      BY <3>1, <3>2
  <2> QED
    BY <2>2 DEF RowsBehind
<1>16. StampsKept(d)'
  BY <1>1, <1>9, <1>14 DEF IInv, DeploymentInv, StampsKept
<1>17. TearsDownRecorded(d)'
  <2>1. L \subseteq Recorded(d)'
    BY <1>1, <1>14 DEF L, IInv, DeploymentInv, TearsDownRecorded
  <2> QED
    BY <1>11, <1>12, <2>1 DEF TearsDownRecorded
<1>18. status'[d] # "ready"
  BY <1>1, BusyIsNotReady
<1>19. DeploymentInv(d)'
  BY <1>11, <1>12, <1>15, <1>16, <1>17, <1>18 DEF DeploymentInv, DeployCovers, DeployPhases,
     NothingMadeYet, CleansUnrecorded, CreatesMissing, GrowsRecorded, ReadyIsAtRest
<1> QED
  BY <1>13, <1>19, StepOfDeployment

LEMMA FinishTeardownIInv ==
  ASSUME IInv, NEW d \in Deployments, FinishTeardown(d)
  PROVE  IInv'
BY EndsOnly DEF FinishTeardown, Statuses

-----------------------------------------------------------------------------
(* The invariant, and what it says of the states.                           *)

LEMMA StutterIInv == IInv /\ UNCHANGED vars => IInv'
<1> SUFFICES ASSUME IInv, UNCHANGED vars
             PROVE  IInv'
  OBVIOUS
<1>1. Typed'
  BY DEF IInv, Typed, vars, Exists
<1>2. ASSUME NEW d \in Deployments
      PROVE  DeploymentInv(d)'
  <2>1. UNCHANGED <<hv, rows, want, status, job>>
    BY DEF vars
  <2>2. /\ Recorded(d)' = Recorded(d) /\ Target(d)' = Target(d) /\ NoJob' = NoJob
        /\ \A n \in Names : Alive(d, n)' <=> Alive(d, n)
    BY <2>1 DEF Recorded, Target, Alive, Exists, NoJob
  <2>3. RowsBehind(d)' /\ StampsKept(d)' /\ DeployCovers(d)'
    BY <2>1, <2>2 DEF IInv, DeploymentInv, RowsBehind, StampsKept, DeployCovers
  <2>4. NothingMadeYet(d)' /\ CleansUnrecorded(d)' /\ CreatesMissing(d)'
    BY <2>1, <2>2 DEF IInv, DeploymentInv, NothingMadeYet, CleansUnrecorded, CreatesMissing
  <2>5. GrowsRecorded(d)' /\ ReadyIsAtRest(d)'
    BY <2>1, <2>2 DEF IInv, DeploymentInv, GrowsRecorded, ReadyIsAtRest
  <2>6. TearsDownRecorded(d)'
    BY <2>1, <2>2 DEF IInv, DeploymentInv, TearsDownRecorded, Alive, Exists
  <2> QED
    BY <2>3, <2>4, <2>5, <2>6 DEF DeploymentInv
<1> QED
  BY <1>1, <1>2 DEF IInv

LEMMA NextIInv == IInv /\ [Next]_vars => IInv'
<1> SUFFICES ASSUME IInv, Next
             PROVE  IInv'
  BY StutterIInv
<1>1. CASE Restart
  BY <1>1, RestartIInv
<1>2. ASSUME NEW d \in Deployments, CallerNext(d)
      PROVE  IInv'
  BY <1>2, UpdateDeploymentSpecIInv, StartDeployIInv, StartTeardownIInv, DeleteEmptyIInv
     DEF CallerNext
<1>3. ASSUME NEW d \in Deployments, ConflictNext(d)
      PROVE  IInv'
  BY <1>3, FindNoConflictIInv, AbortOnConflictIInv, CleanConflictsIInv, DeleteConflictIInv,
     DeleteConflictFailsIInv, FindConflictsFailsIInv DEF ConflictNext
<1>4. ASSUME NEW d \in Deployments, CreateNext(d)
      PROVE  IInv'
  BY <1>4, CreateVMIInv, AdoptUnstampedIInv, CreateVMFailsIInv, AddManagedVMIInv,
     GoOnToGrowIInv, WorkerFailedIInv DEF CreateNext
<1>5. ASSUME NEW d \in Deployments, GrowNext(d)
      PROVE  IInv'
  BY <1>5, AddDisksIInv, AddDisksFailsIInv, ExtendDisksFailsIInv, UpdateManagedVMDisksIInv,
     FinishDeployIInv DEF GrowNext
<1>6. ASSUME NEW d \in Deployments, TeardownNext(d)
      PROVE  IInv'
  BY <1>6, DeleteVMIInv, DeleteVMFailsIInv, DeleteManagedVMIInv, FinishTeardownIInv
     DEF TeardownNext
<1> QED
  BY <1>1, <1>2, <1>3, <1>4, <1>5, <1>6 DEF Next

(* The invariant holds in every reachable state: it is what the theorems    *)
(* below rest on.                                                           *)
THEOREM Inductive == Spec => []IInv
BY InitIInv, NextIInv, PTL DEF Spec

(* Every variable keeps its type; a job that is to record a grown VM or to  *)
(* drop a row has one to work on (orchestrator.go:399-485, 564-579).        *)
THEOREM TypeCorrect == Spec => []TypeOK
<1>1. IInv => TypeOK
  <2> SUFFICES ASSUME IInv
               PROVE  TypeOK
    OBVIOUS
  <2>1. ASSUME NEW d \in Deployments
        PROVE  /\ job[d].phase \in Phases \cup {"none"}
               /\ job[d].spec \in Specs
               /\ job[d].conflicts \subseteq Names \X (1..MaxGen)
               /\ job[d].todo \cup job[d].left \subseteq Names
               /\ job[d].made \in [Names -> 0..MaxGen]
               /\ job[d].phase \in {"recording", "forgetting"} => job[d].left # {}
    <3>1. job[d] \in Jobs
      BY DEF IInv, Typed
    <3>2. job[d].phase \in {"recording", "forgetting"} => job[d].left # {}
      BY DEF IInv, DeploymentInv, GrowsRecorded, TearsDownRecorded
    <3> QED
      BY <3>1, <3>2 DEF Jobs
  <2> QED
    BY <2>1 DEF TypeOK, IInv, Typed, VMs, Rows, Statuses
<1> QED
  BY <1>1, Inductive, PTL

(* A deploy that ends well leaves no VM behind which carries the stamp of   *)
(* the deployment but is not on record, however many attempts, failures,    *)
(* restarts and other deployments came before it (driver.go:405-419).       *)
THEOREM NoOrphans == Spec => []ReadyMeansNoOrphans
<1>1. IInv => ReadyMeansNoOrphans
  <2> SUFFICES ASSUME IInv, NEW d \in Deployments, NEW n \in Names,
                      status[d] = "ready", hv[n].owner = d
               PROVE  n \in Recorded(d) /\ Alive(d, n)
    BY DEF ReadyMeansNoOrphans
  <2>1. n \in Recorded(d)
    BY DEF IInv, DeploymentInv, ReadyIsAtRest
  <2>2. hv[n].gen = rows[d][n].gen
    BY <2>1 DEF IInv, DeploymentInv, StampsKept
  <2> QED
    BY <2>1, <2>2, ReconcileAssumption DEF Alive, Exists
<1> QED
  BY <1>1, Inductive, PTL

-----------------------------------------------------------------------------
(* Who changes what.                                                        *)

DeploymentNext(d) ==
  \/ CallerNext(d) \/ ConflictNext(d) \/ CreateNext(d) \/ GrowNext(d) \/ TeardownNext(d)

(* A step of one deployment moves no other's job. *)
LEMMA OneJobMoves ==
  ASSUME IInv, NEW d \in Deployments, DeploymentNext(d)
  PROVE  \A e \in Deployments : e # d => job'[e] = job[e] /\ rows'[e] = rows[e]
<1>1. job \in [Deployments -> Jobs] /\ rows \in [Deployments -> [Names -> Rows]]
  BY DEF IInv, Typed
<1>2. job' = job \/ \E j : job' = [job EXCEPT ![d] = j]
  <2>1. CASE CallerNext(d)
    BY <2>1 DEF CallerNext, UpdateDeploymentSpec, StartDeploy, StartTeardown, DeleteEmpty,
       MoveJob
  <2>2. CASE ConflictNext(d)
    BY <2>2 DEF ConflictNext, FindNoConflict, AbortOnConflict, CleanConflicts, DeleteConflict,
       DeleteConflictFails, FindConflictsFails, EndJob, MoveJob
  <2>3. CASE CreateNext(d)
    BY <2>3 DEF CreateNext, CreateVM, AdoptUnstamped, CreateVMFails, AddManagedVM,
       GoOnToGrow, WorkerFailed, EndJob, MoveJob
  <2>4. CASE GrowNext(d)
    BY <2>4 DEF GrowNext, AddDisks, AddDisksFails, ExtendDisksFails, UpdateManagedVMDisks,
       FinishDeploy, EndJob, MoveJob
  <2>5. CASE TeardownNext(d)
    BY <2>5 DEF TeardownNext, DeleteVM, DeleteVMFails, DeleteManagedVM, FinishTeardown,
       EndJob, MoveJob
  <2> QED
    BY <2>1, <2>2, <2>3, <2>4, <2>5 DEF DeploymentNext
<1>3. rows' = rows \/ \E r : rows' = [rows EXCEPT ![d] = r]
  <2>1. CASE CallerNext(d)
    BY <2>1 DEF CallerNext, UpdateDeploymentSpec, StartDeploy, StartTeardown, DeleteEmpty
  <2>2. CASE ConflictNext(d)
    BY <2>2 DEF ConflictNext, FindNoConflict, AbortOnConflict, CleanConflicts, DeleteConflict,
       DeleteConflictFails, FindConflictsFails
  <2>3. CASE CreateNext(d)
    BY <2>3 DEF CreateNext, CreateVM, AdoptUnstamped, CreateVMFails, AddManagedVM,
       GoOnToGrow, WorkerFailed
  <2>4. CASE GrowNext(d)
    BY <2>4 DEF GrowNext, AddDisks, AddDisksFails, ExtendDisksFails, UpdateManagedVMDisks,
       FinishDeploy
  <2>5. CASE TeardownNext(d)
    BY <2>5 DEF TeardownNext, DeleteVM, DeleteVMFails, DeleteManagedVM, FinishTeardown
  <2> QED
    BY <2>1, <2>2, <2>3, <2>4, <2>5 DEF DeploymentNext
<1> QED
  BY <1>1, <1>2, <1>3

(* Which VMs a step of d touches, and in which phase of d's job. *)
Touches(d, n) ==
  /\ job'[d] # job[d]
  /\ \/ job[d].phase = "cleaning" /\ n \notin Recorded(d)
     \/ job[d].phase = "creating" /\ n \in job[d].todo
     \/ job[d].phase = "growing" /\ Alive(d, n)
        /\ hv'[n].gen = hv[n].gen /\ hv'[n].owner = hv[n].owner
     \/ job[d].phase = "destroying" /\ hv[n].gen = rows[d][n].gen

LEMMA JobEndMoves ==
  ASSUME IInv, NEW d \in Deployments, NEW s, EndJob(d, s), job[d].phase # "none"
  PROVE  job'[d] # job[d]
BY JobMoves, NoJobIsOne DEF EndJob, IInv

LEMMA JobOfAnotherPhase ==
  ASSUME IInv, NEW d \in Deployments, NEW p \in Phases, MoveJob(d, [job[d] EXCEPT !.phase = p]),
         job[d].phase # p
  PROVE  job'[d] # job[d] /\ job'[d].phase = p
<1>1. job[d] \in Jobs
  BY DEF IInv, Typed
<1> DEFINE j == [job[d] EXCEPT !.phase = p]
<1>2. j \in Jobs /\ j.phase = p
  BY <1>1 DEF Jobs
<1> HIDE DEF j
<1>3. MoveJob(d, j)
  BY DEF j
<1> QED
  BY <1>2, <1>3, JobMoves DEF IInv

LEMMA CleaningTouches ==
  ASSUME IInv, NEW d \in Deployments, NEW n \in Names, hv'[n] # hv[n],
         NEW c \in job[d].conflicts, hv' \in {hv, Without(c[1], c[2])},
         job[d].phase = "cleaning"
  PROVE  n \notin Recorded(d)
<1>1. hv' = Without(c[1], c[2])
  OBVIOUS
<1>2. n = c[1]
  BY <1>1, ConflictDeleted
<1> QED
  BY <1>2 DEF IInv, DeploymentInv, CleansUnrecorded

LEMMA CreatingTouches ==
  ASSUME IInv, NEW d \in Deployments, NEW n \in Names, hv'[n] # hv[n],
         NEW m \in Names, Creating(d, m), hv' \in {hv, Created(d, m)}
  PROVE  n \in job[d].todo
<1>1. hv' = Created(d, m) /\ m \in job[d].todo /\ (Exists(m) \/ hv[m].gen < MaxGen)
  BY DEF Creating
<1>2. n = m
  BY <1>1, Stamped DEF IInv
<1> QED
  BY <1>1, <1>2

LEMMA GrowingTouches ==
  ASSUME IInv, NEW d \in Deployments, NEW n \in Names, hv'[n] # hv[n],
         job[d].phase = "growing", job[d].left # {}, Alive(d, Min(job[d].left)),
         hv' \in {hv, WithMoreDisks(d, Min(job[d].left))}
  PROVE  /\ Alive(d, n)
         /\ hv'[n].gen = hv[n].gen /\ hv'[n].owner = hv[n].owner
<1>1. PICK m \in Names : m = Min(job[d].left)
  BY NextToGrow
<1>2. hv' = WithMoreDisks(d, m) /\ Alive(d, m)
  BY <1>1
<1>3. rows[d][m].disks <= job[d].spec.disks
  BY DEF IInv, DeploymentInv, DeployCovers, DeployPhases
<1>4. /\ hv'[n].gen = hv[n].gen /\ hv'[n].owner = hv[n].owner
      /\ n = m
  BY <1>2, <1>3, Grown DEF IInv
<1> QED
  BY <1>2, <1>4

LEMMA DestroyingTouches ==
  ASSUME IInv, NEW d \in Deployments, NEW n \in Names, hv'[n] # hv[n],
         job[d].phase = "destroying", job[d].left # {},
         hv' \in {hv, Without(Min(job[d].left), rows[d][Min(job[d].left)].gen)}
  PROVE  hv[n].gen = rows[d][n].gen
<1>1. PICK m \in Names : m = Min(job[d].left)
  BY NextToGrow
<1>2. hv' = Without(m, rows[d][m].gen) /\ rows[d][m].gen \in 0..MaxGen
  BY <1>1 DEF IInv, Typed, Rows
<1>3. n = m /\ hv[m].gen = rows[d][m].gen
  BY <1>2, Deleted DEF IInv
<1> QED
  BY <1>3

LEMMA ConflictTouches ==
  ASSUME IInv, NEW d \in Deployments, ConflictNext(d), NEW n \in Names, hv'[n] # hv[n]
  PROVE  Touches(d, n)
<1>1. CASE DeleteConflict(d)
  <2>1. PICK c \in job[d].conflicts :
          /\ hv' = Without(c[1], c[2])
          /\ MoveJob(d, IF job[d].conflicts = {c} THEN Resolved(d)
                        ELSE [job[d] EXCEPT !.conflicts = @ \ {c}])
    BY <1>1 DEF DeleteConflict
  <2>2. job[d].phase = "cleaning"
    BY <1>1 DEF DeleteConflict
  <2>3. job'[d] # job[d]
    <3>1. CASE job[d].conflicts = {c}
      BY <2>1, <2>2, <3>1, ResolvedIsOne, JobMoves DEF IInv
    <3>2. CASE job[d].conflicts # {c}
      <4> DEFINE j == [job[d] EXCEPT !.conflicts = @ \ {c}]
      <4>1. j.conflicts # job[d].conflicts /\ job \in [Deployments -> Jobs]
        BY DEF IInv, Typed, Jobs
      <4>2. job' = [job EXCEPT ![d] = j]
        BY <2>1, <3>2 DEF MoveJob
      <4> HIDE DEF j
      <4> QED
        BY <4>1, <4>2
    <3> QED
      BY <3>1, <3>2
  <2> QED
    BY <2>1, <2>2, <2>3, CleaningTouches DEF Touches
<1>2. CASE DeleteConflictFails(d)
  <2>1. PICK c \in job[d].conflicts : hv' \in {hv, Without(c[1], c[2])}
    BY <1>2 DEF DeleteConflictFails
  <2>2. job[d].phase = "cleaning" /\ EndJob(d, "error")
    BY <1>2 DEF DeleteConflictFails
  <2> QED
    BY <2>1, <2>2, JobEndMoves, CleaningTouches DEF Touches
<1> QED
  BY <1>1, <1>2 DEF ConflictNext, FindNoConflict, AbortOnConflict, CleanConflicts,
     FindConflictsFails

LEMMA CreateTouches ==
  ASSUME IInv, NEW d \in Deployments, CreateNext(d), NEW n \in Names, hv'[n] # hv[n]
  PROVE  Touches(d, n)
<1>1. PICK m \in Names : CreateVM(d, m) \/ CreateVMFails(d, m)
  BY DEF CreateNext, AdoptUnstamped, AddManagedVM, GoOnToGrow, WorkerFailed
<1>2. Creating(d, m) /\ hv' \in {hv, Created(d, m)}
  BY <1>1 DEF CreateVM, CreateVMFails
<1>3. job[d].phase = "creating" /\ m \in job[d].todo
  BY <1>2 DEF Creating
<1>4. n \in job[d].todo
  BY <1>2, CreatingTouches
<1>5. job'[d] # job[d]
  <2>1. \E j : job' = [job EXCEPT ![d] = j] /\ j.todo = job[d].todo \ {m}
    <3>1. job[d] \in Jobs
      BY DEF IInv, Typed
    <3>2. CASE CreateVM(d, m)
      <4> DEFINE j == [job[d] EXCEPT !.todo = @ \ {m}, !.made[m] = hv'[m].gen]
      <4>1. job' = [job EXCEPT ![d] = j]
        BY <3>2 DEF CreateVM, MoveJob
      <4>2. j.todo = job[d].todo \ {m}
        BY <3>1 DEF Jobs
      <4> QED
        BY <4>1, <4>2
    <3>3. CASE CreateVMFails(d, m)
      <4> DEFINE j == [job[d] EXCEPT !.todo = @ \ {m}, !.failed = TRUE]
      <4>1. job' = [job EXCEPT ![d] = j]
        BY <3>3 DEF CreateVMFails, MoveJob
      <4>2. j.todo = job[d].todo \ {m}
        BY <3>1 DEF Jobs
      <4> QED
        BY <4>1, <4>2
    <3> QED
      BY <1>1, <3>2, <3>3
  <2>2. job \in [Deployments -> Jobs]
    BY DEF IInv, Typed
  <2> QED
    BY <1>3, <2>1, <2>2
<1> QED
  BY <1>3, <1>4, <1>5 DEF Touches

LEMMA GrowTouches ==
  ASSUME IInv, NEW d \in Deployments, GrowNext(d), NEW n \in Names, hv'[n] # hv[n]
  PROVE  Touches(d, n)
<1>1. CASE AddDisks(d)
  <2>1. /\ job[d].phase = "growing" /\ job[d].left # {} /\ Alive(d, Min(job[d].left))
        /\ hv' \in {hv, WithMoreDisks(d, Min(job[d].left))}
        /\ MoveJob(d, [job[d] EXCEPT !.phase = "recording"])
    BY <1>1 DEF AddDisks
  <2>2. job'[d] # job[d]
    BY <2>1, JobOfAnotherPhase DEF Phases
  <2> QED
    BY <2>1, <2>2, GrowingTouches DEF Touches
<1>2. CASE AddDisksFails(d)
  <2>1. /\ job[d].phase = "growing" /\ job[d].left # {} /\ Alive(d, Min(job[d].left))
        /\ hv' \in {hv, WithMoreDisks(d, Min(job[d].left))}
        /\ EndJob(d, "error")
    BY <1>2 DEF AddDisksFails
  <2>2. job'[d] # job[d]
    BY <2>1, JobEndMoves
  <2> QED
    BY <2>1, <2>2, GrowingTouches DEF Touches
<1> QED
  BY <1>1, <1>2 DEF GrowNext, ExtendDisksFails, UpdateManagedVMDisks, FinishDeploy

LEMMA TeardownTouches ==
  ASSUME IInv, NEW d \in Deployments, TeardownNext(d), NEW n \in Names, hv'[n] # hv[n]
  PROVE  Touches(d, n)
<1>1. CASE DeleteVM(d)
  <2>1. /\ job[d].phase = "destroying" /\ job[d].left # {}
        /\ hv' \in {hv, Without(Min(job[d].left), rows[d][Min(job[d].left)].gen)}
        /\ MoveJob(d, [job[d] EXCEPT !.phase = "forgetting"])
    BY <1>1 DEF DeleteVM
  <2>2. job'[d] # job[d]
    BY <2>1, JobOfAnotherPhase DEF Phases
  <2> QED
    BY <2>1, <2>2, DestroyingTouches DEF Touches
<1>2. CASE DeleteVMFails(d)
  <2>1. /\ job[d].phase = "destroying" /\ job[d].left # {}
        /\ hv' \in {hv, Without(Min(job[d].left), rows[d][Min(job[d].left)].gen)}
        /\ EndJob(d, "error")
    BY <1>2 DEF DeleteVMFails
  <2>2. job'[d] # job[d]
    BY <2>1, JobEndMoves
  <2> QED
    BY <2>1, <2>2, DestroyingTouches DEF Touches
<1> QED
  BY <1>1, <1>2 DEF TeardownNext, DeleteManagedVM, FinishTeardown

LEMMA WhoTouches ==
  ASSUME IInv, [Next]_vars, NEW n \in Names, hv'[n] # hv[n]
  PROVE  \E d \in Deployments : DeploymentNext(d) /\ Touches(d, n)
<1>1. PICK d \in Deployments : DeploymentNext(d)
  BY DEF Next, Restart, vars, DeploymentNext
<1>2. ~CallerNext(d)
  BY DEF CallerNext, UpdateDeploymentSpec, StartDeploy, StartTeardown, DeleteEmpty
<1>3. Touches(d, n)
  BY <1>1, <1>2, ConflictTouches, CreateTouches, GrowTouches, TeardownTouches
     DEF DeploymentNext
<1> QED
  BY <1>1, <1>3

(* A row appears while its VM's worker runs and goes when its VM has gone;  *)
(* otherwise it keeps its VM.                                               *)
LEMMA RowChanges ==
  ASSUME IInv, [Next]_vars, NEW d \in Deployments, NEW n \in Names, n \in Recorded(d),
         rows'[d][n] # rows[d][n]
  PROVE  \/ /\ job[d].phase = "recording"
            /\ n \in Recorded(d)'
         \/ /\ job[d].phase = "forgetting"
            /\ n = Min(job[d].left)
<1>1. PICK e \in Deployments : DeploymentNext(e)
  BY DEF Next, Restart, vars, DeploymentNext
<1>2. e = d
  BY <1>1, OneJobMoves
<1>3. rows \in [Deployments -> [Names -> Rows]] /\ job[d] \in Jobs
  BY DEF IInv, Typed
<1>4. \/ \E m \in Names : AddManagedVM(d, m)
      \/ UpdateManagedVMDisks(d) \/ DeleteManagedVM(d)
  BY <1>1, <1>2 DEF DeploymentNext, CallerNext, UpdateDeploymentSpec, StartDeploy,
     StartTeardown, DeleteEmpty, ConflictNext, FindNoConflict, AbortOnConflict,
     CleanConflicts, DeleteConflict, DeleteConflictFails, FindConflictsFails, CreateNext,
     CreateVM, AdoptUnstamped, CreateVMFails, GoOnToGrow, WorkerFailed, GrowNext, AddDisks,
     AddDisksFails, ExtendDisksFails, FinishDeploy, TeardownNext, DeleteVM, DeleteVMFails,
     FinishTeardown
<1>5. ASSUME NEW m \in Names, AddManagedVM(d, m)
      PROVE  FALSE
  <2>1. m \notin Recorded(d)
    BY <1>5 DEF AddManagedVM, IInv, DeploymentInv, CreatesMissing
  <2>2. rows'[d][n] = rows[d][n]
    BY <1>3, <1>5, <2>1 DEF AddManagedVM
  <2> QED
    BY <2>2
<1>6. CASE UpdateManagedVMDisks(d)
  <2>1. rows[d][n].gen > 0 /\ rows[d][n] \in Rows
    BY <1>3 DEF IInv, DeploymentInv, RowsBehind
  <2>2. PICK m : rows' = [rows EXCEPT ![d][m].disks = job[d].spec.disks]
    BY <1>6 DEF UpdateManagedVMDisks
  <2>3. rows'[d][n].gen = rows[d][n].gen
    BY <1>3, <2>1, <2>2 DEF Rows
  <2>4. rows'[d][n] # NoRow
    BY <2>1, <2>3 DEF NoRow
  <2> QED
    BY <1>6, <2>4 DEF UpdateManagedVMDisks, Recorded
<1>7. CASE DeleteManagedVM(d)
  <2>1. PICK m : m = Min(job[d].left) /\ rows' = [rows EXCEPT ![d][m] = NoRow]
    BY <1>7 DEF DeleteManagedVM
  <2>2. n = m
    BY <1>3, <2>1
  <2> QED
    BY <1>7, <2>1, <2>2 DEF DeleteManagedVM
<1> QED
  BY <1>4, <1>5, <1>6, <1>7

-----------------------------------------------------------------------------
(* What no step may do.                                                     *)

(* A row is dropped only when its VM is gone, so that a teardown which is   *)
(* interrupted or fails can be repeated, whatever the other deployments do  *)
(* to the name in between (orchestrator.go:564-579).                        *)
THEOREM RecordsOutlive == Spec => RecordsOutliveVMs
<1>1. ASSUME IInv, [Next]_vars, NEW d \in Deployments, NEW n \in Names,
             n \in Recorded(d), n \notin Recorded(d)'
      PROVE  ~Alive(d, n)
  <2>1. rows'[d][n] # rows[d][n]
    BY <1>1 DEF Recorded
  <2>2. job[d].phase = "forgetting" /\ n = Min(job[d].left)
    BY <1>1, <2>1, RowChanges
  <2> QED
    BY <1>1, <2>2 DEF IInv, DeploymentInv, TearsDownRecorded
<1>2. IInv /\ [Next]_vars =>
        [\A d \in Deployments, n \in Names :
           n \in Recorded(d) /\ n \notin Recorded(d)' => ~Alive(d, n)]_vars
  BY <1>1
<1> QED
  BY <1>2, Inductive, PTL DEF Spec, RecordsOutliveVMs

(* A deploy never deletes a VM its own deployment has on record, in any     *)
(* conflict mode (findConflicts, orchestrator.go:517-520).                  *)
THEOREM SparesRecorded == Spec => CleanSparesRecorded
<1>1. ASSUME IInv, [Next]_vars, NEW d \in Deployments, NEW n \in Names, job'[d] # job[d],
             job[d].phase \in {"checking", "cleaning", "creating", "growing"},
             n \in Recorded(d), Alive(d, n)
      PROVE  Alive(d, n)'
  <2>1. rows'[d][n] = rows[d][n]
    BY <1>1, RowChanges
  <2>2. CASE hv'[n] = hv[n]
    BY <1>1, <2>1, <2>2 DEF Alive, Exists
  <2>3. CASE hv'[n] # hv[n]
    <3>1. PICK e \in Deployments : DeploymentNext(e) /\ Touches(e, n)
      BY <1>1, <2>3, WhoTouches
    <3>2. e = d
      BY <1>1, <3>1, OneJobMoves
    <3>3. hv'[n].gen = hv[n].gen /\ hv'[n].owner = hv[n].owner
      BY <1>1, <3>1, <3>2 DEF Touches, IInv, DeploymentInv, CreatesMissing
    <3> QED
      BY <1>1, <2>1, <3>3 DEF Alive, Exists
  <2> QED
    BY <2>2, <2>3
<1>2. IInv /\ [Next]_vars =>
        [\A d \in Deployments, n \in Names :
           /\ job'[d] # job[d]
           /\ job[d].phase \in {"checking", "cleaning", "creating", "growing"}
           /\ n \in Recorded(d) /\ Alive(d, n)
           => Alive(d, n)']_vars
  BY <1>1
<1> QED
  BY <1>2, Inductive, PTL DEF Spec, CleanSparesRecorded

(* A VM of unknown owner that no deployment has on record is taken over or   *)
(* deleted only by a job whose caller asked for it (findConflicts,           *)
(* orchestrator.go:375-394).                                                 *)
THEOREM SparesForeign == Spec => ForeignSpared
<1>1. ASSUME IInv, [Next]_vars, NEW n \in Names, hv[n].owner = Foreign, hv'[n] # hv[n],
             \A d \in Deployments : rows[d][n].gen # hv[n].gen
      PROVE  \E d \in Deployments : job'[d] # job[d] /\ job[d].mode # "abort"
  <2>1. PICK d \in Deployments : Touches(d, n)
    BY <1>1, WhoTouches
  <2>2. job'[d] # job[d] /\ ~Alive(d, n) /\ hv[n].gen # rows[d][n].gen
    BY <1>1, <2>1 DEF Touches, Alive
  <2>3. job[d].mode # "abort"
    <3>1. CASE job[d].phase = "cleaning"
      BY <1>1, <3>1 DEF IInv, DeploymentInv, CleansUnrecorded
    <3>2. CASE job[d].phase = "creating" /\ n \in job[d].todo
      BY <1>1, <3>2 DEF IInv, DeploymentInv, CreatesMissing
    <3> QED
      BY <2>1, <2>2, <3>1, <3>2 DEF Touches
  <2> QED
    BY <2>2, <2>3
<1>2. IInv /\ [Next]_vars =>
        [\A n \in Names :
           /\ hv[n].owner = Foreign /\ hv'[n] # hv[n]
           /\ \A d \in Deployments : rows[d][n].gen # hv[n].gen
           =>
             \E d \in Deployments : job'[d] # job[d] /\ job[d].mode # "abort"]_vars
  BY <1>1
<1> QED
  BY <1>2, Inductive, PTL DEF Spec, ForeignSpared

(* A growing job can only end ready when nothing is left to grow. *)
LEMMA EndsReady ==
  ASSUME IInv, [Next]_vars, NEW d \in Deployments, job[d].phase = "growing", job'[d] = NoJob,
         status'[d] = "ready"
  PROVE  job[d].left = {}
<1>1. job'[d] # job[d]
  BY NoJobIsOne
<1>2. CASE Restart
  <2>1. job'[d] = DeployJob(d, "abort")
    BY <1>2, NoJobIsOne DEF Restart, Resume
  <2> QED
    BY <2>1, NoJobIsOne DEF DeployJob, NoJob
<1>3. ASSUME NEW e \in Deployments, DeploymentNext(e)
      PROVE  job[d].left = {}
  <2>1. e = d
    BY <1>1, <1>3, OneJobMoves
  <2>2. job[d] # NoJob
    BY NoJobIsOne
  <2>3. ~CallerNext(d)
    BY <1>1, <2>2 DEF CallerNext, UpdateDeploymentSpec, StartDeploy, StartTeardown,
       DeleteEmpty
  <2>4. ~ConflictNext(d)
    BY DEF ConflictNext, FindNoConflict, AbortOnConflict, CleanConflicts, DeleteConflict,
       DeleteConflictFails, FindConflictsFails
  <2>5. ~CreateNext(d)
    BY DEF CreateNext, CreateVM, AdoptUnstamped, CreateVMFails, AddManagedVM, GoOnToGrow,
       WorkerFailed, WorkersDone, Creating
  <2>6. ~TeardownNext(d)
    BY DEF TeardownNext, DeleteVM, DeleteVMFails, DeleteManagedVM, FinishTeardown
  <2>7. GrowNext(d)
    BY <1>3, <2>1, <2>3, <2>4, <2>5, <2>6 DEF DeploymentNext
  <2>8. ~AddDisks(d)
    <3> SUFFICES ASSUME AddDisks(d)
                 PROVE  FALSE
      OBVIOUS
    <3>1. job'[d].phase = "recording"
      BY JobOfAnotherPhase DEF AddDisks, Phases
    <3> QED
      BY <3>1, NoJobIsOne
  <2>9. ~AddDisksFails(d)
    BY DEF AddDisksFails, EndJob, IInv, Typed
  <2> QED
    BY <2>7, <2>8, <2>9 DEF GrowNext, ExtendDisksFails, UpdateManagedVMDisks, FinishDeploy
<1> QED
  BY <1>1, <1>2, <1>3 DEF Next, vars, DeploymentNext

(* A deploy that ends well has every VM it was asked for on record and all  *)
(* its rows in the wanted shape (orchestrator.go:399-485).                  *)
THEOREM Delivers == Spec => DeployDelivers
<1>1. ASSUME IInv, [Next]_vars, NEW d \in Deployments, job[d].phase = "growing",
             job'[d] = NoJob, status'[d] = "ready"
      PROVE  /\ Target(d) \subseteq Recorded(d)
             /\ \A n \in Recorded(d) : rows[d][n].disks = job[d].spec.disks
  BY <1>1, EndsReady DEF IInv, DeploymentInv, GrowsRecorded
<1>2. IInv /\ [Next]_vars =>
        [\A d \in Deployments :
           job[d].phase = "growing" /\ job'[d] = NoJob /\ status'[d] = "ready" =>
             /\ Target(d) \subseteq Recorded(d)
             /\ \A n \in Recorded(d) : rows[d][n].disks = job[d].spec.disks]_vars
  BY <1>1
<1> QED
  BY <1>2, Inductive, PTL DEF Spec, DeployDelivers
=============================================================================
