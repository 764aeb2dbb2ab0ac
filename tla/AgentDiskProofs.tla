--------------------------- MODULE AgentDiskProofs ---------------------------
(***************************************************************************)
(* Proofs about AgentDisk: the types, that a run reported done verifies    *)
(* (DoneVerifies) and is on every disk (DoneMeansWritten), and that disks  *)
(* reported filled are (FilledReportIsTrue), for every number of disks,    *)
(* files and runs, every percentage, and any number of crashes and faults. *)
(***************************************************************************)
EXTENDS AgentDisk, FiniteSetTheorems, TLAPS

(***************************************************************************)
(* What the records of the model are.                                      *)
(***************************************************************************)
Files == [kind : {"global", "local", "grow"}, run : 0 .. MaxRuns, n : Nat]
FileMaps == UNION {[S -> Contents] : S \in SUBSET Files}
Manifests == [run : 0 .. MaxRuns, sums : FileMaps]
DiskRecords ==
  [fs : BOOLEAN, files : FileMaps, manifest : Manifests, id : BOOLEAN, marker : 0 .. MaxRuns]
Jobs == [files : SUBSET Files, content : Contents]
Picks == [run : Runs, n : Nat, at : SUBSET Nat]
Regions == GlobalRegion \cup LocalRegion

(***************************************************************************)
(* The invariant of one disk is stated of its record k, its durable        *)
(* manifest p and the picks pk as values.                                  *)
(***************************************************************************)
LocalFilesOf(k) == {f \in DOMAIN k.files : f.kind # "global"}
IsGrowthOf(f, r) == f.kind = "grow" /\ f.run = r
Torn(k, r) == {f \in DOMAIN k.files : k.files[f].run = r /\ k.files[f].job = "torn"}
Stale(m, k) == {f \in DOMAIN m.sums : m.sums[f] # k.files[f]}
Left(plan) == UNION {plan[i].files : i \in 1 .. Len(plan)}

(* What the churn of run r rewrites and adds when it is planned over L. *)
Chosen(pk, r, L) ==
  {f \in L : \E p \in pk : p.run = r /\ p.n = Cardinality(L) /\ Position(f, L) \in p.at}
Grown(r, L) == Growth(r, NGrow(Cardinality(L)))
Touched(pk, r, L) == Chosen(pk, r, L) \cup Grown(r, L)
Excused(pk, cut) == UNION {Touched(pk, c.run, c.listed) : c \in cut}

(* The pick of a run is the same for the same number of files. *)
Agree(pk) == \A p, q \in pk : p.run = q.run /\ p.n = q.n => p.at = q.at

(* A file of the disk that is not run r's own growth was rewritten by it. *)
Rewrote(k, r) ==
  \E f \in DOMAIN k.files :
    ~IsGrowthOf(f, r) /\ k.files[f].run = r /\ k.files[f].job \in {"change", "torn"}

JobsOf(type) ==
  CASE type = "initial-fill" -> {"global", "local", "unwritten"}
    [] type = "incremental" -> {"change", "grow", "torn"}
    [] OTHER -> {}

(* A disk that bears a stamp was filled, or an incremental has written to it. *)
Origin(k, fresh) ==
  \/ /\ Regions \subseteq DOMAIN k.files
     /\ \A f \in DOMAIN k.files : k.files[f].job # "unwritten"
  \/ \E f \in DOMAIN k.files \ fresh : k.files[f].job \in {"change", "grow", "torn"}

(* Whatever the agent does: r and type are the order's, work is what the    *)
(* churn at work has written and fresh what a power cut may take.           *)
Sane(k, p) ==
  /\ k \in DiskRecords /\ p \in Manifests
  /\ IsFiniteSet(DOMAIN k.files)
  /\ ~k.fs => k = EmptyDisk /\ p = NoManifest

FreshOK(k, r, type, fresh) ==
  /\ fresh \subseteq DOMAIN k.files
  /\ fresh # {} =>
       \/ type = "incremental" /\ \A f \in fresh : IsGrowthOf(f, r)
       \/ /\ type = "initial-fill" /\ ~k.id /\ k.marker = 0
          /\ \A f \in DOMAIN k.files : f.kind # "grow"

SumsOK(k, p, cut, pk, work, fresh) ==
  /\ DOMAIN k.manifest.sums \subseteq DOMAIN k.files \ fresh
  /\ DOMAIN p.sums \subseteq DOMAIN k.files \ fresh
  /\ Stale(k.manifest, k) \subseteq Excused(pk, cut) \cup work
  /\ Stale(p, k) \subseteq Excused(pk, cut) \cup work

GrowthOK(k, fresh) ==
  \A f \in DOMAIN k.files : f.kind = "grow" =>
    f.n \in 1 .. NGrow(Cardinality(LocalFilesOf(k) \ fresh))

AgesOK(k, r, type) ==
  /\ k.marker <= r
  /\ \A f \in DOMAIN k.files :
       /\ k.files[f].run <= r
       /\ f.kind = "grow" => f.run <= r
       /\ k.files[f].run = r => k.files[f].job \in JobsOf(type)

ChurnOK(k, pk, r, type, fresh) ==
  type = "incremental" =>
    /\ Torn(k, r) \subseteq
         Grown(r, LocalFilesOf(k) \ fresh)
           \cup (IF fresh = {} THEN Chosen(pk, r, LocalFilesOf(k)) ELSE {})
    /\ ChangePercent > 0 /\ (\E f \in DOMAIN k.files : IsGrowthOf(f, r)) => Rewrote(k, r)

StampOK(k, fresh) ==
  ChangePercent > 0 /\ k.fs /\ (k.id \/ k.marker # 0) => Origin(k, fresh)

DiskOK(k, p, cut, pk, r, type, work, fresh) ==
  /\ Sane(k, p)
  /\ FreshOK(k, r, type, fresh)
  /\ SumsOK(k, p, cut, pk, work, fresh)
  /\ GrowthOK(k, fresh)
  /\ AgesOK(k, r, type)
  /\ ChurnOK(k, pk, r, type, fresh)
  /\ StampOK(k, fresh)

(* A churn that is planned over L: what is left of its plan, and what it    *)
(* has changed so far.                                                      *)
ChurnJob(job, pk, r, L) ==
  \/ /\ job.content.job = "change" /\ job.content.run = r
     /\ job.files \subseteq Chosen(pk, r, L)
  \/ /\ job.content.job = "grow" /\ job.content.run = r
     /\ job.files = Grown(r, L)

Planned(k, pk, r, plan, L, changed, fresh) ==
  /\ k.fs
  /\ \A i \in 1 .. Len(plan) : ChurnJob(plan[i], pk, r, L)
  /\ \A i \in 1 .. Len(plan) : plan[i].content.job = "grow" => i = Len(plan)
  /\ L \subseteq LocalFilesOf(k) \ fresh
  /\ LocalFilesOf(k) \ L \subseteq Grown(r, L)
  /\ plan # <<>> => LocalFilesOf(k) \ fresh = L
  /\ Torn(k, r) \subseteq Left(plan)
  /\ ChangePercent > 0 =>
       \/ Rewrote(k, r)
       \/ \E i \in 1 .. Len(plan) :
            plan[i].content.job = "change" /\ \E f \in plan[i].files : ~IsGrowthOf(f, r)
  /\ Grown(r, L) \subseteq Left(plan) \cup {f \in DOMAIN k.files : k.files[f].run = r}
  /\ \E q \in pk : q.run = r /\ q.n = Cardinality(L)
  /\ changed \subseteq Touched(pk, r, L)
  /\ Touched(pk, r, L) \subseteq changed \cup Left(plan)

(* An initial fill at work on a disk. *)
Filling(k, p, r, plan) ==
  /\ k.fs /\ p = NoManifest
  /\ \A i \in 1 .. Len(plan) : plan[i].content.run = r /\ plan[i].content.job \in {"global", "local"}
  /\ DOMAIN k.files \cup Left(plan) = Regions
  /\ \A f \in DOMAIN k.files :
       k.files[f].run = r /\ (k.files[f].job \in {"global", "local"} \/ f \in Left(plan))

(* A run that has been carried out on a disk. *)
CarriedOut(k, r, type) ==
  LET mine == {f \in DOMAIN k.files : k.files[f].run = r} IN
  /\ type = "initial-fill" => mine = Regions /\ DOMAIN k.files = Regions
  /\ type = "incremental" /\ ChangePercent > 0 => \E f \in mine : k.files[f].job = "change"
  /\ type = "incremental" /\ LocalRegion \subseteq DOMAIN k.files =>
       Growth(r, NGrow(LocalFiles)) \subseteq mine
  /\ \A f \in mine : k.files[f].job \notin {"unwritten", "torn"}

Finished(k, p, r, type) ==
  /\ k.fs
  /\ k.manifest.run # 0 /\ DOMAIN k.manifest.sums = DOMAIN k.files
  /\ p.run # 0 /\ DOMAIN p.sums = DOMAIN k.files
  /\ type # "verify"
  /\ CarriedOut(k, r, type)

-----------------------------------------------------------------------------
(* The agent and the order *)

Working == {"jobs", "writing", "identity", "manifest", "sync"}

Agents ==
  [stage : Stages, run : 0 .. MaxRuns, type : Types, d : Nat,
   plans : {<<>>} \cup [Disks -> Seq(Jobs)], listed : {<<>>} \cup [Disks -> SUBSET Files],
   changed : SUBSET Files, fresh : SUBSET Files, result : {"none", "done", "error"}]

AgentOK ==
  /\ agent \in Agents
  /\ agent.stage = "idle" => agent = Idle
  /\ agent.stage # "idle" =>
       /\ up /\ order.run # 0 /\ order.status # "done"
       /\ agent.run = order.run /\ agent.type = order.type
  /\ agent.stage \in {"plan", "mkfs", "marking"} \cup Working =>
       /\ agent.d \in Disks
       /\ agent.type # "verify"
       /\ agent.plans \in [Disks -> Seq(Jobs)] /\ agent.listed \in [Disks -> SUBSET Files]
       /\ agent.result = "none"
  /\ agent.stage = "check" => agent.changed = {} /\ agent.fresh = {} /\ agent.result = "none"
  /\ agent.stage = "plan" => agent.type = "incremental"
  /\ agent.stage = "mkfs" => agent.type = "initial-fill"
  /\ agent.stage = "flush" => agent.type # "verify"
  /\ agent.stage \notin Working \cup {"flush", "report"} \/ agent.type # "incremental" => agent.changed = {}
  /\ agent.stage \notin {"writing", "flush"} \/ agent.result = "done" => agent.fresh = {}
  /\ agent.stage \in Working \ {"jobs", "writing"} => agent.plans[agent.d] = <<>>
  /\ agent.stage = "writing" => agent.plans[agent.d] # <<>>

OrderOK ==
  /\ order \in [run : 0 .. MaxRuns, type : Types, status : {"none", "open", "done", "failed"}]
  /\ order.run = 0 => order.status = "none" /\ \A d \in Disks : ~disk[d].fs

PicksOK == picks \subseteq Picks /\ Agree(picks)

FreshOn(d) == IF d = agent.d THEN agent.fresh ELSE {}
ChangedOn(d) == IF d = agent.d THEN agent.changed ELSE {}
WorkOn(d) ==
  IF d = agent.d /\ agent.type = "incremental"
  THEN IF agent.stage = "writing" THEN agent.changed \cup Head(agent.plans[d]).files
       ELSE IF agent.stage \in Working THEN agent.changed ELSE {}
  ELSE {}

IsPlanned(d) ==
  /\ agent.type = "incremental"
  /\ \/ agent.stage = "plan" /\ d < agent.d
     \/ agent.stage \in Working /\ d >= agent.d
IsFilling(d) == agent.type = "initial-fill" /\ agent.stage \in Working /\ d = agent.d
IsThrough(d) ==
  \/ agent.stage \in {"mkfs"} \cup Working /\ d < agent.d
  \/ agent.stage = "marking"
  \/ agent.stage \in {"flush", "report"} /\ agent.result = "done" /\ agent.type # "verify"
  \/ Churned
  \/ order.run # 0 /\ RunAlreadyComplete(order.run)

(* The disk the agent is at, by the stage it is in. *)
AtWork ==
  LET k == disk[agent.d]
      head == Head(agent.plans[agent.d]) IN
  /\ agent.stage = "writing" => head.files \subseteq DOMAIN k.files /\ agent.fresh \subseteq head.files
  /\ agent.stage = "sync" =>
       /\ k.manifest.run = agent.run /\ DOMAIN k.manifest.sums = DOMAIN k.files
       /\ Stale(k.manifest, k) \cap agent.changed = {}
  /\ agent.type = "initial-fill" =>
       /\ agent.stage \in {"jobs", "writing"} => ~k.id /\ k.marker = 0
       /\ agent.stage \in Working \ {"sync"} => k.manifest = NoManifest
       /\ agent.stage = "sync" => k.manifest.sums = k.files
  /\ agent.stage \in {"plan", "mkfs"} \cup Working => ~RunAlreadyComplete(order.run)

Rest ==
  /\ up \in BOOLEAN /\ filled \in BOOLEAN /\ completed \subseteq Runs
  /\ data.state \in {"unknown", "empty", "partial", "filled"}
  /\ crashes \in 0 .. MaxCrashes /\ faults \in 0 .. MaxFaults

DiskGood(d) ==
  /\ DiskOK(disk[d], platter[d], cutOff[d], picks, order.run, order.type, WorkOn(d), FreshOn(d))
  /\ IsPlanned(d) =>
       Planned(disk[d], picks, order.run, agent.plans[d], agent.listed[d], ChangedOn(d), FreshOn(d))
  /\ IsFilling(d) => Filling(disk[d], platter[d], order.run, agent.plans[d])
  /\ IsThrough(d) => Finished(disk[d], platter[d], order.run, order.type)

DisksOK == \A d \in Disks : DiskGood(d)

Shape == DOMAIN disk = Disks /\ DOMAIN platter = Disks /\ DOMAIN cutOff = Disks

IInv ==
  /\ Shape /\ AgentOK /\ OrderOK /\ PicksOK /\ Rest
  /\ AtWork
  /\ DisksOK

-----------------------------------------------------------------------------
(* The operators of the plan *)

(* What the assumption on the constants says, one by one. *)
LEMMA ConstantsOK ==
  /\ NDisks \in Nat /\ NDisks > 0 /\ MaxRuns \in Nat /\ MaxRuns > 0
  /\ GlobalFiles \in Nat /\ LocalFiles \in Nat
  /\ ChangePercent \in Nat /\ GrowthPercent \in Nat
  /\ MaxCrashes \in Nat /\ MaxFaults \in Nat
BY AgentDiskAssumption

(* More files never make for less growth. *)
LEMMA GrowthMonotone ==
  ASSUME NEW m \in Nat, NEW n \in Nat, m <= n
  PROVE  NGrow(m) \in Nat /\ NGrow(m) <= NGrow(n)
<1>1. m * GrowthPercent \in Nat /\ n * GrowthPercent \in Nat
  BY ConstantsOK
<1>2. m * GrowthPercent <= n * GrowthPercent
  <2>1. PICK i \in Nat : n = m + i
    BY n - m \in Nat, n = m + (n - m)
  <2>2. n * GrowthPercent = m * GrowthPercent + i * GrowthPercent
    BY <2>1, ConstantsOK
  <2>3. i * GrowthPercent \in Nat
    BY ConstantsOK
  <2> QED BY <1>1, <2>2, <2>3
<1>3. ASSUME NEW a \in Nat, NEW b \in Nat, a <= b
      PROVE  a \div 100 \in Nat /\ a \div 100 <= b \div 100
  BY <1>3
<1> QED BY <1>1, <1>2, <1>3 DEF NGrow

(* A churn that is to change something changes at least one file. *)
LEMMA ChangesSomething ==
  ASSUME NEW n \in Nat, n > 0, ChangePercent > 0
  PROVE  NChange(n) >= 1
<1> DEFINE y == (n * ChangePercent + 50) \div 100
           x == Min({n, y})
<1>1. y \in Int
  BY ConstantsOK
<1>2. x \in {n, y}
  <2>1. \E z \in {n, y} : \A u \in {n, y} : z <= u
    BY <1>1
  <2> QED BY <2>1 DEF Min
<1>3. Max({1, x}) >= 1
  <2> HIDE DEF x
  <2>1. \E z \in {1, x} : \A u \in {1, x} : z >= u
    BY <1>1, <1>2
  <2> QED BY <2>1 DEF Max
<1> QED BY <1>3 DEF NChange

(* The files a churn may rewrite: the order of names is total on them. *)
Named == {f \in Files : f.kind # "global"}

LEMMA NamesOrdered ==
  ASSUME NEW f \in Named, NEW g \in Named
  PROVE  /\ ~NameBefore(f, f)
         /\ f # g => NameBefore(f, g) \/ NameBefore(g, f)
         /\ \A h \in Named : NameBefore(f, g) /\ NameBefore(g, h) => NameBefore(f, h)
<1> USE ConstantsOK
<1>1. /\ f.run \in Int /\ f.n \in Int /\ g.run \in Int /\ g.n \in Int
      /\ f.kind \in {"local", "grow"} /\ g.kind \in {"local", "grow"}
  BY DEF Named, Files
<1>2. ~NameBefore(f, f)
  BY <1>1 DEF NameBefore
<1>3. ASSUME f # g PROVE NameBefore(f, g) \/ NameBefore(g, f)
  <2>1. f.kind # g.kind \/ f.run # g.run \/ f.n # g.n
    BY <1>3 DEF Named, Files
  <2> QED BY <1>1, <2>1 DEF NameBefore
<1>4. ASSUME NEW h \in Named, NameBefore(f, g), NameBefore(g, h) PROVE NameBefore(f, h)
  <2>1. h.run \in Int /\ h.n \in Int /\ h.kind \in {"local", "grow"}
    BY DEF Named, Files
  <2> QED BY <1>1, <1>4, <2>1 DEF NameBefore
<1> QED BY <1>2, <1>3, <1>4

(* The position of a file is one of the list. *)
LEMMA PositionInList ==
  ASSUME NEW L \in SUBSET Named, IsFiniteSet(L), NEW f \in L
  PROVE  Position(f, L) \in 1 .. Cardinality(L)
<1> DEFINE B == {g \in L : NameBefore(g, f)}
<1>1. B \in SUBSET L
  OBVIOUS
<1>2. f \notin B
  BY NamesOrdered
<1>3. IsFiniteSet(B) /\ Cardinality(B) <= Cardinality(L) /\ (Cardinality(L) = Cardinality(B) => L = B)
  BY <1>1, FS_Subset
<1>4. Cardinality(B) \in Nat /\ Cardinality(L) \in Nat
  BY <1>3, FS_CardinalityType
<1> HIDE DEF B
<1>5. Cardinality(B) < Cardinality(L)
  BY <1>2, <1>3, <1>4
<1>6. Position(f, L) = Cardinality(B) + 1
  BY DEF Position, B
<1> QED BY <1>4, <1>5, <1>6

(* Two files of a list have two positions. *)
LEMMA PositionsDiffer ==
  ASSUME NEW L \in SUBSET Named, IsFiniteSet(L), NEW f \in L, NEW g \in L, f # g
  PROVE  Position(f, L) # Position(g, L)
<1>1. ASSUME NEW x \in L, NEW y \in L, NameBefore(x, y)
      PROVE  Position(x, L) # Position(y, L)
  <2> DEFINE B == {z \in L : NameBefore(z, x)}
             C == {z \in L : NameBefore(z, y)}
  <2>1. B \in SUBSET C
    BY <1>1, NamesOrdered
  <2>2. x \in C /\ x \notin B
    BY <1>1, NamesOrdered
  <2>3. C \in SUBSET L
    OBVIOUS
  <2>4. IsFiniteSet(C)
    BY <2>3, FS_Subset
  <2>5. IsFiniteSet(B) /\ (Cardinality(C) = Cardinality(B) => C = B)
    BY <2>1, <2>4, FS_Subset
  <2>6. Cardinality(B) \in Nat /\ Cardinality(C) \in Nat
    BY <2>4, <2>5, FS_CardinalityType
  <2>7. Position(x, L) = Cardinality(B) + 1 /\ Position(y, L) = Cardinality(C) + 1
    BY DEF Position
  <2> HIDE DEF B, C
  <2> QED BY <2>2, <2>5, <2>6, <2>7
<1>2. NameBefore(f, g) \/ NameBefore(g, f)
  BY NamesOrdered
<1> QED BY <1>1, <1>2

(* Every position of a list is that of one of its files. *)
LEMMA PositionsTaken ==
  ASSUME NEW L \in SUBSET Named, IsFiniteSet(L), NEW i \in 1 .. Cardinality(L)
  PROVE  \E f \in L : Position(f, L) = i
<1> DEFINE n == Cardinality(L)
           F == [f \in L |-> Position(f, L)]
<1>1. n \in Nat
  BY FS_CardinalityType
<1>2. IsFiniteSet(1 .. n) /\ Cardinality(1 .. n) = n
  BY <1>1, FS_Interval
<1>3. F \in Injection(L, 1 .. n)
  <2>1. \A f \in L : F[f] \in 1 .. n
    BY PositionInList
  <2>2. \A f, g \in L : F[f] = F[g] => f = g
    BY PositionsDiffer
  <2> HIDE DEF n
  <2>3. F \in [L -> 1 .. n]
    BY <2>1
  <2> HIDE DEF F
  <2> QED BY <2>2, <2>3 DEF Injection, IsInjective
<1>4. F \in Surjection(L, 1 .. n)
  <2> HIDE DEF F
  <2> QED BY <1>2, <1>3, FS_Injection
<1>5. \E f \in L : F[f] = i
  <2> HIDE DEF F
  <2> QED BY <1>4 DEF Surjection
<1> QED BY <1>5

(* A run's growth and the regions are finite sets of files. *)
LEMMA NumberedFinite ==
  ASSUME NEW kind, NEW r, NEW n \in Nat
  PROVE  /\ IsFiniteSet({File(kind, r, i) : i \in 1 .. n})
         /\ Cardinality({File(kind, r, i) : i \in 1 .. n}) = n
<1> DEFINE S == {File(kind, r, i) : i \in 1 .. n}
           F == [i \in 1 .. n |-> File(kind, r, i)]
<1>1. F \in [1 .. n -> S]
  OBVIOUS
<1>2. \A i, j \in 1 .. n : F[i] = F[j] => i = j
  BY DEF File
<1>3. \A s \in S : \E i \in 1 .. n : F[i] = s
  OBVIOUS
<1> HIDE DEF F, S
<1>4. F \in Surjection(1 .. n, S)
  BY <1>1, <1>3 DEF Surjection
<1>5. F \in Injection(1 .. n, S)
  BY <1>1, <1>2 DEF Injection, IsInjective
<1>6. IsFiniteSet(1 .. n) /\ Cardinality(1 .. n) = n
  BY FS_Interval
<1>7. IsFiniteSet(S) /\ Cardinality(S) = n
  BY <1>4, <1>5, <1>6, FS_Surjection
<1> QED BY <1>7 DEF S

LEMMA GrowthFiles ==
  ASSUME NEW r \in 0 .. MaxRuns, NEW n \in Nat
  PROVE  /\ Growth(r, n) \in SUBSET Files /\ IsFiniteSet(Growth(r, n))
         /\ \A f \in Growth(r, n) : f.kind = "grow" /\ f.run = r /\ f.n \in 1 .. n
         /\ \A f \in Files : f.kind = "grow" /\ f.run = r /\ f.n \in 1 .. n => f \in Growth(r, n)
<1>1. IsFiniteSet(Growth(r, n))
  BY NumberedFinite DEF Growth
<1>2. Growth(r, n) \in SUBSET Files
  BY DEF Growth, File, Files
<1>3. \A f \in Growth(r, n) : f.kind = "grow" /\ f.run = r /\ f.n \in 1 .. n
  BY DEF Growth, File
<1>4. ASSUME NEW f \in Files, f.kind = "grow", f.run = r, f.n \in 1 .. n PROVE f \in Growth(r, n)
  <2>1. f = File("grow", r, f.n)
    BY <1>4 DEF Files, File
  <2> QED BY <1>4, <2>1 DEF Growth
<1> QED BY <1>1, <1>2, <1>3, <1>4

LEMMA RegionFiles ==
  /\ GlobalRegion \in SUBSET Files /\ LocalRegion \in SUBSET Files /\ Regions \in SUBSET Files
  /\ IsFiniteSet(Regions) /\ IsFiniteSet(LocalRegion) /\ Cardinality(LocalRegion) = LocalFiles
  /\ \A f \in Regions : f.kind # "grow"
  /\ \A f \in LocalRegion : f.kind = "local"
<1> USE ConstantsOK
<1>1. GlobalRegion \in SUBSET Files
  BY DEF GlobalRegion, File, Files
<1>2. LocalRegion \in SUBSET Files
  BY DEF LocalRegion, File, Files
<1>3. IsFiniteSet(LocalRegion) /\ Cardinality(LocalRegion) = LocalFiles
  BY NumberedFinite DEF LocalRegion
<1>4. IsFiniteSet(GlobalRegion)
  BY NumberedFinite DEF GlobalRegion
<1>5. IsFiniteSet(Regions)
  BY <1>3, <1>4, FS_Union DEF Regions
<1>6. \A f \in Regions : f.kind # "grow"
  BY DEF Regions, GlobalRegion, LocalRegion, File
<1>7. \A f \in LocalRegion : f.kind = "local"
  BY DEF LocalRegion, File
<1> QED BY <1>1, <1>2, <1>3, <1>5, <1>6, <1>7 DEF Regions

LEMMA Monotone ==
  ASSUME NEW M \in SUBSET Files, IsFiniteSet(M), NEW L \in SUBSET M, NEW r \in 0 .. MaxRuns
  PROVE  /\ IsFiniteSet(L) /\ Cardinality(L) \in Nat /\ Cardinality(L) <= Cardinality(M)
         /\ NGrow(Cardinality(L)) \in Nat /\ NGrow(Cardinality(L)) <= NGrow(Cardinality(M))
         /\ Grown(r, L) \subseteq Grown(r, M)
<1>1. IsFiniteSet(L) /\ Cardinality(L) <= Cardinality(M)
  BY FS_Subset
<1>2. Cardinality(L) \in Nat /\ Cardinality(M) \in Nat
  BY <1>1, FS_CardinalityType
<1>3. NGrow(Cardinality(L)) \in Nat /\ NGrow(Cardinality(L)) <= NGrow(Cardinality(M)) /\ NGrow(Cardinality(M)) \in Nat
  BY <1>1, <1>2, GrowthMonotone
<1>4. Grown(r, L) \subseteq Grown(r, M)
  BY <1>3 DEF Grown, Growth
<1> QED BY <1>1, <1>2, <1>3, <1>4

-----------------------------------------------------------------------------
(* Maps from files to contents, and the records of a disk *)

Over(files, content, old) ==
  [f \in files \cup DOMAIN old |-> IF f \in files THEN content ELSE old[f]]

LEMMA FileMapElim ==
  ASSUME NEW g \in FileMaps
  PROVE  /\ DOMAIN g \in SUBSET Files
         /\ g = [f \in DOMAIN g |-> g[f]]
         /\ \A f \in DOMAIN g : g[f] \in Contents
<1>1. PICK S \in SUBSET Files : g \in [S -> Contents]
  BY DEF FileMaps
<1> QED BY <1>1

LEMMA FileMapIntro ==
  ASSUME NEW S \in SUBSET Files, NEW g \in [S -> Contents]
  PROVE  g \in FileMaps /\ DOMAIN g = S
BY DEF FileMaps

LEMMA EmptyMap ==
  /\ <<>> \in FileMaps /\ DOMAIN <<>> = {}
  /\ \A g : g = [f \in DOMAIN g |-> g[f]] /\ DOMAIN g = {} => g = <<>>
<1>1. <<>> = [f \in {} |-> 0] /\ DOMAIN <<>> = {}
  OBVIOUS
<1>2. <<>> \in [{} -> Contents]
  BY <1>1
<1>3. <<>> \in FileMaps
  BY <1>2, FileMapIntro
<1>4. \A g : g = [f \in DOMAIN g |-> g[f]] /\ DOMAIN g = {} => g = <<>>
  BY <1>1
<1> QED BY <1>1, <1>3, <1>4

LEMMA OverIs ==
  ASSUME NEW old \in FileMaps, NEW files \in SUBSET Files, NEW content \in Contents
  PROVE  \E g \in FileMaps :
           /\ g = Over(files, content, old)
           /\ DOMAIN g = files \cup DOMAIN old
           /\ \A f \in files : g[f] = content
           /\ \A f \in DOMAIN old \ files : g[f] = old[f]
<1> DEFINE g == Over(files, content, old)
           S == files \cup DOMAIN old
<1>1. DOMAIN old \in SUBSET Files /\ \A f \in DOMAIN old : old[f] \in Contents
  BY FileMapElim
<1>2. g \in [S -> Contents]
  BY <1>1 DEF Over
<1>3. g \in FileMaps /\ DOMAIN g = S
  BY <1>1, <1>2, FileMapIntro
<1>4. \A f \in files : g[f] = content
  BY DEF Over
<1>5. \A f \in DOMAIN old \ files : g[f] = old[f]
  BY DEF Over
<1>6. g = Over(files, content, old)
  OBVIOUS
<1> HIDE DEF g
<1> QED BY <1>3, <1>4, <1>5, <1>6

LEMMA EmptyIs ==
  /\ NoManifest \in Manifests /\ EmptyDisk \in DiskRecords
  /\ NoManifest.run = 0 /\ NoManifest.sums = <<>>
  /\ ~EmptyDisk.fs /\ ~EmptyDisk.id /\ EmptyDisk.marker = 0
  /\ EmptyDisk.files = <<>> /\ EmptyDisk.manifest = NoManifest
<1>1. NoManifest \in Manifests
  BY EmptyMap, ConstantsOK DEF NoManifest, Manifests
<1>2. EmptyDisk \in DiskRecords
  BY <1>1, EmptyMap, ConstantsOK DEF EmptyDisk, DiskRecords
<1> QED BY <1>1, <1>2 DEF EmptyDisk, NoManifest

LEMMA DiskFields ==
  ASSUME NEW k \in DiskRecords
  PROVE  /\ k.fs \in BOOLEAN /\ k.files \in FileMaps /\ k.manifest \in Manifests
         /\ k.id \in BOOLEAN /\ k.marker \in 0 .. MaxRuns
         /\ DOMAIN k.files \in SUBSET Files
         /\ \A f \in DOMAIN k.files : k.files[f] \in Contents
         /\ k.manifest.run \in 0 .. MaxRuns /\ k.manifest.sums \in FileMaps
<1>1. /\ k.fs \in BOOLEAN /\ k.files \in FileMaps /\ k.manifest \in Manifests
      /\ k.id \in BOOLEAN /\ k.marker \in 0 .. MaxRuns
  BY DEF DiskRecords
<1>2. k.manifest.run \in 0 .. MaxRuns /\ k.manifest.sums \in FileMaps
  BY <1>1 DEF Manifests
<1> QED BY <1>1, <1>2, FileMapElim

(* The files of a directory and of a local one. *)
LEMMA LocalIs ==
  ASSUME NEW k \in DiskRecords, IsFiniteSet(DOMAIN k.files), NEW fresh
  PROVE  /\ LocalFilesOf(k) \in SUBSET Named /\ IsFiniteSet(LocalFilesOf(k))
         /\ LocalFilesOf(k) \in SUBSET Files
         /\ LocalFilesOf(k) \ fresh \in SUBSET LocalFilesOf(k)
         /\ IsFiniteSet(LocalFilesOf(k) \ fresh)
<1>1. DOMAIN k.files \in SUBSET Files
  BY DiskFields
<1>2. LocalFilesOf(k) \in SUBSET DOMAIN k.files
  BY DEF LocalFilesOf
<1>3. IsFiniteSet(LocalFilesOf(k))
  BY <1>2, FS_Subset
<1>4. LocalFilesOf(k) \ fresh \in SUBSET LocalFilesOf(k)
  OBVIOUS
<1>5. IsFiniteSet(LocalFilesOf(k) \ fresh)
  BY <1>3, <1>4, FS_Subset
<1>6. LocalFilesOf(k) \in SUBSET Named
  BY <1>1 DEF LocalFilesOf, Named
<1> QED BY <1>1, <1>2, <1>3, <1>4, <1>5, <1>6

-----------------------------------------------------------------------------
(* What keeps the invariant of a disk that is not written to *)

LEMMA ChosenGrows ==
  ASSUME NEW pk, NEW pk2, pk \subseteq pk2
  PROVE  /\ \A r, L : Chosen(pk, r, L) \subseteq Chosen(pk2, r, L)
         /\ \A cut : Excused(pk, cut) \subseteq Excused(pk2, cut)
<1>1. \A r, L : Chosen(pk, r, L) \subseteq Chosen(pk2, r, L)
  BY DEF Chosen
<1>2. \A r, L : Touched(pk, r, L) \subseteq Touched(pk2, r, L)
  BY <1>1 DEF Touched
<1>3. \A cut : Excused(pk, cut) \subseteq Excused(pk2, cut)
  BY <1>2 DEF Excused
<1> QED BY <1>1, <1>3

(* More picks, and more that excuses a file. *)
LEMMA DiskExcused ==
  ASSUME NEW k, NEW p, NEW cut, NEW pk, NEW r, NEW type, NEW work, NEW fresh,
         DiskOK(k, p, cut, pk, r, type, work, fresh),
         NEW cut2, NEW pk2, NEW work2, pk \subseteq pk2,
         Excused(pk, cut) \cup work \subseteq Excused(pk2, cut2) \cup work2
  PROVE  DiskOK(k, p, cut2, pk2, r, type, work2, fresh)
<1>1. SumsOK(k, p, cut2, pk2, work2, fresh)
  BY DEF DiskOK, SumsOK
<1>2. ChurnOK(k, pk2, r, type, fresh)
  <2>1. Chosen(pk, r, LocalFilesOf(k)) \subseteq Chosen(pk2, r, LocalFilesOf(k))
    BY ChosenGrows
  <2> QED BY <2>1 DEF DiskOK, ChurnOK
<1> QED BY <1>1, <1>2 DEF DiskOK

(* A global sync makes what is new, and the manifest, durable. *)
LEMMA DiskFlushed ==
  ASSUME NEW k, NEW p, NEW cut, NEW pk, NEW r \in 0 .. MaxRuns, NEW type, NEW work, NEW fresh,
         DiskOK(k, p, cut, pk, r, type, work, fresh)
  PROVE  DiskOK(k, k.manifest, cut, pk, r, type, work, {})
<1> USE DEF DiskOK
<1>1. k \in DiskRecords /\ IsFiniteSet(DOMAIN k.files)
  BY DEF Sane
<1> DEFINE L == LocalFilesOf(k)
<1>2. L \in SUBSET Files /\ IsFiniteSet(L) /\ L \ fresh \in SUBSET L /\ L \ {} = L
  BY <1>1, LocalIs
<1>3. Grown(r, L \ fresh) \subseteq Grown(r, L)
  BY <1>2, Monotone
<1>4. /\ NGrow(Cardinality(L \ fresh)) \in Nat /\ NGrow(Cardinality(L)) \in Nat
      /\ NGrow(Cardinality(L \ fresh)) <= NGrow(Cardinality(L))
  BY <1>2, Monotone, ConstantsOK
<1>5. Sane(k, k.manifest)
  BY <1>1, DiskFields, EmptyIs DEF Sane
<1>6. FreshOK(k, r, type, {})
  BY DEF FreshOK
<1>7. SumsOK(k, k.manifest, cut, pk, work, {})
  BY DEF SumsOK
<1>8. GrowthOK(k, {})
  <2>1. ASSUME NEW f \in DOMAIN k.files, f.kind = "grow"
        PROVE  f.n \in 1 .. NGrow(Cardinality(L))
    <3>1. f.n \in 1 .. NGrow(Cardinality(L \ fresh))
      BY <2>1 DEF GrowthOK
    <3> HIDE DEF L
    <3> QED BY <1>4, <3>1
  <2> HIDE DEF L
  <2>2. LocalFilesOf(k) \ {} = L
    BY <1>2 DEF L
  <2> QED BY <2>1, <2>2 DEF GrowthOK
<1>9. ChurnOK(k, pk, r, type, {})
  BY <1>2, <1>3 DEF ChurnOK
<1>10. StampOK(k, {})
  BY DEF StampOK, Origin
<1> QED BY <1>5, <1>6, <1>7, <1>8, <1>9, <1>10

(* The next order finds nothing of its own. *)
LEMMA DiskNextRun ==
  ASSUME NEW k, NEW p, NEW cut, NEW pk, NEW r \in 0 .. MaxRuns, NEW type, NEW work, NEW type2,
         DiskOK(k, p, cut, pk, r, type, work, {})
  PROVE  DiskOK(k, p, cut, pk, r + 1, type2, work, {})
<1> USE DEF DiskOK
<1>1. k \in DiskRecords
  BY DEF Sane
<1>2. k.marker \in Int /\ \A f \in DOMAIN k.files : k.files[f].run \in Int /\ f.run \in Int
  BY <1>1, DiskFields, ConstantsOK DEF Files, Contents, Runs
<1>3. r \in Int /\ r + 1 \in Int
  BY ConstantsOK
<1>4. /\ k.marker <= r + 1
      /\ \A f \in DOMAIN k.files :
           /\ k.files[f].run <= r + 1 /\ k.files[f].run # r + 1
           /\ f.kind = "grow" => f.run <= r + 1 /\ f.run # r + 1
  BY <1>2, <1>3 DEF AgesOK
<1>5. AgesOK(k, r + 1, type2)
  BY <1>4 DEF AgesOK
<1>6. Torn(k, r + 1) = {}
  BY <1>4 DEF Torn
<1>7. ChurnOK(k, pk, r + 1, type2, {})
  BY <1>4, <1>6 DEF ChurnOK, IsGrowthOf
<1>8. FreshOK(k, r + 1, type2, {})
  BY DEF FreshOK
<1> QED BY <1>5, <1>7, <1>8

-----------------------------------------------------------------------------
(* A power cut, as one disk sees it *)

CutDisk(k, kept, m, id, marker) ==
  [fs |-> k.fs, files |-> [f \in kept |-> k.files[f]], manifest |-> m, id |-> id, marker |-> marker]

(* A power cut takes files that were not durable and perhaps the last        *)
(* manifest; a stamp it may leave half-way is one the disk was ready for.    *)
LEMMA DiskCut ==
  ASSUME NEW k, NEW p, NEW cut, NEW pk, NEW r \in 0 .. MaxRuns, NEW type, NEW work, NEW fresh,
         DiskOK(k, p, cut, pk, r, type, work, fresh),
         NEW kept \in SUBSET DOMAIN k.files, DOMAIN k.files \ fresh \subseteq kept,
         NEW m \in {k.manifest, p}, NEW id \in BOOLEAN, NEW marker \in 0 .. MaxRuns, marker <= r,
         ~k.fs => id = k.id /\ marker = k.marker,
         id \/ marker # 0 => k.id \/ k.marker # 0 \/ fresh = {},
         ChangePercent > 0 /\ k.fs /\ (id \/ marker # 0) => Origin(k, fresh),
         NEW cut2, Excused(pk, cut) \cup work \subseteq Excused(pk, cut2)
  PROVE  /\ DiskOK(CutDisk(k, kept, m, id, marker), m, cut2, pk, r, type, {}, {})
         /\ Finished(k, p, r, type) /\ fresh = {} =>
              Finished(CutDisk(k, kept, m, id, marker), m, r, type)
<1> USE DEF DiskOK
<1> DEFINE c == CutDisk(k, kept, m, id, marker)
<1>1. k \in DiskRecords /\ IsFiniteSet(DOMAIN k.files) /\ p \in Manifests
  BY DEF Sane
<1>2. /\ k.fs \in BOOLEAN /\ k.files \in FileMaps /\ k.manifest \in Manifests
      /\ DOMAIN k.files \in SUBSET Files /\ \A f \in DOMAIN k.files : k.files[f] \in Contents
  BY <1>1, DiskFields
<1>3. m \in Manifests
  BY <1>1, <1>2
<1>4. /\ c.fs = k.fs /\ c.manifest = m /\ c.id = id /\ c.marker = marker
      /\ c.files = [f \in kept |-> k.files[f]]
      /\ DOMAIN c.files = kept /\ \A f \in kept : c.files[f] = k.files[f]
  BY DEF CutDisk
<1>5. c.files \in [kept -> Contents] /\ kept \in SUBSET Files
  BY <1>2, <1>4
<1>6. c.files \in FileMaps
  BY <1>5, FileMapIntro
<1>7. c \in DiskRecords
  BY <1>2, <1>3, <1>6 DEF CutDisk, DiskRecords
<1>8. IsFiniteSet(kept)
  BY <1>1, FS_Subset
<1> HIDE DEF c
<1>9. Sane(c, m)
  <2>1. ASSUME ~c.fs PROVE c = EmptyDisk /\ m = NoManifest
    <3>1. k = EmptyDisk /\ p = NoManifest
      BY <1>4, <2>1 DEF Sane
    <3>2. m = NoManifest /\ id = EmptyDisk.id /\ marker = EmptyDisk.marker
      BY <1>4, <2>1, <3>1, EmptyIs
    <3>3. kept = {}
      BY <3>1, EmptyIs, EmptyMap
    <3>4. [f \in kept |-> k.files[f]] = <<>>
      BY <3>3, EmptyMap
    <3>5. c = [fs |-> EmptyDisk.fs, files |-> <<>>, manifest |-> NoManifest,
               id |-> EmptyDisk.id, marker |-> EmptyDisk.marker]
      BY <3>1, <3>2, <3>4 DEF c, CutDisk
    <3>6. c = EmptyDisk
      BY <3>5 DEF EmptyDisk
    <3> QED BY <3>2, <3>6
  <2> QED BY <1>3, <1>4, <1>7, <1>8, <2>1 DEF Sane
<1>10. FreshOK(c, r, type, {})
  BY DEF FreshOK
<1>11. SumsOK(c, m, cut2, pk, {}, {})
  <2>1. DOMAIN m.sums \subseteq DOMAIN k.files \ fresh
    BY DEF SumsOK
  <2>2. Stale(m, k) \subseteq Excused(pk, cut2)
    BY DEF SumsOK
  <2>3. DOMAIN m.sums \subseteq kept
    BY <2>1
  <2>4. Stale(m, c) \subseteq Stale(m, k)
    BY <1>4, <2>3 DEF Stale
  <2> QED BY <1>4, <2>2, <2>3, <2>4 DEF SumsOK
<1> DEFINE L == LocalFilesOf(k)
           C == LocalFilesOf(c)
<1>12. /\ C \in SUBSET L /\ L \ fresh \in SUBSET C /\ C \ {} = C
       /\ fresh = {} => C = L
  BY <1>4 DEF LocalFilesOf
<1>13. IsFiniteSet(C) /\ C \in SUBSET Files
  BY <1>4, <1>7, <1>8, LocalIs
<1>14. Grown(r, L \ fresh) \subseteq Grown(r, C)
  BY <1>12, <1>13, Monotone
<1>15. /\ NGrow(Cardinality(L \ fresh)) \in Nat /\ NGrow(Cardinality(C)) \in Nat
       /\ NGrow(Cardinality(L \ fresh)) <= NGrow(Cardinality(C))
  BY <1>12, <1>13, Monotone
<1>16. GrowthOK(c, {})
  <2>1. ASSUME NEW f \in kept, f.kind = "grow"
        PROVE  f.n \in 1 .. NGrow(Cardinality(C))
    <3>1. f.n \in 1 .. NGrow(Cardinality(L \ fresh))
      BY <2>1 DEF GrowthOK
    <3> HIDE DEF L, C
    <3> QED BY <1>15, <3>1
  <2> HIDE DEF C
  <2>2. LocalFilesOf(c) \ {} = C
    BY <1>12 DEF C
  <2> QED BY <1>4, <2>1, <2>2 DEF GrowthOK
<1>17. AgesOK(c, r, type)
  BY <1>4 DEF AgesOK
<1>18. ChurnOK(c, pk, r, type, {})
  <2> SUFFICES ASSUME type = "incremental"
               PROVE  /\ Torn(c, r) \subseteq Grown(r, C \ {}) \cup Chosen(pk, r, C)
                      /\ ChangePercent > 0 /\ (\E f \in DOMAIN c.files : IsGrowthOf(f, r)) => Rewrote(c, r)
    BY DEF ChurnOK
  <2>1. Torn(c, r) \subseteq Torn(k, r)
    BY <1>4 DEF Torn
  <2>2. Torn(k, r) \subseteq Grown(r, L \ fresh) \cup (IF fresh = {} THEN Chosen(pk, r, L) ELSE {})
    BY DEF ChurnOK
  <2>3. Torn(c, r) \subseteq Grown(r, C \ {}) \cup Chosen(pk, r, C)
    <3> HIDE DEF C, L
    <3> QED BY <1>12, <1>14, <2>1, <2>2
  <2>4. ASSUME ChangePercent > 0, \E f \in DOMAIN c.files : IsGrowthOf(f, r)
        PROVE  Rewrote(c, r)
    <3>1. Rewrote(k, r)
      BY <1>4, <2>4 DEF ChurnOK
    <3>2. \A f \in fresh : IsGrowthOf(f, r)
      BY <1>4, <2>4 DEF FreshOK, IsGrowthOf
    <3> QED BY <1>4, <3>1, <3>2 DEF Rewrote
  <2> QED BY <2>3, <2>4
<1>19. StampOK(c, {})
  <2> SUFFICES ASSUME ChangePercent > 0, c.fs, c.id \/ c.marker # 0
               PROVE  Origin(c, {})
    BY DEF StampOK
  <2>1. Origin(k, fresh) /\ (k.id \/ k.marker # 0 \/ fresh = {})
    BY <1>4
  <2>2. \A f \in fresh : f.kind = "grow"
    BY <2>1 DEF FreshOK, IsGrowthOf
  <2>3. Regions \subseteq DOMAIN k.files => Regions \subseteq kept
    BY <2>2, RegionFiles
  <2> QED BY <1>4, <2>1, <2>3 DEF Origin
<1>20. ASSUME Finished(k, p, r, type), fresh = {} PROVE Finished(c, m, r, type)
  <2>1. kept = DOMAIN k.files
    BY <1>20
  <2>2. c.files = k.files
    BY <1>2, <1>4, <2>1, FileMapElim
  <2>3. CarriedOut(c, r, type)
    BY <1>20, <2>2 DEF Finished, CarriedOut
  <2> QED BY <1>4, <1>20, <2>2, <2>3 DEF Finished
<1> QED BY <1>9, <1>10, <1>11, <1>16, <1>17, <1>18, <1>19, <1>20 DEF c

-----------------------------------------------------------------------------
(* A churn on its disk *)

ToDo(plan) == plan \in Seq(Jobs) /\ plan # <<>>

LEMMA PlanSplit ==
  ASSUME NEW plan, ToDo(plan)
  PROVE  /\ Len(plan) \in Nat /\ Len(plan) >= 1
         /\ Head(plan) = plan[1] /\ plan[1] \in Jobs
         /\ plan[1].files \in SUBSET Files /\ plan[1].content \in Contents
         /\ Tail(plan) \in Seq(Jobs) /\ Len(Tail(plan)) = Len(plan) - 1
         /\ \A i \in 1 .. Len(Tail(plan)) : Tail(plan)[i] = plan[i + 1]
         /\ Left(plan) = plan[1].files \cup Left(Tail(plan))
<1>1. Len(plan) \in Nat /\ Len(plan) >= 1 /\ Head(plan) = plan[1] /\ plan[1] \in Jobs
  BY DEF ToDo
<1>2. Tail(plan) \in Seq(Jobs) /\ Len(Tail(plan)) = Len(plan) - 1
  BY DEF ToDo
<1>3. \A i \in 1 .. Len(Tail(plan)) : Tail(plan)[i] = plan[i + 1]
  BY DEF ToDo
<1>4. Left(plan) \subseteq plan[1].files \cup Left(Tail(plan))
  <2>1. ASSUME NEW i \in 1 .. Len(plan) PROVE plan[i].files \subseteq plan[1].files \cup Left(Tail(plan))
    <3>1. CASE i = 1
      BY <3>1
    <3>2. CASE i # 1
      <4>1. i - 1 \in 1 .. Len(Tail(plan)) /\ i = (i - 1) + 1
        BY <1>1, <1>2, <3>2
      <4>2. Tail(plan)[i - 1] = plan[i]
        BY <1>3, <4>1
      <4> QED BY <4>1, <4>2 DEF Left
    <3> QED BY <3>1, <3>2
  <2> QED BY <2>1 DEF Left
<1>5. plan[1].files \subseteq Left(plan)
  BY <1>1 DEF Left
<1>6. Left(Tail(plan)) \subseteq Left(plan)
  <2>1. \A i \in 1 .. Len(Tail(plan)) : i + 1 \in 1 .. Len(plan)
    BY <1>1, <1>2
  <2> QED BY <1>3, <2>1 DEF Left
<1>7. plan[1].files \in SUBSET Files /\ plan[1].content \in Contents
  BY <1>1 DEF Jobs
<1> QED BY <1>1, <1>2, <1>3, <1>4, <1>5, <1>6, <1>7

(* What a plan still has to write was in the churn from the start. *)
LEMMA LeftTouched ==
  ASSUME NEW pk, NEW r, NEW plan, NEW L,
         \A i \in 1 .. Len(plan) : ChurnJob(plan[i], pk, r, L)
  PROVE  Left(plan) \subseteq Touched(pk, r, L)
BY DEF Left, ChurnJob, Touched

LEMMA ChosenListed ==
  ASSUME NEW pk, NEW r, NEW L
  PROVE  Chosen(pk, r, L) \subseteq L
BY DEF Chosen

(* The record of a disk with other files in it. *)
SameButFiles(k2, k) ==
  k2.fs = k.fs /\ k2.id = k.id /\ k2.marker = k.marker /\ k2.manifest = k.manifest

(* Disk k after a job that writes the files with the content. *)
WrittenBy(k2, k, files, content) ==
  /\ k2 \in DiskRecords /\ SameButFiles(k2, k)
  /\ DOMAIN k2.files = files \cup DOMAIN k.files
  /\ \A f \in files : k2.files[f] = content
  /\ \A f \in DOMAIN k.files \ files : k2.files[f] = k.files[f]

LEMMA DiskWith ==
  ASSUME NEW k \in DiskRecords, NEW files \in SUBSET Files, NEW content \in Contents
  PROVE  WrittenBy([k EXCEPT !.files = Over(files, content, k.files)], k, files, content)
<1>1. PICK old \in FileMaps : old = k.files
  BY DiskFields
<1>2. PICK g \in FileMaps :
        /\ g = Over(files, content, old)
        /\ DOMAIN g = files \cup DOMAIN old
        /\ \A f \in files : g[f] = content
        /\ \A f \in DOMAIN old \ files : g[f] = old[f]
  BY OverIs
<1> DEFINE c == [k EXCEPT !.files = g]
<1>3. c \in DiskRecords /\ SameButFiles(c, k) /\ c.files = g
  BY DEF DiskRecords, SameButFiles
<1> HIDE DEF c
<1>4. WrittenBy(c, k, files, content)
  BY <1>1, <1>2, <1>3 DEF WrittenBy
<1> QED BY <1>1, <1>2, <1>4 DEF c

(* A job of a churn begins: its files are laid out, half-written. *)
LEMMA BeginChurn ==
  ASSUME NEW k, NEW p, NEW cut, NEW pk, NEW r \in Runs, NEW L, NEW changed,
         NEW plan, ToDo(plan),
         DiskOK(k, p, cut, pk, r, "incremental", changed, {}),
         Planned(k, pk, r, plan, L, changed, {}),
         NEW k2, WrittenBy(k2, k, Head(plan).files, Content(r, "torn", 0))
  PROVE  /\ DiskOK(k2, p, cut, pk, r, "incremental", changed \cup Head(plan).files,
                   Head(plan).files \ DOMAIN k.files)
         /\ Planned(k2, pk, r, plan, L, changed, Head(plan).files \ DOMAIN k.files)
         /\ Head(plan).files \subseteq DOMAIN k2.files
<1> DEFINE head == plan[1]
           torn == Content(r, "torn", 0)
           new == head.files \ DOMAIN k.files
<1>a. /\ Sane(k, p) /\ FreshOK(k, r, "incremental", {}) /\ SumsOK(k, p, cut, pk, changed, {})
      /\ GrowthOK(k, {}) /\ AgesOK(k, r, "incremental") /\ ChurnOK(k, pk, r, "incremental", {})
      /\ StampOK(k, {})
  BY DEF DiskOK
<1>1. /\ Head(plan) = head /\ head \in Jobs /\ head.files \in SUBSET Files
      /\ Len(plan) \in Nat /\ Len(plan) >= 1
      /\ head.files \subseteq Left(plan)
  BY PlanSplit
<1>2. k \in DiskRecords /\ IsFiniteSet(DOMAIN k.files) /\ p \in Manifests
  BY <1>a DEF Sane
<1>3. k.files \in FileMaps /\ DOMAIN k.files \in SUBSET Files
  BY <1>2, DiskFields
<1>4. torn \in Contents /\ torn.run = r /\ torn.job = "torn" /\ r \in 0 .. MaxRuns /\ r <= r
  BY ConstantsOK DEF Content, Contents, Runs
<1>p. /\ \A i \in 1 .. Len(plan) : ChurnJob(plan[i], pk, r, L)
      /\ \A i \in 1 .. Len(plan) : plan[i].content.job = "grow" => i = Len(plan)
  BY DEF Planned
<1>q. ChangePercent > 0 =>
        \/ Rewrote(k, r)
        \/ \E i \in 1 .. Len(plan) :
             plan[i].content.job = "change" /\ \E f \in plan[i].files : ~IsGrowthOf(f, r)
  BY DEF Planned
<1>b. ChurnJob(head, pk, r, L) /\ (head.content.job = "grow" => 1 = Len(plan))
  <2>1. 1 \in 1 .. Len(plan)
    BY <1>1
  <2> QED BY <1>p, <2>1
<1>c. /\ k2 \in DiskRecords
      /\ DOMAIN k2.files = head.files \cup DOMAIN k.files
      /\ \A f \in head.files : k2.files[f] = torn
      /\ \A f \in DOMAIN k.files \ head.files : k2.files[f] = k.files[f]
  BY <1>1 DEF WrittenBy
<1> HIDE DEF head, torn
<1>5. k2.fs = k.fs /\ k2.id = k.id /\ k2.marker = k.marker /\ k2.manifest = k.manifest
  BY DEF WrittenBy, SameButFiles
<1>6. /\ DOMAIN k2.files = head.files \cup DOMAIN k.files
      /\ \A f \in head.files : k2.files[f].run = r /\ k2.files[f].job = "torn"
      /\ \A f \in DOMAIN k.files \ head.files : k2.files[f] = k.files[f]
  BY <1>4, <1>c
<1>7. LocalFilesOf(k) = L /\ k.fs
  BY DEF Planned, ToDo
<1>8. L \in SUBSET Files /\ IsFiniteSet(L) /\ L \subseteq DOMAIN k.files /\ \A f \in L : f.kind # "global"
  BY <1>2, <1>7, LocalIs DEF LocalFilesOf
<1>9. Cardinality(L) \in Nat /\ NGrow(Cardinality(L)) \in Nat
  BY <1>8, Monotone, ConstantsOK
<1>10. /\ Grown(r, L) \in SUBSET Files /\ IsFiniteSet(Grown(r, L))
       /\ \A f \in Grown(r, L) : f.kind = "grow" /\ f.run = r /\ f.n \in 1 .. NGrow(Cardinality(L))
  BY <1>4, <1>9, GrowthFiles DEF Grown
<1>11. \/ head.content.job = "change" /\ head.files \subseteq Chosen(pk, r, L)
       \/ head.content.job = "grow" /\ head.files = Grown(r, L) /\ 1 = Len(plan)
  BY <1>b DEF ChurnJob
<1>12. Chosen(pk, r, L) \subseteq L
  BY ChosenListed
<1>13. new \subseteq Grown(r, L) /\ head.files \subseteq L \cup Grown(r, L)
  BY <1>8, <1>11, <1>12
<1>14. IsFiniteSet(DOMAIN k2.files)
  <2>1. IsFiniteSet(L \cup Grown(r, L))
    BY <1>8, <1>10, FS_Union
  <2>2. IsFiniteSet(head.files)
    BY <1>13, <2>1, FS_Subset
  <2>3. IsFiniteSet(head.files \cup DOMAIN k.files)
    BY <1>2, <2>2, FS_Union
  <2> QED BY <1>6, <2>3
<1>15. LocalFilesOf(k2) = L \cup head.files /\ LocalFilesOf(k2) \ new = L
  <2>1. \A f \in head.files : f.kind # "global"
    BY <1>8, <1>10, <1>13
  <2>2. LocalFilesOf(k2) = LocalFilesOf(k) \cup head.files
    BY <1>6, <2>1 DEF LocalFilesOf
  <2>3. head.files \cap DOMAIN k.files \subseteq L
    BY <1>7, <2>1 DEF LocalFilesOf
  <2> QED BY <1>7, <1>8, <2>2, <2>3
<1>16. new # {} => Left(plan) = Grown(r, L)
  <2> SUFFICES ASSUME new # {} PROVE Left(plan) = Grown(r, L)
    OBVIOUS
  <2>1. Len(plan) = 1 /\ head.files = Grown(r, L)
    BY <1>8, <1>11, <1>12
  <2>2. Left(plan) = head.files
    BY <2>1 DEF Left, head
  <2> QED BY <2>1, <2>2
<1>17. Torn(k2, r) \subseteq Left(plan)
  <2>1. Torn(k2, r) \subseteq Torn(k, r) \cup head.files
    BY <1>6 DEF Torn
  <2> QED BY <1>1, <2>1 DEF Planned
<1>18. Rewrote(k, r) => Rewrote(k2, r)
  BY <1>6 DEF Rewrote
<1>19. Sane(k2, p)
  BY <1>a, <1>2, <1>5, <1>7, <1>14, <1>c DEF Sane
<1>20. FreshOK(k2, r, "incremental", new)
  BY <1>6, <1>10, <1>13 DEF FreshOK, IsGrowthOf
<1>21. SumsOK(k2, p, cut, pk, changed \cup head.files, new)
  <2>1. ASSUME NEW m, DOMAIN m.sums \subseteq DOMAIN k.files,
               Stale(m, k) \subseteq Excused(pk, cut) \cup changed
        PROVE  /\ DOMAIN m.sums \subseteq DOMAIN k2.files \ new
               /\ Stale(m, k2) \subseteq Excused(pk, cut) \cup (changed \cup head.files)
    <3>1. Stale(m, k2) \subseteq Stale(m, k) \cup head.files
      BY <1>6, <2>1 DEF Stale
    <3> QED BY <1>6, <2>1, <3>1
  <2> HIDE DEF new
  <2> QED BY <1>a, <1>5, <2>1 DEF SumsOK
<1>22. GrowthOK(k2, new)
  <2>1. ASSUME NEW f \in DOMAIN k2.files, f.kind = "grow"
        PROVE  f.n \in 1 .. NGrow(Cardinality(L))
    <3>1. CASE f \in DOMAIN k.files
      <4>1. LocalFilesOf(k) \ {} = L
        BY <1>7
      <4> QED BY <1>a, <2>1, <3>1, <4>1 DEF GrowthOK
    <3>2. CASE f \notin DOMAIN k.files
      BY <1>6, <1>10, <1>13, <2>1, <3>2
    <3> QED BY <3>1, <3>2
  <2> QED BY <1>15, <2>1 DEF GrowthOK
<1>23. AgesOK(k2, r, "incremental")
  <2>1. \A f \in head.files : f.kind = "grow" /\ f \notin DOMAIN k.files => f.run <= r
    BY <1>4, <1>10, <1>13
  <2>2. ASSUME NEW f \in DOMAIN k2.files
        PROVE  /\ k2.files[f].run <= r
               /\ f.kind = "grow" => f.run <= r
               /\ k2.files[f].run = r => k2.files[f].job \in JobsOf("incremental")
    BY <1>a, <1>4, <1>6, <2>1 DEF AgesOK, JobsOf
  <2> QED BY <1>a, <1>5, <2>2 DEF AgesOK
<1>24. ChurnOK(k2, pk, r, "incremental", new)
  <2>1. Torn(k2, r) \subseteq
          Grown(r, LocalFilesOf(k2) \ new) \cup (IF new = {} THEN Chosen(pk, r, LocalFilesOf(k2)) ELSE {})
    <3>1. CASE new = {}
      <4>1. LocalFilesOf(k2) = L
        BY <1>15, <3>1
      <4>2. Left(plan) \subseteq Chosen(pk, r, L) \cup Grown(r, L)
        BY LeftTouched DEF Planned, Touched
      <4> HIDE DEF new
      <4> QED BY <1>15, <1>17, <3>1, <4>1, <4>2
    <3>2. CASE new # {}
      <4> HIDE DEF new
      <4> QED BY <1>15, <1>16, <1>17, <3>2
    <3> QED BY <3>1, <3>2
  <2>2. ASSUME ChangePercent > 0, \E f \in DOMAIN k2.files : IsGrowthOf(f, r)
        PROVE  Rewrote(k2, r)
    <3>1. CASE head.content.job = "change"
      <4>1. DOMAIN k2.files = DOMAIN k.files
        BY <1>6, <1>8, <1>11, <1>12, <3>1
      <4> QED BY <1>a, <1>18, <2>2, <4>1 DEF ChurnOK
    <3>2. CASE head.content.job = "grow"
      <4>1. \A i \in 1 .. Len(plan) : plan[i].content.job = "grow"
        <5>1. Len(plan) = 1
          BY <1>11, <3>2
        <5>2. \A i \in 1 .. Len(plan) : i = 1
          BY <1>1, <5>1
        <5> QED BY <3>2, <5>2 DEF head
      <4>2. Rewrote(k, r)
        BY <1>q, <2>2, <4>1
      <4> QED BY <1>18, <4>2
    <3> QED BY <1>11, <3>1, <3>2
  <2> QED BY <2>1, <2>2 DEF ChurnOK
<1>25. StampOK(k2, new)
  <2>1. Origin(k, {}) => Origin(k2, new)
    BY <1>6 DEF Origin
  <2> QED BY <1>a, <1>5, <2>1 DEF StampOK
<1>26. Planned(k2, pk, r, plan, L, changed, new)
  <2>1. L \subseteq LocalFilesOf(k2) \ new /\ LocalFilesOf(k2) \ new = L
    BY <1>15
  <2>2. LocalFilesOf(k2) \ L \subseteq Grown(r, L)
    BY <1>13, <1>15
  <2>3. {f \in DOMAIN k.files : k.files[f].run = r} \subseteq {f \in DOMAIN k2.files : k2.files[f].run = r}
    BY <1>6
  <2>4. Grown(r, L) \subseteq Left(plan) \cup {f \in DOMAIN k2.files : k2.files[f].run = r}
    BY <2>3 DEF Planned
  <2>5. ChangePercent > 0 =>
          \/ Rewrote(k2, r)
          \/ \E i \in 1 .. Len(plan) :
               plan[i].content.job = "change" /\ \E f \in plan[i].files : ~IsGrowthOf(f, r)
    BY <1>q, <1>18
  <2> HIDE DEF new
  <2> QED BY <1>5, <1>17, <2>1, <2>2, <2>4, <2>5 DEF Planned
<1> QED BY <1>1, <1>6, <1>19, <1>20, <1>21, <1>22, <1>23, <1>24, <1>25, <1>26 DEF DiskOK

(* A job of a churn ends: its files are written, durable and noted.          *)
LEMMA EndChurn ==
  ASSUME NEW k, NEW p, NEW cut, NEW pk, NEW r \in Runs, NEW L, NEW changed, NEW fresh,
         NEW plan, ToDo(plan),
         DiskOK(k, p, cut, pk, r, "incremental", changed \cup Head(plan).files, fresh),
         Planned(k, pk, r, plan, L, changed, fresh),
         fresh \subseteq Head(plan).files, Head(plan).files \subseteq DOMAIN k.files,
         NEW k2, WrittenBy(k2, k, Head(plan).files, Head(plan).content),
         NEW changed2,
         changed2 = IF Head(plan).content.job = "change" THEN changed \cup Head(plan).files
                    ELSE changed \cup {f \in DOMAIN k.files : f.kind = "grow" /\ f.run = r}
  PROVE  /\ DiskOK(k2, p, cut, pk, r, "incremental", changed2, {})
         /\ Planned(k2, pk, r, Tail(plan), L, changed2, {})
<1> DEFINE head == plan[1]
           tail == Tail(plan)
           own == {f \in DOMAIN k.files : f.kind = "grow" /\ f.run = r}
<1>1. /\ Head(plan) = head /\ head \in Jobs /\ head.files \in SUBSET Files /\ head.content \in Contents
      /\ Len(plan) \in Nat /\ Len(plan) >= 1
      /\ tail \in Seq(Jobs) /\ Len(tail) = Len(plan) - 1 /\ Len(tail) \in Nat
      /\ \A i \in 1 .. Len(tail) : tail[i] = plan[i + 1]
      /\ Left(plan) = head.files \cup Left(tail)
  BY PlanSplit
<1>2. /\ Sane(k, p) /\ FreshOK(k, r, "incremental", fresh)
      /\ SumsOK(k, p, cut, pk, changed \cup head.files, fresh)
      /\ GrowthOK(k, fresh) /\ AgesOK(k, r, "incremental") /\ ChurnOK(k, pk, r, "incremental", fresh)
      /\ StampOK(k, fresh)
  BY <1>1 DEF DiskOK
<1>3. k \in DiskRecords /\ IsFiniteSet(DOMAIN k.files) /\ DOMAIN k.files \in SUBSET Files
  BY <1>2, DiskFields DEF Sane
<1>4. r \in 0 .. MaxRuns /\ r <= r
  BY ConstantsOK DEF Runs
<1>5. /\ \A i \in 1 .. Len(plan) : ChurnJob(plan[i], pk, r, L)
      /\ \A i \in 1 .. Len(plan) : plan[i].content.job = "grow" => i = Len(plan)
  BY DEF Planned
<1>6. ChurnJob(head, pk, r, L) /\ (head.content.job = "grow" => Len(plan) = 1)
  <2>1. 1 \in 1 .. Len(plan)
    BY <1>1
  <2> QED BY <1>5, <2>1
<1>7. /\ k.fs /\ L \subseteq LocalFilesOf(k) \ fresh /\ LocalFilesOf(k) \ L \subseteq Grown(r, L)
      /\ LocalFilesOf(k) \ fresh = L /\ Torn(k, r) \subseteq Left(plan)
      /\ Grown(r, L) \subseteq Left(plan) \cup {f \in DOMAIN k.files : k.files[f].run = r}
      /\ \E q \in pk : q.run = r /\ q.n = Cardinality(L)
      /\ changed \subseteq Touched(pk, r, L)
      /\ Touched(pk, r, L) \subseteq changed \cup Left(plan)
  BY DEF Planned, ToDo
<1>8. ChangePercent > 0 =>
        \/ Rewrote(k, r)
        \/ \E i \in 1 .. Len(plan) :
             plan[i].content.job = "change" /\ \E f \in plan[i].files : ~IsGrowthOf(f, r)
  BY DEF Planned
<1>9. /\ k2 \in DiskRecords
      /\ DOMAIN k2.files = DOMAIN k.files
      /\ \A f \in head.files : k2.files[f] = head.content
      /\ \A f \in DOMAIN k.files \ head.files : k2.files[f] = k.files[f]
  BY <1>1 DEF WrittenBy
<1>10. k2.fs = k.fs /\ k2.id = k.id /\ k2.marker = k.marker /\ k2.manifest = k.manifest
  BY DEF WrittenBy, SameButFiles
<1>11. \/ head.content.job = "change" /\ head.files \subseteq Chosen(pk, r, L)
       \/ head.content.job = "grow" /\ head.files = Grown(r, L) /\ Len(plan) = 1
  BY <1>6 DEF ChurnJob
<1>12. head.content.run = r /\ head.content.job \in {"change", "grow"}
  BY <1>6 DEF ChurnJob
<1>13. Chosen(pk, r, L) \subseteq L
  BY ChosenListed
<1>14. /\ changed2 = IF head.content.job = "change" THEN changed \cup head.files ELSE changed \cup own
       /\ fresh \subseteq head.files /\ head.files \subseteq DOMAIN k.files
  BY <1>1
<1> HIDE DEF head, tail
<1>15. LocalFilesOf(k2) = LocalFilesOf(k) /\ LocalFilesOf(k2) \ {} = LocalFilesOf(k)
  BY <1>9 DEF LocalFilesOf
<1>16. LocalFilesOf(k) \in SUBSET Files /\ IsFiniteSet(LocalFilesOf(k)) /\ L \in SUBSET LocalFilesOf(k)
  BY <1>3, <1>7, LocalIs
<1>17. /\ Grown(r, L) \subseteq Grown(r, LocalFilesOf(k))
       /\ Cardinality(L) \in Nat
       /\ NGrow(Cardinality(L)) \in Nat /\ NGrow(Cardinality(LocalFilesOf(k))) \in Nat
       /\ NGrow(Cardinality(L)) <= NGrow(Cardinality(LocalFilesOf(k)))
  BY <1>4, <1>16, Monotone
<1>18. /\ \A f \in Grown(r, L) : f.kind = "grow" /\ f.run = r
       /\ \A f \in Files : f.kind = "grow" /\ f.run = r /\ f.n \in 1 .. NGrow(Cardinality(L))
            => f \in Grown(r, L)
  BY <1>4, <1>17, GrowthFiles DEF Grown
<1>19. own \subseteq Grown(r, L)
  <2>1. \A f \in own : f.n \in 1 .. NGrow(Cardinality(L))
    BY <1>2, <1>7 DEF GrowthOK
  <2> QED BY <1>3, <1>18, <2>1
<1>20. /\ changed \cup head.files \subseteq changed2
       /\ changed2 \subseteq Touched(pk, r, L)
  <2>1. CASE head.content.job = "change"
    BY <1>7, <1>11, <1>14, <2>1 DEF Touched
  <2>2. CASE head.content.job = "grow"
    <3>1. head.files \subseteq own
      BY <1>11, <1>14, <1>18, <2>2
    <3>2. changed2 = changed \cup own
      BY <1>14, <2>2
    <3> HIDE DEF own
    <3> QED BY <1>7, <1>19, <3>1, <3>2 DEF Touched
  <2> QED BY <1>12, <2>1, <2>2
<1> HIDE DEF own
<1>21. tail # <<>> => fresh = {}
  <2> SUFFICES ASSUME tail # <<>> PROVE fresh = {}
    OBVIOUS
  <2>1. Len(tail) # 0
    BY <1>1
  <2>2. head.content.job = "change"
    BY <1>1, <1>11, <2>1
  <2> QED BY <1>7, <1>11, <1>13, <1>14, <2>2
<1>22. Left(tail) \subseteq Touched(pk, r, L) /\ (tail = <<>> => Left(tail) = {})
  <2>1. ASSUME NEW i \in 1 .. Len(tail) PROVE ChurnJob(tail[i], pk, r, L)
    <3>1. i + 1 \in 1 .. Len(plan)
      BY <1>1
    <3> QED BY <1>1, <1>5, <3>1
  <2>2. Left(tail) \subseteq Touched(pk, r, L)
    BY <2>1, LeftTouched
  <2>3. ASSUME tail = <<>> PROVE Left(tail) = {}
    BY <2>3 DEF Left
  <2> QED BY <2>2, <2>3
<1>23. Torn(k2, r) \subseteq Left(tail)
  <2>1. Torn(k2, r) \subseteq Torn(k, r) \ head.files
    BY <1>9, <1>12 DEF Torn
  <2> QED BY <1>1, <1>7, <2>1
<1>24. Rewrote(k, r) => Rewrote(k2, r)
  <2> SUFFICES ASSUME Rewrote(k, r) PROVE Rewrote(k2, r)
    OBVIOUS
  <2>1. PICK f \in DOMAIN k.files :
          ~IsGrowthOf(f, r) /\ k.files[f].run = r /\ k.files[f].job \in {"change", "torn"}
    BY DEF Rewrote
  <2>2. CASE f \in head.files
    <3>1. head.content.job = "change"
      BY <1>11, <1>18, <2>1, <2>2 DEF IsGrowthOf
    <3> QED BY <1>9, <1>12, <2>1, <2>2, <3>1 DEF Rewrote
  <2>3. CASE f \notin head.files
    BY <1>9, <2>1, <2>3 DEF Rewrote
  <2> QED BY <2>2, <2>3
<1>25. Sane(k2, p)
  BY <1>2, <1>3, <1>7, <1>9, <1>10 DEF Sane
<1>26. FreshOK(k2, r, "incremental", {})
  BY DEF FreshOK
<1>27. SumsOK(k2, p, cut, pk, changed2, {})
  <2>1. ASSUME NEW m, DOMAIN m.sums \subseteq DOMAIN k.files \ fresh,
               Stale(m, k) \subseteq Excused(pk, cut) \cup (changed \cup head.files)
        PROVE  /\ DOMAIN m.sums \subseteq DOMAIN k2.files \ {}
               /\ Stale(m, k2) \subseteq Excused(pk, cut) \cup changed2
    <3>1. Stale(m, k2) \subseteq Stale(m, k) \cup head.files
      BY <1>9, <2>1 DEF Stale
    <3> QED BY <1>9, <1>20, <2>1, <3>1
  <2> QED BY <1>2, <1>10, <2>1 DEF SumsOK
<1>28. GrowthOK(k2, {})
  <2>1. ASSUME NEW f \in DOMAIN k.files, f.kind = "grow"
        PROVE  f.n \in 1 .. NGrow(Cardinality(LocalFilesOf(k)))
    <3>1. f.n \in 1 .. NGrow(Cardinality(L))
      BY <1>2, <1>7, <2>1 DEF GrowthOK
    <3> QED BY <1>17, <3>1
  <2> QED BY <1>9, <1>15, <2>1 DEF GrowthOK
<1>29. AgesOK(k2, r, "incremental")
  <2>1. ASSUME NEW f \in DOMAIN k.files
        PROVE  /\ k2.files[f].run <= r
               /\ f.kind = "grow" => f.run <= r
               /\ k2.files[f].run = r => k2.files[f].job \in JobsOf("incremental")
    BY <1>2, <1>4, <1>9, <1>12 DEF AgesOK, JobsOf
  <2> QED BY <1>2, <1>9, <1>10, <2>1 DEF AgesOK
<1>30. ChurnOK(k2, pk, r, "incremental", {})
  <2>1. Torn(k2, r) \subseteq Grown(r, LocalFilesOf(k2) \ {}) \cup Chosen(pk, r, LocalFilesOf(k2))
    <3>1. CASE tail = <<>>
      BY <1>22, <1>23, <3>1
    <3>2. CASE tail # <<>>
      <4>1. LocalFilesOf(k2) = L /\ LocalFilesOf(k2) \ {} = L
        BY <1>7, <1>15, <1>21, <3>2
      <4> QED BY <1>22, <1>23, <4>1 DEF Touched
    <3> QED BY <3>1, <3>2
  <2>2. ASSUME ChangePercent > 0, \E f \in DOMAIN k2.files : IsGrowthOf(f, r)
        PROVE  Rewrote(k2, r)
    BY <1>2, <1>9, <1>24, <2>2 DEF ChurnOK
  <2> QED BY <2>1, <2>2 DEF ChurnOK
<1>31. StampOK(k2, {})
  <2>1. Origin(k, fresh) => Origin(k2, {})
    <3>1. ASSUME NEW f \in DOMAIN k.files, k.files[f].job \in {"change", "grow", "torn"}
          PROVE  k2.files[f].job \in {"change", "grow", "torn"}
      BY <1>9, <1>12, <3>1
    <3>2. ASSUME NEW f \in DOMAIN k.files, k.files[f].job # "unwritten"
          PROVE  k2.files[f].job # "unwritten"
      BY <1>9, <1>12, <3>2
    <3> QED BY <1>9, <3>1, <3>2 DEF Origin
  <2> QED BY <1>2, <1>10, <2>1 DEF StampOK
<1>32. Planned(k2, pk, r, tail, L, changed2, {})
  <2>1. ASSUME NEW i \in 1 .. Len(tail)
        PROVE  /\ ChurnJob(tail[i], pk, r, L)
               /\ tail[i].content.job = "grow" => i = Len(tail)
    <3>1. i + 1 \in 1 .. Len(plan) /\ tail[i] = plan[i + 1]
      BY <1>1
    <3>2. /\ ChurnJob(plan[i + 1], pk, r, L)
          /\ plan[i + 1].content.job = "grow" => i + 1 = Len(plan)
      BY <1>5, <3>1
    <3> QED BY <1>1, <3>1, <3>2
  <2>2. tail # <<>> => LocalFilesOf(k2) \ {} = L
    BY <1>7, <1>15, <1>21
  <2>3. L \subseteq LocalFilesOf(k2) \ {} /\ LocalFilesOf(k2) \ L \subseteq Grown(r, L)
    BY <1>7, <1>15
  <2>4. ASSUME ChangePercent > 0
        PROVE  \/ Rewrote(k2, r)
               \/ \E i \in 1 .. Len(tail) :
                    tail[i].content.job = "change" /\ \E f \in tail[i].files : ~IsGrowthOf(f, r)
    <3>1. CASE Rewrote(k, r)
      BY <1>24, <3>1
    <3>2. ASSUME NEW i \in 1 .. Len(plan), plan[i].content.job = "change",
                 NEW f \in plan[i].files, ~IsGrowthOf(f, r)
          PROVE  \/ Rewrote(k2, r)
                 \/ \E j \in 1 .. Len(tail) :
                      tail[j].content.job = "change" /\ \E g \in tail[j].files : ~IsGrowthOf(g, r)
      <4>1. CASE i = 1
        <5>1. f \in head.files /\ head.content.job = "change"
          BY <3>2, <4>1 DEF head
        <5>2. f \in DOMAIN k2.files /\ k2.files[f].run = r /\ k2.files[f].job = "change"
          BY <1>9, <1>12, <1>14, <5>1
        <5> QED BY <3>2, <5>2 DEF Rewrote
      <4>2. CASE i # 1
        <5>1. i - 1 \in 1 .. Len(tail) /\ (i - 1) + 1 = i
          BY <1>1, <4>2
        <5>2. tail[i - 1] = plan[i]
          BY <1>1, <5>1
        <5> QED BY <3>2, <5>1, <5>2
      <4> QED BY <4>1, <4>2
    <3> QED BY <1>8, <2>4, <3>1, <3>2
  <2>5. Grown(r, L) \subseteq Left(tail) \cup {f \in DOMAIN k2.files : k2.files[f].run = r}
    <3>1. \A f \in DOMAIN k.files : k.files[f].run = r => k2.files[f].run = r
      BY <1>9, <1>12
    <3>2. \A f \in head.files : f \in DOMAIN k2.files /\ k2.files[f].run = r
      BY <1>9, <1>12, <1>14
    <3> QED BY <1>1, <1>7, <1>9, <3>1, <3>2
  <2>6. Touched(pk, r, L) \subseteq changed2 \cup Left(tail)
    BY <1>1, <1>7, <1>20
  <2> QED BY <1>7, <1>10, <1>20, <1>23, <2>1, <2>2, <2>3, <2>4, <2>5, <2>6 DEF Planned
<1> QED BY <1>25, <1>26, <1>27, <1>28, <1>29, <1>30, <1>31, <1>32 DEF DiskOK, tail

(* A new pick does not change what an earlier churn chose. *)
LEMMA ChosenStays ==
  ASSUME NEW pk, NEW pk2, pk \subseteq pk2, Agree(pk2), NEW r, NEW L,
         NEW q \in pk, q.run = r, q.n = Cardinality(L)
  PROVE  Chosen(pk2, r, L) = Chosen(pk, r, L) /\ Touched(pk2, r, L) = Touched(pk, r, L)
<1>1. \A p \in pk2 : p.run = r /\ p.n = Cardinality(L) => p.at = q.at
  BY DEF Agree
<1>2. \A f \in L :
        (\E p \in pk2 : p.run = r /\ p.n = Cardinality(L) /\ Position(f, L) \in p.at)
          <=> (\E p \in pk : p.run = r /\ p.n = Cardinality(L) /\ Position(f, L) \in p.at)
  BY <1>1
<1>3. Chosen(pk2, r, L) = Chosen(pk, r, L)
  BY <1>2 DEF Chosen
<1> QED BY <1>3 DEF Touched

LEMMA PlannedStays ==
  ASSUME NEW k, NEW pk, NEW pk2, NEW r, NEW plan, NEW L, NEW changed, NEW fresh,
         Planned(k, pk, r, plan, L, changed, fresh), pk \subseteq pk2, Agree(pk2)
  PROVE  Planned(k, pk2, r, plan, L, changed, fresh)
<1>1. PICK q \in pk : q.run = r /\ q.n = Cardinality(L)
  BY DEF Planned
<1>2. Chosen(pk2, r, L) = Chosen(pk, r, L) /\ Touched(pk2, r, L) = Touched(pk, r, L)
  BY <1>1, ChosenStays
<1>3. \A i \in 1 .. Len(plan) : ChurnJob(plan[i], pk2, r, L)
  BY <1>2 DEF Planned, ChurnJob
<1>4. \E x \in pk2 : x.run = r /\ x.n = Cardinality(L)
  BY <1>1
<1> QED BY <1>2, <1>3, <1>4 DEF Planned

(* What two plans one after the other write. *)
LEMMA PlanJoined ==
  ASSUME NEW s \in Seq(Jobs), NEW t \in Seq(Jobs)
  PROVE  /\ s \o t \in Seq(Jobs) /\ Len(s \o t) = Len(s) + Len(t)
         /\ Len(s) \in Nat /\ Len(t) \in Nat
         /\ \A i \in 1 .. Len(s) : (s \o t)[i] = s[i]
         /\ \A i \in 1 .. Len(t) : (s \o t)[Len(s) + i] = t[i]
         /\ \A i \in 1 .. Len(s \o t) :
              i \in 1 .. Len(s) \/ \E j \in 1 .. Len(t) : i = Len(s) + j
         /\ Left(s \o t) = Left(s) \cup Left(t)
<1>1. /\ s \o t \in Seq(Jobs) /\ Len(s \o t) = Len(s) + Len(t)
      /\ Len(s) \in Nat /\ Len(t) \in Nat
  OBVIOUS
<1>2. \A i \in 1 .. Len(s) : (s \o t)[i] = s[i]
  OBVIOUS
<1>3. \A i \in 1 .. Len(t) : (s \o t)[Len(s) + i] = t[i]
  OBVIOUS
<1>4. ASSUME NEW i \in 1 .. Len(s \o t)
      PROVE  i \in 1 .. Len(s) \/ \E j \in 1 .. Len(t) : i = Len(s) + j
  <2>1. CASE i <= Len(s)
    BY <1>1, <2>1
  <2>2. CASE ~(i <= Len(s))
    <3>1. i - Len(s) \in 1 .. Len(t) /\ i = Len(s) + (i - Len(s))
      BY <1>1, <2>2
    <3> QED BY <3>1
  <2> QED BY <2>1, <2>2
<1>5. Left(s \o t) \subseteq Left(s) \cup Left(t)
  <2>1. ASSUME NEW i \in 1 .. Len(s \o t) PROVE (s \o t)[i].files \subseteq Left(s) \cup Left(t)
    <3>1. CASE i \in 1 .. Len(s)
      BY <1>2, <3>1 DEF Left
    <3>2. ASSUME NEW j \in 1 .. Len(t), i = Len(s) + j
          PROVE  (s \o t)[i].files \subseteq Left(s) \cup Left(t)
      BY <1>3, <3>2 DEF Left
    <3> QED BY <1>4, <3>1, <3>2
  <2> QED BY <2>1 DEF Left
<1>6. Left(s) \cup Left(t) \subseteq Left(s \o t)
  <2>1. \A i \in 1 .. Len(s) : i \in 1 .. Len(s \o t)
    BY <1>1
  <2>2. \A i \in 1 .. Len(t) : Len(s) + i \in 1 .. Len(s \o t)
    BY <1>1
  <2> QED BY <1>2, <1>3, <2>1, <2>2 DEF Left
<1> QED BY <1>1, <1>2, <1>3, <1>4, <1>5, <1>6

(* The rewriting part of a plan has a job for every file that is chosen. *)
LEMMA RewritesAre ==
  ASSUME NEW r \in Runs, NEW C \in SUBSET Named, IsFiniteSet(C)
  PROVE  /\ Rewrites(r, C) \in Seq(Jobs)
         /\ \A i \in 1 .. Len(Rewrites(r, C)) :
              /\ Rewrites(r, C)[i].files \subseteq C
              /\ Rewrites(r, C)[i].content.job = "change" /\ Rewrites(r, C)[i].content.run = r
         /\ Left(Rewrites(r, C)) = C
<1> DEFINE n == Cardinality(C)
           R == Rewrites(r, C)
           J(i) == [files |-> {f \in C : Position(f, C) = i}, content |-> Content(r, "change", i)]
<1>1. n \in Nat
  BY FS_CardinalityType
<1>2. C \in SUBSET Files
  BY DEF Named
<1>3. R = [i \in 1 .. n |-> J(i)]
  BY DEF Rewrites
<1>4. \A i \in 1 .. n : Content(r, "change", i) \in Contents
  BY <1>1 DEF Content, Contents
<1>5. \A i \in 1 .. n : J(i) \in Jobs
  BY <1>2, <1>4 DEF Jobs
<1>6. \A i \in 1 .. n : J(i).files \subseteq C /\ J(i).content.job = "change" /\ J(i).content.run = r
  BY DEF Content
<1>7. \A i \in 1 .. n : \A f \in C : Position(f, C) = i => f \in J(i).files
  OBVIOUS
<1> HIDE DEF n, R, J
<1>8. R \in Seq(Jobs) /\ Len(R) = n
  BY <1>1, <1>3, <1>5
<1>9. \A i \in 1 .. n : R[i] = J(i)
  BY <1>3
<1>10. Left(R) \subseteq C
  BY <1>6, <1>8, <1>9 DEF Left
<1>11. \A f \in C : Position(f, C) \in 1 .. n
  BY PositionInList DEF n
<1>12. C \subseteq Left(R)
  BY <1>7, <1>8, <1>9, <1>11 DEF Left
<1>13. \A i \in 1 .. Len(R) : R[i].files \subseteq C /\ R[i].content.job = "change" /\ R[i].content.run = r
  BY <1>6, <1>8, <1>9
<1> QED BY <1>8, <1>10, <1>12, <1>13 DEF R

(* The growing part of a plan is one job, or none if there is no growth. *)
LEMMA GrowJobIs ==
  ASSUME NEW r \in Runs, NEW n \in Nat
  PROVE  /\ GrowJob(r, n) \in Seq(Jobs) /\ Len(GrowJob(r, n)) \in {0, 1}
         /\ \A i \in 1 .. Len(GrowJob(r, n)) :
              /\ GrowJob(r, n)[i].files = Growth(r, NGrow(n))
              /\ GrowJob(r, n)[i].content.job = "grow" /\ GrowJob(r, n)[i].content.run = r
         /\ Left(GrowJob(r, n)) = Growth(r, NGrow(n))
<1>1. NGrow(n) \in Nat
  BY GrowthMonotone
<1> DEFINE G == Growth(r, NGrow(n))
           c == Content(r, "grow", 0)
           job == [files |-> G, content |-> c]
<1>2. G \in SUBSET Files
  BY <1>1, GrowthFiles, ConstantsOK DEF Runs
<1>3. c \in Contents /\ c.job = "grow" /\ c.run = r
  BY DEF Content, Contents
<1>4. job \in Jobs /\ job.files = G /\ job.content = c
  BY <1>2, <1>3 DEF Jobs
<1>5. GrowJob(r, n) = IF NGrow(n) = 0 THEN <<>> ELSE <<job>>
  BY DEF GrowJob
<1>6. NGrow(n) = 0 => G = {}
  BY DEF Growth
<1> HIDE DEF job, c, G
<1>7. CASE NGrow(n) = 0
  <2>1. GrowJob(r, n) = <<>> /\ Len(<<>>) = 0 /\ <<>> \in Seq(Jobs)
    BY <1>5, <1>7
  <2>2. Left(<<>>) = {}
    BY DEF Left
  <2>3. \A i \in 1 .. Len(GrowJob(r, n)) : FALSE
    BY <2>1
  <2>4. Left(GrowJob(r, n)) = Growth(r, NGrow(n))
    BY <1>6, <1>7, <2>1, <2>2 DEF G
  <2>5. Len(GrowJob(r, n)) = 0
    BY <2>1
  <2> QED BY <2>1, <2>3, <2>4, <2>5
<1>8. CASE NGrow(n) # 0
  <2>1. GrowJob(r, n) = <<job>>
    BY <1>5, <1>8
  <2>2. <<job>> \in Seq(Jobs) /\ Len(<<job>>) = 1 /\ <<job>>[1] = job
    BY <1>4
  <2>3. Left(<<job>>) = G
    BY <1>4, <2>2 DEF Left
  <2>4. \A i \in 1 .. Len(<<job>>) : <<job>>[i].files = G /\ <<job>>[i].content.job = "grow" /\ <<job>>[i].content.run = r
    BY <1>3, <1>4, <2>2
  <2> QED BY <2>1, <2>2, <2>3, <2>4 DEF G
<1> QED BY <1>7, <1>8

(* The jobs of a churn that chose the files C and grows by n files' share.   *)
ChurnPlan(plan, r, C, G) ==
  /\ plan \in Seq(Jobs)
  /\ \A i \in 1 .. Len(plan) :
       \/ /\ plan[i].content.job = "change" /\ plan[i].content.run = r
          /\ plan[i].files \subseteq C
       \/ /\ plan[i].content.job = "grow" /\ plan[i].content.run = r
          /\ plan[i].files = G /\ i = Len(plan)
  /\ \A f \in C : \E i \in 1 .. Len(plan) : plan[i].content.job = "change" /\ f \in plan[i].files
  /\ Left(plan) = C \cup G

LEMMA PlanWritten ==
  ASSUME NEW r \in Runs, NEW C \in SUBSET Named, IsFiniteSet(C), NEW n \in Nat
  PROVE  ChurnPlan(Rewrites(r, C) \o GrowJob(r, n), r, C, Growth(r, NGrow(n)))
<1> DEFINE G == Growth(r, NGrow(n))
<1>1. PICK s \in Seq(Jobs) :
        /\ s = Rewrites(r, C) /\ Left(s) = C
        /\ \A i \in 1 .. Len(s) :
             s[i].files \subseteq C /\ s[i].content.job = "change" /\ s[i].content.run = r
  BY RewritesAre
<1>2. PICK t \in Seq(Jobs) :
        /\ t = GrowJob(r, n) /\ Left(t) = G /\ Len(t) \in {0, 1}
        /\ \A i \in 1 .. Len(t) :
             t[i].files = G /\ t[i].content.job = "grow" /\ t[i].content.run = r
  BY GrowJobIs
<1> DEFINE u == s \o t
<1>3. /\ u \in Seq(Jobs) /\ Len(u) = Len(s) + Len(t)
      /\ Len(s) \in Nat
      /\ \A i \in 1 .. Len(s) : u[i] = s[i]
      /\ \A i \in 1 .. Len(t) : u[Len(s) + i] = t[i]
      /\ \A i \in 1 .. Len(u) : i \in 1 .. Len(s) \/ \E j \in 1 .. Len(t) : i = Len(s) + j
      /\ Left(u) = Left(s) \cup Left(t)
  BY PlanJoined
<1>4. u = Rewrites(r, C) \o GrowJob(r, n)
  BY <1>1, <1>2
<1> HIDE DEF u, G
<1>5. ASSUME NEW i \in 1 .. Len(u)
      PROVE  \/ /\ u[i].content.job = "change" /\ u[i].content.run = r
                /\ u[i].files \subseteq C
             \/ /\ u[i].content.job = "grow" /\ u[i].content.run = r
                /\ u[i].files = G /\ i = Len(u)
  <2>1. CASE i \in 1 .. Len(s)
    BY <1>1, <1>3, <2>1
  <2>2. ASSUME NEW j \in 1 .. Len(t), i = Len(s) + j
        PROVE  /\ u[i].content.job = "grow" /\ u[i].content.run = r
               /\ u[i].files = G /\ i = Len(u)
    <3>1. u[i] = t[j]
      BY <1>3, <2>2
    <3>2. t[j].files = G /\ t[j].content.job = "grow" /\ t[j].content.run = r
      BY <1>2
    <3>3. j = Len(t)
      BY <1>2
    <3>4. i = Len(u)
      BY <1>3, <2>2, <3>3
    <3> QED BY <3>1, <3>2, <3>4
  <2> QED BY <1>3, <2>1, <2>2
<1>6. ASSUME NEW f \in C
      PROVE  \E i \in 1 .. Len(u) : u[i].content.job = "change" /\ f \in u[i].files
  <2>1. PICK i \in 1 .. Len(s) : f \in s[i].files
    BY <1>1 DEF Left
  <2>2. i \in 1 .. Len(u)
    <3>1. Len(t) \in Nat /\ Len(s) \in Nat /\ Len(u) = Len(s) + Len(t)
      BY <1>2, <1>3
    <3> QED BY <3>1
  <2> QED BY <1>1, <1>3, <2>1, <2>2
<1>7. Left(u) = C \cup G
  BY <1>1, <1>2, <1>3
<1>8. ChurnPlan(u, r, C, G)
  BY <1>3, <1>5, <1>6, <1>7 DEF ChurnPlan
<1> QED BY <1>4, <1>8 DEF G

(* A churn is planned over the local files of a disk.                        *)
LEMMA PlanOver ==
  ASSUME NEW k, NEW p, NEW cut, NEW pk, NEW r \in Runs, NEW work,
         DiskOK(k, p, cut, pk, r, "incremental", work, {}), k.fs,
         NEW L, L = LocalFilesOf(k), L # {},
         NEW at, at \in kSubset(NChange(Cardinality(L)), 1 .. Cardinality(L)),
         NEW pk2, pk \subseteq pk2, Agree(pk2),
         NEW q \in pk2, q.run = r, q.n = Cardinality(L), q.at = at,
         NEW plan, ChurnPlan(plan, r, {f \in L : Position(f, L) \in at}, Grown(r, L))
  PROVE  plan \in Seq(Jobs) /\ Planned(k, pk2, r, plan, L, {}, {})
<1> DEFINE n == Cardinality(L)
           C == {f \in L : Position(f, L) \in at}
<1>1. k \in DiskRecords /\ IsFiniteSet(DOMAIN k.files) /\ ChurnOK(k, pk, r, "incremental", {})
  BY DEF DiskOK, Sane
<1>2. L \in SUBSET Named /\ IsFiniteSet(L) /\ L \in SUBSET DOMAIN k.files /\ L \ {} = L
  BY <1>1, LocalIs DEF LocalFilesOf
<1>3. n \in Nat /\ n > 0
  BY <1>2, FS_CardinalityType, FS_EmptySet
<1>4. at \in SUBSET (1 .. n) /\ Cardinality(at) = NChange(n)
  BY DEF kSubset
<1> HIDE DEF n
<1>5. ChangePercent > 0 => C # {}
  <2> SUFFICES ASSUME ChangePercent > 0 PROVE C # {}
    OBVIOUS
  <2>1. NChange(n) >= 1
    BY <1>3, ChangesSomething
  <2>2. at # {}
    <3>1. Cardinality({}) = 0
      BY FS_EmptySet
    <3>2. Cardinality(at) # 0
      BY <1>4, <2>1
    <3> QED BY <3>1, <3>2
  <2>3. PICK i \in at : i \in 1 .. n
    BY <1>4, <2>2
  <2>4. \E f \in L : Position(f, L) = i
    BY <1>2, <2>3, PositionsTaken DEF n
  <2> QED BY <2>3, <2>4
<1>6. Chosen(pk2, r, L) = C
  <2>1. \A x \in pk2 : x.run = r /\ x.n = Cardinality(L) => x.at = at
    BY DEF Agree
  <2>2. \A f \in L :
          (\E x \in pk2 : x.run = r /\ x.n = Cardinality(L) /\ Position(f, L) \in x.at)
            <=> Position(f, L) \in at
    BY <2>1
  <2> QED BY <2>2 DEF Chosen
<1>7. ChurnPlan(plan, r, C, Grown(r, L))
  OBVIOUS
<1> HIDE DEF C
<1>8. \A i \in 1 .. Len(plan) :
        ChurnJob(plan[i], pk2, r, L) /\ (plan[i].content.job = "grow" => i = Len(plan))
  BY <1>6, <1>7 DEF ChurnPlan, ChurnJob
<1>9. plan \in Seq(Jobs) /\ Left(plan) = C \cup Grown(r, L)
  BY <1>7 DEF ChurnPlan
<1>10. Torn(k, r) \subseteq Left(plan)
  <2>1. Torn(k, r) \subseteq Grown(r, L) \cup Chosen(pk, r, L)
    BY <1>1, <1>2 DEF ChurnOK
  <2>2. Chosen(pk, r, L) \subseteq Chosen(pk2, r, L)
    BY ChosenGrows
  <2> QED BY <1>6, <1>9, <2>1, <2>2
<1>11. ASSUME ChangePercent > 0
       PROVE  \/ Rewrote(k, r)
              \/ \E i \in 1 .. Len(plan) :
                   plan[i].content.job = "change" /\ \E f \in plan[i].files : ~IsGrowthOf(f, r)
  <2>1. CASE \E f \in DOMAIN k.files : IsGrowthOf(f, r)
    BY <1>1, <1>11, <2>1 DEF ChurnOK
  <2>2. CASE ~ \E f \in DOMAIN k.files : IsGrowthOf(f, r)
    <3>1. PICK f \in C : ~IsGrowthOf(f, r)
      BY <1>2, <1>5, <1>11, <2>2 DEF C
    <3>2. PICK i \in 1 .. Len(plan) : plan[i].content.job = "change" /\ f \in plan[i].files
      BY <1>7 DEF ChurnPlan
    <3> QED BY <3>1, <3>2
  <2> QED BY <2>1, <2>2
<1>12. Touched(pk2, r, L) \subseteq {} \cup Left(plan) /\ Grown(r, L) \subseteq Left(plan)
  BY <1>6, <1>9 DEF Touched
<1>13. LocalFilesOf(k) \ {} = L /\ L \subseteq LocalFilesOf(k) \ {} /\ LocalFilesOf(k) \ L = {}
  BY <1>2
<1>14. Planned(k, pk2, r, plan, L, {}, {})
  BY <1>8, <1>10, <1>11, <1>12, <1>13 DEF Planned
<1> QED BY <1>9, <1>14

(* A churn with nothing left to write has been carried out.                  *)
LEMMA PlannedDone ==
  ASSUME NEW k, NEW p, NEW cut, NEW pk, NEW r \in Runs, NEW work, NEW L, NEW changed,
         DiskOK(k, p, cut, pk, r, "incremental", work, {}),
         Planned(k, pk, r, <<>>, L, changed, {})
  PROVE  /\ CarriedOut(k, r, "incremental")
         /\ Touched(pk, r, L) = changed
         /\ ChangePercent > 0 => Origin(k, {})
<1> DEFINE mine == {f \in DOMAIN k.files : k.files[f].run = r}
<1>1. Left(<<>>) = {}
  BY DEF Left
<1>2. /\ L \subseteq LocalFilesOf(k) /\ LocalFilesOf(k) \ L \subseteq Grown(r, L)
      /\ Torn(k, r) = {} /\ Grown(r, L) \subseteq mine
      /\ changed \subseteq Touched(pk, r, L) /\ Touched(pk, r, L) \subseteq changed
  BY <1>1 DEF Planned
<1>3. ChangePercent > 0 => Rewrote(k, r)
  <2>1. \A i \in 1 .. Len(<<>>) : FALSE
    OBVIOUS
  <2> QED BY <2>1 DEF Planned
<1>4. k \in DiskRecords /\ IsFiniteSet(DOMAIN k.files)
  BY DEF DiskOK, Sane
<1>5. AgesOK(k, r, "incremental")
  BY DEF DiskOK
<1>6. LocalFilesOf(k) \in SUBSET Files /\ IsFiniteSet(LocalFilesOf(k)) /\ L \in SUBSET LocalFilesOf(k)
  BY <1>2, <1>4, LocalIs
<1>7. IsFiniteSet(L) /\ L \in SUBSET Files /\ Cardinality(L) \in Nat
      /\ NGrow(Cardinality(L)) \in Nat
  BY <1>6, Monotone, ConstantsOK
<1>8. r \in 0 .. MaxRuns
  BY ConstantsOK DEF Runs
<1>9. \A f \in Grown(r, L) : f.kind = "grow"
  BY <1>7, <1>8, GrowthFiles DEF Grown
<1>10. ASSUME ChangePercent > 0 PROVE \E f \in mine : k.files[f].job = "change"
  BY <1>2, <1>3, <1>10 DEF Rewrote, Torn
<1>11. ASSUME LocalRegion \subseteq DOMAIN k.files
       PROVE  Growth(r, NGrow(LocalFiles)) \subseteq mine
  <2>1. LocalRegion \subseteq LocalFilesOf(k)
    BY <1>11, RegionFiles DEF LocalFilesOf
  <2>2. LocalRegion \in SUBSET L
    BY <1>2, <1>9, <2>1, RegionFiles
  <2>3. Grown(r, LocalRegion) \subseteq Grown(r, L)
    BY <1>7, <1>8, <2>2, Monotone
  <2>4. Grown(r, LocalRegion) = Growth(r, NGrow(LocalFiles))
    BY RegionFiles DEF Grown
  <2> QED BY <1>2, <2>3, <2>4
<1>12. \A f \in mine : k.files[f].job \notin {"unwritten", "torn"}
  BY <1>2, <1>5 DEF AgesOK, JobsOf, Torn
<1>13. CarriedOut(k, r, "incremental")
  BY <1>10, <1>11, <1>12 DEF CarriedOut
<1>14. ChangePercent > 0 => Origin(k, {})
  BY <1>10 DEF Origin
<1> QED BY <1>2, <1>13, <1>14


-----------------------------------------------------------------------------
(* What makes a disk self-describing *)

LEMMA ManifestFields ==
  ASSUME NEW m \in Manifests
  PROVE  m.run \in 0 .. MaxRuns /\ m.sums \in FileMaps /\ DOMAIN m.sums \in SUBSET Files
BY FileMapElim DEF Manifests

(* What is said of the files of a disk is said of any disk with those files. *)
LEMMA SameFiles ==
  ASSUME NEW k, NEW k2, k2.fs = k.fs, k2.files = k.files
  PROVE  /\ \A fresh : GrowthOK(k, fresh) => GrowthOK(k2, fresh)
         /\ \A pk, r, type, fresh : ChurnOK(k, pk, r, type, fresh) => ChurnOK(k2, pk, r, type, fresh)
         /\ \A fresh : Origin(k, fresh) => Origin(k2, fresh)
         /\ \A m : Stale(m, k2) = Stale(m, k)
         /\ \A pk, r, plan, L, changed, fresh :
              Planned(k, pk, r, plan, L, changed, fresh) => Planned(k2, pk, r, plan, L, changed, fresh)
         /\ \A p, r, plan : Filling(k, p, r, plan) => Filling(k2, p, r, plan)
         /\ \A r, type : CarriedOut(k, r, type) => CarriedOut(k2, r, type)
<1>1. LocalFilesOf(k2) = LocalFilesOf(k) /\ \A r : Torn(k2, r) = Torn(k, r)
  BY DEF LocalFilesOf, Torn
<1>2. \A r : Rewrote(k2, r) <=> Rewrote(k, r)
  BY DEF Rewrote
<1>3. \A fresh : GrowthOK(k, fresh) => GrowthOK(k2, fresh)
  BY <1>1 DEF GrowthOK
<1>4. \A pk, r, type, fresh : ChurnOK(k, pk, r, type, fresh) => ChurnOK(k2, pk, r, type, fresh)
  BY <1>1, <1>2 DEF ChurnOK
<1>5. \A fresh : Origin(k, fresh) => Origin(k2, fresh)
  BY DEF Origin
<1>6. \A m : Stale(m, k2) = Stale(m, k)
  BY DEF Stale
<1>7. \A pk, r, plan, L, changed, fresh :
        Planned(k, pk, r, plan, L, changed, fresh) => Planned(k2, pk, r, plan, L, changed, fresh)
  BY <1>1, <1>2 DEF Planned
<1>8. \A p, r, plan : Filling(k, p, r, plan) => Filling(k2, p, r, plan)
  BY DEF Filling
<1>9. \A r, type : CarriedOut(k, r, type) => CarriedOut(k2, r, type)
  BY DEF CarriedOut
<1> QED BY <1>3, <1>4, <1>5, <1>6, <1>7, <1>8, <1>9

(* A disk that only got another manifest, identity or marker. *)
StampedTo(k2, k) ==
  k2 \in DiskRecords /\ k2.fs = k.fs /\ k2.files = k.files

LEMMA DiskStamped ==
  ASSUME NEW k, NEW p, NEW cut, NEW pk, NEW r, NEW type, NEW work,
         DiskOK(k, p, cut, pk, r, type, work, {}), k.fs,
         NEW k2, StampedTo(k2, k), k2.marker <= r,
         DOMAIN k2.manifest.sums \subseteq DOMAIN k.files,
         Stale(k2.manifest, k) \subseteq Excused(pk, cut) \cup work,
         ChangePercent > 0 /\ (k2.id \/ k2.marker # 0) => Origin(k, {})
  PROVE  DiskOK(k2, p, cut, pk, r, type, work, {})
<1>1. /\ Sane(k, p) /\ SumsOK(k, p, cut, pk, work, {}) /\ GrowthOK(k, {})
      /\ AgesOK(k, r, type) /\ ChurnOK(k, pk, r, type, {})
  BY DEF DiskOK
<1>2. k2 \in DiskRecords /\ k2.fs = k.fs /\ k2.files = k.files
  BY DEF StampedTo
<1>3. Sane(k2, p)
  BY <1>1, <1>2 DEF Sane
<1>4. FreshOK(k2, r, type, {})
  BY DEF FreshOK
<1>5. \A m : Stale(m, k2) = Stale(m, k)
  BY <1>2, SameFiles
<1>6. SumsOK(k2, p, cut, pk, work, {})
  BY <1>1, <1>2, <1>5 DEF SumsOK
<1>7. GrowthOK(k2, {}) /\ ChurnOK(k2, pk, r, type, {})
  BY <1>1, <1>2, SameFiles
<1>8. AgesOK(k2, r, type)
  BY <1>1, <1>2 DEF AgesOK
<1>9. StampOK(k2, {})
  BY <1>2, SameFiles DEF StampOK
<1> QED BY <1>3, <1>4, <1>6, <1>7, <1>8, <1>9 DEF DiskOK

(* The manifest an update writes: files not in `changed` keep their entry.   *)
UpdatedTo(k2, k, r, changed) ==
  /\ StampedTo(k2, k) /\ k2.id = k.id /\ k2.marker = k.marker
  /\ k2.manifest.run = r /\ DOMAIN k2.manifest.sums = DOMAIN k.files
  /\ \A f \in DOMAIN k.files :
       k2.manifest.sums[f] =
         IF f \in DOMAIN k.manifest.sums \ changed THEN k.manifest.sums[f] ELSE k.files[f]

LEMMA SumsAre ==
  ASSUME NEW k \in DiskRecords, NEW r \in 0 .. MaxRuns, NEW changed, NEW sums,
         sums = [f \in DOMAIN k.files |->
                   IF f \in DOMAIN k.manifest.sums \ changed THEN k.manifest.sums[f] ELSE k.files[f]]
  PROVE  UpdatedTo([k EXCEPT !.manifest = [run |-> r, sums |-> sums]], k, r, changed)
<1>1. /\ DOMAIN k.files \in SUBSET Files /\ \A f \in DOMAIN k.files : k.files[f] \in Contents
      /\ \A f \in DOMAIN k.manifest.sums : k.manifest.sums[f] \in Contents
  BY DiskFields, FileMapElim
<1>2. sums \in [DOMAIN k.files -> Contents]
  BY <1>1
<1>3. sums \in FileMaps /\ DOMAIN sums = DOMAIN k.files
  BY <1>1, <1>2, FileMapIntro
<1> DEFINE m == [run |-> r, sums |-> sums]
           c == [k EXCEPT !.manifest = m]
<1>4. m \in Manifests /\ m.run = r /\ m.sums = sums
  BY <1>3 DEF Manifests
<1> HIDE DEF m
<1>5. /\ c \in DiskRecords /\ c.fs = k.fs /\ c.files = k.files /\ c.id = k.id
      /\ c.marker = k.marker /\ c.manifest = m
  BY <1>4 DEF DiskRecords
<1> HIDE DEF c
<1>6. UpdatedTo(c, k, r, changed)
  BY <1>3, <1>4, <1>5 DEF UpdatedTo, StampedTo
<1> QED BY <1>6 DEF c, m

LEMMA DiskUpdated ==
  ASSUME NEW k, NEW p, NEW cut, NEW pk, NEW r \in Runs, NEW type, NEW changed, NEW work,
         DiskOK(k, p, cut, pk, r, type, work, {}), k.fs,
         NEW k2, UpdatedTo(k2, k, r, changed)
  PROVE  /\ DiskOK(k2, p, cut, pk, r, type, work, {})
         /\ Stale(k2.manifest, k2) \cap changed = {}
         /\ k.manifest = NoManifest => k2.manifest.sums = k2.files
<1>1. /\ StampedTo(k2, k) /\ k2.id = k.id /\ k2.marker = k.marker
      /\ DOMAIN k2.manifest.sums = DOMAIN k.files
      /\ \A f \in DOMAIN k.files :
           k2.manifest.sums[f] =
             IF f \in DOMAIN k.manifest.sums \ changed THEN k.manifest.sums[f] ELSE k.files[f]
      /\ k2 \in DiskRecords /\ k2.files = k.files /\ k2.fs = k.fs
  BY DEF UpdatedTo, StampedTo
<1>2. SumsOK(k, p, cut, pk, work, {}) /\ AgesOK(k, r, type) /\ StampOK(k, {})
  BY DEF DiskOK
<1>3. Stale(k2.manifest, k) \subseteq Stale(k.manifest, k) \ changed
  BY <1>1 DEF Stale
<1>4. DiskOK(k2, p, cut, pk, r, type, work, {})
  <2>1. Stale(k2.manifest, k) \subseteq Excused(pk, cut) \cup work
    BY <1>2, <1>3 DEF SumsOK
  <2>2. k2.marker <= r
    BY <1>1, <1>2 DEF AgesOK
  <2>3. ChangePercent > 0 /\ (k2.id \/ k2.marker # 0) => Origin(k, {})
    BY <1>1, <1>2 DEF StampOK
  <2> QED BY <1>1, <2>1, <2>2, <2>3, DiskStamped
<1>5. Stale(k2.manifest, k2) = Stale(k2.manifest, k)
  BY <1>1, SameFiles
<1>6. ASSUME k.manifest = NoManifest PROVE k2.manifest.sums = k2.files
  <2>1. DOMAIN k.manifest.sums = {}
    BY <1>6, EmptyIs, EmptyMap
  <2>2. \A f \in DOMAIN k.files : k2.manifest.sums[f] = k.files[f]
    BY <1>1, <2>1
  <2>3. /\ k2.manifest.sums = [f \in DOMAIN k2.manifest.sums |-> k2.manifest.sums[f]]
        /\ k2.files = [f \in DOMAIN k2.files |-> k2.files[f]]
    BY <1>1, DiskFields, FileMapElim
  <2> QED BY <1>1, <2>2, <2>3
<1> QED BY <1>3, <1>4, <1>5, <1>6

(* A stamp, on a disk that has a manifest or not. *)
LEMMA DiskMarked ==
  ASSUME NEW k, NEW p, NEW cut, NEW pk, NEW r \in 0 .. MaxRuns, NEW type, NEW work,
         DiskOK(k, p, cut, pk, r, type, work, {}), k.fs,
         ChangePercent > 0 => Origin(k, {}),
         NEW k2, StampedTo(k2, k), k2.manifest = k.manifest, k2.marker \in {k.marker, r}
  PROVE  /\ DiskOK(k2, p, cut, pk, r, type, work, {})
         /\ Finished(k, p, r, type) => Finished(k2, p, r, type)
<1>1. /\ SumsOK(k, p, cut, pk, work, {}) /\ AgesOK(k, r, type)
      /\ k2 \in DiskRecords /\ k2.files = k.files /\ k2.fs = k.fs
  BY DEF DiskOK, StampedTo
<1>2. k2.marker <= r
  BY <1>1, ConstantsOK DEF AgesOK
<1>3. DOMAIN k2.manifest.sums \subseteq DOMAIN k.files
  BY <1>1 DEF SumsOK
<1>4. Stale(k2.manifest, k) \subseteq Excused(pk, cut) \cup work
  BY <1>1 DEF SumsOK
<1>5. DiskOK(k2, p, cut, pk, r, type, work, {})
  BY <1>2, <1>3, <1>4, DiskStamped
<1>6. ASSUME Finished(k, p, r, type) PROVE Finished(k2, p, r, type)
  <2>1. CarriedOut(k2, r, type)
    BY <1>1, <1>6, SameFiles DEF Finished
  <2> QED BY <1>1, <1>6, <2>1 DEF Finished
<1> QED BY <1>5, <1>6

(* The synced manifest: what it does not know of is excused without this run. *)
LEMMA DiskSynced ==
  ASSUME NEW k, NEW p, NEW cut, NEW pk, NEW r, NEW type, NEW work,
         DiskOK(k, p, cut, pk, r, type, work, {}),
         NEW cut2, Stale(k.manifest, k) \subseteq Excused(pk, cut2)
  PROVE  DiskOK(k, k.manifest, cut2, pk, r, type, {}, {})
<1>1. Sane(k, p) /\ SumsOK(k, p, cut, pk, work, {})
  BY DEF DiskOK
<1>2. Sane(k, k.manifest)
  BY <1>1, DiskFields, EmptyIs DEF Sane
<1>3. SumsOK(k, k.manifest, cut2, pk, {}, {})
  BY <1>1 DEF SumsOK
<1> QED BY <1>2, <1>3 DEF DiskOK

LEMMA ChurnSynced ==
  ASSUME NEW k, NEW p, NEW cut, NEW pk, NEW r \in Runs, NEW L, NEW changed,
         DiskOK(k, p, cut, pk, r, "incremental", changed, {}),
         Planned(k, pk, r, <<>>, L, changed, {}),
         k.manifest.run = r, DOMAIN k.manifest.sums = DOMAIN k.files,
         Stale(k.manifest, k) \cap changed = {}
  PROVE  /\ DiskOK(k, k.manifest, cut \ {[run |-> r, listed |-> L]}, pk, r, "incremental", {}, {})
         /\ Finished(k, k.manifest, r, "incremental")
<1> DEFINE cut2 == cut \ {[run |-> r, listed |-> L]}
<1>1. CarriedOut(k, r, "incremental") /\ Touched(pk, r, L) = changed
  BY PlannedDone
<1>2. SumsOK(k, p, cut, pk, changed, {}) /\ k.fs
  BY DEF DiskOK, Planned
<1>3. Excused(pk, cut) \subseteq Excused(pk, cut2) \cup changed
  <2>1. ASSUME NEW c \in cut PROVE Touched(pk, c.run, c.listed) \subseteq Excused(pk, cut2) \cup changed
    <3>1. CASE c \in cut2
      BY <3>1 DEF Excused
    <3>2. CASE c \notin cut2
      <4>1. c = [run |-> r, listed |-> L]
        BY <3>2
      <4>2. c.run = r /\ c.listed = L
        BY <4>1
      <4> QED BY <1>1, <4>2
    <3> QED BY <3>1, <3>2
  <2> QED BY <2>1 DEF Excused
<1>4. Stale(k.manifest, k) \subseteq Excused(pk, cut2)
  BY <1>2, <1>3 DEF SumsOK
<1>5. DiskOK(k, k.manifest, cut2, pk, r, "incremental", {}, {})
  BY <1>4, DiskSynced
<1>6. Finished(k, k.manifest, r, "incremental")
  BY <1>1, <1>2, ConstantsOK DEF Finished, Runs
<1> QED BY <1>5, <1>6

-----------------------------------------------------------------------------
(* An initial fill on its disk *)

(* A disk that is being filled has nothing else on it. *)
LEMMA FillingOK ==
  ASSUME NEW k \in DiskRecords, NEW p, NEW cut, NEW pk, NEW r \in Runs, NEW plan, NEW fresh,
         Filling(k, p, r, plan), ~k.id, k.marker = 0, k.manifest = NoManifest,
         fresh \subseteq DOMAIN k.files,
         \A f \in DOMAIN k.files : k.files[f].job \in {"global", "local", "unwritten"}
  PROVE  DiskOK(k, p, cut, pk, r, "initial-fill", {}, fresh)
<1>1. /\ k.fs /\ p = NoManifest /\ DOMAIN k.files \in SUBSET Regions
      /\ \A f \in DOMAIN k.files : k.files[f].run = r
  BY DEF Filling
<1>2. IsFiniteSet(DOMAIN k.files) /\ \A f \in DOMAIN k.files : f.kind # "grow"
  BY <1>1, RegionFiles, FS_Subset
<1>3. r \in Nat /\ r >= 0
  BY ConstantsOK DEF Runs
<1>4. Sane(k, p)
  BY <1>1, <1>2, EmptyIs DEF Sane
<1>5. FreshOK(k, r, "initial-fill", fresh)
  BY <1>2 DEF FreshOK
<1>6. DOMAIN NoManifest.sums = {}
  BY EmptyIs, EmptyMap
<1>7. SumsOK(k, p, cut, pk, {}, fresh)
  BY <1>1, <1>6 DEF SumsOK, Stale
<1>8. GrowthOK(k, fresh)
  BY <1>2 DEF GrowthOK
<1>9. AgesOK(k, r, "initial-fill")
  BY <1>1, <1>2, <1>3 DEF AgesOK, JobsOf
<1>10. ChurnOK(k, pk, r, "initial-fill", fresh)
  BY DEF ChurnOK
<1>11. StampOK(k, fresh)
  BY DEF StampOK
<1> QED BY <1>4, <1>5, <1>7, <1>8, <1>9, <1>10, <1>11 DEF DiskOK

LEMMA FilledJobs ==
  ASSUME NEW k, NEW p, NEW cut, NEW pk, NEW r, NEW work, NEW fresh, NEW plan,
         DiskOK(k, p, cut, pk, r, "initial-fill", work, fresh), Filling(k, p, r, plan)
  PROVE  \A f \in DOMAIN k.files : k.files[f].job \in {"global", "local", "unwritten"}
BY DEF DiskOK, AgesOK, Filling, JobsOf

LEMMA BeginFill ==
  ASSUME NEW k, NEW p, NEW cut, NEW pk, NEW r \in Runs, NEW plan, ToDo(plan),
         DiskOK(k, p, cut, pk, r, "initial-fill", {}, {}), Filling(k, p, r, plan),
         ~k.id, k.marker = 0, k.manifest = NoManifest,
         NEW k2, WrittenBy(k2, k, Head(plan).files, Content(r, "unwritten", 0))
  PROVE  /\ DiskOK(k2, p, cut, pk, r, "initial-fill", {}, Head(plan).files \ DOMAIN k.files)
         /\ Filling(k2, p, r, plan)
         /\ Head(plan).files \subseteq DOMAIN k2.files
<1> DEFINE files == Head(plan).files
<1>1. files \subseteq Left(plan)
  BY PlanSplit
<1>2. Content(r, "unwritten", 0).run = r /\ Content(r, "unwritten", 0).job = "unwritten"
  BY DEF Content
<1>3. /\ k2 \in DiskRecords /\ k2.fs = k.fs /\ k2.id = k.id /\ k2.marker = k.marker
      /\ k2.manifest = k.manifest /\ DOMAIN k2.files = files \cup DOMAIN k.files
      /\ \A f \in files : k2.files[f].run = r /\ k2.files[f].job = "unwritten"
      /\ \A f \in DOMAIN k.files \ files : k2.files[f] = k.files[f]
  BY <1>2 DEF WrittenBy, SameButFiles
<1> HIDE DEF files
<1>4. \A f \in DOMAIN k.files : k.files[f].job \in {"global", "local", "unwritten"}
  BY FilledJobs
<1>5. Filling(k2, p, r, plan)
  BY <1>1, <1>3 DEF Filling
<1>6. \A f \in DOMAIN k2.files : k2.files[f].job \in {"global", "local", "unwritten"}
  BY <1>3, <1>4
<1>7. DiskOK(k2, p, cut, pk, r, "initial-fill", {}, files \ DOMAIN k.files)
  BY <1>3, <1>5, <1>6, FillingOK
<1> QED BY <1>3, <1>5, <1>7 DEF files

LEMMA EndFill ==
  ASSUME NEW k, NEW p, NEW cut, NEW pk, NEW r \in Runs, NEW plan, ToDo(plan), NEW fresh,
         DiskOK(k, p, cut, pk, r, "initial-fill", {}, fresh), Filling(k, p, r, plan),
         ~k.id, k.marker = 0, k.manifest = NoManifest, Head(plan).files \subseteq DOMAIN k.files,
         NEW k2, WrittenBy(k2, k, Head(plan).files, Head(plan).content)
  PROVE  /\ DiskOK(k2, p, cut, pk, r, "initial-fill", {}, {})
         /\ Filling(k2, p, r, Tail(plan))
<1> DEFINE files == Head(plan).files
           content == Head(plan).content
           tail == Tail(plan)
<1>1. /\ Head(plan) = plan[1] /\ Len(plan) \in Nat /\ Len(plan) >= 1
      /\ Left(plan) = files \cup Left(tail)
      /\ Len(tail) = Len(plan) - 1
      /\ \A i \in 1 .. Len(tail) : tail[i] = plan[i + 1]
  BY PlanSplit
<1>2. \A i \in 1 .. Len(plan) : plan[i].content.run = r /\ plan[i].content.job \in {"global", "local"}
  BY DEF Filling
<1>3. content.run = r /\ content.job \in {"global", "local"}
  BY <1>1, <1>2
<1>4. /\ k2 \in DiskRecords /\ k2.fs = k.fs /\ k2.id = k.id /\ k2.marker = k.marker
      /\ k2.manifest = k.manifest /\ DOMAIN k2.files = files \cup DOMAIN k.files
      /\ \A f \in files : k2.files[f].run = r /\ k2.files[f].job \in {"global", "local"}
      /\ \A f \in DOMAIN k.files \ files : k2.files[f] = k.files[f]
  BY <1>3 DEF WrittenBy, SameButFiles
<1> HIDE DEF content, tail
<1>5. \A i \in 1 .. Len(tail) : tail[i].content.run = r /\ tail[i].content.job \in {"global", "local"}
  <2>1. \A i \in 1 .. Len(tail) : i + 1 \in 1 .. Len(plan)
    BY <1>1
  <2> QED BY <1>1, <1>2, <2>1
<1> HIDE DEF files
<1>6. Filling(k2, p, r, tail)
  BY <1>1, <1>4, <1>5 DEF Filling
<1>7. \A f \in DOMAIN k.files : k.files[f].job \in {"global", "local", "unwritten"}
  BY FilledJobs
<1>8. \A f \in DOMAIN k2.files : k2.files[f].job \in {"global", "local", "unwritten"}
  BY <1>4, <1>7
<1>9. DiskOK(k2, p, cut, pk, r, "initial-fill", {}, {})
  BY <1>4, <1>6, <1>8, FillingOK
<1> QED BY <1>6, <1>9 DEF tail

(* A disk without a filesystem, and what the plan of a fill is on it. *)
LEMMA DiskWiped ==
  ASSUME NEW pk, NEW r \in Nat, NEW type, NEW cut
  PROVE  DiskOK(EmptyDisk, NoManifest, cut, pk, r, type, {}, {})
<1>1. /\ EmptyDisk \in DiskRecords /\ NoManifest \in Manifests
      /\ DOMAIN EmptyDisk.files = {} /\ DOMAIN EmptyDisk.manifest.sums = {}
      /\ DOMAIN NoManifest.sums = {} /\ EmptyDisk.marker = 0 /\ ~EmptyDisk.fs
  BY EmptyIs, EmptyMap
<1>2. Sane(EmptyDisk, NoManifest)
  BY <1>1, FS_EmptySet DEF Sane
<1>3. FreshOK(EmptyDisk, r, type, {})
  BY DEF FreshOK
<1>4. SumsOK(EmptyDisk, NoManifest, cut, pk, {}, {})
  BY <1>1 DEF SumsOK, Stale
<1>5. GrowthOK(EmptyDisk, {}) /\ AgesOK(EmptyDisk, r, type)
  BY <1>1 DEF GrowthOK, AgesOK
<1>6. ChurnOK(EmptyDisk, pk, r, type, {})
  BY <1>1 DEF ChurnOK, Torn
<1>7. StampOK(EmptyDisk, {})
  BY <1>1 DEF StampOK
<1> QED BY <1>2, <1>3, <1>4, <1>5, <1>6, <1>7 DEF DiskOK

LEMMA RegionIs ==
  ASSUME NEW r \in Runs, NEW files \in SUBSET Files, NEW name \in {"global", "local"}
  PROVE  /\ Region(r, files, name) \in Seq(Jobs)
         /\ \A i \in 1 .. Len(Region(r, files, name)) :
              /\ Region(r, files, name)[i].content.run = r
              /\ Region(r, files, name)[i].content.job = name
         /\ Left(Region(r, files, name)) = files
<1> DEFINE c == Content(r, name, 0)
           job == [files |-> files, content |-> c]
<1>1. c \in Contents /\ c.run = r /\ c.job = name
  BY DEF Content, Contents
<1>2. job \in Jobs /\ job.files = files /\ job.content = c
  BY <1>1 DEF Jobs
<1>3. Region(r, files, name) = IF files = {} THEN <<>> ELSE <<job>>
  BY DEF Region
<1> HIDE DEF job, c
<1>4. CASE files = {}
  <2>1. Region(r, files, name) = <<>> /\ Len(<<>>) = 0 /\ <<>> \in Seq(Jobs)
    BY <1>3, <1>4
  <2>2. Left(<<>>) = {}
    BY DEF Left
  <2>3. \A i \in 1 .. Len(Region(r, files, name)) : FALSE
    BY <2>1
  <2>4. Left(Region(r, files, name)) = files
    BY <1>4, <2>1, <2>2
  <2> QED BY <2>1, <2>3, <2>4
<1>5. CASE files # {}
  <2>1. Region(r, files, name) = <<job>>
    BY <1>3, <1>5
  <2>2. <<job>> \in Seq(Jobs) /\ Len(<<job>>) = 1 /\ <<job>>[1] = job
    BY <1>2
  <2>3. Left(<<job>>) = files
    BY <1>2, <2>2 DEF Left
  <2>4. \A i \in 1 .. Len(<<job>>) : <<job>>[i].content.run = r /\ <<job>>[i].content.job = name
    BY <1>1, <1>2, <2>2
  <2> QED BY <2>1, <2>2, <2>3, <2>4
<1> QED BY <1>4, <1>5

(* The plan of an initial fill. *)
FillPlan(plan, r) ==
  /\ plan \in Seq(Jobs) /\ Left(plan) = Regions
  /\ \A i \in 1 .. Len(plan) : plan[i].content.run = r /\ plan[i].content.job \in {"global", "local"}

LEMMA FillPlanned ==
  ASSUME NEW r \in Runs
  PROVE  FillPlan(Region(r, GlobalRegion, "global") \o Region(r, LocalRegion, "local"), r)
<1>1. PICK s \in Seq(Jobs) :
        /\ s = Region(r, GlobalRegion, "global") /\ Left(s) = GlobalRegion
        /\ \A i \in 1 .. Len(s) : s[i].content.run = r /\ s[i].content.job = "global"
  BY RegionIs, RegionFiles
<1>2. PICK t \in Seq(Jobs) :
        /\ t = Region(r, LocalRegion, "local") /\ Left(t) = LocalRegion
        /\ \A i \in 1 .. Len(t) : t[i].content.run = r /\ t[i].content.job = "local"
  BY RegionIs, RegionFiles
<1> DEFINE u == s \o t
<1>3. /\ u \in Seq(Jobs)
      /\ \A i \in 1 .. Len(s) : u[i] = s[i]
      /\ \A i \in 1 .. Len(t) : u[Len(s) + i] = t[i]
      /\ \A i \in 1 .. Len(u) : i \in 1 .. Len(s) \/ \E j \in 1 .. Len(t) : i = Len(s) + j
      /\ Left(u) = Left(s) \cup Left(t)
  BY PlanJoined
<1>4. u = Region(r, GlobalRegion, "global") \o Region(r, LocalRegion, "local")
  BY <1>1, <1>2
<1> HIDE DEF u
<1>5. ASSUME NEW i \in 1 .. Len(u)
      PROVE  u[i].content.run = r /\ u[i].content.job \in {"global", "local"}
  <2>1. CASE i \in 1 .. Len(s)
    BY <1>1, <1>3, <2>1
  <2>2. ASSUME NEW j \in 1 .. Len(t), i = Len(s) + j
        PROVE  u[i].content.run = r /\ u[i].content.job \in {"global", "local"}
    BY <1>2, <1>3, <2>2
  <2> QED BY <1>3, <2>1, <2>2
<1>6. Left(u) = Regions
  BY <1>1, <1>2, <1>3 DEF Regions
<1>7. FillPlan(u, r)
  BY <1>3, <1>5, <1>6 DEF FillPlan
<1> QED BY <1>4, <1>7

LEMMA DiskMade ==
  ASSUME NEW cut, NEW pk, NEW r \in Runs, NEW plan, FillPlan(plan, r),
         NEW k2, k2 = [EmptyDisk EXCEPT !.fs = TRUE]
  PROVE  /\ DiskOK(k2, NoManifest, cut, pk, r, "initial-fill", {}, {})
         /\ Filling(k2, NoManifest, r, plan)
         /\ ~k2.id /\ k2.marker = 0 /\ k2.manifest = NoManifest
<1>1. /\ k2 \in DiskRecords /\ k2.fs /\ ~k2.id /\ k2.marker = 0 /\ k2.manifest = NoManifest
      /\ k2.files = <<>>
  BY EmptyIs DEF DiskRecords
<1>2. DOMAIN k2.files = {}
  BY <1>1, EmptyMap
<1>3. Filling(k2, NoManifest, r, plan)
  BY <1>1, <1>2 DEF Filling, FillPlan
<1>4. DiskOK(k2, NoManifest, cut, pk, r, "initial-fill", {}, {})
  BY <1>1, <1>2, <1>3, FillingOK
<1> QED BY <1>1, <1>3, <1>4

(* A fill with nothing left to write has been carried out. *)
LEMMA FilledDone ==
  ASSUME NEW k, NEW p, NEW r \in Runs, Filling(k, p, r, <<>>)
  PROVE  CarriedOut(k, r, "initial-fill") /\ Origin(k, {})
<1>1. Left(<<>>) = {}
  BY DEF Left
<1>2. /\ DOMAIN k.files = Regions
      /\ \A f \in DOMAIN k.files : k.files[f].run = r /\ k.files[f].job \in {"global", "local"}
  BY <1>1 DEF Filling
<1>3. {f \in DOMAIN k.files : k.files[f].run = r} = Regions
  BY <1>2
<1>4. CarriedOut(k, r, "initial-fill")
  BY <1>2, <1>3 DEF CarriedOut
<1>5. Origin(k, {})
  BY <1>2 DEF Origin
<1> QED BY <1>4, <1>5

LEMMA FillSynced ==
  ASSUME NEW k, NEW p, NEW cut, NEW pk, NEW r \in Runs, NEW cut2,
         DiskOK(k, p, cut, pk, r, "initial-fill", {}, {}), Filling(k, p, r, <<>>),
         k.manifest.run = r, k.manifest.sums = k.files
  PROVE  /\ DiskOK(k, k.manifest, cut2, pk, r, "initial-fill", {}, {})
         /\ Finished(k, k.manifest, r, "initial-fill")
<1>1. Stale(k.manifest, k) = {}
  BY DEF Stale
<1>2. DiskOK(k, k.manifest, cut2, pk, r, "initial-fill", {}, {})
  BY <1>1, DiskSynced
<1>3. k.fs /\ CarriedOut(k, r, "initial-fill")
  BY FilledDone DEF Filling
<1>4. Finished(k, k.manifest, r, "initial-fill")
  BY <1>3, ConstantsOK DEF Finished, Runs
<1> QED BY <1>2, <1>4

(* What has been finished can be stamped. *)
LEMMA FinishedOrigin ==
  ASSUME NEW k, NEW p, NEW r, NEW type \in Types, Finished(k, p, r, type)
  PROVE  /\ k.fs
         /\ ChangePercent > 0 => Origin(k, {})
<1>1. k.fs /\ type \in {"initial-fill", "incremental"} /\ CarriedOut(k, r, type)
  BY DEF Finished, Types
<1>2. ASSUME ChangePercent > 0 PROVE Origin(k, {})
  <2>1. CASE type = "initial-fill"
    <3>1. /\ {f \in DOMAIN k.files : k.files[f].run = r} = Regions /\ DOMAIN k.files = Regions
          /\ \A f \in {f \in DOMAIN k.files : k.files[f].run = r} : k.files[f].job # "unwritten"
      BY <1>1, <2>1 DEF CarriedOut
    <3> QED BY <3>1 DEF Origin
  <2>2. CASE type = "incremental"
    BY <1>1, <1>2, <2>2 DEF CarriedOut, Origin
  <2> QED BY <1>1, <2>1, <2>2
<1> QED BY <1>1, <1>2

-----------------------------------------------------------------------------
(* Steps that leave the disks alone *)

(* A disk and an agent's view of it that stay as they are. *)
SameView(d) ==
  /\ WorkOn(d)' = WorkOn(d) /\ FreshOn(d)' = FreshOn(d)
  /\ IsPlanned(d)' =>
       /\ IsPlanned(d) /\ ChangedOn(d)' = ChangedOn(d)
       /\ agent'.plans[d] = agent.plans[d] /\ agent'.listed[d] = agent.listed[d]
  /\ IsFilling(d)' => IsFilling(d) /\ agent'.plans[d] = agent.plans[d]
  /\ IsThrough(d)' => IsThrough(d)

SameDisk(d) == disk'[d] = disk[d] /\ platter'[d] = platter[d] /\ cutOff'[d] = cutOff[d]
SameOrder == order'.run = order.run /\ order'.type = order.type

LEMMA DiskKept ==
  ASSUME NEW d \in Disks, DiskGood(d), SameDisk(d), SameOrder, picks' = picks, SameView(d)
  PROVE  DiskGood(d)'
<1>1. DiskOK(disk[d], platter[d], cutOff[d], picks, order.run, order.type, WorkOn(d), FreshOn(d))'
  BY DEF DiskGood, SameDisk, SameOrder, SameView
<1>2. IsPlanned(d)' =>
       Planned(disk[d], picks, order.run, agent.plans[d], agent.listed[d], ChangedOn(d), FreshOn(d))'
  BY DEF DiskGood, SameDisk, SameOrder, SameView
<1>3. IsFilling(d)' => Filling(disk[d], platter[d], order.run, agent.plans[d])'
  BY DEF DiskGood, SameDisk, SameOrder, SameView
<1>4. IsThrough(d)' => Finished(disk[d], platter[d], order.run, order.type)'
  BY DEF DiskGood, SameDisk, SameOrder, SameView
<1> QED BY <1>1, <1>2, <1>3, <1>4 DEF DiskGood

LEMMA DisksKept ==
  ASSUME Shape, DisksOK, UNCHANGED world, SameOrder, \A d \in Disks : SameView(d)
  PROVE  DisksOK' /\ Shape'
<1>1. disk' = disk /\ platter' = platter /\ picks' = picks /\ cutOff' = cutOff
  BY DEF world
<1>2. ASSUME NEW d \in Disks PROVE DiskGood(d)'
  <2>1. SameDisk(d) /\ DiskGood(d)
    BY <1>1 DEF SameDisk, DisksOK
  <2> QED BY <1>1, <2>1, DiskKept
<1> QED BY <1>1, <1>2 DEF DisksOK, Shape

LEMMA AgentFields ==
  ASSUME NEW a \in Agents
  PROVE  /\ a.stage \in Stages /\ a.run \in 0 .. MaxRuns /\ a.type \in Types /\ a.d \in Nat
         /\ a.plans \in {<<>>} \cup [Disks -> Seq(Jobs)]
         /\ a.listed \in {<<>>} \cup [Disks -> SUBSET Files]
         /\ a.changed \in SUBSET Files /\ a.fresh \in SUBSET Files
         /\ a.result \in {"none", "done", "error"}
BY DEF Agents

LEMMA IdleIs ==
  Idle \in Agents /\ Idle.stage = "idle" /\ Idle.changed = {} /\ Idle.fresh = {} /\ Idle.result = "none"
BY ConstantsOK DEF Idle, Agents, Stages, Types

(* An idle agent sees nothing of the disks. *)
LEMMA IdleSees ==
  ASSUME agent' = Idle, NEW d \in Disks
  PROVE  /\ WorkOn(d)' = {} /\ FreshOn(d)' = {} /\ ~IsPlanned(d)' /\ ~IsFilling(d)'
         /\ IsThrough(d)' => Churned' \/ (order.run # 0 /\ RunAlreadyComplete(order.run))'
<1>1. agent'.stage = "idle" /\ agent'.fresh = {}
  BY IdleIs
<1>2. WorkOn(d)' = {} /\ FreshOn(d)' = {}
  BY <1>1 DEF WorkOn, FreshOn, Working
<1>3. ~IsPlanned(d)' /\ ~IsFilling(d)'
  BY <1>1 DEF IsPlanned, IsFilling, Working
<1>4. IsThrough(d)' => Churned' \/ (order.run # 0 /\ RunAlreadyComplete(order.run))'
  BY <1>1 DEF IsThrough, Working
<1> QED BY <1>2, <1>3, <1>4

(* The agent while it does not write, whatever happens around it. *)
AtRest(a) == a.stage \in {"idle", "check", "plan", "mkfs", "marking", "report"}

LEMMA RestSees ==
  ASSUME AgentOK, AtRest(agent), NEW d \in Disks
  PROVE  WorkOn(d) = {} /\ FreshOn(d) = {}
<1>1. agent.fresh = {}
  BY IdleIs DEF AgentOK, AtRest
<1>2. FreshOn(d) = {}
  BY <1>1 DEF FreshOn
<1>3. WorkOn(d) = {}
  BY DEF WorkOn, AtRest, Working
<1> QED BY <1>2, <1>3

-----------------------------------------------------------------------------
(* The controller's steps *)

LEMMA AgentUntouched ==
  ASSUME IInv, UNCHANGED <<world, agent>>, SameOrder,
         order'.status = "done" => order.status = "done"
  PROVE  DisksOK' /\ Shape' /\ AtWork' /\ PicksOK'
<1>1. disk' = disk /\ platter' = platter /\ cutOff' = cutOff /\ agent' = agent /\ picks' = picks
  BY DEF world
<1>2. ASSUME NEW d \in Disks PROVE SameView(d)
  <2>1. WorkOn(d)' = WorkOn(d) /\ FreshOn(d)' = FreshOn(d)
    BY <1>1 DEF WorkOn, FreshOn
  <2>2. IsPlanned(d)' = IsPlanned(d) /\ ChangedOn(d)' = ChangedOn(d) /\ IsFilling(d)' = IsFilling(d)
    BY <1>1 DEF IsPlanned, ChangedOn, IsFilling
  <2>3. IsThrough(d)' => IsThrough(d)
    BY <1>1 DEF IsThrough, Churned, RunAlreadyComplete, SameOrder
  <2> QED BY <1>1, <2>1, <2>2, <2>3 DEF SameView
<1>3. AtWork'
  BY <1>1 DEF IInv, AtWork, RunAlreadyComplete, SameOrder
<1>4. PicksOK'
  BY <1>1 DEF IInv, PicksOK
<1> QED BY <1>2, <1>3, <1>4, DisksKept DEF IInv

LEMMA EndRunKeeps ==
  ASSUME IInv, EndRun
  PROVE  IInv'
<1>1. /\ agent' = agent /\ UNCHANGED world /\ order' = [order EXCEPT !.status = "failed"]
      /\ order.status = "open" /\ up' = up
      /\ UNCHANGED <<up, completed, data, filled, crashes, faults>>
  BY DEF EndRun
<1>2. OrderOK /\ AgentOK /\ Rest
  BY DEF IInv
<1>3. order'.run = order.run /\ order'.type = order.type /\ order'.status = "failed" /\ order.run # 0
  BY <1>1, <1>2 DEF OrderOK
<1>4. DisksOK' /\ Shape' /\ AtWork' /\ PicksOK'
  BY <1>1, <1>3, AgentUntouched DEF SameOrder
<1>5. AgentOK'
  BY <1>1, <1>2, <1>3 DEF AgentOK
<1>6. OrderOK'
  BY <1>1, <1>2, <1>3 DEF OrderOK
<1>7. Rest'
  BY <1>1, <1>2 DEF Rest
<1> QED BY <1>4, <1>5, <1>6, <1>7 DEF IInv

LEMMA RegisterKeeps ==
  ASSUME IInv, Register
  PROVE  IInv'
<1>1. /\ agent' = agent /\ UNCHANGED world /\ order' = order /\ ~up /\ up' = TRUE
      /\ data' = DataState /\ UNCHANGED <<completed, filled, crashes, faults>>
  BY DEF Register
<1>2. OrderOK /\ AgentOK /\ Rest
  BY DEF IInv
<1>3. DisksOK' /\ Shape' /\ AtWork' /\ PicksOK'
  BY <1>1, AgentUntouched DEF SameOrder
<1>4. AgentOK'
  BY <1>1, <1>2 DEF AgentOK
<1>5. OrderOK'
  BY <1>1, <1>2 DEF OrderOK, world
<1>6. data'.state \in {"unknown", "empty", "partial", "filled"}
  BY <1>1 DEF DataState
<1>7. Rest'
  BY <1>1, <1>2, <1>6 DEF Rest
<1> QED BY <1>3, <1>4, <1>5, <1>7 DEF IInv

(* The next run: the one before it is as it was, and nothing is marked with  *)
(* the new one.                                                              *)
LEMMA NewRunKeeps ==
  ASSUME IInv, NEW type \in Types, NewRun(type)
  PROVE  IInv'
<1>1. /\ agent' = agent /\ UNCHANGED world /\ order.run < MaxRuns /\ agent.stage = "idle"
      /\ order' = [run |-> order.run + 1, type |-> type, status |-> "open"]
      /\ UNCHANGED <<up, completed, data, filled, crashes, faults>>
  BY DEF NewRun
<1>2. OrderOK /\ AgentOK /\ Rest /\ DisksOK /\ Shape /\ PicksOK
  BY DEF IInv
<1>3. disk' = disk /\ platter' = platter /\ cutOff' = cutOff /\ picks' = picks
  BY <1>1 DEF world
<1>4. PICK r \in 0 .. MaxRuns : r = order.run
  BY <1>2 DEF OrderOK
<1>5. order'.run = r + 1 /\ order'.type = type /\ order'.status = "open" /\ r + 1 \in 0 .. MaxRuns /\ r + 1 # 0
  BY <1>1, <1>4, ConstantsOK
<1>6. agent = Idle /\ agent' = Idle
  BY <1>1, <1>2 DEF AgentOK
<1>7. ASSUME NEW d \in Disks
      PROVE  /\ DiskOK(disk[d], platter[d], cutOff[d], picks, r + 1, type, {}, {})
             /\ disk[d].marker # r + 1
  <2>1. WorkOn(d) = {} /\ FreshOn(d) = {}
    BY <1>1, <1>2, RestSees DEF AtRest
  <2>2. PICK k, p, cut, pk, type1 :
          /\ k = disk[d] /\ p = platter[d] /\ cut = cutOff[d] /\ pk = picks /\ type1 = order.type
          /\ DiskOK(k, p, cut, pk, r, type1, {}, {})
    BY <1>2, <1>4, <2>1 DEF DisksOK, DiskGood
  <2>3. DiskOK(k, p, cut, pk, r + 1, type, {}, {})
    BY <2>2, DiskNextRun
  <2>4. k.marker <= r /\ k.marker \in Nat
    BY <2>2, DiskFields, ConstantsOK DEF DiskOK, AgesOK, Sane
  <2>5. k.marker # r + 1
    BY <2>4
  <2> QED BY <2>2, <2>3, <2>5
<1>8. ~RunAlreadyComplete(order.run)'
  <2>1. 1 \in Disks
    BY ConstantsOK DEF Disks
  <2>2. disk'[1].marker # order'.run
    BY <1>3, <1>5, <1>7, <2>1
  <2> QED BY <2>1, <2>2 DEF RunAlreadyComplete
<1>9. ASSUME NEW d \in Disks PROVE DiskGood(d)'
  <2>1. WorkOn(d)' = {} /\ FreshOn(d)' = {} /\ ~IsPlanned(d)' /\ ~IsFilling(d)' /\ ~IsThrough(d)'
    BY <1>5, <1>6, <1>8, IdleSees DEF Churned
  <2> QED BY <1>3, <1>5, <1>7, <2>1 DEF DiskGood
<1>10. AtWork'
  BY <1>6, IdleIs DEF AtWork, Working, Idle
<1>11. AgentOK'
  BY <1>6, IdleIs DEF AgentOK, Working, Idle
<1>12. OrderOK'
  BY <1>1, <1>5 DEF OrderOK
<1>13. Rest' /\ PicksOK' /\ Shape'
  BY <1>1, <1>2, <1>3 DEF Rest, PicksOK, Shape
<1> QED BY <1>9, <1>10, <1>11, <1>12, <1>13 DEF IInv, DisksOK

-----------------------------------------------------------------------------
(* The agent's steps that write nothing *)

LEMMA OrderKept ==
  ASSUME IInv, UNCHANGED world, order' = order
  PROVE  OrderOK' /\ PicksOK' /\ SameOrder
BY DEF IInv, OrderOK, PicksOK, SameOrder, world

LEMMA ChurnedIdle ==
  ASSUME IInv, agent.stage # "idle"
  PROVE  /\ ~Churned /\ order.run \in Runs /\ up
         /\ agent.run = order.run /\ agent.type = order.type /\ agent.type \in Types
         /\ order.status # "done"
<1>1. order.run # 0 /\ order.status # "done" /\ agent.run = order.run /\ agent.type = order.type /\ up
  BY DEF IInv, AgentOK
<1>2. order.run \in 0 .. MaxRuns /\ order.type \in Types
  BY DEF IInv, OrderOK
<1> QED BY <1>1, <1>2, ConstantsOK DEF Churned, Runs

LEMMA DispatchKeeps ==
  ASSUME IInv, Dispatch
  PROVE  IInv'
<1>1. /\ agent' = [Idle EXCEPT !.stage = "check", !.run = order.run, !.type = order.type]
      /\ UNCHANGED world /\ order' = order /\ up /\ order.status = "open" /\ agent.stage = "idle"
      /\ UNCHANGED <<up, completed, data, filled, crashes, faults>>
  BY DEF Dispatch, row
<1>2. OrderOK /\ AgentOK /\ Rest /\ DisksOK /\ Shape
  BY DEF IInv
<1>3. OrderOK' /\ PicksOK' /\ SameOrder
  BY <1>1, OrderKept
<1>4. order.run \in 0 .. MaxRuns /\ order.run # 0 /\ order.type \in Types
  BY <1>1, <1>2 DEF OrderOK
<1>5. /\ agent' \in Agents /\ agent'.stage = "check" /\ agent'.run = order.run
      /\ agent'.type = order.type /\ agent'.changed = {} /\ agent'.fresh = {} /\ agent'.result = "none"
  BY <1>1, <1>4, IdleIs DEF Agents, Stages, Idle
<1>6. ASSUME NEW d \in Disks PROVE SameView(d)
  <2>1. WorkOn(d) = {} /\ FreshOn(d) = {}
    BY <1>1, <1>2, RestSees DEF AtRest
  <2>2. WorkOn(d)' = {} /\ FreshOn(d)' = {} /\ ~IsPlanned(d)' /\ ~IsFilling(d)'
    BY <1>5 DEF WorkOn, FreshOn, Working, IsPlanned, IsFilling
  <2>3. IsThrough(d)' => IsThrough(d)
    BY <1>1, <1>5 DEF IsThrough, Working, Churned, RunAlreadyComplete, world
  <2> QED BY <2>1, <2>2, <2>3 DEF SameView
<1>7. DisksOK' /\ Shape'
  BY <1>1, <1>2, <1>3, <1>6, DisksKept
<1>8. AtWork'
  BY <1>5 DEF AtWork, Working
<1>9. AgentOK'
  BY <1>1, <1>4, <1>5 DEF AgentOK, Working
<1>10. Rest'
  BY <1>1, <1>2 DEF Rest
<1> QED BY <1>3, <1>7, <1>8, <1>9, <1>10 DEF IInv

(* An order whose markers are all there was carried out. *)
LEMMA RunFillKeeps ==
  ASSUME IInv, RunFill
  PROVE  IInv'
<1>1. /\ agent.stage = "check" /\ agent.type # "verify"
      /\ UNCHANGED world /\ order' = order
      /\ UNCHANGED <<up, completed, data, filled, crashes, faults>>
  BY DEF RunFill, row
<1>2. OrderOK /\ AgentOK /\ Rest /\ DisksOK /\ Shape
  BY DEF IInv
<1>3. OrderOK' /\ PicksOK' /\ SameOrder
  BY <1>1, OrderKept
<1>4. /\ ~Churned /\ order.run \in Runs /\ up /\ agent.run = order.run /\ agent.type = order.type
      /\ agent.type \in Types /\ order.status # "done" /\ order.run # 0
  BY <1>1, ChurnedIdle, ConstantsOK DEF Runs
<1>5. agent \in Agents /\ agent.changed = {} /\ agent.fresh = {} /\ agent.result = "none"
  BY <1>1, <1>2 DEF AgentOK, Working
<1>6. RunAlreadyComplete(order.run)' = RunAlreadyComplete(order.run) /\ Churned' = Churned
  BY <1>1 DEF RunAlreadyComplete, Churned, world
<1>7. Rest'
  BY <1>1, <1>2 DEF Rest
<1>8. CASE RunAlreadyComplete(agent.run)
  <2>1. agent' = [agent EXCEPT !.stage = "flush", !.result = "done"]
    BY <1>8 DEF RunFill
  <2>2. /\ agent' \in Agents /\ agent'.stage = "flush" /\ agent'.result = "done"
        /\ agent'.run = agent.run /\ agent'.type = agent.type /\ agent'.changed = {} /\ agent'.fresh = {}
    BY <1>5, <2>1 DEF Agents, Stages
  <2>3. ASSUME NEW d \in Disks PROVE SameView(d)
    <3>1. WorkOn(d) = {} /\ FreshOn(d) = {}
      BY <1>1, <1>2, RestSees DEF AtRest
    <3>2. WorkOn(d)' = {} /\ FreshOn(d)' = {} /\ ~IsPlanned(d)' /\ ~IsFilling(d)'
      BY <2>2 DEF WorkOn, FreshOn, Working, IsPlanned, IsFilling
    <3>3. IsThrough(d)
      BY <1>4, <1>8 DEF IsThrough
    <3> QED BY <3>1, <3>2, <3>3 DEF SameView
  <2>4. DisksOK' /\ Shape'
    BY <1>1, <1>2, <1>3, <2>3, DisksKept
  <2>5. AtWork'
    BY <2>2 DEF AtWork, Working
  <2>6. AgentOK'
    BY <1>1, <1>4, <2>2 DEF AgentOK, Working
  <2> QED BY <1>3, <1>7, <2>4, <2>5, <2>6 DEF IInv
<1>9. CASE ~RunAlreadyComplete(agent.run)
  <2>1. agent' = [agent EXCEPT !.stage = FirstStage(agent.type), !.d = 1,
                               !.plans = [d \in Disks |-> <<>>],
                               !.listed = [d \in Disks |-> {}]]
    BY <1>9 DEF RunFill
  <2>a. 1 \in Disks /\ 1 \in Nat /\ [d \in Disks |-> <<>>] \in [Disks -> Seq(Jobs)]
        /\ [d \in Disks |-> {}] \in [Disks -> SUBSET Files]
    BY ConstantsOK DEF Disks
  <2>b. /\ FirstStage(agent.type) \in {"mkfs", "plan"}
        /\ FirstStage(agent.type) = "mkfs" => agent.type = "initial-fill"
        /\ FirstStage(agent.type) = "plan" => agent.type = "incremental"
    BY <1>1, <1>4 DEF FirstStage, Types
  <2>2. /\ agent' \in Agents /\ agent'.stage \in {"mkfs", "plan"} /\ agent'.result = "none"
        /\ agent'.run = agent.run /\ agent'.type = agent.type /\ agent'.changed = {} /\ agent'.fresh = {}
        /\ agent'.d = 1 /\ agent'.plans \in [Disks -> Seq(Jobs)] /\ agent'.listed \in [Disks -> SUBSET Files]
        /\ agent'.stage = FirstStage(agent.type)
    BY <1>5, <2>1, <2>a, <2>b DEF Agents, Stages
  <2>3. ASSUME NEW d \in Disks PROVE SameView(d)
    <3>1. WorkOn(d) = {} /\ FreshOn(d) = {}
      BY <1>1, <1>2, RestSees DEF AtRest
    <3>2. ~(d < 1)
      BY ConstantsOK DEF Disks
    <3>3. WorkOn(d)' = {} /\ FreshOn(d)' = {} /\ ~IsPlanned(d)' /\ ~IsFilling(d)'
      BY <2>2, <3>2 DEF WorkOn, FreshOn, Working, IsPlanned, IsFilling
    <3>4. IsThrough(d)' => IsThrough(d)
      BY <1>1, <1>6, <2>2, <3>2 DEF IsThrough, Working
    <3> QED BY <3>1, <3>3, <3>4 DEF SameView
  <2>4. DisksOK' /\ Shape'
    BY <1>1, <1>2, <1>3, <2>3, DisksKept
  <2>5. AtWork'
    BY <1>1, <1>4, <1>6, <1>9, <2>2 DEF AtWork, Working
  <2>6. AgentOK'
    BY <1>1, <1>4, <2>2, <2>a, <2>b DEF AgentOK, Working
  <2> QED BY <1>3, <1>7, <2>4, <2>5, <2>6 DEF IInv
<1> QED BY <1>8, <1>9

(* An agent that gives up or has verified, and then only reports. *)
LEMMA ToReport ==
  ASSUME IInv, UNCHANGED world, order' = order, agent.stage # "idle", AtRest(agent),
         UNCHANGED <<up, completed, data, filled, crashes, faults>>,
         NEW result \in {"done", "error"}, result = "done" => agent.type = "verify",
         agent' = [agent EXCEPT !.stage = "report", !.result = result]
  PROVE  IInv'
<1>1. OrderOK /\ AgentOK /\ Rest /\ DisksOK /\ Shape
  BY DEF IInv
<1>2. OrderOK' /\ PicksOK' /\ SameOrder
  BY OrderKept
<1>3. /\ ~Churned /\ order.run \in Runs /\ up /\ agent.run = order.run /\ agent.type = order.type
      /\ agent.type \in Types /\ order.status # "done" /\ order.run # 0
  BY ChurnedIdle, ConstantsOK DEF Runs
<1>4. agent \in Agents /\ agent.fresh = {} /\ (agent.type = "verify" => agent.changed = {})
  BY <1>1 DEF AgentOK, AtRest
<1>5. /\ agent' \in Agents /\ agent'.stage = "report" /\ agent'.result = result
      /\ agent'.run = agent.run /\ agent'.type = agent.type
      /\ agent'.changed = agent.changed /\ agent'.fresh = {}
  BY <1>4 DEF Agents, Stages
<1>6. ASSUME NEW d \in Disks PROVE SameView(d)
  <2>1. WorkOn(d) = {} /\ FreshOn(d) = {}
    BY <1>1, RestSees
  <2>2. WorkOn(d)' = {} /\ FreshOn(d)' = {} /\ ~IsPlanned(d)' /\ ~IsFilling(d)'
    BY <1>5 DEF WorkOn, FreshOn, Working, IsPlanned, IsFilling
  <2>3. IsThrough(d)' => IsThrough(d)
    BY <1>5 DEF IsThrough, Working, Churned, RunAlreadyComplete, world
  <2> QED BY <2>1, <2>2, <2>3 DEF SameView
<1>7. DisksOK' /\ Shape'
  BY <1>1, <1>2, <1>6, DisksKept
<1>8. AtWork'
  BY <1>5 DEF AtWork, Working
<1>9. AgentOK'
  BY <1>1, <1>3, <1>4, <1>5 DEF AgentOK, Working
<1>10. Rest'
  BY <1>1 DEF Rest
<1> QED BY <1>2, <1>7, <1>8, <1>9, <1>10 DEF IInv

LEMMA RunVerifyKeeps ==
  ASSUME IInv, RunVerify
  PROVE  IInv'
<1>1. PICK result \in {"done", "error"} :
        agent' = [agent EXCEPT !.stage = "report", !.result = result]
  BY DEF RunVerify
<1> QED BY <1>1, ToReport DEF RunVerify, AtRest, row

LEMMA PlanFailsKeeps ==
  ASSUME IInv, PlanFails
  PROVE  IInv'
<1>1. agent' = [agent EXCEPT !.stage = "report", !.result = "error"]
  BY DEF PlanFails
<1> QED BY <1>1, ToReport DEF PlanFails, AtRest, row

(* The agent goes on to the next stage of the same disk. *)
LEMMA NextStage ==
  ASSUME IInv, UNCHANGED world, order' = order, UNCHANGED <<up, completed, data, filled, crashes>>,
         faults' \in 0 .. MaxFaults,
         \/ agent.stage = "jobs" /\ agent.plans[agent.d] = <<>> /\ agent' = [agent EXCEPT !.stage = "identity"]
         \/ agent.stage = "identity" /\ agent' = [agent EXCEPT !.stage = "manifest"]
  PROVE  IInv'
<1>1. OrderOK /\ AgentOK /\ Rest /\ DisksOK /\ Shape /\ AtWork
  BY DEF IInv
<1>2. OrderOK' /\ PicksOK' /\ SameOrder
  BY OrderKept
<1>3. /\ ~Churned /\ order.run \in Runs /\ up /\ agent.run = order.run /\ agent.type = order.type
      /\ agent.type \in Types /\ order.status # "done" /\ order.run # 0
  BY ChurnedIdle, ConstantsOK DEF Runs
<1>4. /\ agent \in Agents /\ agent.fresh = {} /\ agent.d \in Disks /\ agent.type # "verify"
      /\ agent.plans \in [Disks -> Seq(Jobs)] /\ agent.listed \in [Disks -> SUBSET Files]
      /\ agent.result = "none" /\ agent.plans[agent.d] = <<>>
      /\ agent.type # "incremental" => agent.changed = {}
  BY <1>1 DEF AgentOK, Working
<1>5. /\ agent' \in Agents /\ agent'.stage \in {"identity", "manifest"} /\ agent'.result = agent.result
      /\ agent'.run = agent.run /\ agent'.type = agent.type /\ agent'.d = agent.d
      /\ agent'.changed = agent.changed /\ agent'.fresh = agent.fresh
      /\ agent'.plans = agent.plans /\ agent'.listed = agent.listed
  BY <1>4 DEF Agents, Stages
<1>6. agent.stage \in {"jobs", "identity"}
  OBVIOUS
<1>7. disk' = disk
  BY DEF world
<1>8. ASSUME NEW d \in Disks PROVE SameView(d)
  <2>1. WorkOn(d)' = WorkOn(d) /\ FreshOn(d)' = FreshOn(d) /\ ChangedOn(d)' = ChangedOn(d)
    BY <1>5, <1>6 DEF WorkOn, FreshOn, ChangedOn, Working
  <2>2. (IsPlanned(d)' => IsPlanned(d)) /\ (IsFilling(d)' => IsFilling(d))
    BY <1>5, <1>6 DEF IsPlanned, IsFilling, Working
  <2>3. IsThrough(d)' => IsThrough(d)
    BY <1>5, <1>6, <1>7 DEF IsThrough, Working, Churned, RunAlreadyComplete
  <2> QED BY <1>5, <2>1, <2>2, <2>3 DEF SameView
<1>9. DisksOK' /\ Shape'
  BY <1>1, <1>2, <1>8, DisksKept
<1>10. RunAlreadyComplete(order.run)' = RunAlreadyComplete(order.run)
  BY <1>7 DEF RunAlreadyComplete
<1>11. AtWork'
  BY <1>1, <1>5, <1>6, <1>7, <1>10 DEF AtWork, Working
<1>12. AgentOK'
  BY <1>3, <1>4, <1>5 DEF AgentOK, Working
<1>13. Rest'
  BY <1>1 DEF Rest
<1> QED BY <1>2, <1>9, <1>11, <1>12, <1>13 DEF IInv

LEMMA FaultCounted ==
  ASSUME IInv, faults < MaxFaults, faults' = faults + 1
  PROVE  faults' \in 0 .. MaxFaults
<1>1. faults \in 0 .. MaxFaults
  BY DEF IInv, Rest
<1> QED BY <1>1, ConstantsOK

LEMMA DiskWrittenKeeps ==
  ASSUME IInv, DiskWritten
  PROVE  IInv'
<1>1. faults' \in 0 .. MaxFaults
  BY DEF DiskWritten, IInv, Rest
<1> QED BY <1>1, NextStage DEF DiskWritten, row

LEMMA SkipIdentityKeeps ==
  ASSUME IInv, SkipIdentity
  PROVE  IInv'
<1>1. faults' \in 0 .. MaxFaults
  BY FaultCounted DEF SkipIdentity
<1> QED BY <1>1, NextStage DEF SkipIdentity, row

-----------------------------------------------------------------------------
(* The end of an order *)

(* Everything is told or lost, and the agent is free again. *)
LEMMA AgentFreed ==
  ASSUME IInv, agent.stage = "report", agent' = Idle, UNCHANGED world, SameOrder,
         order'.status = "done" /\ order.type # "verify" => agent.result = "done"
  PROVE  DisksOK' /\ Shape' /\ AtWork' /\ AgentOK' /\ PicksOK'
<1>1. AgentOK /\ DisksOK /\ Shape /\ PicksOK
  BY DEF IInv
<1>2. /\ ~Churned /\ order.run \in Runs /\ agent.type = order.type
  BY ChurnedIdle
<1>3. disk' = disk /\ picks' = picks
  BY DEF world
<1>4. ASSUME NEW d \in Disks PROVE SameView(d)
  <2>1. WorkOn(d) = {} /\ FreshOn(d) = {}
    BY <1>1, RestSees DEF AtRest
  <2>2. /\ WorkOn(d)' = {} /\ FreshOn(d)' = {} /\ ~IsPlanned(d)' /\ ~IsFilling(d)'
        /\ IsThrough(d)' => Churned' \/ (order.run # 0 /\ RunAlreadyComplete(order.run))'
    BY IdleSees
  <2>3. (order.run # 0 /\ RunAlreadyComplete(order.run))' => order.run # 0 /\ RunAlreadyComplete(order.run)
    BY <1>3 DEF RunAlreadyComplete, SameOrder
  <2>4. Churned' => agent.result = "done" /\ agent.type # "verify"
    BY <1>2 DEF Churned, SameOrder
  <2>5. IsThrough(d)' => IsThrough(d)
    BY <2>2, <2>3, <2>4 DEF IsThrough
  <2> QED BY <2>1, <2>2, <2>5 DEF SameView
<1>5. DisksOK' /\ Shape'
  BY <1>1, <1>4, DisksKept
<1>6. agent'.stage = "idle" /\ agent' \in Agents /\ agent'.changed = {} /\ agent'.fresh = {}
  BY IdleIs
<1>7. AtWork'
  BY <1>6 DEF AtWork, Working, Idle
<1>8. AgentOK'
  BY <1>6 DEF AgentOK, Working, Idle
<1> QED BY <1>1, <1>3, <1>5, <1>7, <1>8 DEF PicksOK

LEMMA ReportKeeps ==
  ASSUME IInv, Report
  PROVE  IInv'
<1>1. /\ agent.stage = "report" /\ agent' = Idle /\ UNCHANGED world
      /\ UNCHANGED <<up, crashes, faults>>
      /\ completed' = completed \cup {agent.run}
      /\ order' = [order EXCEPT !.status = IF agent.result = "done" THEN "done" ELSE "failed"]
      /\ data' = IF agent.result = "done" /\ agent.type # "verify"
                 THEN [state |-> "filled", run |-> order.run, manifest |-> TRUE] ELSE data
      /\ filled' = (filled \/ (agent.result = "done" /\ agent.type = "initial-fill" /\ order.status = "open"))
  BY DEF Report
<1>2. OrderOK /\ AgentOK /\ Rest
  BY DEF IInv
<1>3. agent.run \in Runs /\ order.run # 0 /\ order.type \in Types
  BY <1>1, ChurnedIdle, ConstantsOK DEF Runs
<1>4. /\ order'.run = order.run /\ order'.type = order.type
      /\ order'.status = IF agent.result = "done" THEN "done" ELSE "failed"
  BY <1>1, <1>2 DEF OrderOK
<1>5. DisksOK' /\ Shape' /\ AtWork' /\ AgentOK' /\ PicksOK'
  BY <1>1, <1>4, AgentFreed DEF SameOrder
<1>6. OrderOK'
  BY <1>1, <1>2, <1>3, <1>4 DEF OrderOK
<1>7. completed' \subseteq Runs
  BY <1>1, <1>2, <1>3 DEF Rest
<1>8. data'.state \in {"unknown", "empty", "partial", "filled"} /\ filled' \in BOOLEAN
  BY <1>1, <1>2 DEF Rest
<1>9. Rest'
  BY <1>1, <1>2, <1>7, <1>8 DEF Rest
<1> QED BY <1>5, <1>6, <1>9 DEF IInv

LEMMA LoseReportKeeps ==
  ASSUME IInv, LoseReport
  PROVE  IInv'
<1>1. /\ agent.stage = "report" /\ agent' = Idle /\ UNCHANGED world
      /\ UNCHANGED <<up, data, filled, crashes>> /\ order' = order
      /\ completed' = completed \cup {agent.run} /\ faults' \in 0 .. MaxFaults
  BY FaultCounted DEF LoseReport, row
<1>2. OrderOK /\ AgentOK /\ Rest
  BY DEF IInv
<1>3. agent.run \in Runs /\ order.status # "done"
  BY <1>1, ChurnedIdle
<1>4. DisksOK' /\ Shape' /\ AtWork' /\ AgentOK' /\ PicksOK'
  BY <1>1, <1>3, AgentFreed DEF SameOrder
<1>5. OrderOK'
  BY <1>1, OrderKept
<1>6. completed' \subseteq Runs
  BY <1>1, <1>2, <1>3 DEF Rest
<1>7. Rest'
  BY <1>1, <1>2, <1>6 DEF Rest
<1> QED BY <1>4, <1>5, <1>7 DEF IInv

(* A global sync of what the agent leaves on the disks. *)
LEMMA FlushDisksKeeps ==
  ASSUME IInv, FlushDisks
  PROVE  IInv'
<1>1. /\ agent.stage = "flush" /\ platter' = [d \in Disks |-> disk[d].manifest]
      /\ agent' = [agent EXCEPT !.stage = "report", !.fresh = {}]
      /\ UNCHANGED <<disk, picks, cutOff, up, completed, data, filled, crashes, faults>>
      /\ order' = order
  BY DEF FlushDisks, row
<1>2. OrderOK /\ AgentOK /\ Rest /\ DisksOK /\ Shape /\ PicksOK
  BY DEF IInv
<1>3. /\ ~Churned /\ order.run \in Runs /\ up /\ agent.run = order.run /\ agent.type = order.type
      /\ agent.type \in Types /\ order.status # "done" /\ order.run # 0
  BY <1>1, ChurnedIdle, ConstantsOK DEF Runs
<1>4. agent \in Agents /\ agent.type # "verify"
      /\ (agent.type # "incremental" => agent.changed = {})
  BY <1>1, <1>2 DEF AgentOK
<1>5. /\ agent' \in Agents /\ agent'.stage = "report" /\ agent'.result = agent.result
      /\ agent'.run = agent.run /\ agent'.type = agent.type
      /\ agent'.changed = agent.changed /\ agent'.fresh = {}
  BY <1>1, <1>4 DEF Agents, Stages
<1>6. PICK r \in Runs : r = order.run
  BY <1>3
<1>7. ASSUME NEW d \in Disks PROVE DiskGood(d)'
  <2>1. WorkOn(d) = {}
    BY <1>1 DEF WorkOn, Working
  <2>2. PICK k, p, cut, pk, type, fresh :
          /\ k = disk[d] /\ p = platter[d] /\ cut = cutOff[d] /\ pk = picks /\ type = order.type
          /\ DiskOK(k, p, cut, pk, r, type, {}, fresh)
    BY <1>2, <1>6, <2>1 DEF DisksOK, DiskGood
  <2>3. DiskOK(k, k.manifest, cut, pk, r, type, {}, {})
    BY <2>2, DiskFlushed, ConstantsOK DEF Runs
  <2>4. platter'[d] = k.manifest /\ disk'[d] = k /\ cutOff'[d] = cut /\ picks' = pk
    BY <1>1, <2>2
  <2>5. WorkOn(d)' = {} /\ FreshOn(d)' = {} /\ ~IsPlanned(d)' /\ ~IsFilling(d)'
    BY <1>5 DEF WorkOn, FreshOn, Working, IsPlanned, IsFilling
  <2>6. IsThrough(d)' => IsThrough(d)
    BY <1>1, <1>5 DEF IsThrough, Working, Churned, RunAlreadyComplete
  <2>7. IsThrough(d)' => Finished(k, k.manifest, r, type)
    <3>1. IsThrough(d) => Finished(k, p, r, type)
      BY <1>2, <1>6, <2>2 DEF DisksOK, DiskGood
    <3> QED BY <2>6, <3>1 DEF Finished
  <2> QED BY <1>1, <1>6, <2>2, <2>3, <2>4, <2>5, <2>7 DEF DiskGood
<1>8. AtWork'
  BY <1>5 DEF AtWork, Working
<1>9. AgentOK'
  BY <1>1, <1>3, <1>4, <1>5 DEF AgentOK, Working
<1>10. Rest' /\ OrderOK' /\ PicksOK' /\ Shape'
  BY <1>1, <1>2 DEF Rest, OrderOK, PicksOK, Shape
<1> QED BY <1>7, <1>8, <1>9, <1>10 DEF IInv, DisksOK

-----------------------------------------------------------------------------
(* Churns that are cut off *)

(* What the agent's churn has written to its disk belongs to its churn.      *)
LEMMA WorkTouched ==
  ASSUME IInv, NEW d \in Disks, d = agent.d, agent.type = "incremental", agent.stage \in Working
  PROVE  WorkOn(d) \subseteq Touched(picks, order.run, agent.listed[d])
<1>1. Planned(disk[d], picks, order.run, agent.plans[d], agent.listed[d], ChangedOn(d), FreshOn(d))
  <2>1. ~(d < agent.d) /\ d >= agent.d
    BY DEF Disks
  <2> QED BY <2>1 DEF IInv, DisksOK, DiskGood, IsPlanned
<1>2. ChangedOn(d) = agent.changed
  BY DEF ChangedOn
<1>3. agent.changed \subseteq Touched(picks, order.run, agent.listed[d])
  BY <1>1, <1>2 DEF Planned
<1>4. ASSUME agent.stage = "writing"
      PROVE  Head(agent.plans[d]).files \subseteq Touched(picks, order.run, agent.listed[d])
  <2>1. agent.plans[d] # <<>> /\ agent.plans \in [Disks -> Seq(Jobs)]
    BY <1>4 DEF IInv, AgentOK, Working
  <2>2. PICK plan : plan = agent.plans[d] /\ ToDo(plan)
    BY <2>1 DEF ToDo
  <2>3. PICK pk, r, L : pk = picks /\ r = order.run /\ L = agent.listed[d]
    OBVIOUS
  <2>4. \A i \in 1 .. Len(plan) : ChurnJob(plan[i], pk, r, L)
    BY <1>1, <2>2, <2>3 DEF Planned
  <2>5. Left(plan) \subseteq Touched(pk, r, L)
    BY <2>4, LeftTouched
  <2>6. Head(plan).files \subseteq Left(plan)
    BY <2>2, PlanSplit
  <2> QED BY <2>2, <2>3, <2>5, <2>6
<1> QED BY <1>3, <1>4 DEF WorkOn

(* So a churn that is recorded as cut off excuses all it has written. *)
LEMMA CutOffExcuses ==
  ASSUME IInv, cutOff' = ChurnCutOff, NEW d \in Disks
  PROVE  Excused(picks, cutOff[d]) \cup WorkOn(d) \subseteq Excused(picks, cutOff'[d])
<1>1. Shape
  BY DEF IInv
<1> DEFINE b == /\ agent.type = "incremental"
                /\ \/ agent.stage = "writing"
                   \/ /\ agent.stage \in {"jobs", "identity", "manifest", "sync"}
                      /\ agent.changed # {}
           c == [run |-> agent.run, listed |-> agent.listed[agent.d]]
<1>2. CASE b
  <2>1. cutOff' = [cutOff EXCEPT ![agent.d] = @ \cup {c}]
    BY <1>2 DEF ChurnCutOff
  <2>2. agent.stage \in Working /\ agent.type = "incremental"
    BY <1>2 DEF Working
  <2>3. CASE d = agent.d
    <3>1. cutOff'[d] = cutOff[d] \cup {c}
      BY <1>1, <2>1, <2>3 DEF Shape
    <3>2. WorkOn(d) \subseteq Touched(picks, order.run, agent.listed[d])
      BY <2>2, <2>3, WorkTouched
    <3>3. c.run = order.run /\ c.listed = agent.listed[d]
      BY <2>2, <2>3, ChurnedIdle DEF Working
    <3> HIDE DEF c
    <3>4. Touched(picks, c.run, c.listed) \subseteq Excused(picks, cutOff'[d])
      BY <3>1 DEF Excused
    <3>5. Excused(picks, cutOff[d]) \subseteq Excused(picks, cutOff'[d])
      BY <3>1 DEF Excused
    <3> QED BY <3>2, <3>3, <3>4, <3>5
  <2>4. CASE d # agent.d
    BY <1>1, <2>1, <2>4 DEF Shape, WorkOn
  <2> QED BY <2>3, <2>4
<1>3. CASE ~b
  <2>1. cutOff' = cutOff
    BY <1>3 DEF ChurnCutOff
  <2>2. WorkOn(d) = {}
    BY <1>3 DEF WorkOn, Working
  <2> QED BY <2>1, <2>2
<1> QED BY <1>2, <1>3

LEMMA StepFailsKeeps ==
  ASSUME IInv, StepFails
  PROVE  IInv'
<1>1. /\ agent.stage \in {"mkfs", "writing", "manifest"} /\ cutOff' = ChurnCutOff
      /\ agent' = [agent EXCEPT !.stage = "flush", !.result = "error"]
      /\ UNCHANGED <<disk, platter, picks, up, completed, data, filled, crashes>>
      /\ order' = order /\ faults' \in 0 .. MaxFaults
  BY FaultCounted DEF StepFails, row
<1>2. OrderOK /\ AgentOK /\ Rest /\ DisksOK /\ Shape /\ PicksOK
  BY DEF IInv
<1>3. /\ ~Churned /\ order.run \in Runs /\ up /\ agent.run = order.run /\ agent.type = order.type
      /\ agent.type \in Types /\ order.status # "done" /\ order.run # 0
  BY <1>1, ChurnedIdle, ConstantsOK DEF Runs
<1>4. agent \in Agents /\ agent.type # "verify"
      /\ (agent.type # "incremental" => agent.changed = {})
  BY <1>1, <1>2 DEF AgentOK, Working
<1>5. /\ agent' \in Agents /\ agent'.stage = "flush" /\ agent'.result = "error"
      /\ agent'.run = agent.run /\ agent'.type = agent.type /\ agent'.d = agent.d
      /\ agent'.changed = agent.changed /\ agent'.fresh = agent.fresh
  BY <1>1, <1>4 DEF Agents, Stages
<1>6. ASSUME NEW d \in Disks PROVE DiskGood(d)'
  <2>1. PICK k, p, cut, pk, r, type, work, fresh :
          /\ k = disk[d] /\ p = platter[d] /\ cut = cutOff[d] /\ pk = picks
          /\ r = order.run /\ type = order.type /\ work = WorkOn(d) /\ fresh = FreshOn(d)
          /\ DiskOK(k, p, cut, pk, r, type, work, fresh)
    BY <1>2 DEF DisksOK, DiskGood
  <2>2. PICK cut2 : cut2 = cutOff'[d]
    OBVIOUS
  <2>3. Excused(pk, cut) \cup work \subseteq Excused(pk, cut2) \cup {}
    BY <1>1, <2>1, <2>2, CutOffExcuses
  <2>4. DiskOK(k, p, cut2, pk, r, type, {}, fresh)
    BY <2>1, <2>3, DiskExcused
  <2>5. WorkOn(d)' = {} /\ FreshOn(d)' = FreshOn(d) /\ ~IsPlanned(d)' /\ ~IsFilling(d)'
    BY <1>5 DEF WorkOn, FreshOn, Working, IsPlanned, IsFilling
  <2>6. IsThrough(d)' => IsThrough(d)
    BY <1>1, <1>5 DEF IsThrough, Working, Churned, RunAlreadyComplete
  <2>7. IsThrough(d)' => Finished(k, p, r, type)
    BY <1>2, <2>1, <2>6 DEF DisksOK, DiskGood
  <2> QED BY <1>1, <2>1, <2>2, <2>4, <2>5, <2>7 DEF DiskGood
<1>7. AtWork'
  BY <1>5 DEF AtWork, Working
<1>8. AgentOK'
  BY <1>1, <1>3, <1>4, <1>5 DEF AgentOK, Working
<1>9. DOMAIN cutOff' = Disks
  BY <1>1, <1>2 DEF ChurnCutOff, Shape
<1>10. Rest' /\ OrderOK' /\ PicksOK' /\ Shape'
  BY <1>1, <1>2, <1>9 DEF Rest, OrderOK, PicksOK, Shape
<1> QED BY <1>6, <1>7, <1>8, <1>10 DEF IInv, DisksOK

-----------------------------------------------------------------------------
(* Power cuts *)

(* The disk the agent stands at. *)
LEMMA AgentDiskIs ==
  ASSUME IInv, agent.stage \in Working
  PROVE  \E d \in Disks, r \in Runs, plan \in Seq(Jobs), L \in SUBSET Files :
           /\ d = agent.d /\ r = order.run /\ r = agent.run
           /\ plan = agent.plans[d] /\ L = agent.listed[d]
           /\ order.type = agent.type /\ agent.type \in {"initial-fill", "incremental"}
           /\ FreshOn(d) = agent.fresh /\ ChangedOn(d) = agent.changed
           /\ DiskOK(disk[d], platter[d], cutOff[d], picks, r, agent.type, WorkOn(d), agent.fresh)
           /\ agent.type = "incremental" =>
                Planned(disk[d], picks, r, plan, L, agent.changed, agent.fresh)
           /\ agent.type = "initial-fill" => Filling(disk[d], platter[d], r, plan) /\ WorkOn(d) = {}
           /\ disk[d].fs
<1>1. agent.d \in Disks /\ agent.plans \in [Disks -> Seq(Jobs)] /\ agent.listed \in [Disks -> SUBSET Files]
      /\ agent.type # "verify"
  BY DEF IInv, AgentOK
<1>2. order.run \in Runs /\ order.run = agent.run /\ order.type = agent.type /\ agent.type \in Types
  BY ChurnedIdle DEF Working
<1>3. PICK d \in Disks, r \in Runs, plan \in Seq(Jobs), L \in SUBSET Files :
        d = agent.d /\ r = order.run /\ plan = agent.plans[d] /\ L = agent.listed[d]
  BY <1>1, <1>2
<1>4. FreshOn(d) = agent.fresh /\ ChangedOn(d) = agent.changed
  BY <1>3 DEF FreshOn, ChangedOn
<1>5. DiskGood(d)
  BY DEF IInv, DisksOK
<1>6. d >= agent.d
  BY <1>3 DEF Disks
<1>7. agent.type \in {"initial-fill", "incremental"}
  BY <1>1, <1>2 DEF Types
<1>8. DiskOK(disk[d], platter[d], cutOff[d], picks, r, agent.type, WorkOn(d), agent.fresh)
  BY <1>2, <1>3, <1>4, <1>5 DEF DiskGood
<1>9. agent.type = "incremental" => Planned(disk[d], picks, r, plan, L, agent.changed, agent.fresh)
  BY <1>3, <1>4, <1>5, <1>6 DEF DiskGood, IsPlanned
<1>10. agent.type = "initial-fill" => Filling(disk[d], platter[d], r, plan) /\ WorkOn(d) = {}
  BY <1>3, <1>5 DEF DiskGood, IsFilling, WorkOn
<1>11. disk[d].fs
  BY <1>7, <1>9, <1>10 DEF Planned, Filling
<1> QED BY <1>2, <1>3, <1>4, <1>7, <1>8, <1>9, <1>10, <1>11

(* A disk that is written is ready for its identity. *)
LEMMA IdentityReady ==
  ASSUME IInv, agent.stage \in Working \ {"jobs", "writing"}, NEW d \in Disks, d = agent.d
  PROVE  /\ agent.fresh = {} /\ disk[d].fs
         /\ ChangePercent > 0 => Origin(disk[d], {})
<1>1. agent.fresh = {} /\ agent.plans[agent.d] = <<>>
  BY DEF IInv, AgentOK, Working
<1>2. PICK r \in Runs, L \in SUBSET Files :
        /\ agent.type \in {"initial-fill", "incremental"}
        /\ DiskOK(disk[d], platter[d], cutOff[d], picks, r, agent.type, WorkOn(d), {})
        /\ agent.type = "incremental" => Planned(disk[d], picks, r, <<>>, L, agent.changed, {})
        /\ agent.type = "initial-fill" => Filling(disk[d], platter[d], r, <<>>)
        /\ disk[d].fs
  BY <1>1, AgentDiskIs
<1>3. PICK k, p, cut, pk, work, changed :
        k = disk[d] /\ p = platter[d] /\ cut = cutOff[d] /\ pk = picks /\ work = WorkOn(d)
        /\ changed = agent.changed
  OBVIOUS
<1>4. CASE agent.type = "incremental"
  <2>1. DiskOK(k, p, cut, pk, r, "incremental", work, {}) /\ Planned(k, pk, r, <<>>, L, changed, {})
    BY <1>2, <1>3, <1>4
  <2>2. ChangePercent > 0 => Origin(k, {})
    BY <2>1, PlannedDone
  <2> QED BY <1>1, <1>2, <1>3, <2>2
<1>5. CASE agent.type = "initial-fill"
  <2>1. Filling(k, p, r, <<>>)
    BY <1>2, <1>3, <1>5
  <2>2. Origin(k, {})
    BY <2>1, FilledDone
  <2> QED BY <1>1, <1>2, <1>3, <2>2
<1> QED BY <1>2, <1>4, <1>5

(* Every disk is finished when the markers are written. *)
LEMMA MarkerReady ==
  ASSUME IInv, agent.stage = "marking", NEW d \in Disks
  PROVE  /\ agent.fresh = {} /\ agent.d \in Disks /\ disk[d].fs
         /\ Finished(disk[d], platter[d], order.run, order.type)
         /\ ChangePercent > 0 => Origin(disk[d], {})
<1>1. agent.fresh = {} /\ agent.d \in Disks
  BY DEF IInv, AgentOK
<1>2. Finished(disk[d], platter[d], order.run, order.type)
  BY DEF IInv, DisksOK, DiskGood, IsThrough
<1>t. order.type \in Types
  BY DEF IInv, OrderOK
<1>u. PICK type \in Types : type = order.type
  BY <1>t
<1>3. PICK k, p, r : k = disk[d] /\ p = platter[d] /\ r = order.run
  OBVIOUS
<1>4. k.fs /\ (ChangePercent > 0 => Origin(k, {}))
  BY <1>2, <1>3, <1>u, FinishedOrigin
<1> QED BY <1>1, <1>2, <1>3, <1>4

(* Disk d takes what a power cut leaves of it, and the manifest m. *)
CutTo(d, gone, id, marker, m) ==
  platter'[d] = m /\ disk'[d] = [AfterPowerCut(d, gone, id, marker) EXCEPT !.manifest = m]

LEMMA PowerCutDisk ==
  ASSUME IInv, NEW d \in Disks, NEW gone \in SUBSET agent.fresh, NEW id \in BOOLEAN,
         NEW marker \in {"old", "empty", "new"}, NEW m \in {disk[d].manifest, platter[d]},
         CutTo(d, gone, id, marker, m), cutOff' = ChurnCutOff
  PROVE  /\ DiskOK(disk'[d], platter'[d], cutOff'[d], picks, order.run, order.type, {}, {})
         /\ Finished(disk[d], platter[d], order.run, order.type) /\ FreshOn(d) = {} =>
              Finished(disk'[d], platter'[d], order.run, order.type)
         /\ disk'[d].fs = disk[d].fs
         /\ agent.stage # "marking" => disk'[d].marker = disk[d].marker
<1>a. order.run \in 0 .. MaxRuns
  BY DEF IInv, OrderOK
<1>b. DiskOK(disk[d], platter[d], cutOff[d], picks, order.run, order.type, WorkOn(d), FreshOn(d))
  BY DEF IInv, DisksOK, DiskGood
<1>r. PICK r \in 0 .. MaxRuns : r = order.run
  BY <1>a
<1>1. PICK k, p, cut, pk, type, work, fresh :
        /\ k = disk[d] /\ p = platter[d] /\ cut = cutOff[d] /\ pk = picks
        /\ r = order.run /\ type = order.type /\ work = WorkOn(d) /\ fresh = FreshOn(d)
        /\ DiskOK(k, p, cut, pk, r, type, work, fresh)
  BY <1>b, <1>r
<1>2. k \in DiskRecords /\ AgesOK(k, r, type) /\ StampOK(k, fresh)
  BY <1>1 DEF DiskOK, Sane
<1>3. k.id \in BOOLEAN /\ k.marker \in 0 .. MaxRuns /\ k.marker <= r /\ 0 \in 0 .. MaxRuns /\ 0 <= r /\ r <= r
  BY <1>2, DiskFields, ConstantsOK DEF AgesOK
<1>4. PICK cut2 : cut2 = cutOff'[d] /\ Excused(pk, cut) \cup work \subseteq Excused(pk, cut2)
  BY <1>1, CutOffExcuses
<1>5. PICK lost : lost = (IF d = agent.d THEN gone ELSE {}) /\ lost \subseteq fresh
  BY <1>1 DEF FreshOn
<1>c. lost \subseteq fresh
  BY <1>5
<1>6. PICK kept \in SUBSET DOMAIN k.files :
        kept = DOMAIN k.files \ lost /\ DOMAIN k.files \ fresh \subseteq kept
  <2>1. DOMAIN k.files \ lost \in SUBSET DOMAIN k.files
    OBVIOUS
  <2>2. DOMAIN k.files \ fresh \subseteq DOMAIN k.files \ lost
    BY <1>c
  <2> QED BY <2>1, <2>2
<1>7. agent.stage = "marking" => agent.run = r
  BY <1>1, ChurnedIdle
<1>8. PICK id2 : id2 = IF d = agent.d /\ agent.stage = "identity" THEN id ELSE k.id
  OBVIOUS
<1>9. PICK marker2 : marker2 =
        IF d = agent.d /\ agent.stage = "marking"
        THEN CASE marker = "old" -> k.marker [] marker = "empty" -> 0 [] OTHER -> agent.run
        ELSE k.marker
  OBVIOUS
<1>10. id2 \in BOOLEAN
  BY <1>3, <1>8
<1>11. marker2 \in {k.marker, 0, r} /\ (agent.stage # "marking" => marker2 = k.marker)
  BY <1>7, <1>9
<1>12. marker2 \in 0 .. MaxRuns /\ marker2 <= r
  BY <1>3, <1>11
<1>13. ASSUME id2 = k.id /\ marker2 = k.marker
       PROVE  /\ ~k.fs => id2 = k.id /\ marker2 = k.marker
              /\ id2 \/ marker2 # 0 => k.id \/ k.marker # 0 \/ fresh = {}
              /\ ChangePercent > 0 /\ k.fs /\ (id2 \/ marker2 # 0) => Origin(k, fresh)
  <2>1. ~k.fs => id2 = k.id /\ marker2 = k.marker
    BY <1>13
  <2>2. id2 \/ marker2 # 0 => k.id \/ k.marker # 0 \/ fresh = {}
    BY <1>13
  <2>3. ChangePercent > 0 /\ k.fs /\ (id2 \/ marker2 # 0) => Origin(k, fresh)
    BY <1>2, <1>13 DEF StampOK
  <2> QED BY <2>1, <2>2, <2>3
<1>14. ASSUME ~(id2 = k.id /\ marker2 = k.marker)
       PROVE  k.fs /\ fresh = {} /\ (ChangePercent > 0 => Origin(k, fresh))
  <2>1. d = agent.d /\ agent.stage \in {"identity", "marking"}
    BY <1>8, <1>9, <1>14
  <2>2. fresh = agent.fresh
    BY <1>1, <2>1 DEF FreshOn
  <2>3. CASE agent.stage = "identity"
    BY <1>1, <2>1, <2>2, <2>3, IdentityReady DEF Working
  <2>4. CASE agent.stage = "marking"
    BY <1>1, <2>1, <2>2, <2>4, MarkerReady
  <2> QED BY <2>1, <2>3, <2>4
<1>15. /\ ~k.fs => id2 = k.id /\ marker2 = k.marker
       /\ id2 \/ marker2 # 0 => k.id \/ k.marker # 0 \/ fresh = {}
       /\ ChangePercent > 0 /\ k.fs /\ (id2 \/ marker2 # 0) => Origin(k, fresh)
  BY <1>13, <1>14
<1>16. m \in {k.manifest, p}
  BY <1>1
<1>17. PICK c : c = CutDisk(k, kept, m, id2, marker2)
  OBVIOUS
<1>18. /\ DiskOK(c, m, cut2, pk, r, type, {}, {})
       /\ Finished(k, p, r, type) /\ fresh = {} => Finished(c, m, r, type)
  <2>1. DiskOK(k, p, cut, pk, r, type, work, fresh)
    BY <1>1
  <2>2. kept \in SUBSET DOMAIN k.files /\ DOMAIN k.files \ fresh \subseteq kept
    BY <1>6
  <2>3. Excused(pk, cut) \cup work \subseteq Excused(pk, cut2)
    BY <1>4
  <2> QED BY <2>1, <2>2, <2>3, <1>10, <1>12, <1>15, <1>16, <1>17, DiskCut
<1>19. disk'[d] = c
  <2> DEFINE files == [f \in kept |-> k.files[f]]
             a == [k EXCEPT !.files = files, !.id = id2, !.marker = marker2]
             b == [a EXCEPT !.manifest = m]
  <2>1. disk'[d] = b
    BY <1>1, <1>5, <1>6, <1>8, <1>9 DEF AfterPowerCut, CutTo
  <2> HIDE DEF files
  <2>2. a \in [fs : {k.fs}, files : {files}, manifest : Manifests, id : {id2}, marker : {marker2}]
    BY <1>2 DEF DiskRecords
  <2> HIDE DEF a
  <2>3. b \in [fs : {k.fs}, files : {files}, manifest : {m}, id : {id2}, marker : {marker2}]
    BY <2>2
  <2> HIDE DEF b
  <2>4. b = [fs |-> k.fs, files |-> files, manifest |-> m, id |-> id2, marker |-> marker2]
    BY <2>3
  <2> QED BY <1>17, <2>1, <2>4 DEF CutDisk, files
<1>20. c.fs = k.fs /\ c.marker = marker2
  BY <1>17 DEF CutDisk
<1>21. platter'[d] = m
  BY DEF CutTo
<1> QED BY <1>1, <1>4, <1>11, <1>18, <1>19, <1>20, <1>21

LEMMA PowerCutKeeps ==
  ASSUME IInv, PowerCut, crashes' \in 0 .. MaxCrashes
  PROVE  IInv'
<1>1. /\ cutOff' = ChurnCutOff /\ agent' = Idle /\ up' = FALSE /\ completed' = {}
      /\ picks' = picks /\ order' = order /\ UNCHANGED <<data, filled, faults>>
  BY DEF PowerCut, row
<1>2. PICK gone \in SUBSET agent.fresh, id \in BOOLEAN, marker \in {"old", "empty", "new"},
           kept \in SUBSET Disks :
        LET left == [d \in Disks |-> IF d \in kept THEN disk[d].manifest ELSE platter[d]] IN
        /\ disk' = [d \in Disks |->
             [AfterPowerCut(d, gone, id, marker) EXCEPT !.manifest = left[d]]]
        /\ platter' = left
  BY DEF PowerCut
<1>3. OrderOK /\ AgentOK /\ Rest /\ DisksOK /\ Shape /\ PicksOK /\ AtWork
  BY DEF IInv
<1>4. ASSUME NEW d \in Disks
      PROVE  /\ DiskOK(disk'[d], platter'[d], cutOff'[d], picks, order.run, order.type, {}, {})
             /\ Finished(disk[d], platter[d], order.run, order.type) /\ FreshOn(d) = {} =>
                  Finished(disk'[d], platter'[d], order.run, order.type)
             /\ disk'[d].fs = disk[d].fs
             /\ agent.stage # "marking" => disk'[d].marker = disk[d].marker
  <2>1. PICK m \in {disk[d].manifest, platter[d]} :
          m = IF d \in kept THEN disk[d].manifest ELSE platter[d]
    OBVIOUS
  <2>2. platter'[d] = m
    BY <1>2, <2>1
  <2>3. disk'[d] = [AfterPowerCut(d, gone, id, marker) EXCEPT !.manifest = m]
    <3>1. disk'[d] = [AfterPowerCut(d, gone, id, marker) EXCEPT !.manifest = platter'[d]]
      BY <1>2
    <3> QED BY <2>2, <3>1
  <2>4. CutTo(d, gone, id, marker, m)
    BY <2>2, <2>3 DEF CutTo
  <2> QED BY <1>1, <2>4, PowerCutDisk
<1>5. ASSUME NEW d \in Disks, IsThrough(d)'
      PROVE  IsThrough(d) /\ FreshOn(d) = {}
  <2>1. Churned' \/ (order.run # 0 /\ RunAlreadyComplete(order.run))'
    BY <1>1, <1>5, IdleSees
  <2>2. IsThrough(d)
    <3>1. CASE Churned'
      BY <1>1, <3>1 DEF Churned, IsThrough
    <3>2. CASE agent.stage = "marking"
      BY <3>2 DEF IsThrough
    <3>3. CASE agent.stage # "marking" /\ (order.run # 0 /\ RunAlreadyComplete(order.run))'
      <4>1. order.run # 0 /\ \A x \in Disks : disk'[x].fs /\ disk'[x].marker = order.run
        BY <1>1, <3>3 DEF RunAlreadyComplete
      <4>2. RunAlreadyComplete(order.run)
        BY <1>4, <3>3, <4>1 DEF RunAlreadyComplete
      <4> QED BY <4>1, <4>2 DEF IsThrough
    <3> QED BY <2>1, <3>1, <3>2, <3>3
  <2>3. PICK k, p, cut, pk, r, type, work, fresh :
          /\ k = disk[d] /\ p = platter[d] /\ fresh = FreshOn(d)
          /\ Finished(k, p, r, type) /\ DiskOK(k, p, cut, pk, r, type, work, fresh)
    BY <1>3, <2>2 DEF DisksOK, DiskGood
  <2>4. /\ DOMAIN p.sums = DOMAIN k.files /\ DOMAIN p.sums \subseteq DOMAIN k.files \ fresh
        /\ fresh \subseteq DOMAIN k.files
    BY <2>3 DEF DiskOK, SumsOK, FreshOK, Finished
  <2> QED BY <2>2, <2>3, <2>4
<1>6. ASSUME NEW d \in Disks PROVE DiskGood(d)'
  <2>1. WorkOn(d)' = {} /\ FreshOn(d)' = {} /\ ~IsPlanned(d)' /\ ~IsFilling(d)'
    BY <1>1, IdleSees
  <2>2. IsThrough(d)' => Finished(disk'[d], platter'[d], order.run, order.type)
    <3> SUFFICES ASSUME IsThrough(d)' PROVE Finished(disk'[d], platter'[d], order.run, order.type)
      OBVIOUS
    <3>1. IsThrough(d) /\ FreshOn(d) = {}
      BY <1>5
    <3>2. Finished(disk[d], platter[d], order.run, order.type)
      BY <1>3, <3>1 DEF DisksOK, DiskGood
    <3> QED BY <1>4, <3>1, <3>2
  <2> QED BY <1>1, <1>4, <2>1, <2>2 DEF DiskGood
<1>7. agent'.stage = "idle" /\ agent' \in Agents /\ agent'.changed = {} /\ agent'.fresh = {}
  BY <1>1, IdleIs
<1>8. AtWork'
  BY <1>7 DEF AtWork, Working, Idle
<1>9. AgentOK'
  BY <1>1, <1>7 DEF AgentOK, Working, Idle
<1>10. OrderOK'
  <2>1. order.run = 0 => \A d \in Disks : ~disk'[d].fs
    BY <1>3, <1>4 DEF OrderOK
  <2> QED BY <1>1, <1>3, <2>1 DEF OrderOK
<1>11. DOMAIN disk' = Disks /\ DOMAIN platter' = Disks /\ DOMAIN cutOff' = Disks
  BY <1>1, <1>2, <1>3 DEF ChurnCutOff, Shape
<1>12. Rest' /\ PicksOK' /\ Shape'
  BY <1>1, <1>3, <1>11 DEF Rest, PicksOK, Shape
<1> QED BY <1>6, <1>8, <1>9, <1>10, <1>12 DEF IInv, DisksOK

LEMMA CrashKeeps ==
  ASSUME IInv, Crash
  PROVE  IInv'
<1>1. crashes \in 0 .. MaxCrashes /\ crashes < MaxCrashes /\ crashes' = crashes + 1
  BY DEF Crash, IInv, Rest
<1>2. crashes' \in 0 .. MaxCrashes
  BY <1>1, ConstantsOK
<1> QED BY <1>2, PowerCutKeeps DEF Crash

LEMMA PowerOffKeeps ==
  ASSUME IInv, PowerOff
  PROVE  IInv'
<1>1. crashes' \in 0 .. MaxCrashes
  BY DEF PowerOff, IInv, Rest
<1> QED BY <1>1, PowerCutKeeps DEF PowerOff

-----------------------------------------------------------------------------
(* The agent at work on one disk *)

LEMMA MarkersKept ==
  ASSUME SameOrder,
         \A d \in Disks : disk'[d].fs = disk[d].fs /\ disk'[d].marker = disk[d].marker
  PROVE  RunAlreadyComplete(order.run)' = RunAlreadyComplete(order.run)
BY DEF RunAlreadyComplete, SameOrder

(* The order, and the agent and its disk, while only files are written. *)
WorkGoesOn ==
  /\ agent.stage \in Working /\ agent'.stage \in Working
  /\ agent'.run = agent.run /\ agent'.type = agent.type /\ agent'.d = agent.d
  /\ agent'.result = agent.result /\ agent'.listed = agent.listed
  /\ \A d \in Disks \ {agent.d} : agent'.plans[d] = agent.plans[d]
  /\ order' = order /\ picks' = picks /\ up' = up
  /\ \A d \in Disks \ {agent.d} : SameDisk(d)
  /\ disk'[agent.d].fs = disk[agent.d].fs /\ disk'[agent.d].marker = disk[agent.d].marker

LEMMA CompleteKept ==
  ASSUME IInv, WorkGoesOn
  PROVE  ~RunAlreadyComplete(order.run)' /\ ~Churned' /\ SameOrder
<1>1. ~RunAlreadyComplete(order.run) /\ ~Churned
  BY ChurnedIdle DEF WorkGoesOn, IInv, AtWork, Working
<1>2. SameOrder
  BY DEF WorkGoesOn, SameOrder
<1>3. \A d \in Disks : disk'[d].fs = disk[d].fs /\ disk'[d].marker = disk[d].marker
  BY DEF WorkGoesOn, SameDisk
<1>4. RunAlreadyComplete(order.run)' = RunAlreadyComplete(order.run)
  BY <1>2, <1>3, MarkersKept
<1>5. Churned' = Churned
  BY DEF WorkGoesOn, Churned
<1> QED BY <1>1, <1>2, <1>4, <1>5

LEMMA OthersKept ==
  ASSUME IInv, WorkGoesOn, NEW d \in Disks, d # agent.d
  PROVE  DiskGood(d)'
<1>1. SameDisk(d) /\ SameOrder /\ picks' = picks /\ DiskGood(d)
  BY DEF WorkGoesOn, IInv, DisksOK, SameOrder
<1>2. WorkOn(d)' = WorkOn(d) /\ FreshOn(d)' = FreshOn(d) /\ ChangedOn(d)' = ChangedOn(d)
  BY DEF WorkGoesOn, WorkOn, FreshOn, ChangedOn
<1>3. agent'.plans[d] = agent.plans[d] /\ agent'.listed[d] = agent.listed[d]
  BY DEF WorkGoesOn
<1>4. (IsPlanned(d)' => IsPlanned(d)) /\ (IsFilling(d)' => IsFilling(d))
  BY DEF WorkGoesOn, IsPlanned, IsFilling, Working
<1>5. IsThrough(d)' => IsThrough(d)
  <2>1. IsThrough(d)' => d < agent.d
    BY CompleteKept DEF WorkGoesOn, IsThrough, Working
  <2> QED BY <2>1 DEF WorkGoesOn, IsThrough, Working
<1>6. SameView(d)
  BY <1>2, <1>3, <1>4, <1>5 DEF SameView
<1> QED BY <1>1, <1>6, DiskKept

(* The agent's own disk: neither finished nor another's. *)
LEMMA OwnDisk ==
  ASSUME IInv, WorkGoesOn, NEW d \in Disks, d = agent.d
  PROVE  /\ ~IsThrough(d)'
         /\ FreshOn(d)' = agent'.fresh /\ ChangedOn(d)' = agent'.changed
         /\ IsFilling(d)' <=> agent.type = "initial-fill"
         /\ IsPlanned(d)' <=> agent.type = "incremental"
         /\ agent.type # "incremental" => WorkOn(d)' = {}
         /\ agent.type = "incremental" =>
              WorkOn(d)' = IF agent'.stage = "writing" THEN agent'.changed \cup Head(agent'.plans[d]).files
                           ELSE agent'.changed
<1>1. /\ agent'.d = d /\ agent'.stage \in Working /\ agent'.type = agent.type
      /\ ~(d < d) /\ d >= d
  BY DEF WorkGoesOn, Disks
<1>2. ~IsThrough(d)'
  BY <1>1, CompleteKept DEF IsThrough, Working
<1>3. FreshOn(d)' = agent'.fresh /\ ChangedOn(d)' = agent'.changed
  BY <1>1 DEF FreshOn, ChangedOn
<1>4. (IsFilling(d)' <=> agent.type = "initial-fill") /\ (IsPlanned(d)' <=> agent.type = "incremental")
  BY <1>1 DEF IsFilling, IsPlanned, Working
<1>5. agent.type # "incremental" => WorkOn(d)' = {}
  BY <1>1 DEF WorkOn
<1>6. agent.type = "incremental" =>
        WorkOn(d)' = IF agent'.stage = "writing" THEN agent'.changed \cup Head(agent'.plans[d]).files
                     ELSE agent'.changed
  BY <1>1 DEF WorkOn
<1> QED BY <1>2, <1>3, <1>4, <1>5, <1>6

LEMMA AgentGoesOn ==
  ASSUME IInv, WorkGoesOn, agent' \in Agents, agent'.plans \in [Disks -> Seq(Jobs)],
         agent.type # "incremental" => agent'.changed = {},
         agent'.stage # "writing" => agent'.fresh = {},
         agent'.stage \in Working \ {"jobs", "writing"} => agent'.plans[agent.d] = <<>>,
         agent'.stage = "writing" => agent'.plans[agent.d] # <<>>
  PROVE  AgentOK' /\ OrderOK' /\ PicksOK'
<1>1. /\ AgentOK /\ OrderOK /\ PicksOK
      /\ agent.type # "verify" /\ agent.d \in Disks /\ agent.result = "none"
      /\ agent.listed \in [Disks -> SUBSET Files]
  BY DEF WorkGoesOn, IInv, AgentOK
<1>2. /\ order.run # 0 /\ order.status # "done" /\ up
      /\ agent.run = order.run /\ agent.type = order.type
  BY ChurnedIdle, ConstantsOK DEF WorkGoesOn, Working, Runs
<1>3. AgentOK'
  BY <1>1, <1>2 DEF WorkGoesOn, AgentOK, Working
<1>4. OrderOK'
  BY <1>1, <1>2 DEF WorkGoesOn, OrderOK
<1>5. PicksOK'
  BY <1>1 DEF WorkGoesOn, PicksOK
<1> QED BY <1>3, <1>4, <1>5

LEMMA WrittenIs ==
  ASSUME Shape, NEW d \in Disks, d = agent.d, disk[d] \in DiskRecords,
         NEW files \in SUBSET Files, NEW content \in Contents,
         disk' = [disk EXCEPT ![d].files = Written(d, files, content)]
  PROVE  /\ WrittenBy(disk'[d], disk[d], files, content)
         /\ \A x \in Disks \ {d} : disk'[x] = disk[x]
         /\ DOMAIN disk' = Disks
<1>1. DOMAIN disk = Disks
  BY DEF Shape
<1>2. PICK k \in DiskRecords : k = disk[d]
  OBVIOUS
<1>3. Written(d, files, content) = Over(files, content, k.files)
  BY <1>2 DEF Written, Over
<1> DEFINE new == Over(files, content, k.files)
<1> HIDE DEF new
<1>4. disk' = [disk EXCEPT ![d].files = new]
  BY <1>3 DEF new
<1>5. disk'[d] = [k EXCEPT !.files = new]
  BY <1>1, <1>2, <1>4
<1>6. WrittenBy([k EXCEPT !.files = new], k, files, content)
  BY DiskWith DEF new
<1>7. \A x \in Disks \ {d} : disk'[x] = disk[x]
  BY <1>1, <1>4
<1>8. DOMAIN disk' = Disks
  BY <1>1, <1>4
<1> QED BY <1>2, <1>5, <1>6, <1>7, <1>8

LEMMA BeginJobKeeps ==
  ASSUME IInv, BeginJob
  PROVE  IInv'
<1>1. /\ agent.stage = "jobs" /\ agent.plans[agent.d] # <<>>
      /\ disk' = [disk EXCEPT ![agent.d].files =
                    Written(agent.d, Head(agent.plans[agent.d]).files, HalfWritten)]
      /\ agent' = [agent EXCEPT !.stage = "writing",
                     !.fresh = Head(agent.plans[agent.d]).files \ DOMAIN disk[agent.d].files]
      /\ UNCHANGED <<platter, picks, cutOff, up, completed, data, filled, crashes, faults>>
      /\ order' = order
  BY DEF BeginJob, row
<1>2. OrderOK /\ AgentOK /\ Rest /\ DisksOK /\ Shape /\ PicksOK /\ AtWork
  BY DEF IInv
<1>3. agent.stage \in Working /\ agent.fresh = {}
  BY <1>1, <1>2 DEF AgentOK, Working
<1>4. PICK d \in Disks, r \in Runs, plan \in Seq(Jobs), L \in SUBSET Files :
        /\ d = agent.d /\ r = order.run /\ r = agent.run
        /\ plan = agent.plans[d] /\ L = agent.listed[d]
        /\ order.type = agent.type /\ agent.type \in {"initial-fill", "incremental"}
        /\ DiskOK(disk[d], platter[d], cutOff[d], picks, r, agent.type, WorkOn(d), {})
        /\ agent.type = "incremental" => Planned(disk[d], picks, r, plan, L, agent.changed, {})
        /\ agent.type = "initial-fill" => Filling(disk[d], platter[d], r, plan) /\ WorkOn(d) = {}
        /\ disk[d].fs
  BY <1>3, AgentDiskIs
<1>5. ToDo(plan)
  BY <1>1, <1>4 DEF ToDo
<1>6. PICK head \in Jobs : head = Head(plan)
  BY <1>5, PlanSplit
<1>7. head.files \in SUBSET Files
  BY DEF Jobs
<1>8. PICK half \in Contents :
        /\ half = HalfWritten
        /\ half = Content(r, IF agent.type = "initial-fill" THEN "unwritten" ELSE "torn", 0)
  <2>1. Content(r, "unwritten", 0) \in Contents /\ Content(r, "torn", 0) \in Contents
    BY DEF Content, Contents
  <2>2. HalfWritten = Content(r, IF agent.type = "initial-fill" THEN "unwritten" ELSE "torn", 0)
    BY <1>4 DEF HalfWritten
  <2> QED BY <2>1, <2>2
<1>9. PICK k, p, cut, pk, changed :
        k = disk[d] /\ p = platter[d] /\ cut = cutOff[d] /\ pk = picks /\ changed = agent.changed
  OBVIOUS
<1>10. k \in DiskRecords
  BY <1>4, <1>9 DEF DiskOK, Sane
<1>11. disk' = [disk EXCEPT ![d].files = Written(d, head.files, half)]
  BY <1>1, <1>4, <1>6, <1>8
<1>12. PICK k2 : k2 = disk'[d]
  OBVIOUS
<1>13. WrittenBy(k2, k, head.files, half) /\ (\A x \in Disks \ {d} : disk'[x] = disk[x]) /\ DOMAIN disk' = Disks
  <2>1. d = agent.d /\ disk[d] \in DiskRecords /\ Shape
    BY <1>2, <1>4, <1>9, <1>10
  <2>2. /\ WrittenBy(disk'[d], disk[d], head.files, half)
        /\ \A x \in Disks \ {d} : disk'[x] = disk[x]
        /\ DOMAIN disk' = Disks
    BY <1>7, <1>11, <2>1, WrittenIs
  <2> QED BY <1>9, <1>12, <2>2
<1>14. PICK new \in SUBSET Files : new = head.files \ DOMAIN k.files
  BY <1>7
<1>15. agent' = [agent EXCEPT !.stage = "writing", !.fresh = new]
  BY <1>1, <1>4, <1>6, <1>9, <1>14
<1>16. agent \in Agents /\ agent.plans \in [Disks -> Seq(Jobs)]
  BY <1>2, <1>3 DEF AgentOK
<1>17. /\ agent' \in Agents /\ agent'.stage = "writing" /\ agent'.fresh = new
       /\ agent'.run = agent.run /\ agent'.type = agent.type /\ agent'.d = agent.d
       /\ agent'.result = agent.result /\ agent'.listed = agent.listed /\ agent'.plans = agent.plans
       /\ agent'.changed = agent.changed
  BY <1>15, <1>16 DEF Agents, Stages
<1>18. k2.fs = k.fs /\ k2.marker = k.marker /\ k2.id = k.id /\ k2.manifest = k.manifest
  BY <1>13 DEF WrittenBy, SameButFiles
<1>19. WorkGoesOn
  BY <1>1, <1>3, <1>4, <1>9, <1>12, <1>13, <1>17, <1>18 DEF WorkGoesOn, SameDisk, Working
<1>20. AgentOK' /\ OrderOK' /\ PicksOK'
  <2>1. agent.type # "incremental" => agent'.changed = {}
    BY <1>2, <1>17 DEF AgentOK
  <2> QED BY <1>1, <1>16, <1>17, <1>19, <2>1, AgentGoesOn
<1>21. /\ ~IsThrough(d)' /\ FreshOn(d)' = new /\ ChangedOn(d)' = changed
       /\ IsFilling(d)' <=> agent.type = "initial-fill"
       /\ IsPlanned(d)' <=> agent.type = "incremental"
       /\ agent.type # "incremental" => WorkOn(d)' = {}
       /\ agent.type = "incremental" => WorkOn(d)' = changed \cup head.files
  BY <1>4, <1>6, <1>9, <1>17, <1>19, OwnDisk
<1>22. agent.type = "incremental" => WorkOn(d) = changed
  BY <1>1, <1>4, <1>9 DEF WorkOn, Working
<1>23. agent.type = "initial-fill" => ~k.id /\ k.marker = 0 /\ k.manifest = NoManifest
  BY <1>1, <1>2, <1>4, <1>9 DEF AtWork, Working
<1>24. ASSUME agent.type = "incremental"
       PROVE  /\ DiskOK(k2, p, cut, pk, r, "incremental", changed \cup head.files, new)
              /\ Planned(k2, pk, r, plan, L, changed, new)
              /\ head.files \subseteq DOMAIN k2.files
  <2>1. /\ DiskOK(k, p, cut, pk, r, "incremental", changed, {})
        /\ Planned(k, pk, r, plan, L, changed, {})
    BY <1>4, <1>9, <1>22, <1>24
  <2>2. WrittenBy(k2, k, Head(plan).files, Content(r, "torn", 0))
    BY <1>6, <1>8, <1>13, <1>24
  <2> QED BY <1>5, <1>6, <1>14, <2>1, <2>2, BeginChurn
<1>25. ASSUME agent.type = "initial-fill"
       PROVE  /\ DiskOK(k2, p, cut, pk, r, "initial-fill", {}, new)
              /\ Filling(k2, p, r, plan)
              /\ head.files \subseteq DOMAIN k2.files
  <2>1. DiskOK(k, p, cut, pk, r, "initial-fill", {}, {}) /\ Filling(k, p, r, plan)
    BY <1>4, <1>9, <1>25
  <2>2. WrittenBy(k2, k, Head(plan).files, Content(r, "unwritten", 0))
    BY <1>6, <1>8, <1>13, <1>25
  <2> QED BY <1>5, <1>6, <1>14, <1>23, <1>25, <2>1, <2>2, BeginFill
<1>26. p = platter'[d] /\ cut = cutOff'[d] /\ pk = picks' /\ r = order'.run /\ order'.type = agent.type
       /\ plan = agent'.plans[d] /\ L = agent'.listed[d]
  BY <1>1, <1>4, <1>9, <1>17
<1>27. DiskGood(d)'
  <2>1. CASE agent.type = "incremental"
    BY <1>12, <1>21, <1>24, <1>26, <2>1 DEF DiskGood
  <2>2. CASE agent.type = "initial-fill"
    BY <1>12, <1>21, <1>25, <1>26, <2>2 DEF DiskGood
  <2> QED BY <1>4, <2>1, <2>2
<1>28. DisksOK'
  <2>1. \A x \in Disks : x # d => DiskGood(x)'
    BY <1>4, <1>19, OthersKept
  <2> QED BY <1>27, <2>1 DEF DisksOK
<1>29. AtWork'
  <2>1. head.files \subseteq DOMAIN k2.files /\ new \subseteq head.files
    BY <1>4, <1>14, <1>24, <1>25
  <2>2. disk'[agent'.d] = k2 /\ Head(agent'.plans[agent'.d]) = head
    BY <1>4, <1>6, <1>12, <1>17
  <2>3. ~RunAlreadyComplete(order.run)'
    BY <1>19, CompleteKept
  <2> QED BY <1>17, <1>18, <1>23, <2>1, <2>2, <2>3 DEF AtWork, Working
<1>30. Rest' /\ Shape'
  BY <1>1, <1>2, <1>13 DEF Rest, Shape
<1> QED BY <1>20, <1>28, <1>29, <1>30 DEF IInv

LEMMA EndJobKeeps ==
  ASSUME IInv, EndJob
  PROVE  IInv'
<1>1. /\ agent.stage = "writing"
      /\ disk' = [disk EXCEPT ![agent.d].files =
                    Written(agent.d, Head(agent.plans[agent.d]).files, Head(agent.plans[agent.d]).content)]
      /\ agent' = [agent EXCEPT !.stage = "jobs", !.plans[agent.d] = Tail(@), !.fresh = {},
           !.changed =
             IF agent.type = "initial-fill" THEN {}
             ELSE IF Head(agent.plans[agent.d]).content.job = "change"
                  THEN @ \cup Head(agent.plans[agent.d]).files
             ELSE @ \cup {f \in DOMAIN disk[agent.d].files : f.kind = "grow" /\ f.run = agent.run}]
      /\ UNCHANGED <<platter, picks, cutOff, up, completed, data, filled, crashes, faults>>
      /\ order' = order
  BY DEF EndJob, row
<1>2. OrderOK /\ AgentOK /\ Rest /\ DisksOK /\ Shape /\ PicksOK /\ AtWork
  BY DEF IInv
<1>3. agent.stage \in Working /\ agent.plans[agent.d] # <<>>
  BY <1>1, <1>2 DEF AgentOK, Working
<1>4. PICK d \in Disks, r \in Runs, plan \in Seq(Jobs), L \in SUBSET Files :
        /\ d = agent.d /\ r = order.run /\ r = agent.run
        /\ plan = agent.plans[d] /\ L = agent.listed[d]
        /\ order.type = agent.type /\ agent.type \in {"initial-fill", "incremental"}
        /\ DiskOK(disk[d], platter[d], cutOff[d], picks, r, agent.type, WorkOn(d), agent.fresh)
        /\ agent.type = "incremental" => Planned(disk[d], picks, r, plan, L, agent.changed, agent.fresh)
        /\ agent.type = "initial-fill" => Filling(disk[d], platter[d], r, plan) /\ WorkOn(d) = {}
        /\ disk[d].fs
  BY <1>3, AgentDiskIs
<1>5. ToDo(plan)
  BY <1>3, <1>4 DEF ToDo
<1>6. PICK head \in Jobs : head = Head(plan)
  BY <1>5, PlanSplit
<1>7. head.files \in SUBSET Files /\ head.content \in Contents
  BY DEF Jobs
<1>8. PICK tail \in Seq(Jobs) : tail = Tail(plan)
  BY <1>5, PlanSplit
<1>9. PICK k, p, cut, pk, changed, fresh :
        /\ k = disk[d] /\ p = platter[d] /\ cut = cutOff[d] /\ pk = picks /\ changed = agent.changed
        /\ fresh = agent.fresh
  OBVIOUS
<1>10. k \in DiskRecords
  BY <1>4, <1>9 DEF DiskOK, Sane
<1>11. disk' = [disk EXCEPT ![d].files = Written(d, head.files, head.content)]
  BY <1>1, <1>4, <1>6
<1>12. PICK k2 : k2 = disk'[d]
  OBVIOUS
<1>13. /\ WrittenBy(k2, k, head.files, head.content)
       /\ (\A x \in Disks \ {d} : disk'[x] = disk[x]) /\ DOMAIN disk' = Disks
  <2>1. d = agent.d /\ disk[d] \in DiskRecords /\ Shape
    BY <1>2, <1>4, <1>9, <1>10
  <2>2. /\ WrittenBy(disk'[d], disk[d], head.files, head.content)
        /\ \A x \in Disks \ {d} : disk'[x] = disk[x]
        /\ DOMAIN disk' = Disks
    BY <1>7, <1>11, <2>1, WrittenIs
  <2> QED BY <1>9, <1>12, <2>2
<1>14. agent \in Agents /\ agent.plans \in [Disks -> Seq(Jobs)] /\ changed \in SUBSET Files
  BY <1>2, <1>3, <1>9, AgentFields DEF AgentOK
<1> DEFINE grown == {f \in DOMAIN k.files : f.kind = "grow" /\ f.run = r}
           noted == IF head.content.job = "change" THEN changed \cup head.files ELSE changed \cup grown
<1>15. noted \in SUBSET Files
  BY <1>7, <1>10, <1>14, DiskFields
<1>16. PICK changed2 \in SUBSET Files :
         changed2 = IF agent.type = "initial-fill" THEN {} ELSE noted
  BY <1>15
<1>17. agent' = [agent EXCEPT !.stage = "jobs", !.plans[d] = tail, !.fresh = {}, !.changed = changed2]
  BY <1>1, <1>4, <1>6, <1>8, <1>9, <1>16
<1> HIDE DEF noted
<1>18. [agent.plans EXCEPT ![d] = tail] \in [Disks -> Seq(Jobs)]
  BY <1>14
<1>19. /\ agent' \in Agents /\ agent'.stage = "jobs" /\ agent'.fresh = {}
       /\ agent'.run = agent.run /\ agent'.type = agent.type /\ agent'.d = agent.d
       /\ agent'.result = agent.result /\ agent'.listed = agent.listed
       /\ agent'.plans = [agent.plans EXCEPT ![d] = tail]
       /\ agent'.changed = changed2
  BY <1>14, <1>17, <1>18 DEF Agents, Stages
<1>20. /\ agent'.plans \in [Disks -> Seq(Jobs)] /\ agent'.plans[d] = tail
       /\ \A x \in Disks \ {d} : agent'.plans[x] = agent.plans[x]
  BY <1>14, <1>18, <1>19
<1>21. k2.fs = k.fs /\ k2.marker = k.marker /\ k2.id = k.id /\ k2.manifest = k.manifest
  BY <1>13 DEF WrittenBy, SameButFiles
<1>22. WorkGoesOn
  BY <1>1, <1>3, <1>4, <1>9, <1>12, <1>13, <1>19, <1>20, <1>21 DEF WorkGoesOn, SameDisk, Working
<1>23. AgentOK' /\ OrderOK' /\ PicksOK'
  <2>1. agent.type # "incremental" => agent'.changed = {}
    BY <1>4, <1>16, <1>19
  <2> QED BY <1>19, <1>20, <1>22, <2>1, AgentGoesOn
<1>24. /\ ~IsThrough(d)' /\ FreshOn(d)' = {} /\ ChangedOn(d)' = changed2
       /\ IsFilling(d)' <=> agent.type = "initial-fill"
       /\ IsPlanned(d)' <=> agent.type = "incremental"
       /\ agent.type # "incremental" => WorkOn(d)' = {}
       /\ agent.type = "incremental" => WorkOn(d)' = changed2
  BY <1>4, <1>19, <1>22, OwnDisk
<1>25. agent.type = "incremental" => WorkOn(d) = changed \cup head.files
  BY <1>1, <1>4, <1>6, <1>9 DEF WorkOn, Working
<1>26. agent.type = "initial-fill" => ~k.id /\ k.marker = 0 /\ k.manifest = NoManifest
  BY <1>1, <1>2, <1>4, <1>9 DEF AtWork, Working
<1>27. Head(plan).files \subseteq DOMAIN k.files /\ fresh \subseteq Head(plan).files
  BY <1>1, <1>2, <1>4, <1>9 DEF AtWork
<1>28. ASSUME agent.type = "incremental"
       PROVE  /\ DiskOK(k2, p, cut, pk, r, "incremental", changed2, {})
              /\ Planned(k2, pk, r, tail, L, changed2, {})
  <2>1. /\ DiskOK(k, p, cut, pk, r, "incremental", changed \cup Head(plan).files, fresh)
        /\ Planned(k, pk, r, plan, L, changed, fresh)
    BY <1>4, <1>6, <1>9, <1>25, <1>28
  <2>2. WrittenBy(k2, k, Head(plan).files, Head(plan).content)
    BY <1>6, <1>13
  <2>3. changed2 = IF Head(plan).content.job = "change" THEN changed \cup Head(plan).files
                   ELSE changed \cup {f \in DOMAIN k.files : f.kind = "grow" /\ f.run = r}
    BY <1>6, <1>16, <1>28 DEF noted
  <2> QED BY <1>5, <1>8, <1>27, <2>1, <2>2, <2>3, EndChurn
<1>29. ASSUME agent.type = "initial-fill"
       PROVE  /\ DiskOK(k2, p, cut, pk, r, "initial-fill", {}, {})
              /\ Filling(k2, p, r, tail)
  <2>1. DiskOK(k, p, cut, pk, r, "initial-fill", {}, fresh) /\ Filling(k, p, r, plan)
    BY <1>4, <1>9, <1>29
  <2>2. WrittenBy(k2, k, Head(plan).files, Head(plan).content)
    BY <1>6, <1>13
  <2> QED BY <1>5, <1>8, <1>26, <1>27, <1>29, <2>1, <2>2, EndFill
<1>30. p = platter'[d] /\ cut = cutOff'[d] /\ pk = picks' /\ r = order'.run /\ order'.type = agent.type
       /\ tail = agent'.plans[d] /\ L = agent'.listed[d]
  BY <1>1, <1>4, <1>9, <1>19, <1>20
<1>31. DiskGood(d)'
  <2>1. CASE agent.type = "incremental"
    BY <1>12, <1>24, <1>28, <1>30, <2>1 DEF DiskGood
  <2>2. CASE agent.type = "initial-fill"
    BY <1>12, <1>24, <1>29, <1>30, <2>2 DEF DiskGood
  <2> QED BY <1>4, <2>1, <2>2
<1>32. DisksOK'
  <2>1. \A x \in Disks : x # d => DiskGood(x)'
    BY <1>4, <1>22, OthersKept
  <2> QED BY <1>31, <2>1 DEF DisksOK
<1>33. AtWork'
  <2>1. disk'[agent'.d] = k2
    BY <1>4, <1>12, <1>19
  <2>2. ~RunAlreadyComplete(order.run)'
    BY <1>22, CompleteKept
  <2> QED BY <1>19, <1>21, <1>26, <2>1, <2>2 DEF AtWork, Working
<1>34. Rest' /\ Shape'
  BY <1>1, <1>2, <1>13 DEF Rest, Shape
<1> QED BY <1>23, <1>32, <1>33, <1>34 DEF IInv

-----------------------------------------------------------------------------
(* The agent stamps the disk it has written *)

(* The steps that only change the record of the agent's disk outside of its  *)
(* files have this in common.                                                *)
Stamping(d) ==
  /\ d = agent.d /\ agent.stage \in {"identity", "manifest"}
  /\ agent' = [agent EXCEPT !.stage = IF agent.stage = "identity" THEN "manifest" ELSE "sync"]
  /\ UNCHANGED <<platter, picks, cutOff, up, completed, data, filled, crashes, faults>>
  /\ order' = order /\ DOMAIN disk' = Disks
  /\ \A x \in Disks \ {agent.d} : disk'[x] = disk[x]
  /\ StampedTo(disk'[d], disk[d]) /\ disk'[d].marker = disk[d].marker
  /\ DiskOK(disk'[d], platter[d], cutOff[d], picks, order.run, agent.type, WorkOn(d), {})

StampIs(d) ==
  /\ agent.stage = "identity" => disk'[d].manifest = disk[d].manifest
  /\ agent.stage = "manifest" =>
       /\ disk'[d].manifest.run = agent.run
       /\ DOMAIN disk'[d].manifest.sums = DOMAIN disk'[d].files
       /\ Stale(disk'[d].manifest, disk'[d]) \cap agent.changed = {}
       /\ agent.type = "initial-fill" => disk'[d].manifest.sums = disk'[d].files

LEMMA StampKeeps ==
  ASSUME IInv, NEW d \in Disks, Stamping(d), StampIs(d)
  PROVE  IInv'
<1>d. /\ d = agent.d /\ agent.stage \in {"identity", "manifest"}
      /\ UNCHANGED <<platter, picks, cutOff, up, completed, data, filled, crashes, faults>>
      /\ order' = order /\ DOMAIN disk' = Disks
      /\ \A x \in Disks \ {agent.d} : disk'[x] = disk[x]
      /\ disk'[d].marker = disk[d].marker
      /\ DiskOK(disk'[d], platter[d], cutOff[d], picks, order.run, agent.type, WorkOn(d), {})
  BY DEF Stamping
<1>e. agent' = [agent EXCEPT !.stage = IF agent.stage = "identity" THEN "manifest" ELSE "sync"]
  BY DEF Stamping
<1>1. OrderOK /\ AgentOK /\ Rest /\ DisksOK /\ Shape /\ PicksOK /\ AtWork
  BY DEF IInv
<1>2. agent.stage \in Working \ {"jobs", "writing"}
  BY <1>d DEF Working
<1>3. /\ agent.fresh = {} /\ agent.plans[agent.d] = <<>> /\ agent \in Agents
      /\ agent.plans \in [Disks -> Seq(Jobs)]
      /\ agent.type # "incremental" => agent.changed = {}
  BY <1>1, <1>2 DEF AgentOK, Working
<1>a. PICK r \in Runs, plan \in Seq(Jobs), L \in SUBSET Files :
        /\ r = order.run /\ r = agent.run /\ plan = agent.plans[d] /\ L = agent.listed[d]
        /\ order.type = agent.type /\ agent.type \in {"initial-fill", "incremental"}
        /\ agent.type = "incremental" => Planned(disk[d], picks, r, plan, L, agent.changed, {})
        /\ agent.type = "initial-fill" => Filling(disk[d], platter[d], r, plan)
  <2>1. agent.stage \in Working
    BY <1>2
  <2> QED BY <1>3, <1>d, <2>1, AgentDiskIs
<1>b. plan = <<>>
  BY <1>3, <1>a, <1>d
<1>4. /\ r = order.run /\ r = agent.run /\ L = agent.listed[d]
      /\ order.type = agent.type /\ agent.type \in {"initial-fill", "incremental"}
      /\ agent.type = "incremental" => Planned(disk[d], picks, r, <<>>, L, agent.changed, {})
      /\ agent.type = "initial-fill" => Filling(disk[d], platter[d], r, <<>>)
  BY <1>a, <1>b
<1>c. PICK next \in {"manifest", "sync"} :
        agent' = [agent EXCEPT !.stage = next] /\ (next = "sync" <=> agent.stage = "manifest")
  <2>1. CASE agent.stage = "identity"
    BY <1>e, <2>1
  <2>2. CASE agent.stage = "manifest"
    BY <1>e, <2>2
  <2> QED BY <1>d, <2>1, <2>2
<1>5. /\ agent' \in Agents /\ agent'.stage \in {"manifest", "sync"} /\ agent'.fresh = {}
      /\ agent'.run = agent.run /\ agent'.type = agent.type /\ agent'.d = agent.d
      /\ agent'.result = agent.result /\ agent'.listed = agent.listed
      /\ agent'.plans = agent.plans /\ agent'.changed = agent.changed
      /\ agent'.stage = "sync" <=> agent.stage = "manifest"
  BY <1>3, <1>c DEF Agents, Stages
<1>6. disk'[d].fs = disk[d].fs /\ disk'[d].files = disk[d].files
  BY DEF Stamping, StampedTo
<1>7. WorkGoesOn
  BY <1>2, <1>5, <1>6, <1>d DEF WorkGoesOn, SameDisk, Working
<1>8. AgentOK' /\ OrderOK' /\ PicksOK'
  <2>1. /\ agent'.plans \in [Disks -> Seq(Jobs)] /\ agent'.plans[agent.d] = <<>>
        /\ agent'.stage # "writing" /\ (agent.type # "incremental" => agent'.changed = {})
    BY <1>3, <1>5
  <2> QED BY <1>5, <1>7, <2>1, AgentGoesOn
<1>9. /\ ~IsThrough(d)' /\ FreshOn(d)' = {} /\ ChangedOn(d)' = agent.changed
      /\ IsFilling(d)' <=> agent.type = "initial-fill"
      /\ IsPlanned(d)' <=> agent.type = "incremental"
      /\ agent.type # "incremental" => WorkOn(d)' = {}
      /\ agent.type = "incremental" => WorkOn(d)' = agent.changed
  BY <1>5, <1>7, <1>d, OwnDisk
<1>10. WorkOn(d)' = WorkOn(d)
  BY <1>2, <1>9, <1>d DEF WorkOn
<1>11. PICK k, k2, p, pk, changed :
         k = disk[d] /\ k2 = disk'[d] /\ p = platter[d] /\ pk = picks /\ changed = agent.changed
  OBVIOUS
<1>12. agent.type = "incremental" => Planned(k2, pk, r, <<>>, L, changed, {})
  BY <1>4, <1>6, <1>11, SameFiles
<1>13. agent.type = "initial-fill" => Filling(k2, p, r, <<>>)
  BY <1>4, <1>6, <1>11, SameFiles
<1>14. DiskGood(d)'
  <2>a. /\ disk'[d] = k2 /\ picks' = pk /\ platter'[d] = p /\ order'.run = r
        /\ agent'.plans[d] = <<>> /\ agent'.listed[d] = L
    BY <1>3, <1>4, <1>5, <1>11, <1>d
  <2>1. DiskOK(disk[d], platter[d], cutOff[d], picks, order.run, order.type, WorkOn(d), FreshOn(d))'
    BY <1>4, <1>9, <1>10, <1>d
  <2>2. IsPlanned(d)' =>
          Planned(disk[d], picks, order.run, agent.plans[d], agent.listed[d], ChangedOn(d), FreshOn(d))'
    BY <1>9, <1>11, <1>12, <2>a
  <2>3. IsFilling(d)' => Filling(disk[d], platter[d], order.run, agent.plans[d])'
    BY <1>9, <1>13, <2>a
  <2> QED BY <1>9, <2>1, <2>2, <2>3 DEF DiskGood
<1>15. DisksOK'
  <2>1. \A x \in Disks : x # d => DiskGood(x)'
    BY <1>7, <1>d, OthersKept
  <2> QED BY <1>14, <2>1 DEF DisksOK
<1>16. AtWork'
  <2>1. ~RunAlreadyComplete(order.run)'
    BY <1>7, CompleteKept
  <2>2. agent'.type = "initial-fill" /\ agent'.stage = "manifest" => disk'[d].manifest = NoManifest
    BY <1>1, <1>5, <1>d DEF AtWork, Working, StampIs
  <2>3. agent'.stage = "sync" =>
          /\ disk'[d].manifest.run = agent.run
          /\ DOMAIN disk'[d].manifest.sums = DOMAIN disk'[d].files
          /\ Stale(disk'[d].manifest, disk'[d]) \cap agent.changed = {}
          /\ agent.type = "initial-fill" => disk'[d].manifest.sums = disk'[d].files
    BY <1>5 DEF StampIs
  <2> QED BY <1>5, <1>d, <2>1, <2>2, <2>3 DEF AtWork, Working
<1>17. Rest' /\ Shape'
  BY <1>1, <1>d DEF Rest, Shape
<1> QED BY <1>8, <1>15, <1>16, <1>17 DEF IInv

LEMMA WriteIdentityKeeps ==
  ASSUME IInv, WriteIdentity
  PROVE  IInv'
<1>1. /\ agent.stage = "identity" /\ disk' = [disk EXCEPT ![agent.d].id = TRUE]
      /\ agent' = [agent EXCEPT !.stage = "manifest"]
      /\ UNCHANGED <<platter, picks, cutOff, up, completed, data, filled, crashes, faults>>
      /\ order' = order
  BY DEF WriteIdentity, row
<1>2. agent.stage \in Working \ {"jobs", "writing"} /\ Shape
  BY <1>1 DEF Working, IInv
<1>3. PICK d \in Disks, r \in Runs :
        /\ d = agent.d /\ r = order.run
        /\ DiskOK(disk[d], platter[d], cutOff[d], picks, r, agent.type, WorkOn(d), agent.fresh)
        /\ disk[d].fs
  BY <1>2, AgentDiskIs
<1>4. agent.fresh = {} /\ (ChangePercent > 0 => Origin(disk[d], {}))
  BY <1>2, <1>3, IdentityReady
<1>5. PICK k, p, cut, pk, type, work :
        /\ k = disk[d] /\ p = platter[d] /\ cut = cutOff[d] /\ pk = picks
        /\ type = agent.type /\ work = WorkOn(d)
  OBVIOUS
<1>6. DiskOK(k, p, cut, pk, r, type, work, {}) /\ k.fs /\ (ChangePercent > 0 => Origin(k, {}))
  BY <1>3, <1>4, <1>5
<1>7. k \in DiskRecords
  BY <1>6 DEF DiskOK, Sane
<1>8. PICK k2 : k2 = [k EXCEPT !.id = TRUE]
  OBVIOUS
<1>9. /\ k2 \in DiskRecords /\ k2.fs = k.fs /\ k2.files = k.files
      /\ k2.manifest = k.manifest /\ k2.marker = k.marker
  BY <1>7, <1>8 DEF DiskRecords
<1>10. StampedTo(k2, k)
  BY <1>9 DEF StampedTo
<1>11. DiskOK(k2, p, cut, pk, r, type, work, {})
  BY <1>6, <1>9, <1>10, DiskMarked, ConstantsOK DEF Runs
<1>12. disk'[d] = k2 /\ DOMAIN disk' = Disks /\ \A x \in Disks \ {agent.d} : disk'[x] = disk[x]
  BY <1>1, <1>2, <1>3, <1>5, <1>8 DEF Shape
<1>13. DiskOK(disk'[d], platter[d], cutOff[d], picks, order.run, agent.type, WorkOn(d), {})
  BY <1>3, <1>5, <1>11, <1>12
<1>14. agent' = [agent EXCEPT !.stage = IF agent.stage = "identity" THEN "manifest" ELSE "sync"]
  BY <1>1
<1>15. /\ StampedTo(disk'[d], disk[d]) /\ disk'[d].marker = disk[d].marker
       /\ disk'[d].manifest = disk[d].manifest
  BY <1>5, <1>9, <1>10, <1>12
<1>16. Stamping(d)
  BY <1>1, <1>3, <1>12, <1>13, <1>14, <1>15 DEF Stamping
<1>17. StampIs(d)
  BY <1>1, <1>15 DEF StampIs
<1> QED BY <1>16, <1>17, StampKeeps

LEMMA UpdateManifestKeeps ==
  ASSUME IInv, UpdateDiskManifest
  PROVE  IInv'
<1>1. /\ agent.stage = "manifest"
      /\ disk' = [disk EXCEPT ![agent.d].manifest =
                    [run |-> agent.run, sums |-> Checksums(agent.d, agent.changed)]]
      /\ agent' = [agent EXCEPT !.stage = "sync"]
      /\ UNCHANGED <<platter, picks, cutOff, up, completed, data, filled, crashes, faults>>
      /\ order' = order
  BY DEF UpdateDiskManifest, row
<1>2. agent.stage \in Working \ {"jobs", "writing"} /\ Shape /\ AtWork
  BY <1>1 DEF Working, IInv
<1>3. PICK d \in Disks, r \in Runs :
        /\ d = agent.d /\ r = order.run /\ r = agent.run
        /\ DiskOK(disk[d], platter[d], cutOff[d], picks, r, agent.type, WorkOn(d), agent.fresh)
        /\ disk[d].fs
  BY <1>2, AgentDiskIs
<1>4. agent.fresh = {}
  BY <1>2, <1>3, IdentityReady
<1>5. PICK k, p, cut, pk, type, work, changed :
        /\ k = disk[d] /\ p = platter[d] /\ cut = cutOff[d] /\ pk = picks
        /\ type = agent.type /\ work = WorkOn(d) /\ changed = agent.changed
  OBVIOUS
<1>6. DiskOK(k, p, cut, pk, r, type, work, {}) /\ k.fs
  BY <1>3, <1>4, <1>5
<1>7. k \in DiskRecords
  BY <1>6 DEF DiskOK, Sane
<1>8. PICK sums : sums = Checksums(d, changed)
  OBVIOUS
<1>9. sums = [f \in DOMAIN k.files |->
                IF f \in DOMAIN k.manifest.sums \ changed THEN k.manifest.sums[f] ELSE k.files[f]]
  BY <1>5, <1>8 DEF Checksums
<1>10. PICK k2 : k2 = [k EXCEPT !.manifest = [run |-> r, sums |-> sums]]
  OBVIOUS
<1>11. UpdatedTo(k2, k, r, changed)
  BY <1>7, <1>9, <1>10, SumsAre, ConstantsOK DEF Runs
<1>12. /\ DiskOK(k2, p, cut, pk, r, type, work, {})
       /\ Stale(k2.manifest, k2) \cap changed = {}
       /\ k.manifest = NoManifest => k2.manifest.sums = k2.files
  BY <1>6, <1>11, DiskUpdated
<1>13. /\ StampedTo(k2, k) /\ k2.marker = k.marker /\ k2.manifest.run = r
       /\ DOMAIN k2.manifest.sums = DOMAIN k.files /\ k2.files = k.files
  BY <1>11 DEF UpdatedTo, StampedTo
<1>14. disk'[d] = k2 /\ DOMAIN disk' = Disks /\ \A x \in Disks \ {agent.d} : disk'[x] = disk[x]
  BY <1>1, <1>2, <1>3, <1>5, <1>8, <1>10 DEF Shape
<1>15. DiskOK(disk'[d], platter[d], cutOff[d], picks, order.run, agent.type, WorkOn(d), {})
  BY <1>3, <1>5, <1>12, <1>14
<1>16. agent' = [agent EXCEPT !.stage = IF agent.stage = "identity" THEN "manifest" ELSE "sync"]
  BY <1>1
<1>17. agent.type = "initial-fill" => k.manifest = NoManifest
  BY <1>1, <1>2, <1>3, <1>5 DEF AtWork, Working
<1>18. /\ StampedTo(disk'[d], disk[d]) /\ disk'[d].marker = disk[d].marker
       /\ disk'[d].manifest.run = agent.run
       /\ DOMAIN disk'[d].manifest.sums = DOMAIN disk'[d].files
       /\ Stale(disk'[d].manifest, disk'[d]) \cap agent.changed = {}
       /\ agent.type = "initial-fill" => disk'[d].manifest.sums = disk'[d].files
  BY <1>3, <1>5, <1>12, <1>13, <1>14, <1>17
<1>19. Stamping(d)
  BY <1>1, <1>3, <1>14, <1>15, <1>16, <1>18 DEF Stamping
<1>20. StampIs(d)
  BY <1>1, <1>18 DEF StampIs
<1> QED BY <1>19, <1>20, StampKeeps

-----------------------------------------------------------------------------
(* From disk to disk *)

LEMMA NextDisk ==
  ASSUME NEW d \in Disks
  PROVE  /\ d < NDisks => d + 1 \in Disks
         /\ 1 \in Disks /\ (~(d < NDisks) <=> d = NDisks)
         /\ \A x \in Disks : x # d => (x < d + 1 <=> x < d) /\ (d = NDisks => x < d)
BY ConstantsOK DEF Disks

LEMMA SyncDirKeeps ==
  ASSUME IInv, SyncDir
  PROVE  IInv'
<1>1. /\ agent.stage = "sync"
      /\ platter' = [platter EXCEPT ![agent.d] = disk[agent.d].manifest]
      /\ cutOff' = [cutOff EXCEPT ![agent.d] =
                      @ \ {[run |-> agent.run, listed |-> agent.listed[agent.d]]}]
      /\ agent' = [agent EXCEPT !.changed = {},
           !.d = IF agent.d < NDisks THEN agent.d + 1 ELSE 1,
           !.stage = IF agent.d = NDisks THEN "marking"
                     ELSE IF agent.type = "initial-fill" THEN "mkfs" ELSE "jobs"]
      /\ UNCHANGED <<disk, picks, up, completed, data, filled, crashes, faults>>
      /\ order' = order
  BY DEF SyncDir, row
<1>2. OrderOK /\ AgentOK /\ Rest /\ DisksOK /\ Shape /\ PicksOK /\ AtWork
  BY DEF IInv
<1>3. agent.stage \in Working
  BY <1>1 DEF Working
<1>4. /\ agent \in Agents /\ agent.fresh = {} /\ agent.plans[agent.d] = <<>> /\ agent.result = "none"
      /\ agent.plans \in [Disks -> Seq(Jobs)] /\ agent.listed \in [Disks -> SUBSET Files]
  BY <1>1, <1>2, <1>3 DEF AgentOK, Working
<1>5. PICK d \in Disks, r \in Runs, plan \in Seq(Jobs), L \in SUBSET Files :
        /\ d = agent.d /\ r = order.run /\ r = agent.run
        /\ plan = agent.plans[d] /\ L = agent.listed[d]
        /\ order.type = agent.type /\ agent.type \in {"initial-fill", "incremental"}
        /\ DiskOK(disk[d], platter[d], cutOff[d], picks, r, agent.type, WorkOn(d), {})
        /\ agent.type = "incremental" => Planned(disk[d], picks, r, plan, L, agent.changed, {})
        /\ agent.type = "initial-fill" => Filling(disk[d], platter[d], r, plan) /\ WorkOn(d) = {}
        /\ disk[d].fs
  BY <1>3, <1>4, AgentDiskIs
<1>6. plan = <<>>
  BY <1>4, <1>5
<1>7. PICK k, p, cut, pk, changed :
        k = disk[d] /\ p = platter[d] /\ cut = cutOff[d] /\ pk = picks /\ changed = agent.changed
  OBVIOUS
<1>8. PICK cut2 : cut2 = cut \ {[run |-> r, listed |-> L]}
  OBVIOUS
<1>9. /\ platter'[d] = k.manifest /\ cutOff'[d] = cut2
      /\ \A x \in Disks \ {d} : SameDisk(x)
      /\ DOMAIN platter' = Disks /\ DOMAIN cutOff' = Disks
  BY <1>1, <1>2, <1>5, <1>7, <1>8 DEF Shape, SameDisk
<1>10. /\ k.manifest.run = r /\ DOMAIN k.manifest.sums = DOMAIN k.files
       /\ Stale(k.manifest, k) \cap changed = {}
       /\ agent.type = "initial-fill" => k.manifest.sums = k.files
  BY <1>1, <1>2, <1>5, <1>7 DEF AtWork
<1>11. /\ DiskOK(k, k.manifest, cut2, pk, r, agent.type, {}, {})
       /\ Finished(k, k.manifest, r, agent.type)
  <2>1. CASE agent.type = "incremental"
    <3>1. WorkOn(d) = changed
      BY <1>1, <1>5, <1>7, <2>1 DEF WorkOn, Working
    <3>2. DiskOK(k, p, cut, pk, r, "incremental", changed, {}) /\ Planned(k, pk, r, <<>>, L, changed, {})
      BY <1>5, <1>6, <1>7, <2>1, <3>1
    <3>3. /\ DiskOK(k, k.manifest, cut \ {[run |-> r, listed |-> L]}, pk, r, "incremental", {}, {})
          /\ Finished(k, k.manifest, r, "incremental")
      <4>1. /\ k.manifest.run = r /\ DOMAIN k.manifest.sums = DOMAIN k.files
            /\ Stale(k.manifest, k) \cap changed = {}
        BY <1>10
      <4> QED BY <3>2, <4>1, ChurnSynced
    <3> QED BY <1>8, <2>1, <3>3
  <2>2. CASE agent.type = "initial-fill"
    <3>1. DiskOK(k, p, cut, pk, r, "initial-fill", {}, {}) /\ Filling(k, p, r, <<>>)
      BY <1>5, <1>6, <1>7, <2>2
    <3> QED BY <1>10, <2>2, <3>1, FillSynced
  <2> QED BY <1>5, <2>1, <2>2
<1>12. PICK next \in {"marking", "mkfs", "jobs"} :
         /\ next = IF d = NDisks THEN "marking" ELSE IF agent.type = "initial-fill" THEN "mkfs" ELSE "jobs"
         /\ next = "mkfs" => agent.type = "initial-fill" /\ d < NDisks
         /\ next = "jobs" => agent.type = "incremental" /\ d < NDisks
         /\ next = "marking" => d = NDisks
  <2>1. d = NDisks \/ d < NDisks
    BY NextDisk
  <2> QED BY <1>5, <2>1
<1>13. PICK e \in Disks : e = IF d < NDisks THEN d + 1 ELSE 1
  BY NextDisk
<1>14. agent' = [agent EXCEPT !.changed = {}, !.d = e, !.stage = next]
  BY <1>1, <1>5, <1>12, <1>13
<1>15. /\ agent' \in Agents /\ agent'.stage = next /\ agent'.fresh = {} /\ agent'.changed = {}
       /\ agent'.run = agent.run /\ agent'.type = agent.type /\ agent'.d = e
       /\ agent'.result = agent.result /\ agent'.listed = agent.listed
       /\ agent'.plans = agent.plans
  <2>1. e \in Nat
    BY ConstantsOK DEF Disks
  <2> QED BY <1>4, <1>14, <2>1 DEF Agents, Stages
<1>16. /\ ~Churned /\ order.status # "done" /\ order.run # 0 /\ up
       /\ ~RunAlreadyComplete(order.run) /\ agent.run = order.run /\ agent.type = order.type
  BY <1>1, <1>2, <1>3, ChurnedIdle, ConstantsOK DEF AtWork, Runs
<1>17. ~Churned' /\ ~RunAlreadyComplete(order.run)' /\ SameOrder
  BY <1>1, <1>16 DEF Churned, RunAlreadyComplete, SameOrder
<1>18. next # "marking" => e = d + 1
  BY <1>12, <1>13
<1>19. \A x \in Disks : WorkOn(x)' = {} /\ FreshOn(x)' = {} /\ ChangedOn(x)' = {} /\ ~IsFilling(x)'
  BY <1>12, <1>15 DEF WorkOn, FreshOn, ChangedOn, IsFilling, Working
<1>20. DiskGood(d)'
  <2>1. ~IsPlanned(d)'
    <3>1. ~(d >= d + 1)
      BY ConstantsOK DEF Disks
    <3> QED BY <1>15, <1>18, <3>1 DEF IsPlanned, Working
  <2> QED BY <1>1, <1>5, <1>7, <1>9, <1>11, <1>19, <2>1 DEF DiskGood
<1>21. ASSUME NEW x \in Disks, x # d PROVE DiskGood(x)'
  <2>1. WorkOn(x) = {} /\ FreshOn(x) = {} /\ ChangedOn(x) = {}
    BY <1>5, <1>21 DEF WorkOn, FreshOn, ChangedOn
  <2>2. IsPlanned(x)' => IsPlanned(x)
    <3>1. x >= d + 1 => x >= d
      BY ConstantsOK DEF Disks
    <3> QED BY <1>1, <1>5, <1>15, <1>18, <3>1 DEF IsPlanned, Working
  <2>3. IsThrough(x)' => IsThrough(x)
    <3>1. IsThrough(x)' => next = "marking" \/ x < d + 1
      BY <1>15, <1>17, <1>18 DEF IsThrough, Working
    <3>2. IsThrough(x)' => x < d
      BY <1>12, <1>21, <3>1, NextDisk
    <3> QED BY <1>1, <1>5, <3>2 DEF IsThrough, Working
  <2>4. SameView(x)
    BY <1>15, <1>19, <2>1, <2>2, <2>3 DEF SameView
  <2> QED BY <1>1, <1>2, <1>9, <1>17, <1>21, <2>4, DiskKept DEF DisksOK
<1>22. AtWork'
  <2>1. agent'.type = "initial-fill" => agent'.stage \in {"marking", "mkfs"}
    BY <1>12, <1>15
  <2> QED BY <1>12, <1>15, <1>17, <2>1 DEF AtWork, Working
<1>23. AgentOK'
  <2>1. agent'.type # "verify"
    BY <1>5, <1>15
  <2> QED BY <1>1, <1>4, <1>12, <1>15, <1>16, <2>1 DEF AgentOK, Working
<1>24. Rest' /\ OrderOK' /\ PicksOK' /\ Shape'
  BY <1>1, <1>2, <1>9 DEF Rest, OrderOK, PicksOK, Shape
<1> QED BY <1>20, <1>21, <1>22, <1>23, <1>24 DEF IInv, DisksOK

(* A marker is written, or is not. *)
LEMMA MarkerKeeps ==
  ASSUME IInv, agent.stage = "marking", NextMarker, order' = order, DOMAIN disk' = Disks,
         UNCHANGED <<platter, picks, cutOff, up, completed, data, filled, crashes>>,
         faults' \in 0 .. MaxFaults,
         \A x \in Disks :
           /\ StampedTo(disk'[x], disk[x]) /\ disk'[x].manifest = disk[x].manifest
           /\ disk'[x].marker \in {disk[x].marker, agent.run}
  PROVE  IInv'
<1>1. OrderOK /\ AgentOK /\ Rest /\ DisksOK /\ Shape /\ PicksOK
  BY DEF IInv
<1>2. /\ ~Churned /\ order.run \in Runs /\ up /\ agent.run = order.run /\ agent.type = order.type
      /\ agent.type \in Types /\ order.status # "done" /\ order.run # 0
  BY ChurnedIdle, ConstantsOK DEF Runs
<1>3. /\ agent \in Agents /\ agent.d \in Disks /\ agent.fresh = {} /\ agent.changed = {}
      /\ agent.type # "verify" /\ agent.result = "none"
      /\ agent.plans \in [Disks -> Seq(Jobs)] /\ agent.listed \in [Disks -> SUBSET Files]
  BY <1>1 DEF AgentOK, Working
<1>4. PICK e \in Disks : e = IF agent.d < NDisks THEN agent.d + 1 ELSE 1
  BY <1>3, NextDisk
<1>5. PICK next \in {"marking", "flush"} : next = IF agent.d < NDisks THEN "marking" ELSE "flush"
  OBVIOUS
<1>6. PICK result \in {"none", "done"} :
        /\ result = IF agent.d < NDisks THEN agent.result ELSE "done"
        /\ next = "marking" => result = "none"
  BY <1>3, <1>5
<1>7. agent' = [agent EXCEPT !.d = e, !.stage = next, !.result = result]
  BY <1>4, <1>5, <1>6 DEF NextMarker
<1>8. /\ agent' \in Agents /\ agent'.stage = next /\ agent'.fresh = {} /\ agent'.changed = {}
      /\ agent'.run = agent.run /\ agent'.type = agent.type /\ agent'.d = e
      /\ agent'.result = result /\ agent'.listed = agent.listed /\ agent'.plans = agent.plans
  <2>1. e \in Nat
    BY ConstantsOK DEF Disks
  <2> QED BY <1>3, <1>7, <2>1 DEF Agents, Stages
<1>9. ASSUME NEW x \in Disks PROVE DiskGood(x)'
  <2>1. /\ WorkOn(x)' = {} /\ FreshOn(x)' = {} /\ ~IsPlanned(x)' /\ ~IsFilling(x)'
        /\ WorkOn(x) = {} /\ FreshOn(x) = {}
    BY <1>3, <1>8 DEF WorkOn, FreshOn, IsPlanned, IsFilling, Working
  <2>2. PICK r \in 0 .. MaxRuns : r = order.run
    BY <1>1 DEF OrderOK
  <2>3. PICK k, p, cut, pk, type, k2 :
          /\ k = disk[x] /\ p = platter[x] /\ cut = cutOff[x] /\ pk = picks /\ type = order.type
          /\ k2 = disk'[x]
    OBVIOUS
  <2>4. DiskOK(k, p, cut, pk, r, type, {}, {})
    BY <1>1, <2>1, <2>2, <2>3 DEF DisksOK, DiskGood
  <2>5. k.fs /\ Finished(k, p, r, type) /\ (ChangePercent > 0 => Origin(k, {}))
    BY <2>2, <2>3, MarkerReady
  <2>6. StampedTo(k2, k) /\ k2.manifest = k.manifest /\ k2.marker \in {k.marker, r}
    BY <1>2, <2>2, <2>3
  <2>7. DiskOK(k2, p, cut, pk, r, type, {}, {}) /\ Finished(k2, p, r, type)
    BY <2>4, <2>5, <2>6, DiskMarked
  <2> QED BY <2>1, <2>2, <2>3, <2>7 DEF DiskGood
<1>10. AtWork'
  BY <1>8 DEF AtWork, Working
<1>11. AgentOK'
  BY <1>2, <1>3, <1>6, <1>8 DEF AgentOK, Working
<1>12. Rest' /\ OrderOK' /\ PicksOK' /\ Shape'
  BY <1>1, <1>2 DEF Rest, OrderOK, PicksOK, Shape
<1> QED BY <1>9, <1>10, <1>11, <1>12 DEF IInv, DisksOK

LEMMA RecordsOK ==
  ASSUME IInv, NEW d \in Disks
  PROVE  disk[d] \in DiskRecords /\ DOMAIN disk = Disks
BY DEF IInv, DisksOK, DiskGood, DiskOK, Sane, Shape

LEMMA WriteMarkerKeeps ==
  ASSUME IInv, WriteMarker
  PROVE  IInv'
<1>1. /\ agent.stage = "marking" /\ disk' = [disk EXCEPT ![agent.d].marker = agent.run]
      /\ NextMarker /\ order' = order
      /\ UNCHANGED <<platter, picks, cutOff, up, completed, data, filled, crashes, faults>>
  BY DEF WriteMarker, row
<1>2. faults' \in 0 .. MaxFaults
  BY <1>1 DEF IInv, Rest
<1>3. agent.run \in 0 .. MaxRuns
  BY AgentFields DEF IInv, AgentOK
<1>4. DOMAIN disk' = Disks
  BY <1>1 DEF IInv, Shape
<1>5. ASSUME NEW x \in Disks
      PROVE  /\ StampedTo(disk'[x], disk[x]) /\ disk'[x].manifest = disk[x].manifest
             /\ disk'[x].marker \in {disk[x].marker, agent.run}
  <2>1. PICK k \in DiskRecords : k = disk[x]
    BY RecordsOK
  <2>2. PICK r \in 0 .. MaxRuns : r = agent.run
    BY <1>3
  <2>3. disk'[x] = k \/ disk'[x] = [k EXCEPT !.marker = r]
    <3>1. DOMAIN disk = Disks
      BY RecordsOK
    <3> QED BY <1>1, <2>1, <2>2, <3>1
  <2>4. PICK k2 : k2 = [k EXCEPT !.marker = r]
    OBVIOUS
  <2>5. StampedTo(k2, k) /\ k2.manifest = k.manifest /\ k2.marker = r
    BY <2>4 DEF StampedTo, DiskRecords
  <2>6. StampedTo(k, k)
    BY DEF StampedTo
  <2> QED BY <2>1, <2>2, <2>3, <2>4, <2>5, <2>6
<1> QED BY <1>1, <1>2, <1>4, <1>5, MarkerKeeps

LEMMA SkipMarkerKeeps ==
  ASSUME IInv, SkipMarker
  PROVE  IInv'
<1>1. /\ agent.stage = "marking" /\ NextMarker /\ order' = order
      /\ UNCHANGED <<disk, platter, picks, cutOff, up, completed, data, filled, crashes>>
  BY DEF SkipMarker, row, world
<1>2. faults' \in 0 .. MaxFaults
  BY FaultCounted DEF SkipMarker
<1>3. \A x \in Disks : StampedTo(disk'[x], disk[x])
  BY <1>1, RecordsOK DEF StampedTo
<1>4. DOMAIN disk' = Disks
  BY <1>1 DEF IInv, Shape
<1> QED BY <1>1, <1>2, <1>3, <1>4, MarkerKeeps

-----------------------------------------------------------------------------
(* The start of a fill or a churn on a disk *)

LEMMA StartingIs ==
  ASSUME IInv, agent.stage \in {"mkfs", "plan"}
  PROVE  /\ agent \in Agents /\ agent.d \in Disks
         /\ agent.plans \in [Disks -> Seq(Jobs)] /\ agent.listed \in [Disks -> SUBSET Files]
         /\ agent.fresh = {} /\ agent.changed = {} /\ agent.result = "none"
         /\ order.run \in Runs /\ order.run # 0 /\ agent.run = order.run /\ agent.type = order.type
         /\ order.status # "done" /\ up /\ ~Churned /\ ~RunAlreadyComplete(order.run)
         /\ agent.type = IF agent.stage = "mkfs" THEN "initial-fill" ELSE "incremental"
         /\ \A d \in Disks : WorkOn(d) = {} /\ FreshOn(d) = {} /\ ChangedOn(d) = {} /\ ~IsFilling(d)
         /\ \A d \in Disks :
              DiskOK(disk[d], platter[d], cutOff[d], picks, order.run, order.type, {}, {})
<1>1. AgentOK /\ AtWork /\ DisksOK
  BY DEF IInv
<1>2. /\ order.run \in Runs /\ order.run # 0 /\ agent.run = order.run /\ agent.type = order.type
      /\ order.status # "done" /\ up /\ ~Churned
  BY ChurnedIdle, ConstantsOK DEF Runs
<1>3. /\ agent \in Agents /\ agent.d \in Disks
      /\ agent.plans \in [Disks -> Seq(Jobs)] /\ agent.listed \in [Disks -> SUBSET Files]
      /\ agent.fresh = {} /\ agent.changed = {} /\ agent.result = "none"
      /\ agent.type = IF agent.stage = "mkfs" THEN "initial-fill" ELSE "incremental"
  BY <1>1 DEF AgentOK, Working
<1>4. ~RunAlreadyComplete(order.run)
  BY <1>1 DEF AtWork
<1>5. \A d \in Disks : WorkOn(d) = {} /\ FreshOn(d) = {} /\ ChangedOn(d) = {} /\ ~IsFilling(d)
  BY <1>3 DEF WorkOn, FreshOn, ChangedOn, IsFilling, Working
<1>6. \A d \in Disks : DiskOK(disk[d], platter[d], cutOff[d], picks, order.run, order.type, {}, {})
  BY <1>1, <1>5 DEF DisksOK, DiskGood
<1> QED BY <1>2, <1>3, <1>4, <1>5, <1>6

LEMMA WipeKeeps ==
  ASSUME IInv, Wipe
  PROVE  IInv'
<1>1. /\ agent.stage = "mkfs"
      /\ disk' = [disk EXCEPT ![agent.d] = EmptyDisk]
      /\ platter' = [platter EXCEPT ![agent.d] = NoManifest]
      /\ cutOff' = [cutOff EXCEPT ![agent.d] = {}]
      /\ UNCHANGED <<picks, agent, up, completed, data, filled, crashes, faults>>
      /\ order' = order
  BY DEF Wipe, row
<1>2. OrderOK /\ AgentOK /\ Rest /\ DisksOK /\ Shape /\ PicksOK
  BY DEF IInv
<1>3. PICK d \in Disks : d = agent.d
  BY <1>1, StartingIs
<1>4. /\ disk'[d] = EmptyDisk /\ platter'[d] = NoManifest
      /\ \A x \in Disks \ {d} : SameDisk(x)
      /\ DOMAIN disk' = Disks /\ DOMAIN platter' = Disks /\ DOMAIN cutOff' = Disks
  BY <1>1, <1>2, <1>3 DEF Shape, SameDisk
<1>5. ~RunAlreadyComplete(order.run)' /\ ~Churned' /\ SameOrder
  BY <1>1, <1>4, StartingIs, EmptyIs DEF RunAlreadyComplete, Churned, SameOrder
<1>6. agent' = agent /\ agent'.stage = "mkfs" /\ agent.type = "initial-fill"
  BY <1>1, StartingIs
<1>7. \A x \in Disks :
        /\ WorkOn(x)' = {} /\ FreshOn(x)' = {} /\ WorkOn(x) = {} /\ FreshOn(x) = {}
        /\ ~IsPlanned(x)' /\ ~IsFilling(x)' /\ (IsThrough(x)' => x < d /\ IsThrough(x))
  <2>1. \A x \in Disks : WorkOn(x) = {} /\ FreshOn(x) = {}
    BY <1>1, StartingIs
  <2>2. \A x \in Disks : WorkOn(x)' = {} /\ FreshOn(x)' = {}
    BY <1>1, StartingIs DEF WorkOn, FreshOn
  <2>3. \A x \in Disks : ~IsPlanned(x)' /\ ~IsFilling(x)'
    BY <1>6 DEF IsPlanned, IsFilling, Working
  <2>4. \A x \in Disks : IsThrough(x)' => x < d /\ IsThrough(x)
    BY <1>3, <1>5, <1>6 DEF IsThrough, Working
  <2> QED BY <2>1, <2>2, <2>3, <2>4
<1>8. DiskGood(d)'
  <2>1. PICK r \in Runs : r = order.run
    BY <1>1, StartingIs
  <2>2. PICK pk, type, cut2 : pk = picks /\ type = order.type /\ cut2 = cutOff'[d]
    OBVIOUS
  <2>3. DiskOK(EmptyDisk, NoManifest, cut2, pk, r, type, {}, {})
    BY DiskWiped, ConstantsOK DEF Runs
  <2>4. ~(d < d)
    BY DEF Disks
  <2> QED BY <1>1, <1>4, <1>7, <2>1, <2>2, <2>3, <2>4 DEF DiskGood
<1>9. ASSUME NEW x \in Disks, x # d PROVE DiskGood(x)'
  <2>1. SameView(x)
    BY <1>7 DEF SameView
  <2> QED BY <1>1, <1>2, <1>4, <1>5, <1>9, <2>1, DiskKept DEF DisksOK
<1>10. AtWork'
  BY <1>5, <1>6 DEF AtWork, Working
<1>11. AgentOK'
  BY <1>1, <1>2 DEF AgentOK
<1>12. OrderOK'
  BY <1>1, <1>2, StartingIs DEF OrderOK
<1>13. Rest' /\ PicksOK' /\ Shape'
  BY <1>1, <1>2, <1>4 DEF Rest, PicksOK, Shape
<1> QED BY <1>8, <1>9, <1>10, <1>11, <1>12, <1>13 DEF IInv, DisksOK

(* What is noted for one disk, the rest as it was. *)
With(new, old, d, v) ==
  new = [old EXCEPT ![d] = v] /\ new[d] = v /\ \A x \in Disks \ {d} : new[x] = old[x]

LEMMA NotedFor ==
  ASSUME NEW S, NEW old, old \in [Disks -> S], NEW d \in Disks, NEW v \in S
  PROVE  \E new : new \in [Disks -> S] /\ With(new, old, d, v)
<1>1. PICK new : new = [old EXCEPT ![d] = v]
  OBVIOUS
<1>2. new \in [Disks -> S] /\ With(new, old, d, v)
  BY <1>1 DEF With
<1> QED BY <1>2

LEMMA MakeFSKeeps ==
  ASSUME IInv, MakeFS
  PROVE  IInv'
<1>1. /\ agent.stage = "mkfs" /\ ~disk[agent.d].fs
      /\ disk' = [disk EXCEPT ![agent.d].fs = TRUE]
      /\ agent' = [agent EXCEPT !.stage = "jobs",
           !.plans[agent.d] = Region(agent.run, GlobalRegion, "global")
                                \o Region(agent.run, LocalRegion, "local")]
      /\ UNCHANGED <<platter, picks, cutOff, up, completed, data, filled, crashes, faults>>
      /\ order' = order
  BY DEF MakeFS, row
<1>2. OrderOK /\ AgentOK /\ Rest /\ DisksOK /\ Shape /\ PicksOK
  BY DEF IInv
<1>3. /\ agent \in Agents /\ agent.type = "initial-fill" /\ order.type = "initial-fill"
      /\ agent.plans \in [Disks -> Seq(Jobs)] /\ agent.listed \in [Disks -> SUBSET Files]
      /\ agent.fresh = {} /\ agent.changed = {} /\ agent.result = "none"
      /\ order.run # 0 /\ agent.run = order.run /\ order.status # "done" /\ up /\ ~Churned
  BY <1>1, StartingIs
<1>4. PICK d \in Disks : d = agent.d
  BY <1>1, StartingIs
<1>5. PICK r \in Runs : r = order.run
  BY <1>1, StartingIs
<1>6. PICK pk, cut : pk = picks /\ cut = cutOff[d]
  OBVIOUS
<1>7. disk[d] = EmptyDisk /\ platter[d] = NoManifest
  <2>1. DiskOK(disk[d], platter[d], cutOff[d], picks, order.run, order.type, {}, {})
    BY <1>1, StartingIs
  <2> QED BY <1>1, <1>4, <2>1 DEF DiskOK, Sane
<1>8. PICK plan : plan = Region(r, GlobalRegion, "global") \o Region(r, LocalRegion, "local")
  OBVIOUS
<1>9. FillPlan(plan, r)
  BY <1>8, FillPlanned
<1>10. plan \in Seq(Jobs)
  BY <1>9 DEF FillPlan
<1>11. PICK k2 : k2 = [EmptyDisk EXCEPT !.fs = TRUE]
  OBVIOUS
<1>12. disk'[d] = k2 /\ (\A x \in Disks \ {d} : SameDisk(x)) /\ DOMAIN disk' = Disks
  BY <1>1, <1>2, <1>4, <1>7, <1>11 DEF Shape, SameDisk
<1>13. /\ DiskOK(k2, NoManifest, cut, pk, r, "initial-fill", {}, {})
       /\ Filling(k2, NoManifest, r, plan)
       /\ ~k2.id /\ k2.marker = 0 /\ k2.manifest = NoManifest
  BY <1>9, <1>11, DiskMade
<1>a. PICK old \in [Disks -> Seq(Jobs)] : old = agent.plans
  BY <1>3
<1>b. PICK plans : plans \in [Disks -> Seq(Jobs)] /\ With(plans, old, d, plan)
  BY <1>10, NotedFor
<1>14. /\ plans = [old EXCEPT ![d] = plan] /\ plans[d] = plan
       /\ \A x \in Disks \ {d} : plans[x] = old[x]
  BY <1>b DEF With
<1>15. agent' = [agent EXCEPT !.stage = "jobs", !.plans = plans]
  BY <1>1, <1>3, <1>4, <1>5, <1>8, <1>14, <1>a DEF Agents
<1>16. /\ agent' \in Agents /\ agent'.stage = "jobs" /\ agent'.fresh = {} /\ agent'.changed = {}
       /\ agent'.run = agent.run /\ agent'.type = agent.type /\ agent'.d = d
       /\ agent'.result = "none" /\ agent'.listed = agent.listed /\ agent'.plans = plans
  BY <1>3, <1>4, <1>15, <1>b DEF Agents, Stages
<1>17. ~RunAlreadyComplete(order.run)' /\ ~Churned' /\ SameOrder
  BY <1>1, <1>3, <1>12, <1>13 DEF RunAlreadyComplete, Churned, SameOrder
<1>18. \A x \in Disks :
         /\ WorkOn(x)' = {} /\ FreshOn(x)' = {} /\ ~IsPlanned(x)'
         /\ IsFilling(x)' => x = d
         /\ IsThrough(x)' => x < d
  BY <1>3, <1>16, <1>17 DEF WorkOn, FreshOn, IsPlanned, IsFilling, IsThrough, Working
<1>19. DiskGood(d)'
  <2>1. ~(d < d)
    BY DEF Disks
  <2>2. /\ WorkOn(d)' = {} /\ FreshOn(d)' = {} /\ ~IsPlanned(d)' /\ ~IsThrough(d)'
    BY <1>18, <2>1
  <2>3. /\ disk'[d] = k2 /\ platter'[d] = NoManifest /\ cutOff'[d] = cut /\ picks' = pk
        /\ order'.run = r /\ order'.type = "initial-fill" /\ agent'.plans[d] = plan
    BY <1>1, <1>3, <1>5, <1>6, <1>7, <1>12, <1>14, <1>16
  <2>4. DiskOK(disk'[d], platter'[d], cutOff'[d], picks', order'.run, order'.type, {}, {})
    BY <1>13, <2>3
  <2>5. Filling(disk'[d], platter'[d], order'.run, agent'.plans[d])
    BY <1>13, <2>3
  <2> QED BY <2>2, <2>4, <2>5 DEF DiskGood
<1>20. ASSUME NEW x \in Disks, x # d PROVE DiskGood(x)'
  <2>1. WorkOn(x) = {} /\ FreshOn(x) = {}
    BY <1>1, StartingIs
  <2>2. x < d => IsThrough(x)
    BY <1>1, <1>4 DEF IsThrough
  <2>3. SameView(x)
    BY <1>18, <1>20, <2>1, <2>2 DEF SameView
  <2> QED BY <1>1, <1>2, <1>12, <1>17, <1>20, <2>3, DiskKept DEF DisksOK
<1>21. AtWork'
  BY <1>12, <1>13, <1>16, <1>17 DEF AtWork, Working
<1>22. AgentOK'
  BY <1>1, <1>3, <1>4, <1>16, <1>b DEF AgentOK, Working
<1>23. Rest' /\ OrderOK' /\ PicksOK' /\ Shape'
  BY <1>1, <1>2, <1>3, <1>12 DEF Rest, OrderOK, PicksOK, Shape
<1> QED BY <1>19, <1>20, <1>21, <1>22, <1>23 DEF IInv, DisksOK

(* A pick that agrees with the ones before it. *)
LEMMA Picked ==
  ASSUME PicksOK, NEW r \in Runs, NEW n \in Nat, NEW at, PickChangeSet(r, n, at)
  PROVE  /\ picks \subseteq picks' /\ PicksOK' /\ at \in kSubset(NChange(n), 1 .. n)
         /\ \E q \in picks' : q.run = r /\ q.n = n /\ q.at = at
<1> DEFINE q == [run |-> r, n |-> n, at |-> at]
<1>1. /\ at \in kSubset(NChange(n), 1 .. n) /\ picks' = picks \cup {q}
      /\ \A p \in picks : (p.run = r /\ p.n = n) => p.at = at
  BY DEF PickChangeSet
<1>2. at \in SUBSET Nat
  BY <1>1 DEF kSubset
<1>3. q \in Picks /\ q.run = r /\ q.n = n /\ q.at = at
  BY <1>2 DEF Picks
<1> HIDE DEF q
<1>4. picks' \subseteq Picks
  BY <1>1, <1>3 DEF PicksOK
<1>5. Agree(picks')
  <2>1. \A x, y \in picks : x.run = y.run /\ x.n = y.n => x.at = y.at
    BY DEF PicksOK, Agree
  <2> QED BY <1>1, <1>3, <2>1 DEF Agree
<1> QED BY <1>1, <1>3, <1>4, <1>5 DEF PicksOK

(* What a churn is planned from: the files its disk has, and a pick of them. *)
LEMMA PlanIs ==
  ASSUME IInv, PlanChurn
  PROVE  \E d, r, L, plan :
           /\ d \in Disks /\ r \in Runs /\ L \in SUBSET Files /\ plan \in Seq(Jobs)
           /\ d = agent.d /\ r = order.run
           /\ picks \subseteq picks' /\ PicksOK'
           /\ Planned(disk[d], picks', r, plan, L, {}, {})
           /\ agent' = [agent EXCEPT !.plans[d] = plan, !.listed[d] = L,
                !.d = IF d < NDisks THEN d + 1 ELSE 1,
                !.stage = IF d < NDisks THEN "plan" ELSE "jobs"]
<1>1. agent.stage = "plan" /\ disk[agent.d].fs /\ Local(agent.d) # {}
  BY DEF PlanChurn
<1>2. PICK d \in Disks : d = agent.d
  BY <1>1, StartingIs
<1>3. PICK r \in Runs : r = order.run /\ r = agent.run
  BY <1>1, StartingIs
<1>4. PICK L : L = Local(d)
  OBVIOUS
<1>5. PICK k, p, cut, pk : k = disk[d] /\ p = platter[d] /\ cut = cutOff[d] /\ pk = picks
  OBVIOUS
<1>6. DiskOK(k, p, cut, pk, r, "incremental", {}, {}) /\ k.fs /\ L # {} /\ L = LocalFilesOf(k)
  <2>1. order.type = "incremental"
    BY <1>1, StartingIs
  <2>2. DiskOK(disk[d], platter[d], cutOff[d], picks, order.run, order.type, {}, {})
    BY <1>1, StartingIs
  <2> QED BY <1>1, <1>2, <1>3, <1>4, <1>5, <2>1, <2>2 DEF Local, LocalFilesOf
<1>7. L \in SUBSET Named /\ IsFiniteSet(L) /\ L \in SUBSET Files
  BY <1>6, LocalIs DEF DiskOK, Sane
<1>8. PICK n \in Nat : n = Cardinality(L)
  BY <1>7, FS_CardinalityType
<1>a. PICK at :
        /\ PickChangeSet(agent.run, Cardinality(Local(agent.d)), at)
        /\ agent' = [agent EXCEPT
            !.plans[agent.d] =
               Rewrites(agent.run, {f \in Local(agent.d) : Position(f, Local(agent.d)) \in at})
                 \o GrowJob(agent.run, Cardinality(Local(agent.d))),
            !.listed[agent.d] = Local(agent.d),
            !.d = IF agent.d < NDisks THEN agent.d + 1 ELSE 1,
            !.stage = IF agent.d < NDisks THEN "plan" ELSE "jobs"]
  BY DEF PlanChurn
<1>9.
        /\ PickChangeSet(r, n, at)
        /\ agent' = [agent EXCEPT
            !.plans[d] = Rewrites(r, {f \in L : Position(f, L) \in at}) \o GrowJob(r, n),
            !.listed[d] = L,
            !.d = IF d < NDisks THEN d + 1 ELSE 1,
            !.stage = IF d < NDisks THEN "plan" ELSE "jobs"]
  BY <1>2, <1>3, <1>4, <1>8, <1>a
<1>b. PICK C : C = {f \in L : Position(f, L) \in at}
  OBVIOUS
<1>10. C \in SUBSET Named /\ C = {f \in L : Position(f, L) \in at} /\ IsFiniteSet(C)
  <2>1. C \in SUBSET L
    BY <1>b
  <2> QED BY <1>7, <1>b, <2>1, FS_Subset
<1>11. PICK plan : plan = Rewrites(r, C) \o GrowJob(r, n)
  OBVIOUS
<1>12. ChurnPlan(plan, r, C, Grown(r, L))
  <2>1. ChurnPlan(Rewrites(r, C) \o GrowJob(r, n), r, C, Growth(r, NGrow(n)))
    BY <1>10, PlanWritten
  <2> QED BY <1>8, <1>11, <2>1 DEF Grown
<1>13. /\ picks \subseteq picks' /\ PicksOK' /\ at \in kSubset(NChange(n), 1 .. n)
       /\ \E q \in picks' : q.run = r /\ q.n = n /\ q.at = at
  BY <1>9, Picked DEF IInv
<1>14. PICK pk2 : pk2 = picks'
  OBVIOUS
<1>15. Agree(pk2) /\ pk \subseteq pk2
  BY <1>5, <1>13, <1>14 DEF PicksOK
<1>16. PICK q \in pk2 : q.run = r /\ q.n = n /\ q.at = at
  BY <1>13, <1>14
<1>17. plan \in Seq(Jobs) /\ Planned(k, pk2, r, plan, L, {}, {})
  <2>1. /\ at \in kSubset(NChange(Cardinality(L)), 1 .. Cardinality(L))
        /\ q.n = Cardinality(L)
        /\ ChurnPlan(plan, r, {f \in L : Position(f, L) \in at}, Grown(r, L))
    BY <1>8, <1>10, <1>12, <1>13, <1>16
  <2>2. at \in kSubset(NChange(Cardinality(L)), 1 .. Cardinality(L))
    BY <2>1
  <2>3. ChurnPlan(plan, r, {f \in L : Position(f, L) \in at}, Grown(r, L))
    BY <2>1
  <2> QED BY <1>6, <1>15, <1>16, <2>1, <2>2, <2>3, PlanOver
<1>18. agent' = [agent EXCEPT !.plans[d] = plan, !.listed[d] = L,
                !.d = IF d < NDisks THEN d + 1 ELSE 1,
                !.stage = IF d < NDisks THEN "plan" ELSE "jobs"]
  BY <1>9, <1>10, <1>11
<1>19. Planned(disk[d], picks', r, plan, L, {}, {})
  BY <1>5, <1>14, <1>17
<1>20. /\ d \in Disks /\ r \in Runs /\ L \in SUBSET Files /\ plan \in Seq(Jobs)
       /\ d = agent.d /\ r = order.run /\ picks \subseteq picks' /\ PicksOK'
  BY <1>2, <1>3, <1>7, <1>13, <1>17
<1> QED BY <1>18, <1>19, <1>20

LEMMA PlanChurnKeeps ==
  ASSUME IInv, PlanChurn
  PROVE  IInv'
<1>1. /\ agent.stage = "plan"
      /\ UNCHANGED <<disk, platter, cutOff, up, completed, data, filled, crashes, faults>>
      /\ order' = order
  BY DEF PlanChurn, row
<1>2. OrderOK /\ AgentOK /\ Rest /\ DisksOK /\ Shape /\ PicksOK
  BY DEF IInv
<1>3. /\ agent \in Agents /\ agent.type = "incremental" /\ order.type = "incremental"
      /\ agent.plans \in [Disks -> Seq(Jobs)] /\ agent.listed \in [Disks -> SUBSET Files]
      /\ agent.fresh = {} /\ agent.changed = {} /\ agent.result = "none"
      /\ order.run # 0 /\ agent.run = order.run /\ order.status # "done" /\ up
      /\ ~Churned /\ ~RunAlreadyComplete(order.run)
  BY <1>1, StartingIs
<1>5. PICK d, r, L, plan :
        /\ d \in Disks /\ r \in Runs /\ L \in SUBSET Files /\ plan \in Seq(Jobs)
        /\ d = agent.d /\ r = order.run
        /\ picks \subseteq picks' /\ PicksOK'
        /\ Planned(disk[d], picks', r, plan, L, {}, {})
        /\ agent' = [agent EXCEPT !.plans[d] = plan, !.listed[d] = L,
             !.d = IF d < NDisks THEN d + 1 ELSE 1,
             !.stage = IF d < NDisks THEN "plan" ELSE "jobs"]
  BY PlanIs
<1>a. PICK old \in [Disks -> Seq(Jobs)] : old = agent.plans
  BY <1>3
<1>b. PICK oldL \in [Disks -> SUBSET Files] : oldL = agent.listed
  BY <1>3
<1>c. PICK plans : plans \in [Disks -> Seq(Jobs)] /\ With(plans, old, d, plan)
  BY <1>5, NotedFor
<1>d. PICK listed : listed \in [Disks -> SUBSET Files] /\ With(listed, oldL, d, L)
  BY <1>5, NotedFor
<1>6. /\ plans = [old EXCEPT ![d] = plan] /\ plans[d] = plan
      /\ \A x \in Disks \ {d} : plans[x] = old[x]
  BY <1>c DEF With
<1>7. /\ listed = [oldL EXCEPT ![d] = L] /\ listed[d] = L
      /\ \A x \in Disks \ {d} : listed[x] = oldL[x]
  BY <1>d DEF With
<1>8. PICK e \in Disks : e = IF d < NDisks THEN d + 1 ELSE 1
  BY <1>5, NextDisk
<1>9. PICK next \in {"plan", "jobs"} : next = IF d < NDisks THEN "plan" ELSE "jobs"
  OBVIOUS
<1>10. agent' = [agent EXCEPT !.plans = plans, !.listed = listed, !.d = e, !.stage = next]
  BY <1>3, <1>5, <1>6, <1>7, <1>8, <1>9, <1>a, <1>b DEF Agents
<1>11. /\ agent' \in Agents /\ agent'.stage = next /\ agent'.fresh = {} /\ agent'.changed = {}
       /\ agent'.run = agent.run /\ agent'.type = agent.type /\ agent'.d = e
       /\ agent'.result = "none" /\ agent'.listed = listed /\ agent'.plans = plans
  <2>1. e \in Nat
    BY ConstantsOK DEF Disks
  <2> QED BY <1>3, <1>10, <1>c, <1>d, <2>1 DEF Agents, Stages
<1>12. ~RunAlreadyComplete(order.run)' /\ ~Churned' /\ SameOrder
  BY <1>1, <1>3 DEF RunAlreadyComplete, Churned, SameOrder
<1>13. \A x \in Disks :
         /\ next = "plan" => (x < e <=> x = d \/ x < d)
         /\ next = "jobs" => e = 1 /\ ~(x < e) /\ (x = d \/ x < d)
  <2>1. \A x \in Disks : ~(x < 1)
    BY ConstantsOK DEF Disks
  <2>2. d \in Disks /\ d < d + 1
    BY <1>5, ConstantsOK DEF Disks
  <2>3. \A x \in Disks : x # d => (x < d + 1 <=> x < d) /\ (d = NDisks => x < d)
    BY <2>2, NextDisk
  <2>4. d < NDisks \/ (d = NDisks /\ ~(d < NDisks))
    <3>1. ~(d < NDisks) <=> d = NDisks
      BY <2>2, NextDisk
    <3> QED BY <3>1
  <2>5. CASE d < NDisks
    <3>1. next = "plan" /\ e = d + 1
      BY <1>8, <1>9, <2>5
    <3>2. \A x \in Disks : x < d + 1 <=> x = d \/ x < d
      BY <2>2, <2>3
    <3> QED BY <3>1, <3>2
  <2>6. CASE d = NDisks /\ ~(d < NDisks)
    <3>1. next = "jobs" /\ e = 1
      BY <1>8, <1>9, <2>6
    <3>2. \A x \in Disks : x = d \/ x < d
      BY <2>3, <2>6
    <3> QED BY <2>1, <3>1, <3>2
  <2> QED BY <2>4, <2>5, <2>6
<1>14. \A x \in Disks :
         /\ WorkOn(x)' = {} /\ FreshOn(x)' = {} /\ ChangedOn(x)' = {}
         /\ ~IsFilling(x)' /\ ~IsThrough(x)'
         /\ IsPlanned(x)' => x = d \/ IsPlanned(x)
  <2>1. \A x \in Disks : WorkOn(x)' = {} /\ FreshOn(x)' = {} /\ ChangedOn(x)' = {}
    BY <1>11 DEF WorkOn, FreshOn, ChangedOn, Working
  <2>2. \A x \in Disks : ~IsFilling(x)'
    BY <1>3, <1>11 DEF IsFilling
  <2>3. \A x \in Disks : ~IsThrough(x)'
    BY <1>11, <1>12, <1>13 DEF IsThrough, Working
  <2>4. \A x \in Disks : IsPlanned(x)' => x = d \/ IsPlanned(x)
    <3>1. SUFFICES ASSUME NEW x \in Disks, IsPlanned(x)' PROVE x = d \/ IsPlanned(x)
      OBVIOUS
    <3>2. next = "plan" => x < e
      BY <1>11, <3>1 DEF IsPlanned, Working
    <3>3. x = d \/ x < d
      BY <1>9, <1>13, <3>2
    <3> QED BY <1>1, <1>3, <1>5, <3>3 DEF IsPlanned
  <2> QED BY <2>1, <2>2, <2>3, <2>4
<1>15. ASSUME NEW x \in Disks PROVE DiskGood(x)'
  <2>1. PICK k, p, cut, pk, pk2 :
          k = disk[x] /\ p = platter[x] /\ cut = cutOff[x] /\ pk = picks /\ pk2 = picks'
    OBVIOUS
  <2>2. Agree(pk2) /\ pk \subseteq pk2
    BY <1>5, <2>1 DEF PicksOK
  <2>3. DiskOK(k, p, cut, pk, r, "incremental", {}, {})
    <3>1. DiskOK(disk[x], platter[x], cutOff[x], picks, order.run, order.type, {}, {})
      BY <1>1, StartingIs
    <3> QED BY <1>3, <1>5, <2>1, <3>1
  <2>4. DiskOK(k, p, cut, pk2, r, "incremental", {}, {})
    <3>1. Excused(pk, cut) \cup {} \subseteq Excused(pk2, cut) \cup {}
      BY <2>2, ChosenGrows
    <3> QED BY <2>2, <2>3, <3>1, DiskExcused
  <2>5. IsPlanned(x)' => Planned(k, pk2, r, plans[x], listed[x], {}, {})
    <3>1. CASE x = d
      BY <1>5, <1>6, <1>7, <2>1, <3>1
    <3>2. CASE x # d /\ IsPlanned(x)
      <4>1. WorkOn(x) = {} /\ FreshOn(x) = {} /\ ChangedOn(x) = {}
        BY <1>1, StartingIs
      <4>2. PICK left, L2 : left = agent.plans[x] /\ L2 = agent.listed[x]
        OBVIOUS
      <4>3. Planned(k, pk, r, left, L2, {}, {})
        BY <1>2, <1>5, <2>1, <3>2, <4>1, <4>2 DEF DisksOK, DiskGood
      <4>4. Planned(k, pk2, r, left, L2, {}, {})
        BY <2>2, <4>3, PlannedStays
      <4> QED BY <1>6, <1>7, <1>a, <1>b, <3>2, <4>2, <4>4
    <3> QED BY <1>14, <3>1, <3>2
  <2> QED BY <1>1, <1>3, <1>5, <1>11, <1>14, <2>1, <2>4, <2>5 DEF DiskGood
<1>16. AtWork'
  BY <1>3, <1>11, <1>12 DEF AtWork, Working
<1>17. AgentOK'
  BY <1>1, <1>3, <1>11, <1>c, <1>d DEF AgentOK, Working
<1>18. Rest' /\ OrderOK' /\ PicksOK' /\ Shape'
  BY <1>1, <1>2, <1>3, <1>5 DEF Rest, OrderOK, PicksOK, Shape
<1> QED BY <1>15, <1>16, <1>17, <1>18 DEF IInv, DisksOK

-----------------------------------------------------------------------------
(* The invariant *)

LEMMA InitHolds == Init => IInv
<1> SUFFICES ASSUME Init PROVE IInv
  OBVIOUS
<1>1. /\ disk = [d \in Disks |-> EmptyDisk] /\ platter = [d \in Disks |-> NoManifest]
      /\ agent = Idle /\ up = FALSE /\ completed = {}
      /\ order = [run |-> 0, type |-> "verify", status |-> "none"]
      /\ data = [state |-> "unknown", run |-> 0, manifest |-> FALSE]
      /\ filled = FALSE /\ picks = {} /\ cutOff = [d \in Disks |-> {}] /\ crashes = 0 /\ faults = 0
  BY DEF Init
<1>2. order.run = 0 /\ order.type = "verify" /\ order.status = "none"
  BY <1>1
<1>3. Shape
  BY <1>1 DEF Shape
<1>4. AgentOK
  BY <1>1, IdleIs DEF AgentOK, Working
<1>5. OrderOK
  <2>1. \A d \in Disks : ~disk[d].fs
    BY <1>1, EmptyIs
  <2> QED BY <1>1, <1>2, <2>1, ConstantsOK DEF OrderOK, Types
<1>6. PicksOK
  <2>1. Agree({})
    BY DEF Agree
  <2> QED BY <1>1, <2>1 DEF PicksOK
<1>7. Rest
  <2>1. up = FALSE /\ filled = FALSE /\ completed = {} /\ data.state = "unknown"
    BY <1>1
  <2>2. crashes \in 0 .. MaxCrashes /\ faults \in 0 .. MaxFaults
    BY <1>1, ConstantsOK
  <2> QED BY <2>1, <2>2 DEF Rest
<1>8. AtWork
  BY <1>1, IdleIs DEF AtWork, Working
<1>9. ASSUME NEW d \in Disks PROVE DiskGood(d)
  <2>1. WorkOn(d) = {} /\ FreshOn(d) = {}
    BY <1>1, <1>4, IdleIs, RestSees DEF AtRest
  <2>2. ~IsPlanned(d) /\ ~IsFilling(d) /\ ~IsThrough(d)
    BY <1>1, <1>2, IdleIs DEF IsPlanned, IsFilling, IsThrough, Churned, Working
  <2>3. disk[d] = EmptyDisk /\ platter[d] = NoManifest
    BY <1>1
  <2>4. PICK pk, type, cut : pk = picks /\ type = order.type /\ cut = cutOff[d]
    OBVIOUS
  <2>5. DiskOK(EmptyDisk, NoManifest, cut, pk, 0, type, {}, {})
    BY DiskWiped
  <2> QED BY <1>2, <2>1, <2>2, <2>3, <2>4, <2>5 DEF DiskGood
<1> QED BY <1>3, <1>4, <1>5, <1>6, <1>7, <1>8, <1>9 DEF IInv, DisksOK

LEMMA StutterKeeps ==
  ASSUME IInv, UNCHANGED vars
  PROVE  IInv'
<1>1. /\ UNCHANGED world /\ agent' = agent /\ order' = order
      /\ UNCHANGED <<up, completed, data, filled, crashes, faults>>
  BY DEF vars, row
<1>2. OrderOK /\ AgentOK /\ Rest
  BY DEF IInv
<1>3. DisksOK' /\ Shape' /\ AtWork' /\ PicksOK'
  BY <1>1, AgentUntouched DEF SameOrder
<1>4. AgentOK' /\ Rest'
  BY <1>1, <1>2 DEF AgentOK, Rest
<1>5. OrderOK'
  BY <1>1, <1>2 DEF OrderOK, world
<1> QED BY <1>3, <1>4, <1>5 DEF IInv

(* The invariant behind the theorems holds, and every step keeps it: how an *)
(* order is carried out on each disk, what a power cut may leave of it and  *)
(* what the next attempt finds, in one formula.                             *)
THEOREM Inductive == Spec => []IInv
<1>1. ASSUME IInv, [Next]_vars PROVE IInv'
  <2>1. ASSUME NEW type \in Types, NewRun(type) PROVE IInv'
    BY <1>1, <2>1, NewRunKeeps
  <2>2. ASSUME EndRun \/ Register \/ Dispatch PROVE IInv'
    BY <1>1, <2>2, EndRunKeeps, RegisterKeeps, DispatchKeeps
  <2>3. ASSUME RunFill \/ RunVerify \/ PlanChurn \/ PlanFails PROVE IInv'
    BY <1>1, <2>3, RunFillKeeps, RunVerifyKeeps, PlanChurnKeeps, PlanFailsKeeps
  <2>4. ASSUME Wipe \/ MakeFS \/ BeginJob \/ EndJob \/ DiskWritten PROVE IInv'
    BY <1>1, <2>4, WipeKeeps, MakeFSKeeps, BeginJobKeeps, EndJobKeeps, DiskWrittenKeeps
  <2>5. ASSUME WriteIdentity \/ SkipIdentity \/ UpdateDiskManifest \/ SyncDir PROVE IInv'
    BY <1>1, <2>5, WriteIdentityKeeps, SkipIdentityKeeps, UpdateManifestKeeps, SyncDirKeeps
  <2>6. ASSUME WriteMarker \/ SkipMarker \/ FlushDisks PROVE IInv'
    BY <1>1, <2>6, WriteMarkerKeeps, SkipMarkerKeeps, FlushDisksKeeps
  <2>7. ASSUME StepFails \/ Report \/ LoseReport \/ Crash \/ PowerOff PROVE IInv'
    BY <1>1, <2>7, StepFailsKeeps, ReportKeeps, LoseReportKeeps, CrashKeeps, PowerOffKeeps
  <2>8. ASSUME UNCHANGED vars PROVE IInv'
    BY <1>1, <2>8, StutterKeeps
  <2> QED BY <1>1, <2>1, <2>2, <2>3, <2>4, <2>5, <2>6, <2>7, <2>8 DEF Next
<1> QED BY <1>1, InitHolds, PTL DEF Spec

-----------------------------------------------------------------------------
(* The theorems *)

LEMMA TypesOfDisk ==
  ASSUME IInv, NEW d \in Disks
  PROVE  /\ IsManifest(disk[d].manifest) /\ IsManifest(platter[d])
         /\ \A f \in DOMAIN disk[d].files : disk[d].files[f] \in Contents
         /\ disk[d].id \in BOOLEAN /\ disk[d].marker \in 0 .. MaxRuns
         /\ ~disk[d].fs => disk[d] = EmptyDisk
<1>1. PICK k, p : k = disk[d] /\ p = platter[d]
  OBVIOUS
<1>2. Sane(k, p)
  BY <1>1 DEF IInv, DisksOK, DiskGood, DiskOK
<1>3. k \in DiskRecords /\ p \in Manifests /\ (~k.fs => k = EmptyDisk)
  BY <1>2 DEF Sane
<1>4. \A m \in Manifests : IsManifest(m)
  <2>1. ASSUME NEW m \in Manifests PROVE IsManifest(m)
    <3>1. PICK sums \in FileMaps : sums = m.sums /\ m.run \in 0 .. MaxRuns
      BY DEF Manifests
    <3>2. \A f \in DOMAIN sums : sums[f] \in Contents
      BY FileMapElim
    <3> QED BY <3>1, <3>2 DEF IsManifest
  <2> QED BY <2>1
<1>5. /\ \A f \in DOMAIN k.files : k.files[f] \in Contents
      /\ k.id \in BOOLEAN /\ k.marker \in 0 .. MaxRuns /\ k.manifest \in Manifests
  BY <1>3, DiskFields
<1> QED BY <1>1, <1>3, <1>4, <1>5

(* Whatever crashed, was cut off or failed, every file, checksum and marker  *)
(* is one that some job of some run wrote, a disk without a filesystem has   *)
(* nothing, and an agent at work has an order and a disk that is made.       *)
THEOREM TypeCorrect == Spec => []TypeOK
<1>1. ASSUME IInv PROVE TypeOK
  <2>1. AgentOK /\ OrderOK /\ Rest
    BY <1>1 DEF IInv
  <2>2. agent.stage \in Stages
    BY <2>1, IdleIs, AgentFields DEF AgentOK
  <2>3. agent.stage # "idle" => up /\ agent.run = order.run /\ agent.run \in Runs
    BY <1>1, ChurnedIdle
  <2>4. agent.stage \in {"mkfs", "plan", "jobs", "writing", "identity", "manifest", "sync", "marking"}
          => agent.d \in Disks
    BY <2>1 DEF AgentOK, Working
  <2>5. agent.stage \in {"jobs", "writing", "identity", "manifest", "sync"} => disk[agent.d].fs
    BY <1>1, AgentDiskIs DEF Working
  <2>6. agent.stage = "marking" => disk[agent.d].fs
    <3>1. ASSUME agent.stage = "marking" PROVE disk[agent.d].fs
      <4>1. agent.d \in Disks /\ IsThrough(agent.d)
        BY <2>4, <3>1 DEF IsThrough
      <4> QED BY <1>1, <4>1 DEF IInv, DisksOK, DiskGood, Finished
    <3> QED BY <3>1
  <2>7. /\ completed \subseteq Runs
        /\ order.status \in {"none", "open", "done", "failed"} /\ order.type \in Types
        /\ data.state \in {"unknown", "empty", "partial", "filled"}
        /\ up \in BOOLEAN /\ filled \in BOOLEAN
        /\ crashes \in 0 .. MaxCrashes /\ faults \in 0 .. MaxFaults
    BY <2>1 DEF OrderOK, Rest
  <2>8. \A d \in Disks :
          /\ IsManifest(disk[d].manifest) /\ IsManifest(platter[d])
          /\ \A f \in DOMAIN disk[d].files : disk[d].files[f] \in Contents
          /\ disk[d].id \in BOOLEAN /\ disk[d].marker \in 0 .. MaxRuns
          /\ ~disk[d].fs => disk[d] = EmptyDisk
    BY <1>1, TypesOfDisk
  <2>9. agent.stage \in {"jobs", "writing", "identity", "manifest", "sync", "marking"} => disk[agent.d].fs
    BY <2>5, <2>6
  <2> QED BY <2>2, <2>3, <2>4, <2>7, <2>8, <2>9 DEF TypeOK
<1>2. IInv => TypeOK
  BY <1>1
<1> QED BY <1>2, Inductive, PTL

(* Two maps of files with the same files and the same contents are one.      *)
LEMMA SameSums ==
  ASSUME NEW m \in FileMaps, NEW g \in FileMaps, DOMAIN m = DOMAIN g,
         \A f \in DOMAIN m : m[f] = g[f]
  PROVE  m = g
<1>1. m = [f \in DOMAIN m |-> m[f]] /\ g = [f \in DOMAIN g |-> g[f]]
  BY FileMapElim
<1>2. [f \in DOMAIN m |-> m[f]] = [f \in DOMAIN g |-> g[f]]
  OBVIOUS
<1> QED BY <1>1, <1>2

(* A disk that is through with a run, with no churn of it cut off.           *)
LEMMA FinishedVerifies ==
  ASSUME NEW k, NEW p, NEW pk, NEW r, NEW type, NEW fresh,
         DiskOK(k, p, {}, pk, r, type, {}, fresh), Finished(k, p, r, type)
  PROVE  k.fs /\ k.manifest.run # 0 /\ k.manifest.sums = k.files
<1>1. k.fs /\ k.manifest.run # 0 /\ DOMAIN k.manifest.sums = DOMAIN k.files
  BY DEF Finished
<1>2. Stale(k.manifest, k) = {}
  <2>1. Excused(pk, {}) = {}
    BY DEF Excused
  <2> QED BY <2>1 DEF DiskOK, SumsOK
<1>3. k.files \in FileMaps /\ k.manifest.sums \in FileMaps
  BY DiskFields DEF DiskOK, Sane
<1>4. \A f \in DOMAIN k.manifest.sums : k.manifest.sums[f] = k.files[f]
  BY <1>2 DEF Stale
<1>5. k.manifest.sums = k.files
  BY <1>1, <1>3, <1>4, SameSums
<1> QED BY <1>1, <1>5

LEMMA ChurnedThrough ==
  ASSUME IInv, Churned, NEW d \in Disks
  PROVE  /\ DiskOK(disk[d], platter[d], cutOff[d], picks, order.run, order.type, {}, {})
         /\ Finished(disk[d], platter[d], order.run, order.type)
<1>1. agent.stage = "idle"
  BY ChurnedIdle
<1>2. WorkOn(d) = {} /\ FreshOn(d) = {}
  BY <1>1, RestSees DEF AtRest, IInv
<1>3. IsThrough(d)
  BY DEF IsThrough
<1> QED BY <1>2, <1>3 DEF IInv, DisksOK, DiskGood

(* Once a run that writes is done, what is on every disk matches its         *)
(* manifest, but for disks with a churn that was cut off and not redone over *)
(* the same files: for any number of disks, files, runs, crashes and faults. *)
THEOREM DoneIsVerified == Spec => []DoneVerifies
<1>1. ASSUME IInv, Churned, NEW d \in Disks, cutOff[d] = {} PROVE Verifies(d)
  <2>1. PICK k, p, pk, r, type : k = disk[d] /\ p = platter[d] /\ pk = picks /\ r = order.run /\ type = order.type
    OBVIOUS
  <2>2. DiskOK(k, p, {}, pk, r, type, {}, {}) /\ Finished(k, p, r, type)
    BY <1>1, <2>1, ChurnedThrough
  <2>3. k.fs /\ k.manifest.run # 0 /\ k.manifest.sums = k.files
    BY <2>2, FinishedVerifies
  <2> QED BY <2>1, <2>3 DEF Verifies
<1>2. IInv => DoneVerifies
  BY <1>1 DEF DoneVerifies
<1> QED BY <1>2, Inductive, PTL

(* A run that writes and is reported done has been carried out on every      *)
(* disk, in this attempt or in one before a crash, and has left nothing      *)
(* half-written.                                                             *)
THEOREM DoneIsWritten == Spec => []DoneMeansWritten
<1>1. ASSUME IInv, Churned, NEW d \in Disks
      PROVE  LET files == disk[d].files
                 mine == {f \in DOMAIN files : files[f].run = order.run} IN
             /\ order.type = "initial-fill" => mine = GlobalRegion \cup LocalRegion
             /\ order.type = "incremental" /\ ChangePercent > 0 =>
                  \E f \in mine : files[f].job = "change"
             /\ order.type = "incremental" /\ LocalRegion \subseteq DOMAIN files =>
                  Growth(order.run, NGrow(LocalFiles)) \subseteq mine
             /\ \A f \in mine : files[f].job \notin {"unwritten", "torn"}
  <2>1. CarriedOut(disk[d], order.run, order.type)
    BY <1>1, ChurnedThrough DEF Finished
  <2> QED BY <2>1 DEF CarriedOut, Regions
<1>2. IInv => DoneMeansWritten
  BY <1>1 DEF DoneMeansWritten
<1> QED BY <1>2, Inductive, PTL

(* A disk that is stamped has been filled, or an incremental wrote to it.    *)
LEMMA FilledIs ==
  ASSUME NEW k, NEW fresh, Origin(k, fresh), k.fs
  PROVE  \/ /\ k.fs /\ GlobalRegion \cup LocalRegion \subseteq DOMAIN k.files
            /\ \A f \in DOMAIN k.files : k.files[f].job # "unwritten"
         \/ \E f \in DOMAIN k.files : k.files[f].job \in {"change", "grow", "torn"}
BY DEF Origin, Regions

(* What makes a row say `filled': a boot that sees all disks stamped, or the *)
(* report of a run that is through with them.                                *)
LEMMA RowFilled ==
  ASSUME IInv, Next, ChangePercent > 0, data' # data, data'.state = "filled", NEW d \in Disks
  PROVE  disk'[d] = disk[d] /\ disk[d].fs /\ \E fresh : Origin(disk[d], fresh)
<1>1. Register \/ Report
  BY DEF Next, NewRun, EndRun, Dispatch, RunFill, RunVerify, PlanChurn, PlanFails, Wipe, MakeFS,
         BeginJob, EndJob, DiskWritten, WriteIdentity, SkipIdentity, UpdateDiskManifest, SyncDir,
         WriteMarker, SkipMarker, FlushDisks, StepFails, LoseReport, Crash, PowerOff, PowerCut, row
<1>2. DiskGood(d)
  BY DEF IInv, DisksOK
<1>3. CASE Register
  <2>1. disk' = disk /\ data' = DataState
    BY <1>3 DEF Register, world
  <2>2. MarkedDisks = Disks
    BY <2>1 DEF DataState
  <2>3. disk[d].fs /\ (disk[d].id \/ disk[d].marker # 0)
    BY <2>2 DEF MarkedDisks, Marked
  <2>4. Origin(disk[d], FreshOn(d))
    BY <1>2, <2>3 DEF DiskGood, DiskOK, StampOK
  <2> QED BY <2>1, <2>3, <2>4
<1>4. CASE Report
  <2>1. /\ disk' = disk /\ agent.stage = "report" /\ agent.result = "done" /\ agent.type # "verify"
    BY <1>4 DEF Report, world
  <2>2. order.type \in Types
    BY DEF IInv, OrderOK
  <2>3. Finished(disk[d], platter[d], order.run, order.type)
    BY <1>2, <2>1 DEF DiskGood, IsThrough
  <2>4. PICK k, p, r, type : k = disk[d] /\ p = platter[d] /\ r = order.run /\ type = order.type
    OBVIOUS
  <2>5. k.fs /\ Origin(k, {})
    BY <2>2, <2>3, <2>4, FinishedOrigin
  <2> QED BY <2>1, <2>4, <2>5
<1> QED BY <1>1, <1>3, <1>4

(* When the row of a VM begins to say that its disks are filled, they are:   *)
(* each has all of an initial fill, or an incremental has written to it.     *)
THEOREM FilledReports == Spec => FilledReportIsTrue
<1>1. ASSUME IInv, [Next]_vars, ChangePercent > 0, data' # data, data'.state = "filled"
      PROVE  (\A d \in Disks : Whole(d) \/ ByIncremental(d))'
  <2>1. Next
    BY <1>1 DEF vars, row
  <2>2. ASSUME NEW d \in Disks PROVE (Whole(d) \/ ByIncremental(d))'
    <3>1. disk'[d] = disk[d] /\ disk[d].fs /\ \E fresh : Origin(disk[d], fresh)
      BY <1>1, <2>1, RowFilled
    <3>2. PICK k, fresh : k = disk[d] /\ k = disk'[d] /\ k.fs /\ Origin(k, fresh)
      BY <3>1
    <3>3. \/ /\ k.fs /\ GlobalRegion \cup LocalRegion \subseteq DOMAIN k.files
             /\ \A f \in DOMAIN k.files : k.files[f].job # "unwritten"
          \/ \E f \in DOMAIN k.files : k.files[f].job \in {"change", "grow", "torn"}
      BY <3>2, FilledIs
    <3> QED BY <3>2, <3>3 DEF Whole, ByIncremental
  <2> QED BY <2>2
<1>2. IInv /\ [Next]_vars =>
        [ChangePercent > 0 /\ data' # data /\ data'.state = "filled"
           => (\A d \in Disks : Whole(d) \/ ByIncremental(d))']_vars
  BY <1>1
<1> QED BY <1>2, Inductive, PTL DEF Spec, FilledReportIsTrue
=============================================================================
