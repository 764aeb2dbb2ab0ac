--------------------------- MODULE Configuration ---------------------------
(***************************************************************************)
(* Where the effective configuration of a deployment comes from and what   *)
(* it decides: connections, versioned profiles and deployments with their  *)
(* foreign keys (internal/store), the handlers that read, check and write  *)
(* them (internal/api/profiles.go, deployments.go), and the jobs that act  *)
(* on a spec read earlier: deploy, teardown and the work orders of a fill  *)
(* (orch/fill.go, datagen.BuildWorkOrder).                                 *)
(*                                                                         *)
(* A handler is a sequence of store statements, with what it read in its   *)
(* request.  Names are left out; IDs are never used twice.                 *)
(***************************************************************************)
EXTENDS Naturals, Sequences, FiniteSets, FiniteSetsExt, SequencesExt

CONSTANTS
  Connections, Profiles, Deployments,  \* IDs
  Requests,     \* handlers that may be under way at once
  Specs,        \* what callers send as a spec
  MaxVMs,       \* the validated limit of vmCount
  GiB,          \* bytes in a GiB
  KB,           \* KB in a MB, as the rate split counts
  None,
  MaxVersions,  \* bound on the versions of a profile
  MaxCalls,     \* bound on calls about deployments
  MaxRestarts   \* bound on controller restarts

SpecFields == [vms : Nat, parallel : Nat, rate : Nat, disks : Nat, data : Nat, dedupe : 0 .. 100]

ASSUME ConfigurationAssumption ==
  /\ Specs \subseteq SpecFields
  /\ {MaxVMs, GiB, KB} \subseteq Nat \ {0}
  /\ MaxVMs <= KB
  /\ {MaxVersions, MaxCalls, MaxRestarts} \subseteq Nat
  /\ None \notin Profiles \cup Connections \cup Specs

VARIABLES
  connection,  \* which connections there are
  profile,     \* the versions of each profile, <<>> if there is no such row
  deployment,  \* the deployments table, and the VMs on the hypervisor
  request,     \* the handlers under way
  job,         \* the job of each deployment, and the spec it was started with
  fill,        \* the fill run of each deployment, its VMs and their orders
  outdated,    \* history: deployments whose spec was checked against another than it replaced
  detached,    \* history: deployments whose profile was deleted after it was found unused
  calls, restarts

history == <<outdated, detached>>
bounds == <<calls, restarts>>
vars == <<connection, profile, deployment, request, job, fill, history, bounds>>

NoRow ==
  [status |-> "none", profile |-> None, version |-> 0, connection |-> None,
   spec |-> None, own |-> FALSE, built |-> 0]
NoRequest ==
  [op |-> "none", d |-> None, p |-> None, c |-> None, version |-> 0, spec |-> None, seen |-> None]
NoJob == [type |-> "none", spec |-> None]
NoFill == [total |-> 0, pending |-> 0, shares |-> <<>>, written |-> {}, edited |-> FALSE]

Init ==
  /\ connection = [c \in Connections |-> "none"]
  /\ profile = [p \in Profiles |-> [status |-> "none", versions |-> <<>>]]
  /\ deployment = [d \in Deployments |-> NoRow]
  /\ request = [q \in Requests |-> NoRequest]
  /\ job = [d \in Deployments |-> NoJob]
  /\ fill = [d \in Deployments |-> NoFill]
  /\ outdated = {} /\ detached = {}
  /\ calls = 0 /\ restarts = 0

-----------------------------------------------------------------------------
(* Specs *)

Valid(s) ==
  /\ s.vms \in 1 .. MaxVMs
  /\ s.disks >= 1
  /\ s.parallel <= s.vms

(* Variant: only the data on the disks is checked. *)
ShrinksData(old, new) == new.data < old.data

(* Variant: the data on the disks is not checked. *)
ShrinksHardware(old, new) == new.vms < old.vms \/ new.disks < old.disks

Shrinks(old, new) == new.vms < old.vms \/ new.disks < old.disks \/ new.data < old.data

(* What one VM writes in an initial fill, as the controller estimates it. *)
BytesPerVM(s) == s.disks * (s.data * GiB)

(* The payload of a disk: the share all VMs have in common, and the rest. *)
DiskWork(s) ==
  LET data == s.data * GiB
      global == (data * s.dedupe) \div 100 IN
  [global |-> global, local |-> data - global]

(* All disks of an order are given the same payload. *)
BuildWorkOrder(s) == [disks |-> s.disks, work |-> DiskWork(s)]
BytesOf(order) == order.disks * (order.work.global + order.work.local)

(* Variant: the rate is split by the stagger even if there is none. *)
PerVMRateOfStagger(s) ==
  IF s.rate = 0 THEN 0 ELSE (s.rate * KB) \div Max({s.parallel, 1})

(* The cap divided by the VMs that may write at once; 0 is unlimited. *)
PerVMRate(s) ==
  LET par == IF s.parallel > 0 THEN Min({s.parallel, s.vms}) ELSE s.vms IN
  IF s.rate = 0 THEN 0 ELSE (s.rate * KB) \div Max({par, 1})

-----------------------------------------------------------------------------
(* Connections and profiles *)

Active(d) == deployment[d].status \notin {"none", "deleted"}
HasRow(d) == deployment[d].status # "none"
Current(p) == Len(profile[p].versions)
Exists(p) == profile[p].status = "live"

Idle(q) == request[q].op = "none"
Call(q, r) == request' = [request EXCEPT ![q] = r]
Answer(q) == Call(q, NoRequest)

CreateConnection(c) ==
  /\ connection[c] = "none"
  /\ connection' = [connection EXCEPT ![c] = "live"]
  /\ UNCHANGED <<profile, deployment, request, job, fill, history, bounds>>

CreateProfile(p, s) ==
  /\ profile[p].status = "none"
  /\ Valid(s)
  /\ profile' = [profile EXCEPT ![p] = [status |-> "live", versions |-> <<s>>]]
  /\ UNCHANGED <<connection, deployment, request, job, fill, history, bounds>>

(* One transaction: the snapshot, and the number of the current version.    *)
(* Bound: MaxVersions.                                                      *)
UpdateProfileSpec(p, s) ==
  /\ Exists(p) /\ Current(p) < MaxVersions
  /\ Valid(s)
  /\ profile' = [profile EXCEPT ![p].versions = Append(@, s)]
  /\ UNCHANGED <<connection, deployment, request, job, fill, history, bounds>>

(* DeleteProfile counts the deployments that use the profile...            *)
(* Variant: only a deployment that is ready uses its profile. *)
InUseWhenReady(p) == \E d \in Deployments : deployment[d].status = "ready" /\ deployment[d].profile = p

InUse(p) == \E d \in Deployments : Active(d) /\ deployment[d].profile = p

CountProfileUses(q) ==
  /\ Idle(q) /\ calls < MaxCalls
  /\ \E p \in Profiles :
       /\ Exists(p) /\ ~InUse(p)
       /\ Call(q, [NoRequest EXCEPT !.op = "deleteProfile", !.p = p, !.seen = {d \in Deployments : HasRow(d)}])
  /\ calls' = calls + 1
  /\ UNCHANGED <<connection, profile, deployment, job, fill, history, restarts>>

(* ... and deletes it by another statement: its versions go with it, and    *)
(* rows that refer to it refer to none (ON DELETE CASCADE and SET NULL).    *)
DeleteProfile(q) ==
  LET p == request[q].p
      users == {d \in Deployments : HasRow(d) /\ deployment[d].profile = p} IN
  /\ request[q].op = "deleteProfile"
  /\ profile' = [profile EXCEPT ![p] = [status |-> "gone", versions |-> <<>>]]
  /\ deployment' = [d \in Deployments |->
       IF d \in users THEN [deployment[d] EXCEPT !.profile = None] ELSE deployment[d]]
  /\ detached' = detached \cup (users \ request[q].seen)
  /\ Answer(q)
  /\ UNCHANGED <<connection, job, fill, outdated, bounds>>

CountConnectionUses(q) ==
  /\ Idle(q) /\ calls < MaxCalls
  /\ \E c \in Connections :
       /\ connection[c] = "live"
       /\ ~\E d \in Deployments : Active(d) /\ deployment[d].connection = c
       /\ Call(q, [NoRequest EXCEPT !.op = "deleteConnection", !.c = c])
  /\ calls' = calls + 1
  /\ UNCHANGED <<connection, profile, deployment, job, fill, history, restarts>>

(* The foreign key has no ON DELETE: as long as any row names it, that of a *)
(* deleted deployment included, the connection stays and the call fails.    *)
DeleteConnection(q) ==
  LET c == request[q].c IN
  /\ request[q].op = "deleteConnection"
  /\ connection' = IF \E d \in Deployments : HasRow(d) /\ deployment[d].connection = c
                   THEN connection ELSE [connection EXCEPT ![c] = "gone"]
  /\ Answer(q)
  /\ UNCHANGED <<profile, deployment, job, fill, history, bounds>>

-----------------------------------------------------------------------------
(* Deployments *)

(* createDeployment looks up the connection and the profile, whose current *)
(* version it takes if the caller names none (0).  Bound: MaxCalls.        *)
ResolveProfile(q) ==
  /\ Idle(q) /\ calls < MaxCalls
  /\ \E c \in Connections, p \in Profiles, version \in 0 .. MaxVersions, spec \in Specs \cup {None} :
       /\ connection[c] = "live" /\ Exists(p)
       /\ Call(q, [NoRequest EXCEPT !.op = IF spec = None THEN "resolve" ELSE "insert",
                                    !.c = c, !.p = p, !.spec = spec, !.seen = spec,
                                    !.version = IF version = 0 THEN Current(p) ELSE version])
       /\ spec # None => Valid(spec)
  /\ calls' = calls + 1
  /\ UNCHANGED <<connection, profile, deployment, job, fill, history, restarts>>

(* Variant: the spec is that of the current version. *)
SnapshotOfCurrent(p, version) == Last(profile[p].versions)

Snapshot(p, version) == profile[p].versions[version]

(* The snapshot of the version, unless the call brought a spec of its own;  *)
(* such a call may name a version that does not exist.                      *)
ResolveSpec(q) ==
  LET p == request[q].p
      version == request[q].version IN
  /\ request[q].op = "resolve"
  /\ IF version \in 1 .. Current(p)
     THEN Call(q, [request[q] EXCEPT !.op = "insert", !.spec = Snapshot(p, version)])
     ELSE Answer(q)
  /\ UNCHANGED <<connection, profile, deployment, job, fill, history, bounds>>

(* Variant: foreign keys are not enforced. *)
MayInsertAnyway(q) == TRUE

MayInsert(q) == connection[request[q].c] = "live" /\ Exists(request[q].p)

CreateDeployment(q, d) ==
  LET r == request[q] IN
  /\ r.op = "insert"
  /\ deployment[d].status = "none"
  /\ IF MayInsert(q)
     THEN deployment' = [deployment EXCEPT ![d] =
            [status |-> "new", profile |-> r.p, version |-> r.version, connection |-> r.c,
             spec |-> r.spec, own |-> r.seen # None, built |-> 0]]
     ELSE UNCHANGED deployment
  /\ Answer(q)
  /\ UNCHANGED <<connection, profile, job, fill, history, bounds>>

(* updateDeploymentSpec reads the row, in any status, and checks that       *)
(* nothing shrinks...                                                       *)
CheckSpec(q, d) ==
  /\ Idle(q) /\ calls < MaxCalls
  /\ HasRow(d)
  /\ \E s \in Specs :
       /\ Valid(s) /\ ~Shrinks(deployment[d].spec, s)
       /\ Call(q, [NoRequest EXCEPT !.op = "edit", !.d = d, !.spec = s, !.seen = deployment[d].spec])
  /\ calls' = calls + 1
  /\ UNCHANGED <<connection, profile, deployment, job, fill, history, restarts>>

(* ... and writes the spec, whatever the row holds by then. *)
UpdateDeploymentSpec(q) ==
  LET d == request[q].d
      s == request[q].spec IN
  /\ request[q].op = "edit"
  /\ deployment' = [deployment EXCEPT ![d].spec = s, ![d].own = TRUE]
  /\ outdated' = IF deployment[d].spec = request[q].seen THEN outdated ELSE outdated \cup {d}
  /\ fill' = [fill EXCEPT ![d].edited = @ \/ s # deployment[d].spec]
  /\ Answer(q)
  /\ UNCHANGED <<connection, profile, job, detached, bounds>>

-----------------------------------------------------------------------------
(* Jobs *)

Accepts(op, status) ==
  CASE op = "deploy" -> status \notin {"none", "deleting", "deleted"}
    [] op = "teardown" -> status \notin {"none", "deleted"}
    [] op = "fill" -> status = "ready"

(* A handler reads the row, and starts the job with what it has read. *)
ReadForJob(q, d, op) ==
  /\ Idle(q) /\ calls < MaxCalls
  /\ Accepts(op, deployment[d].status)
  /\ Call(q, [NoRequest EXCEPT !.d = d, !.spec = deployment[d].spec,
                               !.op = IF op = "teardown" /\ deployment[d].built = 0
                                      THEN "deleteEmpty" ELSE op])
  /\ calls' = calls + 1
  /\ UNCHANGED <<connection, profile, deployment, job, fill, history, restarts>>

Start(q, type) ==
  /\ request[q].op = type
  /\ job[request[q].d] = NoJob
  /\ job' = [job EXCEPT ![request[q].d] = [type |-> type, spec |-> request[q].spec]]
  /\ Answer(q)

(* Jobs write the status without looking: a deployment deleted meanwhile    *)
(* becomes active again.                                                    *)
SetStatus(d, status) ==
  /\ deployment' = [deployment EXCEPT ![d].status = status]
  /\ detached' = IF deployment[d].status = "deleted" /\ status # "deleted"
                 THEN detached \cup {d} ELSE detached

StartDeploy(q) ==
  LET d == request[q].d IN
  /\ Start(q, "deploy")
  /\ SetStatus(d, "deploying")
  /\ UNCHANGED <<connection, profile, fill, outdated, bounds>>

(* Without VMs the deployment is deleted at once, without its lock. *)
TeardownEmpty(q) ==
  /\ request[q].op = "deleteEmpty"
  /\ deployment' = [deployment EXCEPT ![request[q].d].status = "deleted"]
  /\ Answer(q)
  /\ UNCHANGED <<connection, profile, job, fill, history, bounds>>

StartTeardown(q) ==
  LET d == request[q].d IN
  /\ Start(q, "teardown")
  /\ SetStatus(d, "deleting")
  /\ UNCHANGED <<connection, profile, fill, outdated, bounds>>

(* Every VM is assigned its share of the data the spec read by the handler  *)
(* asks for.                                                                *)
StartFill(q) ==
  LET d == request[q].d
      s == request[q].spec IN
  /\ Start(q, "fill")
  /\ deployment[d].built > 0
  /\ fill' = [fill EXCEPT ![d] = [total |-> BytesPerVM(s), pending |-> deployment[d].built,
                                  shares |-> <<>>, written |-> {},
                                  edited |-> s # deployment[d].spec]]
  /\ UNCHANGED <<connection, profile, deployment, history, bounds>>

(* The lock is taken, or there is nothing to fill. *)
Refused(q) ==
  LET d == request[q].d IN
  /\ request[q].op \in {"deploy", "teardown", "fill"}
  /\ job[d] # NoJob \/ (request[q].op = "fill" /\ deployment[d].built = 0)
  /\ Answer(q)
  /\ UNCHANGED <<connection, profile, deployment, job, fill, history, bounds>>

CreateVM(d) ==
  /\ job[d].type = "deploy"
  /\ deployment[d].built < job[d].spec.vms
  /\ deployment' = [deployment EXCEPT ![d].built = @ + 1]
  /\ UNCHANGED <<connection, profile, request, job, fill, history, bounds>>

DeleteVM(d) ==
  /\ job[d].type = "teardown"
  /\ deployment[d].built > 0
  /\ deployment' = [deployment EXCEPT ![d].built = @ - 1]
  /\ UNCHANGED <<connection, profile, request, job, fill, history, bounds>>

(* Deploy and teardown settle the status; a fill leaves it alone. *)
JobSucceeds(d) ==
  /\ \/ /\ job[d].type = "deploy" /\ deployment[d].built >= job[d].spec.vms
        /\ SetStatus(d, "ready")
     \/ /\ job[d].type = "teardown" /\ deployment[d].built = 0
        /\ SetStatus(d, "deleted")
  /\ job' = [job EXCEPT ![d] = NoJob]
  /\ UNCHANGED <<connection, profile, request, fill, outdated, bounds>>

JobFails(d) ==
  /\ job[d].type \in {"deploy", "teardown"}
  /\ SetStatus(d, "error")
  /\ job' = [job EXCEPT ![d] = NoJob]
  /\ UNCHANGED <<connection, profile, request, fill, outdated, bounds>>

(* A fill succeeds, fails or is cancelled: its VMs get no more orders. *)
FillEnds(d) ==
  /\ job[d].type = "fill"
  /\ job' = [job EXCEPT ![d] = NoJob]
  /\ fill' = [fill EXCEPT ![d] = NoFill]
  /\ UNCHANGED <<connection, profile, deployment, request, history, bounds>>

SlotFree(d) ==
  LET parallel == deployment[d].spec.parallel IN
  parallel = 0 \/ Len(fill[d].shares) < parallel

(* A pending VM gets a slot and an order made from today's spec (one step   *)
(* here; what may come in between is the subject of Fill)...                *)
Promote(d) ==
  LET s == deployment[d].spec IN
  /\ fill[d].pending > 0
  /\ SlotFree(d)
  /\ fill' = [fill EXCEPT ![d].pending = @ - 1,
                          ![d].shares = Append(@, PerVMRate(s)),
                          ![d].written = @ \cup {BytesOf(BuildWorkOrder(s))}]
  /\ UNCHANGED <<connection, profile, deployment, request, job, history, bounds>>

(* ... and a working one that asks again is given the order of today. *)
OrderAgain(d, i) ==
  LET s == deployment[d].spec IN
  /\ fill' = [fill EXCEPT ![d].shares[i] = PerVMRate(s),
                          ![d].written = @ \cup {BytesOf(BuildWorkOrder(s))}]
  /\ UNCHANGED <<connection, profile, deployment, request, job, history, bounds>>

VMDone(d, i) ==
  /\ fill' = [fill EXCEPT ![d].shares = RemoveAt(@, i)]
  /\ UNCHANGED <<connection, profile, deployment, request, job, history, bounds>>

(* Handlers die; a job that was running goes on with today's spec. *)
Restart ==
  /\ restarts < MaxRestarts
  /\ restarts' = restarts + 1
  /\ request' = [q \in Requests |-> NoRequest]
  /\ job' = [d \in Deployments |-> IF job[d] = NoJob THEN NoJob
                                   ELSE [job[d] EXCEPT !.spec = deployment[d].spec]]
  /\ UNCHANGED <<connection, profile, deployment, fill, history, calls>>

Next ==
  \/ \E c \in Connections : CreateConnection(c)
  \/ \E p \in Profiles, s \in Specs : CreateProfile(p, s) \/ UpdateProfileSpec(p, s)
  \/ \E q \in Requests :
       \/ CountProfileUses(q) \/ DeleteProfile(q)
       \/ CountConnectionUses(q) \/ DeleteConnection(q)
       \/ ResolveProfile(q) \/ ResolveSpec(q)
       \/ UpdateDeploymentSpec(q)
       \/ StartDeploy(q) \/ TeardownEmpty(q) \/ StartTeardown(q) \/ StartFill(q) \/ Refused(q)
  \/ \E q \in Requests, d \in Deployments :
       \/ CreateDeployment(q, d) \/ CheckSpec(q, d)
       \/ \E op \in {"deploy", "teardown", "fill"} : ReadForJob(q, d, op)
  \/ \E d \in Deployments :
       \/ CreateVM(d) \/ DeleteVM(d) \/ JobSucceeds(d) \/ JobFails(d) \/ FillEnds(d) \/ Promote(d)
       \/ \E i \in DOMAIN fill[d].shares : OrderAgain(d, i) \/ VMDone(d, i)
  \/ Restart

Spec == Init /\ [][Next]_vars

-----------------------------------------------------------------------------
(* Every variable has its type, stored specs are valid, and foreign keys    *)
(* hold: a deployment names a connection that exists, and a profile that    *)
(* exists or none (store/migrations/0001_init.sql:29-39), though handlers   *)
(* check both long before they insert (api/deployments.go:30-42).           *)
TypeOK ==
  /\ connection \in [Connections -> {"none", "live", "gone"}]
  /\ \A p \in Profiles :
       /\ profile[p].status \in {"none", "live", "gone"}
       /\ Exists(p) <=> Current(p) > 0
       /\ \A v \in 1 .. Current(p) : Valid(profile[p].versions[v])
  /\ \A d \in Deployments : HasRow(d) =>
       /\ deployment[d].status \in {"new", "deploying", "ready", "error", "deleting", "deleted"}
       /\ Valid(deployment[d].spec)
       /\ connection[deployment[d].connection] = "live"
       /\ deployment[d].profile # None => Exists(deployment[d].profile)
  /\ \A d \in Deployments : job[d].type \in {"none", "deploy", "teardown", "fill"}
  /\ {outdated, detached} \subseteq SUBSET Deployments

(* A deployment created from a profile version, and not edited since, has   *)
(* the spec of exactly that version, whatever versions were stored while    *)
(* its handler ran (model/model.go:17-19: "an immutable snapshot per        *)
(* profile version (PRO-4/PRO-8)").                                         *)
SpecOfItsVersion ==
  \A d \in Deployments : LET r == deployment[d] IN
    HasRow(d) /\ ~r.own /\ r.profile # None =>
      /\ r.version \in 1 .. Current(r.profile)
      /\ r.spec = profile[r.profile].versions[r.version]

(* A deployment never has more VMs than its spec says, although jobs build  *)
(* by specs read earlier: specs only grow (api/deployments.go:75-76, PRO-6).*)
(* The exception are deployments with a spec that replaced another one than *)
(* was checked: then two edits at once do shrink it.                        *)
FleetWithinSpec ==
  \A d \in Deployments :
    HasRow(d) /\ d \notin outdated => deployment[d].built <= deployment[d].spec.vms

(* A profile is not deleted from under a deployment that uses it            *)
(* (store/profiles.go:130-131), with two exceptions: one inserted after the *)
(* uses were counted, and one that was deleted and that a job revived.      *)
ActiveKeepsProfile ==
  \A d \in Deployments : Active(d) /\ deployment[d].profile = None => d \in detached

(* As long as its spec is not edited, the VMs of a fill that write at once  *)
(* share the deployment's rate cap: together they stay below it, and none   *)
(* gets the share 0, which an agent would take for "no limit"               *)
(* (orch/fill.go:435-449, PRO-12).                                          *)
RateCapHolds ==
  \A d \in Deployments : LET s == deployment[d].spec IN
    job[d].type = "fill" /\ ~fill[d].edited /\ deployment[d].built <= s.vms /\ s.rate > 0 =>
      /\ FoldLeft(LAMBDA sum, x : sum + x, 0, fill[d].shares) <= s.rate * KB
      /\ \A i \in DOMAIN fill[d].shares : fill[d].shares[i] > 0

(* A VM is assigned its share of an initial fill by the spec the handler    *)
(* had read, and given an order made from the spec of the moment it asks    *)
(* (orch/fill.go:92 and 430).  No order asks for less than was assigned,    *)
(* although the spec is edited in between, before the fill starts or while  *)
(* it runs: specs only grow (api/deployments.go:110-129), unless two edits  *)
(* overlapped.  As long as the spec is not edited, every order of the run   *)
(* asks for exactly what was assigned (orch/fill.go:99-102).                *)
OrdersMeetEstimate ==
  \A d \in Deployments : job[d].type = "fill" =>
    /\ d \notin outdated => \A bytes \in fill[d].written : fill[d].total <= bytes
    /\ ~fill[d].edited => fill[d].written \subseteq {fill[d].total}
=============================================================================
