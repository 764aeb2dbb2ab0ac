------------------------------ MODULE Adoption ------------------------------
(***************************************************************************)
(* Adoption of discovered VMs: a restored machine boots with a MAC the     *)
(* controller does not know, inspects its disks, and is bound by the       *)
(* operator to the record of its original, to a record in a deployment of  *)
(* its own, or to one in a deployment made by an earlier adoption          *)
(* (orch/adopt.go, api/discovery.go, api/boot.go, store/discovered_vms.go, *)
(* cmd/agent/discover.go).                                                 *)
(*                                                                         *)
(* A machine stands for its MAC and its hypervisor reference.  Every       *)
(* machine carries the identity of the one VM of the original deployment.  *)
(* A request makes at most one record and one deployment, which go by the  *)
(* request's name.  Each store statement of a request is a step.           *)
(***************************************************************************)
EXTENDS Naturals, FiniteSets

CONSTANTS
  MaxCopies,     \* bound on restored copies
  MaxRequests,   \* bound on adoptions the operator asks for
  Original,      \* the original deployment, and its one record
  None,
  MaxTeardowns,  \* bound on torn-down deployments
  MaxUpsets      \* bound on VMs deleted or reset on the hypervisor, dismissed
                 \* discovery records, failing statements and restarts, in all

ASSUME AdoptionAssumption ==
  /\ {MaxCopies, MaxRequests, MaxTeardowns, MaxUpsets} \subseteq Nat
  /\ Original \notin Nat
  /\ None \notin Nat \cup {Original}

Source == 0                     \* the original, which the others are copies of
Machines == 0 .. MaxCopies      \* numbered in the order they are restored
Requests == 1 .. MaxRequests    \* numbered in the order they arrive
Ids == Requests \cup {Original}

VARIABLES
  machine,   \* where the life of each machine is, and the token it was given
  dv,        \* the discovered_vms table, by MAC
  rows,      \* the managed_vms table
  dep,       \* status and VM count of each deployment
  request,   \* the adoptions
  teardown,  \* the teardown job, and what it has left of the VMs it listed
  tangled,   \* history: machines whose adoptions overlapped or were cut off
  usurped,   \* history: records rebound while another machine acted for them
  miscounted,\* history: deployments with a VM count one join wrote over another's
  teardowns, upsets

history == <<tangled, usurped, miscounted>>
bounds == <<teardowns, upsets>>
vars == <<machine, dv, rows, dep, request, teardown, history, bounds>>

NoRow == [dep |-> None, name |-> None, machine |-> None, data |-> None]
NoRequest == [stage |-> "idle", mode |-> "none", m |-> None, gen |-> 0, dep |-> None, count |-> 0]
NoTeardown == [stage |-> "idle", dep |-> None, left |-> {}]
Alive(m) == machine[m].stage \notin {"unborn", "gone"}
At(stage) == [stage |-> stage, token |-> None, gen |-> 0]

Bound(r, m) == rows[r].machine = m
IsManaged(m) == \E r \in Ids : Bound(r, m)

(* The original was deployed and filled; it runs, or it is lost by now. *)
Init ==
  /\ \E source \in {At("gone"), [At("managed") EXCEPT !.token = Original]} :
       machine = [m \in Machines |-> IF m = Source THEN source ELSE At("unborn")]
  /\ dv = [m \in Machines |-> [gen |-> 0, live |-> FALSE, adopted |-> FALSE, inspected |-> FALSE]]
  /\ rows = [r \in Ids |->
       IF r = Original
       THEN [dep |-> Original, name |-> Source, machine |-> Source, data |-> Source]
       ELSE NoRow]
  /\ dep = [d \in Ids |-> IF d = Original THEN [status |-> "ready", vms |-> 1]
                          ELSE [status |-> "none", vms |-> 0]]
  /\ request = [q \in Requests |-> NoRequest]
  /\ teardown = NoTeardown
  /\ tangled = {} /\ usurped = {} /\ miscounted = {}
  /\ teardowns = 0 /\ upsets = 0

-----------------------------------------------------------------------------
(* The hypervisor, as its operator uses it *)

(* What no handler of the controller asks for. *)
Upset == upsets < MaxUpsets /\ upsets' = upsets + 1

Become(m, state) == machine' = [machine EXCEPT ![m] = state]

(* A backup product restores a copy under a fresh MAC and powers it on. *)
Restore(m) ==
  /\ machine[m].stage = "unborn"
  /\ m > 1 => machine[m - 1].stage # "unborn"
  /\ Become(m, At("firmware"))
  /\ UNCHANGED <<dv, rows, dep, request, teardown, history, bounds>>

(* Bound: MaxUpsets. *)
Destroy(m) ==
  /\ Alive(m)
  /\ Upset
  /\ Become(m, At("gone"))
  /\ UNCHANGED <<dv, rows, dep, request, teardown, history, teardowns>>

(* Bound: MaxUpsets. *)
Reset(m) ==
  /\ Alive(m)
  /\ machine[m].stage # "firmware"
  /\ Upset
  /\ Become(m, At("firmware"))
  /\ UNCHANGED <<dv, rows, dep, request, teardown, history, teardowns>>

-----------------------------------------------------------------------------
(* The netboot handlers and the agents *)

(* Variant: a MAC with a discovery record is booted for discovery. *)
BootScriptDiscoveryFirst(m) ==
  /\ machine[m].stage = "firmware"
  /\ IF IsManaged(m) /\ ~dv[m].live
     THEN \E r \in Ids : Bound(r, m) /\ Become(m, [At("booted") EXCEPT !.token = r])
     ELSE Become(m, At("missed"))
  /\ UNCHANGED <<dv, rows, dep, request, teardown, history, bounds>>

(* handleBootScript: a managed MAC gets the token of a record it resolves to. *)
BootScript(m) ==
  /\ machine[m].stage = "firmware"
  /\ IF IsManaged(m)
     THEN \E r \in Ids : Bound(r, m) /\ Become(m, [At("booted") EXCEPT !.token = r])
     ELSE Become(m, At("missed"))
  /\ UNCHANGED <<dv, rows, dep, request, teardown, history, bounds>>

(* handleDiscoveryBoot: the record of the MAC, made if there is none, as    *)
(* it is otherwise.  History: it is made for a MAC bound since the lookup.  *)
DiscoveryBoot(m) ==
  LET gen == IF dv[m].live THEN dv[m].gen ELSE dv[m].gen + 1 IN
  /\ machine[m].stage = "missed"
  /\ dv' = [dv EXCEPT ![m] =
       IF dv[m].live THEN @
       ELSE [gen |-> gen, live |-> TRUE, adopted |-> FALSE, inspected |-> FALSE]]
  /\ Become(m, [At("inspecting") EXCEPT !.gen = gen])
  /\ tangled' = IF IsManaged(m) /\ ~dv[m].live THEN tangled \cup {m} ELSE tangled
  /\ UNCHANGED <<rows, dep, request, teardown, usurped, miscounted, bounds>>

Recognised(m) == dv[m].live /\ dv[m].gen = machine[m].gen

(* handleDiscoveryReport; an agent with a dismissed token gives up. *)
DiscoveryReport(m) ==
  /\ machine[m].stage = "inspecting"
  /\ dv' = [dv EXCEPT ![m].inspected = @ \/ Recognised(m)]
  /\ Become(m, [machine[m] EXCEPT !.stage = "waiting"])
  /\ UNCHANGED <<rows, dep, request, teardown, history, bounds>>

(* The heartbeat that is answered with "reboot"; the others change nothing. *)
DiscoveryHeartbeat(m) ==
  /\ machine[m].stage = "waiting"
  /\ Recognised(m) /\ dv[m].adopted
  /\ Become(m, At("firmware"))
  /\ UNCHANGED <<dv, rows, dep, request, teardown, history, bounds>>

(* handleAgentRegister: the disks' state goes to the record of the token.   *)
Register(m) ==
  LET r == machine[m].token IN
  /\ machine[m].stage = "booted"
  /\ rows[r].dep # None
  /\ rows' = [rows EXCEPT ![r].data = m]
  /\ Become(m, [machine[m] EXCEPT !.stage = "managed"])
  /\ UNCHANGED <<dv, dep, request, teardown, history, bounds>>

-----------------------------------------------------------------------------
(* AdoptRebind and AdoptNew *)

Working == {"write", "add", "data", "mark"}
Over == [NoRequest EXCEPT !.stage = "over"]
InFlight(q) == request[q].stage \in Working
Step(q, stage) == request' = [request EXCEPT ![q].stage = stage]
Answer(q) == request' = [request EXCEPT ![q] = Over]

RowOf(q) == IF request[q].mode = "rebind" THEN Original ELSE q
HasBound(q) == request[q].stage \in {"data", "mark"} /\ Bound(RowOf(q), request[q].m)
Abandoned(stopped) == {request[q].m : q \in {p \in stopped : HasBound(p)}}

(* Variant: an adopted VM can be adopted again. *)
MayAdoptAgain(m) == dv[m].live /\ dv[m].inspected

(* The discovery record as the handler reads it. *)
MayAdopt(m) == dv[m].live /\ dv[m].inspected /\ ~dv[m].adopted

(* The record to rebind, the deployment to join, or the one to be made. *)
Target(q, mode, d) ==
  CASE mode = "rebind" -> d = Original /\ dep[d].status # "deleted" /\ rows[d].dep = d
    [] mode = "join"   -> d \in Requests /\ dep[d].status \notin {"none", "deleted"}
    [] mode = "create" -> d = q

(* All that is read before the first write; FindVMByMAC comes last.  A       *)
(* request that is refused changes nothing.                                  *)
Read(q, m, mode, d) ==
  /\ request[q].stage = "idle"
  /\ q > 1 => request[q - 1].stage # "idle"
  /\ MayAdopt(m) /\ Target(q, mode, d) /\ Alive(m)
  /\ request' = [request EXCEPT ![q] =
       [stage |-> "write", mode |-> mode, m |-> m, gen |-> dv[m].gen, dep |-> d, count |-> dep[d].vms]]
  /\ tangled' = IF \E p \in Requests \ {q} : InFlight(p) /\ request[p].m = m
                THEN tangled \cup {m} ELSE tangled
  /\ UNCHANGED <<machine, dv, rows, dep, teardown, usurped, miscounted, bounds>>

(* Variant: the state of the former machine's disks stays on the record. *)
ReboundKeepingData(row, m) == [row EXCEPT !.machine = m]

Rebound(row, m) == [row EXCEPT !.machine = m, !.data = None]

(* RebindManagedVM: the boot token stays.  History: a machine that still     *)
(* holds it, and other requests that rebind the record meanwhile.            *)
RebindManagedVM(q) ==
  LET m == request[q].m IN
  /\ request[q].stage = "write" /\ request[q].mode = "rebind"
  /\ rows[Original].dep # None
  /\ rows' = [rows EXCEPT ![Original] = Rebound(@, m)]
  /\ Step(q, "data")
  /\ usurped' = IF \/ \E n \in Machines \ {m} : machine[n].token = Original
                   \/ \E p \in Requests \ {q} : request[p].mode = "rebind" /\ InFlight(p)
                THEN usurped \cup {Original} ELSE usurped
  /\ UNCHANGED <<machine, dv, dep, teardown, tangled, miscounted, bounds>>

RebindFails(q) ==
  /\ request[q].stage = "write" /\ request[q].mode = "rebind"
  /\ rows[Original].dep = None
  /\ Answer(q)
  /\ UNCHANGED <<machine, dv, rows, dep, teardown, history, bounds>>

CreateDeployment(q) ==
  /\ request[q].stage = "write" /\ request[q].mode = "create"
  /\ dep' = [dep EXCEPT ![q] = [status |-> "ready", vms |-> 1]]
  /\ Step(q, "add")
  /\ UNCHANGED <<machine, dv, rows, teardown, history, bounds>>

(* Variant: the VM that joins is not counted. *)
JoinedUncounted(count) == count

Joined(count) == count + 1

(* UpdateDeploymentSpec, with the count that was read. *)
Join(q) ==
  LET d == request[q].dep IN
  /\ request[q].stage = "write" /\ request[q].mode = "join"
  /\ dep' = [dep EXCEPT ![d].vms = Joined(request[q].count)]
  /\ Step(q, "add")
  /\ miscounted' = IF dep[d].vms # request[q].count THEN miscounted \cup {d} ELSE miscounted
  /\ UNCHANGED <<machine, dv, rows, teardown, tangled, usurped, bounds>>

(* A deployment has at most one record of a name. *)
NameIsFree(d, name) == \A r \in Ids : rows[r].dep = d => rows[r].name # name

AddManagedVM(q) ==
  LET d == request[q].dep
      m == request[q].m IN
  /\ request[q].stage = "add"
  /\ NameIsFree(d, m)
  /\ rows' = [rows EXCEPT ![q] =
       [dep |-> d, name |-> m, machine |-> m, data |-> None]]
  /\ Step(q, "data")
  /\ UNCHANGED <<machine, dv, dep, teardown, history, bounds>>

AddFails(q) ==
  /\ request[q].stage = "add"
  /\ ~NameIsFree(request[q].dep, request[q].m)
  /\ Answer(q)
  /\ UNCHANGED <<machine, dv, rows, dep, teardown, history, bounds>>

(* setDataStateFromReport: from the report the handler read. *)
SetDataState(q) ==
  /\ request[q].stage = "data"
  /\ rows[RowOf(q)].dep # None
  /\ rows' = [rows EXCEPT ![RowOf(q)].data = request[q].m]
  /\ Step(q, "mark")
  /\ UNCHANGED <<machine, dv, dep, teardown, history, bounds>>

IsKnown(q) ==
  /\ dv[request[q].m].live /\ dv[request[q].m].gen = request[q].gen
  /\ request[q].mode = "rebind" \/ rows[q].dep # None

MarkAdopted(q) ==
  /\ request[q].stage = "mark"
  /\ IsKnown(q)
  /\ dv' = [dv EXCEPT ![request[q].m].adopted = TRUE]
  /\ Answer(q)
  /\ UNCHANGED <<machine, rows, dep, teardown, history, bounds>>

(* The record was torn down, or the discovery record dismissed, meanwhile. *)
AdoptionFails(q) ==
  /\ \/ request[q].stage = "data" /\ rows[RowOf(q)].dep = None
     \/ request[q].stage = "mark" /\ ~IsKnown(q)
  /\ Answer(q)
  /\ tangled' = tangled \cup Abandoned({q})
  /\ UNCHANGED <<machine, dv, rows, dep, teardown, usurped, miscounted, bounds>>

(* A store statement fails, and the request with it.  Bound: MaxUpsets. *)
StatementFails(q) ==
  /\ request[q].stage \in Working
  /\ Upset
  /\ Answer(q)
  /\ tangled' = tangled \cup Abandoned({q})
  /\ UNCHANGED <<machine, dv, rows, dep, teardown, usurped, miscounted, teardowns>>

(* The controller restarts: adoptions are forgotten, a teardown is resumed. *)
(* Bound: MaxUpsets.                                                        *)
Restart ==
  /\ \E q \in Requests : InFlight(q)
  /\ Upset
  /\ request' = [q \in Requests |->
       IF InFlight(q) THEN Over ELSE request[q]]
  /\ teardown' = IF teardown.stage = "idle" THEN teardown ELSE [teardown EXCEPT !.stage = "list"]
  /\ tangled' = tangled \cup Abandoned(Requests)
  /\ UNCHANGED <<machine, dv, rows, dep, usurped, miscounted, teardowns>>

(* deleteDiscoveredVM.  Bound: MaxUpsets. *)
Dismiss(m) ==
  /\ dv[m].live
  /\ Upset
  /\ dv' = [dv EXCEPT ![m] = [@ EXCEPT !.live = FALSE, !.adopted = FALSE, !.inspected = FALSE]]
  /\ UNCHANGED <<machine, rows, dep, request, teardown, history, teardowns>>

-----------------------------------------------------------------------------
(* Teardown of a deployment *)

(* Variant: the deployment keeps its status while it is torn down. *)
StartTeardownKeepingStatus(d) ==
  /\ teardown.stage = "idle"
  /\ dep[d].status = "ready"
  /\ teardowns < MaxTeardowns
  /\ teardowns' = teardowns + 1
  /\ teardown' = [stage |-> "list", dep |-> d, left |-> {}]
  /\ UNCHANGED <<machine, dv, rows, dep, request, history, upsets>>

(* Bounds: MaxTeardowns, and one at a time. *)
StartTeardown(d) ==
  /\ teardown.stage = "idle"
  /\ dep[d].status = "ready"
  /\ teardowns < MaxTeardowns
  /\ teardowns' = teardowns + 1
  /\ dep' = [dep EXCEPT ![d].status = "deleting"]
  /\ teardown' = [stage |-> "list", dep |-> d, left |-> {}]
  /\ UNCHANGED <<machine, dv, rows, request, history, upsets>>

ListManagedVMs ==
  /\ teardown.stage = "list"
  /\ teardown' = [teardown EXCEPT !.stage = "delete",
       !.left = {[row |-> r, machine |-> rows[r].machine] : r \in {i \in Ids : rows[i].dep = teardown.dep}}]
  /\ UNCHANGED <<machine, dv, rows, dep, request, history, bounds>>

(* DeleteVM by the reference that was listed, where a VM that is gone is no *)
(* error, and DeleteManagedVM, whatever the record is bound to by now.       *)
TearDownVM(entry) ==
  /\ teardown.stage = "delete"
  /\ entry \in teardown.left
  /\ Become(entry.machine, At("gone"))
  /\ rows' = [rows EXCEPT ![entry.row] = NoRow]
  /\ teardown' = [teardown EXCEPT !.left = @ \ {entry}]
  /\ UNCHANGED <<dv, dep, request, history, bounds>>

MarkDeploymentDeleted ==
  /\ teardown.stage = "delete" /\ teardown.left = {}
  /\ dep' = [dep EXCEPT ![teardown.dep].status = "deleted"]
  /\ teardown' = NoTeardown
  /\ UNCHANGED <<machine, dv, rows, request, history, bounds>>

-----------------------------------------------------------------------------

Agent(m) ==
  \/ BootScript(m) \/ DiscoveryBoot(m) \/ DiscoveryReport(m) \/ DiscoveryHeartbeat(m)
  \/ Register(m)

Modes == {"rebind", "create", "join"}

Next ==
  \/ \E m \in Machines :
       \/ Restore(m) \/ Destroy(m) \/ Reset(m) \/ Dismiss(m)
       \/ BootScript(m) \/ DiscoveryBoot(m) \/ DiscoveryReport(m) \/ DiscoveryHeartbeat(m)
       \/ Register(m)
  \/ \E q \in Requests :
       \/ \E m \in Machines, mode \in Modes, d \in Ids : Read(q, m, mode, d)
       \/ RebindManagedVM(q) \/ RebindFails(q) \/ CreateDeployment(q) \/ Join(q)
       \/ AddManagedVM(q) \/ AddFails(q) \/ SetDataState(q) \/ MarkAdopted(q)
       \/ AdoptionFails(q) \/ StatementFails(q)
  \/ Restart
  \/ \E d \in Ids : StartTeardown(d)
  \/ ListManagedVMs
  \/ \E entry \in teardown.left : TearDownVM(entry)
  \/ MarkDeploymentDeleted

(* An agent keeps booting and polling. *)
Fairness == \A m \in Machines : WF_vars(Agent(m))

Spec == Init /\ [][Next]_vars /\ Fairness

-----------------------------------------------------------------------------
(* Properties *)

Stages == {"unborn", "firmware", "missed", "inspecting", "waiting", "booted", "managed", "gone"}

(* Every table is well-formed, a record has all its fields or none, and a    *)
(* record of an adoption belongs to a deployment that an adoption made.      *)
TypeOK ==
  /\ machine \in [Machines -> [stage : Stages, token : Ids \cup {None}, gen : Nat]]
  /\ \A m \in Machines : machine[m].stage \in {"booted", "managed"} <=> machine[m].token # None
  /\ dv \in [Machines -> [gen : Nat, live : BOOLEAN, adopted : BOOLEAN, inspected : BOOLEAN]]
  /\ \A m \in Machines : machine[m].gen <= dv[m].gen
  /\ rows \in [Ids -> [dep : Ids, name : Machines, machine : Machines,
                       data : Machines \cup {None}] \cup {NoRow}]
  /\ \A r \in Ids : rows[r].dep # None => dep[rows[r].dep].status # "none"
  /\ \A d \in Ids : dep[d].status \in {"none", "ready", "deleting", "deleted"} /\ dep[d].vms \in Nat
  /\ \A q \in Requests :
       request[q].stage \in Working \cup {"idle", "over"}
  /\ teardown.stage # "idle" => dep[teardown.dep].status = "deleting"

(* adopt.go 58, 125: a machine is bound to one record.  The exceptions are   *)
(* adoptions of one machine that overlapped or were cut off after binding    *)
(* it, and a machine that asked for its boot script before it was bound and  *)
(* was recorded as discovered after.                                         *)
OneRecordPerMachine ==
  \A m \in Machines \ tangled : \A r, s \in Ids : Bound(r, m) /\ Bound(s, m) => r = s

(* managed_vms.go 114-119, boot.go 113-117: what a record says of the disks  *)
(* was read from the disks of the machine it is bound to, a rebind that was  *)
(* cut off included.  The exception is a record whose former machine still   *)
(* runs, or that two requests rebind at once.                                *)
RowReadsItsOwnDisks ==
  \A r \in Ids \ usurped : rows[r].data \in {None, rows[r].machine}

RowsOf(d) == {r \in Ids : rows[r].dep = d}

(* adopt.go 189-197: the rate cap of a deployment is split by its VM count,  *)
(* which is never below the number of its records, whatever fails half-way,  *)
(* unless two joins wrote over each other.                                   *)
JoinsAreCounted ==
  \A d \in Requests \ miscounted : Cardinality(RowsOf(d)) <= dep[d].vms

Adopted(m) == dv[m].live /\ dv[m].adopted /\ IsManaged(m)
ComesUp(m) ==
  machine[m].stage = "managed" /\ (\E r \in Ids : machine[m].token = r /\ Bound(r, m))

(* adopt.go 24-26, discover.go 19-23: a machine in discovery that is adopted *)
(* comes up managed, unless its record is taken away again; the exceptions   *)
(* are those of OneRecordPerMachine.                                         *)
AdoptedComesUp ==
  \A m \in Machines :
    Adopted(m) /\ machine[m].stage \in {"inspecting", "waiting"}
      ~> ComesUp(m) \/ ~Adopted(m) \/ ~Alive(m) \/ m \in tangled
=============================================================================
