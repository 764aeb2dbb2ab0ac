--------------------------- MODULE AdoptionProofs ---------------------------
(***************************************************************************)
(* Theorems about Adoption: to how many records a machine is bound, whose   *)
(* disks a record speaks of and how a deployment counts its VMs, for any    *)
(* number of copies, requests, teardowns and upsets.                        *)
(*                                                                         *)
(* The inductive invariant has a part per property.  Each says what an      *)
(* adoption in flight may still do: bind its machine, which is bound to no  *)
(* record yet; write what it read to a record bound to its machine; add a   *)
(* record its deployment counts already.                                    *)
(***************************************************************************)
EXTENDS Adoption, FiniteSetTheorems, TLAPS

-----------------------------------------------------------------------------
(* The inductive invariant.                                                 *)

MachineStates == [stage : Stages, token : Ids \cup {None}, gen : Nat]
Discovered == [gen : Nat, live : BOOLEAN, adopted : BOOLEAN, inspected : BOOLEAN]
Records == [dep : Ids, name : Machines, machine : Machines, data : Machines \cup {None}]
DeploymentStates == [status : {"none", "ready", "deleting", "deleted"}, vms : Nat]
RequestStages == Working \cup {"idle", "over"}
RequestStates ==
  [stage : RequestStages, mode : Modes \cup {"none"}, m : Machines \cup {None},
   gen : Nat, dep : Ids \cup {None}, count : Nat]
Entries == [row : Ids, machine : Machines]
TeardownStates ==
  [stage : {"idle", "list", "delete"}, dep : Ids \cup {None}, left : SUBSET Entries]

(* A request in flight is about a machine and a deployment. *)
RequestOK(q) ==
  InFlight(q) =>
    /\ request[q].m \in Machines /\ request[q].dep \in Ids
    /\ request[q].mode \in Modes
    /\ request[q].stage = "add" => request[q].mode # "rebind"

Typed ==
  /\ machine \in [Machines -> MachineStates]
  /\ dv \in [Machines -> Discovered]
  /\ rows \in [Ids -> Records \cup {NoRow}]
  /\ dep \in [Ids -> DeploymentStates]
  /\ request \in [Requests -> RequestStates]
  /\ teardown \in TeardownStates
  /\ \A m \in Machines : machine[m].stage \in {"booted", "managed"} <=> machine[m].token # None
  /\ \A m \in Machines : machine[m].gen <= dv[m].gen
  /\ \A q \in Requests : RequestOK(q)
  /\ teardown.stage # "idle" => teardown.dep \in Ids

(* An adoption's deployment is there from the moment it can add a record, as *)
(* is that of every record and the one that is torn down.                    *)
DeploymentsThere ==
  /\ \A r \in Ids : rows[r].dep # None => dep[rows[r].dep].status # "none"
  /\ \A q \in Requests :
       /\ request[q].stage = "idle" => dep[q].status = "none"
       /\ request[q].stage = "write" /\ request[q].mode = "create" =>
            request[q].dep = q /\ dep[q].status = "none"
       /\ request[q].stage = "write" /\ request[q].mode = "join" =>
            dep[request[q].dep].status # "none"
       /\ request[q].stage = "add" => dep[request[q].dep].status # "none"
  /\ teardown.stage # "idle" => dep[teardown.dep].status = "deleting"

(* A machine whose adoptions did not overlap has one adoption in flight, is  *)
(* not bound before that one binds it, and is not offered for another.       *)
BoundOnce(m) ==
  /\ \A r, s \in Ids : Bound(r, m) /\ Bound(s, m) => r = s
  /\ \A p, q \in Requests :
       InFlight(p) /\ InFlight(q) /\ request[p].m = m /\ request[q].m = m => p = q
  /\ \A q \in Requests :
       request[q].m = m /\ request[q].stage \in {"write", "add"} => ~IsManaged(m)
  /\ \A q \in Requests, r \in Ids :
       request[q].m = m /\ request[q].stage \in {"data", "mark"} /\ Bound(r, m) =>
         r = RowOf(q)
  /\ dv[m].live /\ ~dv[m].adopted /\ IsManaged(m) =>
       \E q \in Requests : HasBound(q) /\ request[q].m = m

(* Whoever may still write the state of its disks to a record is the machine *)
(* the record is bound to.                                                   *)
ReadsOwnDisks(r) ==
  /\ rows[r].data \in {None, rows[r].machine}
  /\ rows[r].dep # None =>
       /\ \A m \in Machines : machine[m].token = r => rows[r].machine = m
       /\ \A q \in Requests :
            request[q].stage \in {"data", "mark"} /\ RowOf(q) = r =>
              rows[r].machine = request[q].m

(* The record of a request that has not added one is not there, and no       *)
(* machine has its token.                                                    *)
RecordUnused ==
  \A q \in Requests :
    request[q].stage \in {"idle", "write", "add"} =>
      rows[q] = NoRow /\ \A m \in Machines : machine[m].token # q

Claims(d) == {q \in Requests : request[q].stage = "add" /\ request[q].dep = d}

(* A deployment counts its records and those about to be added. *)
CountsClaims(d) == Cardinality(RowsOf(d) \cup Claims(d)) <= dep[d].vms

IInv ==
  /\ Typed
  /\ DeploymentsThere
  /\ \A m \in Machines \ tangled : BoundOnce(m)
  /\ \A r \in Ids \ usurped : ReadsOwnDisks(r)
  /\ RecordUnused
  /\ \A d \in Requests \ miscounted : CountsClaims(d)

-----------------------------------------------------------------------------
(* Constants and records.                                                   *)

LEMMA Constants ==
  /\ Machines \subseteq Nat /\ Requests \subseteq Nat /\ Requests \subseteq Ids
  /\ Original \in Ids /\ Original \notin Requests
  /\ None \notin Machines /\ None \notin Ids
  /\ Source \in Machines
BY AdoptionAssumption DEF Machines, Requests, Ids, Source

LEMMA NoRowIsBlank ==
  /\ NoRow.dep = None /\ NoRow.machine = None /\ NoRow.data = None
  /\ NoRow \notin Records
BY Constants DEF NoRow, Records

LEMMA RowParts ==
  ASSUME Typed, NEW r \in Ids
  PROVE  /\ rows[r].dep = None <=> rows[r] = NoRow
         /\ rows[r].dep # None => rows[r] \in Records
         /\ rows[r].dep = None => rows[r].machine = None /\ rows[r].data = None
         /\ rows[r].dep \in Ids \cup {None}
         /\ rows[r].machine \in Machines \cup {None}
         /\ rows[r].machine = None => rows[r].dep = None
<1>1. rows[r] \in Records \/ rows[r] = NoRow
  BY DEF Typed
<1> QED
  BY <1>1, NoRowIsBlank, Constants DEF Records

LEMMA OverIsOne ==
  Over \in RequestStates /\ Over.stage = "over"
BY AdoptionAssumption DEF Over, NoRequest, RequestStates, RequestStages

LEMMA AtIsOne ==
  ASSUME NEW stage \in Stages
  PROVE  /\ At(stage) \in MachineStates
         /\ At(stage).stage = stage /\ At(stage).token = None /\ At(stage).gen = 0
BY DEF At, MachineStates

(* One machine changes its state. *)
LEMMA MachineBecomes ==
  ASSUME Typed, NEW m \in Machines, NEW state \in MachineStates, Become(m, state),
         state.stage \in {"booted", "managed"} <=> state.token # None
  PROVE  /\ machine' \in [Machines -> MachineStates]
         /\ machine'[m] = state
         /\ \A n \in Machines : n # m => machine'[n] = machine[n]
         /\ \A n \in Machines :
              machine'[n].stage \in {"booted", "managed"} <=> machine'[n].token # None
BY DEF Typed, Become

(* One request moves to another stage, or is answered. *)
LEMMA RequestSteps ==
  ASSUME Typed, NEW q \in Requests, NEW stage \in Working, Step(q, stage), InFlight(q),
         stage = "add" => request[q].mode # "rebind"
  PROVE  /\ request' \in [Requests -> RequestStates]
         /\ request'[q].stage = stage
         /\ request'[q].mode = request[q].mode /\ request'[q].m = request[q].m
         /\ request'[q].gen = request[q].gen /\ request'[q].dep = request[q].dep
         /\ request'[q].count = request[q].count
         /\ \A p \in Requests : p # q => request'[p] = request[p]
         /\ \A p \in Requests : RequestOK(p)'
<1> DEFINE state == [request[q] EXCEPT !.stage = stage]
<1>1. request[q] \in RequestStates
  BY DEF Typed
<1>2. /\ state \in RequestStates /\ state.stage = stage /\ state.mode = request[q].mode
      /\ state.m = request[q].m /\ state.gen = request[q].gen /\ state.dep = request[q].dep
      /\ state.count = request[q].count
  BY <1>1 DEF RequestStates, RequestStages
<1>3. request' = [request EXCEPT ![q] = state]
  BY DEF Step
<1> HIDE DEF state
<1>4. /\ request' \in [Requests -> RequestStates] /\ request'[q] = state
      /\ \A p \in Requests : p # q => request'[p] = request[p]
  BY <1>2, <1>3 DEF Typed
<1>5. \A p \in Requests : RequestOK(p)'
  BY <1>2, <1>4 DEF Typed, RequestOK, InFlight
<1> QED
  BY <1>2, <1>4, <1>5

LEMMA RequestAnswered ==
  ASSUME Typed, NEW q \in Requests, Answer(q)
  PROVE  /\ request' \in [Requests -> RequestStates]
         /\ request'[q].stage = "over"
         /\ \A p \in Requests : p # q => request'[p] = request[p]
         /\ \A p \in Requests : RequestOK(p)'
<1>1. /\ request' \in [Requests -> RequestStates] /\ request'[q] = Over
      /\ \A p \in Requests : p # q => request'[p] = request[p]
  BY OverIsOne DEF Typed, Answer
<1>2. \A p \in Requests : RequestOK(p)'
  BY <1>1, OverIsOne DEF Typed, RequestOK, InFlight, Working
<1> QED
  BY <1>1, <1>2, OverIsOne

-----------------------------------------------------------------------------
(* The parts of the invariant that a step leaves as they are.               *)

LEMMA ThereKept ==
  ASSUME DeploymentsThere, UNCHANGED <<dep, request, teardown>>,
         \A r \in Ids : rows'[r].dep \in {rows[r].dep, None}
  PROVE  DeploymentsThere'
BY DEF DeploymentsThere

LEMMA BoundOnceKept ==
  ASSUME NEW m \in Machines, BoundOnce(m), request' = request,
         \A r \in Ids : rows'[r].machine = rows[r].machine,
         dv'[m].live /\ ~dv'[m].adopted /\ IsManaged(m) => dv[m].live /\ ~dv[m].adopted
  PROVE  BoundOnce(m)'
<1>1. \A r \in Ids : Bound(r, m)' <=> Bound(r, m)
  BY DEF Bound
<1>2. IsManaged(m)' <=> IsManaged(m)
  BY <1>1 DEF IsManaged
<1>3. \A q \in Requests : /\ InFlight(q)' <=> InFlight(q)
                          /\ RowOf(q)' = RowOf(q)
  BY DEF InFlight, RowOf
<1>4. \A q \in Requests : RowOf(q) \in Ids
  BY Constants DEF RowOf
<1>5. \A q \in Requests : request[q].m = m => (HasBound(q)' <=> HasBound(q))
  BY <1>1, <1>3, <1>4 DEF HasBound
<1> QED
  BY <1>1, <1>2, <1>3, <1>5 DEF BoundOnce

LEMMA ReadsKept ==
  ASSUME NEW r \in Ids, ReadsOwnDisks(r), UNCHANGED <<rows, request>>,
         \A m \in Machines : machine'[m].token = r => machine[m].token = r \/ Bound(r, m)
  PROVE  ReadsOwnDisks(r)'
BY DEF ReadsOwnDisks, Bound, RowOf

LEMMA UnusedKept ==
  ASSUME RecordUnused, UNCHANGED <<rows, request>>,
         \A m \in Machines :
           machine'[m].token = machine[m].token \/ machine'[m].token = None
           \/ \E r \in Ids : machine'[m].token = r /\ Bound(r, m)
  PROVE  RecordUnused'
<1> SUFFICES ASSUME NEW q \in Requests, request[q].stage \in {"idle", "write", "add"},
                    NEW m \in Machines
             PROVE  rows'[q] = NoRow /\ machine'[m].token # q
  BY DEF RecordUnused
<1>1. rows[q] = NoRow /\ machine[m].token # q
  BY DEF RecordUnused
<1>2. q # None /\ ~Bound(q, m)
  BY <1>1, Constants, NoRowIsBlank DEF Bound
<1> QED
  BY <1>1, <1>2

LEMMA CountsKept ==
  ASSUME NEW d \in Requests, CountsClaims(d), UNCHANGED <<dep, request>>,
         \A r \in Ids : rows'[r].dep = rows[r].dep
  PROVE  CountsClaims(d)'
<1>1. RowsOf(d)' = RowsOf(d) /\ Claims(d)' = Claims(d)
  BY DEF RowsOf, Claims
<1> QED
  BY <1>1 DEF CountsClaims

LEMMA IdsAreFinite ==
  ASSUME NEW S, S \subseteq Ids
  PROVE  IsFiniteSet(S) /\ Cardinality(S) \in Nat
<1>1. IsFiniteSet(Requests)
  BY FS_Interval, AdoptionAssumption DEF Requests
<1>2. IsFiniteSet(Ids)
  BY <1>1, FS_AddElement DEF Ids
<1> QED
  BY <1>2, FS_Subset, FS_CardinalityType

(* Fewer records and claims are still counted. *)
LEMMA CountsFewer ==
  ASSUME Typed, NEW d \in Requests, CountsClaims(d), dep'[d].vms = dep[d].vms,
         (RowsOf(d) \cup Claims(d))' \subseteq RowsOf(d) \cup Claims(d)
  PROVE  CountsClaims(d)'
<1> DEFINE S == RowsOf(d) \cup Claims(d)
           T == (RowsOf(d) \cup Claims(d))'
<1>1. S \subseteq Ids /\ T \subseteq S
  BY Constants DEF RowsOf, Claims
<1>2. Cardinality(S) <= dep[d].vms /\ dep[d].vms \in Nat
  BY Constants DEF CountsClaims, Typed, DeploymentStates
<1>3. CountsClaims(d)' <=> Cardinality(T) <= dep'[d].vms
  BY DEF CountsClaims
<1> HIDE DEF S, T
<1>4. Cardinality(T) <= Cardinality(S) /\ Cardinality(S) \in Nat /\ Cardinality(T) \in Nat
  BY <1>1, IdsAreFinite, FS_Subset
<1>5. Cardinality(T) <= dep'[d].vms
  BY <1>2, <1>4
<1> QED
  BY <1>3, <1>5

-----------------------------------------------------------------------------
(* The hypervisor and the agents: machines and discovery records change, and *)
(* nothing else.                                                            *)

MachinesGoOn ==
  /\ UNCHANGED <<rows, dep, request, teardown, usurped, miscounted>>
  /\ tangled \subseteq tangled'
  /\ machine' \in [Machines -> MachineStates]
  /\ dv' \in [Machines -> Discovered]
  /\ \A m \in Machines :
       /\ machine'[m].stage \in {"booted", "managed"} <=> machine'[m].token # None
       /\ machine'[m].gen <= dv'[m].gen
       /\ \/ machine'[m].token \in {machine[m].token, None}
          \/ \E r \in Ids : machine'[m].token = r /\ Bound(r, m)
       /\ m \notin tangled' =>
            (dv'[m].live /\ ~dv'[m].adopted /\ IsManaged(m) => dv[m].live /\ ~dv[m].adopted)

LEMMA MachinesGoOnKeeps ==
  ASSUME IInv, MachinesGoOn
  PROVE  IInv'
<1>1. Typed'
  BY DEF IInv, Typed, MachinesGoOn, RequestOK, InFlight
<1>2. DeploymentsThere'
  BY ThereKept DEF IInv, MachinesGoOn
<1>3. ASSUME NEW m \in Machines, m \notin tangled' PROVE BoundOnce(m)'
  <2>1. BoundOnce(m)
    BY <1>3 DEF IInv, MachinesGoOn
  <2> QED
    BY <1>3, <2>1, BoundOnceKept DEF MachinesGoOn
<1>4. ASSUME NEW r \in Ids, r \notin usurped' PROVE ReadsOwnDisks(r)'
  <2>1. ReadsOwnDisks(r)
    BY <1>4 DEF IInv, MachinesGoOn
  <2>2. \A m \in Machines : machine'[m].token = r => machine[m].token = r \/ Bound(r, m)
    BY Constants DEF MachinesGoOn
  <2> QED
    BY <2>1, <2>2, ReadsKept DEF MachinesGoOn
<1>5. RecordUnused'
  BY UnusedKept DEF IInv, MachinesGoOn
<1>6. ASSUME NEW d \in Requests, d \notin miscounted' PROVE CountsClaims(d)'
  BY <1>6, CountsKept DEF IInv, MachinesGoOn
<1> QED
  BY <1>1, <1>2, <1>3, <1>4, <1>5, <1>6 DEF IInv

(* A machine alone changes. *)
LEMMA MachineAlone ==
  ASSUME IInv, NEW m \in Machines, NEW state \in MachineStates, Become(m, state),
         state.stage \in {"booted", "managed"} <=> state.token # None,
         state.gen \in {0, machine[m].gen},
         \/ state.token \in {machine[m].token, None}
         \/ \E r \in Ids : state.token = r /\ Bound(r, m),
         UNCHANGED <<dv, rows, dep, request, teardown, history>>
  PROVE  MachinesGoOn
<1>1. Typed
  BY DEF IInv
<1>2. /\ machine' \in [Machines -> MachineStates]
      /\ machine'[m] = state
      /\ \A n \in Machines : n # m => machine'[n] = machine[n]
      /\ \A n \in Machines :
           machine'[n].stage \in {"booted", "managed"} <=> machine'[n].token # None
  BY <1>1, MachineBecomes
<1>3. \A n \in Machines : machine'[n].gen <= dv'[n].gen
  <2>1. 0 <= dv[m].gen /\ machine[m].gen <= dv[m].gen
    BY <1>1 DEF Typed, Discovered
  <2> QED
    BY <1>1, <1>2, <2>1 DEF Typed
<1> QED
  BY <1>1, <1>2, <1>3 DEF MachinesGoOn, Typed, history

LEMMA HypervisorSteps ==
  ASSUME IInv, NEW m \in Machines, Restore(m) \/ Destroy(m) \/ Reset(m)
  PROVE  MachinesGoOn
<1>1. CASE Restore(m)
  BY <1>1, MachineAlone, AtIsOne DEF Restore, Stages
<1>2. CASE Destroy(m)
  BY <1>2, MachineAlone, AtIsOne DEF Destroy, Stages
<1>3. CASE Reset(m)
  BY <1>3, MachineAlone, AtIsOne DEF Reset, Stages
<1> QED
  BY <1>1, <1>2, <1>3

LEMMA BootScriptStep ==
  ASSUME IInv, NEW m \in Machines, BootScript(m)
  PROVE  MachinesGoOn
<1>1. CASE IsManaged(m)
  <2>1. PICK r \in Ids : Bound(r, m) /\ Become(m, [At("booted") EXCEPT !.token = r])
    BY <1>1 DEF BootScript
  <2> DEFINE state == [At("booted") EXCEPT !.token = r]
  <2>2. state \in MachineStates /\ state.stage = "booted" /\ state.token = r /\ state.gen = 0
    BY DEF At, MachineStates, Stages
  <2>3. Become(m, state)
    BY <2>1
  <2> HIDE DEF state
  <2> QED
    BY <2>1, <2>2, <2>3, MachineAlone, Constants DEF BootScript
<1>2. CASE ~IsManaged(m)
  BY <1>2, MachineAlone, AtIsOne DEF BootScript, Stages
<1> QED
  BY <1>1, <1>2

LEMMA HeartbeatStep ==
  ASSUME IInv, NEW m \in Machines, DiscoveryHeartbeat(m)
  PROVE  MachinesGoOn
BY MachineAlone, AtIsOne DEF DiscoveryHeartbeat, Stages

LEMMA DiscoveryBootStep ==
  ASSUME IInv, NEW m \in Machines, DiscoveryBoot(m)
  PROVE  MachinesGoOn
<1>1. Typed
  BY DEF IInv
<1> DEFINE gen == IF dv[m].live THEN dv[m].gen ELSE dv[m].gen + 1
           state == [At("inspecting") EXCEPT !.gen = gen]
           record == IF dv[m].live THEN dv[m]
                     ELSE [gen |-> gen, live |-> TRUE, adopted |-> FALSE, inspected |-> FALSE]
<1>2. dv[m] \in Discovered
  BY <1>1 DEF Typed
<1>3. gen \in Nat
  BY <1>2 DEF Discovered
<1>4. record \in Discovered /\ record.gen = gen /\ (dv[m].live => record = dv[m])
  BY <1>2, <1>3 DEF Discovered
<1>5. state \in MachineStates /\ state.stage = "inspecting" /\ state.token = None
      /\ state.gen = gen
  BY <1>3 DEF At, MachineStates, Stages
<1>6. dv' = [dv EXCEPT ![m] = record] /\ Become(m, state)
  BY DEF DiscoveryBoot
<1>7. tangled \subseteq tangled' /\ (IsManaged(m) /\ ~dv[m].live => m \in tangled')
  BY DEF DiscoveryBoot
<1>8. UNCHANGED <<rows, dep, request, teardown, usurped, miscounted>>
  BY DEF DiscoveryBoot
<1> HIDE DEF gen, state, record
<1>9. /\ dv' \in [Machines -> Discovered] /\ dv'[m] = record
      /\ \A n \in Machines : n # m => dv'[n] = dv[n]
  BY <1>1, <1>4, <1>6 DEF Typed
<1>10. /\ machine' \in [Machines -> MachineStates]
       /\ machine'[m] = state
       /\ \A n \in Machines : n # m => machine'[n] = machine[n]
       /\ \A n \in Machines :
            machine'[n].stage \in {"booted", "managed"} <=> machine'[n].token # None
  BY <1>1, <1>5, <1>6, MachineBecomes
<1>11. \A n \in Machines : machine'[n].gen <= dv'[n].gen
  BY <1>1, <1>3, <1>4, <1>5, <1>9, <1>10 DEF Typed
<1>12. \A n \in Machines :
         machine'[n].token \in {machine[n].token, None}
  BY <1>5, <1>10
<1>13. \A n \in Machines : n \notin tangled' =>
         (dv'[n].live /\ ~dv'[n].adopted /\ IsManaged(n) => dv[n].live /\ ~dv[n].adopted)
  BY <1>4, <1>7, <1>9
<1> QED
  BY <1>7, <1>8, <1>9, <1>10, <1>11, <1>12, <1>13 DEF MachinesGoOn

LEMMA DiscoveryReportStep ==
  ASSUME IInv, NEW m \in Machines, DiscoveryReport(m)
  PROVE  MachinesGoOn
<1>1. Typed /\ machine[m].stage = "inspecting"
  BY DEF IInv, DiscoveryReport
<1> DEFINE state == [machine[m] EXCEPT !.stage = "waiting"]
           record == [dv[m] EXCEPT !.inspected = @ \/ Recognised(m)]
<1>2. dv[m] \in Discovered /\ machine[m] \in MachineStates
  BY <1>1 DEF Typed
<1>3. record \in Discovered /\ record.gen = dv[m].gen /\ record.live = dv[m].live
      /\ record.adopted = dv[m].adopted
  BY <1>2 DEF Discovered, Recognised
<1>4. /\ state \in MachineStates /\ state.stage = "waiting" /\ state.gen = machine[m].gen
      /\ state.token = machine[m].token
  BY <1>2 DEF MachineStates, Stages
<1>5. state.token = None
  BY <1>1, <1>4 DEF Typed
<1>6. dv' = [dv EXCEPT ![m] = record] /\ Become(m, state)
  BY DEF DiscoveryReport
<1>7. UNCHANGED <<rows, dep, request, teardown, history>>
  BY DEF DiscoveryReport
<1> HIDE DEF state, record
<1>8. /\ dv' \in [Machines -> Discovered] /\ dv'[m] = record
      /\ \A n \in Machines : n # m => dv'[n] = dv[n]
  BY <1>1, <1>3, <1>6 DEF Typed
<1>9. /\ machine' \in [Machines -> MachineStates]
      /\ machine'[m] = state
      /\ \A n \in Machines : n # m => machine'[n] = machine[n]
      /\ \A n \in Machines :
           machine'[n].stage \in {"booted", "managed"} <=> machine'[n].token # None
  BY <1>1, <1>4, <1>5, <1>6, MachineBecomes
<1>10. \A n \in Machines : machine'[n].gen <= dv'[n].gen
  BY <1>1, <1>3, <1>4, <1>8, <1>9 DEF Typed
<1>11. \A n \in Machines : machine'[n].token \in {machine[n].token, None}
  BY <1>5, <1>9
<1>12. \A n \in Machines :
         dv'[n].live /\ ~dv'[n].adopted => dv[n].live /\ ~dv[n].adopted
  BY <1>3, <1>8
<1> QED
  BY <1>7, <1>8, <1>9, <1>10, <1>11, <1>12 DEF MachinesGoOn, history

LEMMA DismissStep ==
  ASSUME IInv, NEW m \in Machines, Dismiss(m)
  PROVE  MachinesGoOn
<1>1. Typed
  BY DEF IInv
<1> DEFINE record == [dv[m] EXCEPT !.live = FALSE, !.adopted = FALSE, !.inspected = FALSE]
<1>2. dv[m] \in Discovered
  BY <1>1 DEF Typed
<1>3. record \in Discovered /\ record.gen = dv[m].gen /\ record.live = FALSE
  BY <1>2 DEF Discovered
<1>4. dv' = [dv EXCEPT ![m] = record] /\ UNCHANGED <<machine, rows, dep, request, teardown, history>>
  BY DEF Dismiss
<1> HIDE DEF record
<1>5. /\ dv' \in [Machines -> Discovered] /\ dv'[m] = record
      /\ \A n \in Machines : n # m => dv'[n] = dv[n]
  BY <1>1, <1>3, <1>4 DEF Typed
<1>6. \A n \in Machines : machine[n].gen <= dv'[n].gen
  BY <1>1, <1>3, <1>5 DEF Typed
<1> QED
  BY <1>1, <1>3, <1>4, <1>5, <1>6 DEF MachinesGoOn, Typed, history

-----------------------------------------------------------------------------
(* Requests that end: they are answered, or cut off by a restart, and write  *)
(* to no record.                                                            *)

RequestsEnd ==
  /\ UNCHANGED <<machine, rows, dep, usurped, miscounted>>
  /\ tangled \subseteq tangled'
  /\ teardown' \in TeardownStates
  /\ teardown'.dep = teardown.dep /\ (teardown'.stage = "idle" <=> teardown.stage = "idle")
  /\ request' \in [Requests -> RequestStates]
  /\ \A q \in Requests :
       \/ request'[q] = request[q]
       \/ /\ request'[q].stage = "over"
          /\ HasBound(q) /\ request[q].m \notin tangled' => dv'[request[q].m].adopted
  /\ dv' \in [Machines -> Discovered]
  /\ \A m \in Machines :
       /\ dv'[m].gen = dv[m].gen
       /\ dv'[m].live => dv[m].live
       /\ dv[m].adopted => dv'[m].adopted

LEMMA RequestsEndKeeps ==
  ASSUME IInv, RequestsEnd
  PROVE  IInv'
<1>1. \A q \in Requests :
        request'[q].stage = "over" \/ request'[q] = request[q]
  BY DEF RequestsEnd
<1>2. Typed'
  <2>1. \A q \in Requests : RequestOK(q)'
    BY <1>1 DEF IInv, Typed, RequestOK, InFlight, Working
  <2> QED
    BY <2>1 DEF IInv, Typed, RequestsEnd
<1>3. DeploymentsThere'
  BY <1>1 DEF IInv, DeploymentsThere, RequestsEnd
<1>4. ASSUME NEW m \in Machines, m \notin tangled' PROVE BoundOnce(m)'
  <2>1. BoundOnce(m)
    BY <1>4 DEF IInv, RequestsEnd
  <2>2. \A r \in Ids : Bound(r, m)' <=> Bound(r, m)
    BY DEF Bound, RequestsEnd
  <2>3. IsManaged(m)' <=> IsManaged(m)
    BY <2>2 DEF IsManaged
  <2>4. ASSUME NEW q \in Requests, request'[q].stage \in Working
        PROVE  request'[q] = request[q] /\ RowOf(q)' = RowOf(q)
    BY <1>1, <2>4 DEF Working, RowOf
  <2>5. \A r, s \in Ids : Bound(r, m)' /\ Bound(s, m)' => r = s
    BY <2>1, <2>2 DEF BoundOnce
  <2>6. \A p, q \in Requests :
          InFlight(p)' /\ InFlight(q)' /\ request'[p].m = m /\ request'[q].m = m => p = q
    BY <2>1, <2>4 DEF BoundOnce, InFlight
  <2>7. \A q \in Requests :
          request'[q].m = m /\ request'[q].stage \in {"write", "add"} => ~IsManaged(m)'
    BY <2>1, <2>3, <2>4 DEF BoundOnce, Working
  <2>8. \A q \in Requests, r \in Ids :
          request'[q].m = m /\ request'[q].stage \in {"data", "mark"} /\ Bound(r, m)' =>
            r = RowOf(q)'
    BY <2>1, <2>2, <2>4 DEF BoundOnce, Working
  <2>9. ASSUME dv'[m].live, ~dv'[m].adopted, IsManaged(m)'
        PROVE  \E q \in Requests : HasBound(q)' /\ request'[q].m = m
    <3>1. dv[m].live /\ ~dv[m].adopted
      BY <2>9 DEF RequestsEnd
    <3>2. PICK q \in Requests : HasBound(q) /\ request[q].m = m
      BY <2>1, <2>3, <2>9, <3>1 DEF BoundOnce
    <3>3. request'[q] = request[q]
      BY <1>4, <2>9, <3>2 DEF RequestsEnd
    <3>4. HasBound(q)'
      BY <3>2, <3>3 DEF HasBound, Bound, RowOf, RequestsEnd
    <3> QED
      BY <3>2, <3>3, <3>4
  <2> QED
    BY <2>5, <2>6, <2>7, <2>8, <2>9 DEF BoundOnce
<1>5. ASSUME NEW r \in Ids, r \notin usurped' PROVE ReadsOwnDisks(r)'
  <2>1. ReadsOwnDisks(r)
    BY <1>5 DEF IInv, RequestsEnd
  <2> QED
    BY <1>1, <2>1 DEF ReadsOwnDisks, RowOf, RequestsEnd
<1>6. RecordUnused'
  BY <1>1 DEF IInv, RecordUnused, RequestsEnd
<1>7. ASSUME NEW d \in Requests, d \notin miscounted' PROVE CountsClaims(d)'
  <2>1. Typed /\ CountsClaims(d)
    BY <1>7 DEF IInv, RequestsEnd
  <2>2. RowsOf(d)' = RowsOf(d) /\ Claims(d)' \subseteq Claims(d)
    BY <1>1 DEF RowsOf, Claims, RequestsEnd
  <2> QED
    BY <2>1, <2>2, CountsFewer DEF RequestsEnd
<1> QED
  BY <1>2, <1>3, <1>4, <1>5, <1>6, <1>7 DEF IInv

LEMMA FailureSteps ==
  ASSUME IInv, NEW q \in Requests,
         RebindFails(q) \/ AddFails(q) \/ AdoptionFails(q) \/ StatementFails(q)
  PROVE  RequestsEnd
<1>1. Typed
  BY DEF IInv
<1>2. Answer(q) /\ UNCHANGED <<machine, dv, rows, dep, teardown, usurped, miscounted>>
  BY DEF RebindFails, AddFails, AdoptionFails, StatementFails, history
<1>3. /\ request' \in [Requests -> RequestStates]
      /\ request'[q].stage = "over"
      /\ \A p \in Requests : p # q => request'[p] = request[p]
  BY <1>1, <1>2, RequestAnswered
<1>4. tangled \subseteq tangled' /\ (HasBound(q) => request[q].m \in tangled')
  <2>1. CASE RebindFails(q) \/ AddFails(q)
    BY <2>1 DEF RebindFails, AddFails, HasBound, history
  <2>2. CASE AdoptionFails(q) \/ StatementFails(q)
    <3>1. tangled' = tangled \cup Abandoned({q})
      BY <2>2 DEF AdoptionFails, StatementFails
    <3>2. HasBound(q) => request[q].m \in Abandoned({q})
      BY DEF Abandoned
    <3> QED
      BY <3>1, <3>2
  <2> QED
    BY <2>1, <2>2
<1> QED
  BY <1>1, <1>2, <1>3, <1>4 DEF RequestsEnd, Typed

LEMMA MarkAdoptedStep ==
  ASSUME IInv, NEW q \in Requests, MarkAdopted(q)
  PROVE  RequestsEnd
<1>1. Typed /\ InFlight(q)
  BY DEF IInv, MarkAdopted, InFlight, Working
<1>2. request[q].m \in Machines
  BY <1>1 DEF Typed, RequestOK
<1> DEFINE m == request[q].m
           record == [dv[m] EXCEPT !.adopted = TRUE]
<1>3. dv[m] \in Discovered
  BY <1>1, <1>2 DEF Typed
<1>4. record \in Discovered /\ record.gen = dv[m].gen /\ record.live = dv[m].live
      /\ record.adopted = TRUE
  BY <1>3 DEF Discovered
<1>5. dv' = [dv EXCEPT ![m] = record] /\ Answer(q)
      /\ UNCHANGED <<machine, rows, dep, teardown, history>>
  BY DEF MarkAdopted
<1> HIDE DEF record
<1>6. /\ dv' \in [Machines -> Discovered] /\ dv'[m] = record
      /\ \A n \in Machines : n # m => dv'[n] = dv[n]
  BY <1>1, <1>2, <1>4, <1>5 DEF Typed
<1>7. /\ request' \in [Requests -> RequestStates]
      /\ request'[q].stage = "over"
      /\ \A p \in Requests : p # q => request'[p] = request[p]
  BY <1>1, <1>5, RequestAnswered
<1>8. \A n \in Machines :
        /\ dv'[n].gen = dv[n].gen
        /\ dv'[n].live => dv[n].live
        /\ dv[n].adopted => dv'[n].adopted
  BY <1>4, <1>6
<1>9. \A p \in Requests :
       \/ request'[p] = request[p]
       \/ /\ request'[p].stage = "over"
          /\ HasBound(p) /\ request[p].m \notin tangled' => dv'[request[p].m].adopted
  BY <1>4, <1>6, <1>7
<1> QED
  BY <1>1, <1>5, <1>6, <1>7, <1>8, <1>9 DEF RequestsEnd, Typed, history

LEMMA RestartStep ==
  ASSUME IInv, Restart
  PROVE  RequestsEnd
<1>1. Typed
  BY DEF IInv
<1>2. request' \in [Requests -> RequestStates]
  BY <1>1, OverIsOne DEF Restart, Typed
<1>3. \A q \in Requests :
        request'[q] = request[q] \/ (request'[q].stage = "over" /\ InFlight(q))
  BY OverIsOne DEF Restart
<1>4. \A q \in Requests : HasBound(q) => request[q].m \in tangled'
  BY DEF Restart, Abandoned
<1>5. teardown' \in TeardownStates /\ teardown'.dep = teardown.dep
      /\ (teardown'.stage = "idle" <=> teardown.stage = "idle")
  BY <1>1 DEF Restart, Typed, TeardownStates
<1> QED
  BY <1>1, <1>2, <1>3, <1>4, <1>5 DEF RequestsEnd, Restart, Typed

-----------------------------------------------------------------------------
(* The state of its disks is written to the record a machine is bound to.    *)

LEMMA DataIsWritten ==
  ASSUME Typed, NEW r \in Ids, rows[r].dep # None, NEW m \in Machines,
         rows' = [rows EXCEPT ![r].data = m]
  PROVE  /\ rows' \in [Ids -> Records \cup {NoRow}]
         /\ rows'[r].dep = rows[r].dep /\ rows'[r].machine = rows[r].machine
         /\ rows'[r].data = m
         /\ \A s \in Ids : s # r => rows'[s] = rows[s]
         /\ \A s \in Ids : rows'[s].dep = rows[s].dep /\ rows'[s].machine = rows[s].machine
<1> DEFINE record == [rows[r] EXCEPT !.data = m]
<1>1. rows[r] \in Records
  BY RowParts
<1>2. record \in Records /\ record.dep = rows[r].dep /\ record.machine = rows[r].machine
      /\ record.data = m
  BY <1>1 DEF Records
<1>3. rows' = [rows EXCEPT ![r] = record]
  OBVIOUS
<1> HIDE DEF record
<1>4. /\ rows' \in [Ids -> Records \cup {NoRow}] /\ rows'[r] = record
      /\ \A s \in Ids : s # r => rows'[s] = rows[s]
  BY <1>2, <1>3 DEF Typed
<1> QED
  BY <1>2, <1>4

LEMMA RegisterStep ==
  ASSUME IInv, NEW m \in Machines, Register(m)
  PROVE  IInv'
<1> DEFINE r == machine[m].token
           state == [machine[m] EXCEPT !.stage = "managed"]
<1>1. Typed /\ machine[m].stage = "booted" /\ rows[r].dep # None
      /\ rows' = [rows EXCEPT ![r].data = m] /\ Become(m, state)
      /\ UNCHANGED <<dv, dep, request, teardown, history, bounds>>
  BY DEF IInv, Register
<1>2. machine[m] \in MachineStates /\ r \in Ids
  BY <1>1 DEF Typed, MachineStates
<1>3. /\ state \in MachineStates /\ state.stage = "managed" /\ state.gen = machine[m].gen
      /\ state.token = machine[m].token /\ state.token = r
  BY <1>2 DEF MachineStates, Stages
<1> HIDE DEF r, state
<1>4. /\ machine' \in [Machines -> MachineStates]
      /\ machine'[m] = state
      /\ \A n \in Machines : n # m => machine'[n] = machine[n]
      /\ \A n \in Machines :
           machine'[n].stage \in {"booted", "managed"} <=> machine'[n].token # None
  BY <1>1, <1>2, <1>3, MachineBecomes, Constants
<1>5. \A n \in Machines : machine'[n].token = machine[n].token /\ machine'[n].gen = machine[n].gen
  BY <1>3, <1>4
<1>6. /\ rows' \in [Ids -> Records \cup {NoRow}]
      /\ rows'[r].data = m
      /\ \A s \in Ids : s # r => rows'[s] = rows[s]
      /\ \A s \in Ids : rows'[s].dep = rows[s].dep /\ rows'[s].machine = rows[s].machine
  BY <1>1, <1>2, DataIsWritten
<1>7. Typed'
  BY <1>1, <1>4, <1>5, <1>6 DEF Typed, RequestOK, InFlight
<1>8. DeploymentsThere'
  BY <1>1, <1>6, ThereKept DEF IInv
<1>9. ASSUME NEW n \in Machines, n \notin tangled' PROVE BoundOnce(n)'
  BY <1>1, <1>6, <1>9, BoundOnceKept DEF IInv, history
<1>10. ASSUME NEW s \in Ids, s \notin usurped' PROVE ReadsOwnDisks(s)'
  <2>1. ReadsOwnDisks(s)
    BY <1>1, <1>10 DEF IInv, history
  <2>2. rows[r].dep # None /\ machine[m].token = r
    BY <1>1 DEF r
  <2>3. rows'[s].data \in {None, rows'[s].machine}
    <3>1. CASE s = r
      BY <2>1, <2>2, <3>1, <1>6 DEF ReadsOwnDisks
    <3>2. CASE s # r
      BY <2>1, <3>2, <1>6 DEF ReadsOwnDisks
    <3> QED
      BY <3>1, <3>2
  <2> QED
    BY <1>1, <1>5, <1>6, <2>1, <2>3 DEF ReadsOwnDisks, RowOf
<1>11. RecordUnused'
  <2>1. ASSUME NEW q \in Requests, request[q].stage \in {"idle", "write", "add"}
        PROVE  rows'[q] = NoRow /\ \A n \in Machines : machine'[n].token # q
    <3>1. rows[q] = NoRow /\ \A n \in Machines : machine[n].token # q
      BY <2>1 DEF IInv, RecordUnused
    <3>2. q # r
      BY <3>1, <1>1 DEF r
    <3> QED
      BY <1>5, <1>6, <3>1, <3>2, Constants
  <2> QED
    BY <1>1, <2>1 DEF RecordUnused
<1>12. ASSUME NEW d \in Requests, d \notin miscounted' PROVE CountsClaims(d)'
  BY <1>1, <1>6, <1>12, CountsKept DEF IInv, history
<1> QED
  BY <1>7, <1>8, <1>9, <1>10, <1>11, <1>12 DEF IInv

(* A request in flight goes on, and its machine is bound as before. *)
LEMMA BoundOnceGoesOn ==
  ASSUME NEW m \in Machines, BoundOnce(m), NEW q \in Requests, dv' = dv,
         \/ {request[q].stage, request'[q].stage} \subseteq {"write", "add"}
         \/ {request[q].stage, request'[q].stage} \subseteq {"data", "mark"},
         request'[q].mode = request[q].mode, request'[q].m = request[q].m,
         \A p \in Requests : p # q => request'[p] = request[p],
         \A r \in Ids : rows'[r].machine = rows[r].machine
  PROVE  BoundOnce(m)'
<1>1. \A r \in Ids : Bound(r, m)' <=> Bound(r, m)
  BY DEF Bound
<1>2. IsManaged(m)' <=> IsManaged(m)
  BY <1>1 DEF IsManaged
<1>3. \A p \in Requests :
        /\ InFlight(p)' <=> InFlight(p)
        /\ RowOf(p)' = RowOf(p)
        /\ request'[p].m = request[p].m
        /\ request'[p].stage \in {"write", "add"} <=> request[p].stage \in {"write", "add"}
        /\ request'[p].stage \in {"data", "mark"} <=> request[p].stage \in {"data", "mark"}
  BY DEF InFlight, RowOf, Working
<1>4. \A p \in Requests : RowOf(p) \in Ids
  BY Constants DEF RowOf
<1>5. \A p \in Requests : request[p].m = m => (HasBound(p)' <=> HasBound(p))
  BY <1>1, <1>3, <1>4 DEF HasBound
<1>6. \A r, s \in Ids : Bound(r, m)' /\ Bound(s, m)' => r = s
  BY <1>1 DEF BoundOnce
<1>7. \A p, o \in Requests :
        InFlight(p)' /\ InFlight(o)' /\ request'[p].m = m /\ request'[o].m = m => p = o
  BY <1>3 DEF BoundOnce
<1>8. \A p \in Requests :
        request'[p].m = m /\ request'[p].stage \in {"write", "add"} => ~IsManaged(m)'
  BY <1>2, <1>3 DEF BoundOnce
<1>9. \A p \in Requests, r \in Ids :
        request'[p].m = m /\ request'[p].stage \in {"data", "mark"} /\ Bound(r, m)' =>
          r = RowOf(p)'
  BY <1>1, <1>3 DEF BoundOnce
<1>10. dv'[m].live /\ ~dv'[m].adopted /\ IsManaged(m)' =>
         \E p \in Requests : HasBound(p)' /\ request'[p].m = m
  BY <1>2, <1>3, <1>5 DEF BoundOnce
<1> QED
  BY <1>6, <1>7, <1>8, <1>9, <1>10 DEF BoundOnce

LEMMA SetDataStateStep ==
  ASSUME IInv, NEW q \in Requests, SetDataState(q)
  PROVE  IInv'
<1> DEFINE r == RowOf(q)
           m == request[q].m
<1>1. Typed /\ request[q].stage = "data" /\ rows[r].dep # None
      /\ rows' = [rows EXCEPT ![r].data = m] /\ Step(q, "mark") /\ InFlight(q)
      /\ UNCHANGED <<machine, dv, dep, teardown, history, bounds>>
  BY DEF IInv, SetDataState, InFlight, Working
<1>2. m \in Machines /\ r \in Ids
  BY <1>1, Constants DEF Typed, RequestOK, RowOf
<1>3. /\ request' \in [Requests -> RequestStates]
      /\ request'[q].stage = "mark"
      /\ request'[q].mode = request[q].mode /\ request'[q].m = request[q].m
      /\ request'[q].dep = request[q].dep
      /\ \A p \in Requests : p # q => request'[p] = request[p]
      /\ \A p \in Requests : RequestOK(p)'
  BY <1>1, RequestSteps DEF Working
<1>4. /\ rows' \in [Ids -> Records \cup {NoRow}]
      /\ rows'[r].data = m
      /\ \A s \in Ids : s # r => rows'[s] = rows[s]
      /\ \A s \in Ids : rows'[s].dep = rows[s].dep /\ rows'[s].machine = rows[s].machine
  BY <1>1, <1>2, DataIsWritten
<1>5. \A p \in Requests :
        /\ RowOf(p)' = RowOf(p) /\ request'[p].m = request[p].m
        /\ request'[p].stage \in {"data", "mark"} <=> request[p].stage \in {"data", "mark"}
        /\ request'[p].stage \in {"idle", "write", "add"} =>
             p # q /\ request'[p] = request[p]
  BY <1>1, <1>3 DEF RowOf
<1>6. Typed'
  BY <1>1, <1>3, <1>4 DEF Typed
<1>7. DeploymentsThere'
  <2>1. \A s \in Ids : rows'[s].dep # None => dep[rows'[s].dep].status # "none"
    BY <1>4 DEF IInv, DeploymentsThere
  <2> QED
    BY <1>1, <1>5, <2>1 DEF IInv, DeploymentsThere
<1>8. ASSUME NEW n \in Machines, n \notin tangled' PROVE BoundOnce(n)'
  <2>1. BoundOnce(n)
    BY <1>1, <1>8 DEF IInv, history
  <2> QED
    BY <1>1, <1>3, <1>4, <2>1, BoundOnceGoesOn
<1>9. ASSUME NEW s \in Ids, s \notin usurped' PROVE ReadsOwnDisks(s)'
  <2>1. ReadsOwnDisks(s)
    BY <1>1, <1>9 DEF IInv, history
  <2>2. rows'[s].data \in {None, rows'[s].machine}
    <3>1. CASE s = r
      BY <1>1, <1>4, <2>1, <3>1 DEF ReadsOwnDisks
    <3>2. CASE s # r
      BY <2>1, <3>2, <1>4 DEF ReadsOwnDisks
    <3> QED
      BY <3>1, <3>2
  <2> QED
    BY <1>1, <1>4, <1>5, <2>1, <2>2 DEF ReadsOwnDisks
<1>10. RecordUnused'
  <2>1. ASSUME NEW p \in Requests, request'[p].stage \in {"idle", "write", "add"}
        PROVE  rows'[p] = NoRow /\ \A n \in Machines : machine'[n].token # p
    <3>1. request[p].stage \in {"idle", "write", "add"}
      BY <1>5, <2>1
    <3>2. rows[p] = NoRow /\ \A n \in Machines : machine[n].token # p
      BY <3>1 DEF IInv, RecordUnused
    <3>3. p # r
      BY <3>2, <1>1, NoRowIsBlank
    <3> QED
      BY <1>1, <1>4, <3>2, <3>3, Constants
  <2> QED
    BY <2>1 DEF RecordUnused
<1>11. ASSUME NEW d \in Requests, d \notin miscounted' PROVE CountsClaims(d)'
  <2>1. CountsClaims(d)
    BY <1>1, <1>11 DEF IInv, history
  <2>2. RowsOf(d)' \subseteq RowsOf(d) /\ Claims(d)' \subseteq Claims(d)
    BY <1>4, <1>5 DEF RowsOf, Claims
  <2> QED
    BY <1>1, <2>1, <2>2, CountsFewer
<1> QED
  BY <1>6, <1>7, <1>8, <1>9, <1>10, <1>11 DEF IInv

-----------------------------------------------------------------------------
(* The steps of an adoption.                                                *)

LEMMA ReadStep ==
  ASSUME IInv, NEW q \in Requests, NEW m \in Machines, NEW mode \in Modes, NEW d \in Ids,
         Read(q, m, mode, d)
  PROVE  IInv'
<1> DEFINE state == [stage |-> "write", mode |-> mode, m |-> m, gen |-> dv[m].gen,
                     dep |-> d, count |-> dep[d].vms]
<1>1. Typed /\ request[q].stage = "idle" /\ MayAdopt(m) /\ Target(q, mode, d)
      /\ request' = [request EXCEPT ![q] = state]
      /\ UNCHANGED <<machine, dv, rows, dep, teardown, usurped, miscounted, bounds>>
  BY DEF IInv, Read
<1>2. /\ tangled \subseteq tangled'
      /\ m \notin tangled' => \A p \in Requests \ {q} : ~(InFlight(p) /\ request[p].m = m)
  BY DEF Read
<1>3. dv[m].gen \in Nat /\ dep[d].vms \in Nat
  BY <1>1 DEF Typed, Discovered, DeploymentStates
<1>4. state \in RequestStates /\ state.stage = "write" /\ state.mode = mode
      /\ state.m = m /\ state.dep = d
  BY <1>3 DEF RequestStates, RequestStages, Working
<1> HIDE DEF state
<1>5. /\ request' \in [Requests -> RequestStates] /\ request'[q] = state
      /\ \A p \in Requests : p # q => request'[p] = request[p]
  BY <1>1, <1>4 DEF Typed
<1>6. Typed'
  <2>1. \A p \in Requests : RequestOK(p)'
    BY <1>1, <1>4, <1>5 DEF Typed, RequestOK, InFlight
  <2> QED
    BY <1>1, <1>5, <2>1 DEF Typed
<1>7. DeploymentsThere'
  <2>1. /\ mode = "create" => d = q /\ dep[q].status = "none"
        /\ mode = "join" => dep[d].status # "none"
    BY <1>1 DEF IInv, DeploymentsThere, Target, Modes
  <2>2. ASSUME NEW p \in Requests
        PROVE  /\ request'[p].stage = "idle" => dep[p].status = "none"
               /\ request'[p].stage = "write" /\ request'[p].mode = "create" =>
                    request'[p].dep = p /\ dep[p].status = "none"
               /\ request'[p].stage = "write" /\ request'[p].mode = "join" =>
                    dep[request'[p].dep].status # "none"
               /\ request'[p].stage = "add" => dep[request'[p].dep].status # "none"
    <3>1. CASE p = q
      BY <1>4, <1>5, <2>1, <3>1
    <3>2. CASE p # q
      BY <1>5, <3>2 DEF IInv, DeploymentsThere
    <3> QED
      BY <3>1, <3>2
  <2> QED
    BY <1>1, <2>2 DEF IInv, DeploymentsThere
<1>8. ASSUME NEW n \in Machines, n \notin tangled' PROVE BoundOnce(n)'
  <2>1. BoundOnce(n)
    BY <1>2, <1>8 DEF IInv
  <2>2. \A r \in Ids : Bound(r, n)' <=> Bound(r, n)
    BY <1>1 DEF Bound
  <2>3. IsManaged(n)' <=> IsManaged(n)
    BY <2>2 DEF IsManaged
  <2>4. ~InFlight(q) /\ ~HasBound(q)
    BY <1>1 DEF InFlight, Working, HasBound
  <2>5. \A p \in Requests : p # q =>
          /\ request'[p] = request[p] /\ RowOf(p)' = RowOf(p)
          /\ InFlight(p)' <=> InFlight(p)
          /\ HasBound(p)' <=> HasBound(p)
    BY <1>1, <1>5 DEF RowOf, InFlight, HasBound, Bound
  <2>6. n = m => ~IsManaged(n)
    BY <1>1, <1>2, <1>8, <2>1, <2>4 DEF BoundOnce, MayAdopt, HasBound, InFlight, Working
  <2>7. request'[q].m = m /\ request'[q].stage = "write"
    BY <1>4, <1>5
  <2>8. \A p, o \in Requests :
          InFlight(p)' /\ InFlight(o)' /\ request'[p].m = n /\ request'[o].m = n => p = o
    BY <1>2, <1>8, <2>1, <2>5, <2>7 DEF BoundOnce
  <2>9. \A p \in Requests :
          request'[p].m = n /\ request'[p].stage \in {"write", "add"} => ~IsManaged(n)'
    BY <2>1, <2>3, <2>5, <2>6, <2>7 DEF BoundOnce
  <2>10. \A p \in Requests, r \in Ids :
           request'[p].m = n /\ request'[p].stage \in {"data", "mark"} /\ Bound(r, n)' =>
             r = RowOf(p)'
    BY <2>1, <2>2, <2>5, <2>7 DEF BoundOnce
  <2>11. dv'[n].live /\ ~dv'[n].adopted /\ IsManaged(n)' =>
           \E p \in Requests : HasBound(p)' /\ request'[p].m = n
    BY <1>1, <2>1, <2>3, <2>4, <2>5 DEF BoundOnce
  <2>12. \A r, s \in Ids : Bound(r, n)' /\ Bound(s, n)' => r = s
    BY <2>1, <2>2 DEF BoundOnce
  <2> QED
    BY <2>8, <2>9, <2>10, <2>11, <2>12 DEF BoundOnce
<1>9. ASSUME NEW r \in Ids, r \notin usurped' PROVE ReadsOwnDisks(r)'
  <2>1. ReadsOwnDisks(r)
    BY <1>1, <1>9 DEF IInv
  <2>2. \A p \in Requests : request'[p].stage \in {"data", "mark"} =>
          request'[p] = request[p]
    BY <1>4, <1>5
  <2> QED
    BY <1>1, <2>1, <2>2 DEF ReadsOwnDisks, RowOf
<1>10. RecordUnused'
  BY <1>1, <1>5 DEF IInv, RecordUnused
<1>11. ASSUME NEW x \in Requests, x \notin miscounted' PROVE CountsClaims(x)'
  <2>1. CountsClaims(x)
    BY <1>1, <1>11 DEF IInv
  <2>2. RowsOf(x)' = RowsOf(x) /\ Claims(x)' = Claims(x)
    BY <1>1, <1>4, <1>5 DEF RowsOf, Claims
  <2> QED
    BY <1>1, <2>1, <2>2 DEF CountsClaims
<1> QED
  BY <1>6, <1>7, <1>8, <1>9, <1>10, <1>11 DEF IInv

(* A request binds its machine, which was bound to no record, to its own. *)
LEMMA BoundOnceBinds ==
  ASSUME NEW n \in Machines, BoundOnce(n), NEW q \in Requests, dv' = dv,
         request[q].stage \in {"write", "add"}, request'[q].stage = "data",
         request'[q].mode = request[q].mode, request'[q].m = request[q].m,
         \A p \in Requests : p # q => request'[p] = request[p],
         request[q].m \in Machines,
         rows'[RowOf(q)].machine = request[q].m,
         \A r \in Ids : r # RowOf(q) => rows'[r] = rows[r]
  PROVE  BoundOnce(n)'
<1> DEFINE m == request[q].m
           t == RowOf(q)
<1>1. t \in Ids /\ \A p \in Requests : RowOf(p) \in Ids /\ RowOf(p)' = RowOf(p)
  BY Constants DEF RowOf
<1>2. /\ InFlight(q) /\ ~HasBound(q)
      /\ \A p \in Requests : InFlight(p)' <=> InFlight(p)
      /\ \A p \in Requests : request'[p].m = request[p].m
  BY DEF InFlight, Working, HasBound
<1>3. CASE n = m
  <2>1. ~IsManaged(n)
    BY <1>3 DEF BoundOnce
  <2>2. \A r \in Ids : Bound(r, n)' <=> r = t
    BY <1>1, <1>3, <2>1 DEF Bound, IsManaged
  <2>3. \A p \in Requests : InFlight(p) /\ request[p].m = n => p = q
    BY <1>2, <1>3 DEF BoundOnce
  <2>4. \A p \in Requests : request'[p].stage \in Working /\ request'[p].m = n => p = q
    BY <1>2, <2>3 DEF InFlight
  <2>5. HasBound(q)' /\ request'[q].m = n
    BY <1>1, <1>3 DEF HasBound, Bound
  <2>6. \A r, s \in Ids : Bound(r, n)' /\ Bound(s, n)' => r = s
    BY <2>2
  <2>7. \A p, o \in Requests :
          InFlight(p)' /\ InFlight(o)' /\ request'[p].m = n /\ request'[o].m = n => p = o
    BY <2>4 DEF InFlight
  <2>8. \A p \in Requests : ~(request'[p].m = n /\ request'[p].stage \in {"write", "add"})
    BY <2>4 DEF Working
  <2>9. \A p \in Requests, r \in Ids :
          request'[p].m = n /\ request'[p].stage \in {"data", "mark"} /\ Bound(r, n)' =>
            r = RowOf(p)'
    BY <1>1, <2>2, <2>4 DEF Working
  <2> QED
    BY <2>5, <2>6, <2>7, <2>8, <2>9 DEF BoundOnce
<1>4. CASE n # m
  <2>1. \A r \in Ids : Bound(r, n)' <=> (Bound(r, n) /\ r # t)
    BY <1>1, <1>4 DEF Bound
  <2>2. IsManaged(n)' => IsManaged(n)
    BY <2>1 DEF IsManaged
  <2>3. \A r, s \in Ids : Bound(r, n)' /\ Bound(s, n)' => r = s
    BY <2>1 DEF BoundOnce
  <2>4. \A p, o \in Requests :
          InFlight(p)' /\ InFlight(o)' /\ request'[p].m = n /\ request'[o].m = n => p = o
    BY <1>2 DEF BoundOnce
  <2>5. \A p \in Requests : request'[p].m = n => p # q /\ request'[p] = request[p]
    BY <1>2, <1>4
  <2>6. \A p \in Requests :
          request'[p].m = n /\ request'[p].stage \in {"write", "add"} => ~IsManaged(n)'
    BY <2>2, <2>5 DEF BoundOnce
  <2>7. \A p \in Requests, r \in Ids :
          request'[p].m = n /\ request'[p].stage \in {"data", "mark"} /\ Bound(r, n)' =>
            r = RowOf(p)'
    BY <1>1, <2>1, <2>5 DEF BoundOnce
  <2>8. ASSUME dv'[n].live, ~dv'[n].adopted, IsManaged(n)'
        PROVE  \E p \in Requests : HasBound(p)' /\ request'[p].m = n
    <3>1. PICK p \in Requests : HasBound(p) /\ request[p].m = n
      BY <2>2, <2>8 DEF BoundOnce
    <3>2. PICK s \in Ids : Bound(s, n) /\ s # t
      BY <2>1, <2>8 DEF IsManaged
    <3>3. RowOf(p) = s
      BY <1>1, <3>1, <3>2 DEF BoundOnce, HasBound
    <3>4. Bound(RowOf(p), n)'
      BY <1>1, <2>1, <3>2, <3>3
    <3>5. p # q /\ request'[p] = request[p]
      BY <1>4, <3>1
    <3> QED
      BY <3>1, <3>4, <3>5 DEF HasBound
  <2> QED
    BY <2>3, <2>4, <2>6, <2>7, <2>8 DEF BoundOnce
<1> QED
  BY <1>3, <1>4

LEMMA RebindStep ==
  ASSUME IInv, NEW q \in Requests, RebindManagedVM(q)
  PROVE  IInv'
<1> DEFINE m == request[q].m
           record == Rebound(rows[Original], m)
<1>1. Typed /\ request[q].stage = "write" /\ request[q].mode = "rebind"
      /\ rows[Original].dep # None
      /\ rows' = [rows EXCEPT ![Original] = record] /\ Step(q, "data") /\ InFlight(q)
      /\ UNCHANGED <<machine, dv, dep, teardown, tangled, miscounted, bounds>>
  BY DEF IInv, RebindManagedVM, InFlight, Working
<1>2. m \in Machines /\ RowOf(q) = Original /\ rows[Original] \in Records
  BY <1>1, Constants, RowParts DEF Typed, RequestOK, RowOf
<1>3. usurped \subseteq usurped' /\
      (Original \notin usurped' =>
         /\ \A n \in Machines : machine[n].token = Original => n = m
         /\ \A p \in Requests : request[p].mode = "rebind" /\ InFlight(p) => p = q)
  BY DEF RebindManagedVM
<1>4. record \in Records /\ record.dep = rows[Original].dep /\ record.machine = m
      /\ record.data = None
  BY <1>2, Constants DEF Rebound, Records
<1> HIDE DEF record
<1>5. /\ rows' \in [Ids -> Records \cup {NoRow}] /\ rows'[Original] = record
      /\ \A r \in Ids : r # Original => rows'[r] = rows[r]
  BY <1>1, <1>4, Constants DEF Typed
<1>6. /\ request' \in [Requests -> RequestStates]
      /\ request'[q].stage = "data"
      /\ request'[q].mode = request[q].mode /\ request'[q].m = request[q].m
      /\ request'[q].dep = request[q].dep
      /\ \A p \in Requests : p # q => request'[p] = request[p]
      /\ \A p \in Requests : RequestOK(p)'
  BY <1>1, RequestSteps DEF Working
<1>7. \A r \in Ids : rows'[r].dep = rows[r].dep
  BY <1>4, <1>5
<1>8. Typed'
  BY <1>1, <1>5, <1>6 DEF Typed
<1>9. DeploymentsThere'
  <2>1. \A r \in Ids : rows'[r].dep # None => dep[rows'[r].dep].status # "none"
    BY <1>7 DEF IInv, DeploymentsThere
  <2> QED
    BY <1>1, <1>6, <2>1 DEF IInv, DeploymentsThere
<1>10. ASSUME NEW n \in Machines, n \notin tangled' PROVE BoundOnce(n)'
  <2>1. BoundOnce(n)
    BY <1>1, <1>10 DEF IInv
  <2> QED
    BY <1>1, <1>2, <1>4, <1>5, <1>6, <2>1, BoundOnceBinds
<1>11. ASSUME NEW r \in Ids, r \notin usurped' PROVE ReadsOwnDisks(r)'
  <2>1. ReadsOwnDisks(r)
    BY <1>3, <1>11 DEF IInv
  <2>2. CASE r = Original
    <3>1. \A p \in Requests :
            request'[p].stage \in {"data", "mark"} /\ RowOf(p)' = Original => p = q
      <4>1. ASSUME NEW p \in Requests, request'[p].stage \in {"data", "mark"},
                   RowOf(p)' = Original, p # q
            PROVE  FALSE
        <5>1. request'[p] = request[p]
          BY <1>6, <4>1
        <5>2. request[p].mode = "rebind"
          BY <4>1, <5>1, Constants DEF RowOf
        <5>3. InFlight(p)
          BY <4>1, <5>1 DEF InFlight, Working
        <5> QED
          BY <1>3, <1>11, <2>2, <4>1, <5>2, <5>3
      <4> QED
        BY <4>1
    <3>2. \A n \in Machines : machine'[n].token = Original => n = m
      BY <1>1, <1>3, <1>11, <2>2
    <3> QED
      BY <1>4, <1>5, <1>6, <2>2, <3>1, <3>2 DEF ReadsOwnDisks
  <2>3. CASE r # Original
    <3>1. RowOf(q)' = Original
      BY <1>1, <1>6 DEF RowOf
    <3>2. \A p \in Requests :
            request'[p].stage \in {"data", "mark"} /\ RowOf(p)' = r =>
              request'[p] = request[p] /\ RowOf(p) = r
      BY <1>6, <2>3, <3>1 DEF RowOf
    <3> QED
      BY <1>1, <1>5, <2>1, <2>3, <3>2 DEF ReadsOwnDisks
  <2> QED
    BY <2>2, <2>3
<1>12. RecordUnused'
  <2>1. \A p \in Requests : request'[p].stage \in {"idle", "write", "add"} =>
          request'[p] = request[p] /\ rows'[p] = rows[p]
    BY <1>5, <1>6, Constants
  <2> QED
    BY <1>1, <2>1 DEF IInv, RecordUnused
<1>13. ASSUME NEW x \in Requests, x \notin miscounted' PROVE CountsClaims(x)'
  <2>1. CountsClaims(x)
    BY <1>1, <1>13 DEF IInv
  <2>2. RowsOf(x)' = RowsOf(x) /\ Claims(x)' = Claims(x)
    BY <1>1, <1>6, <1>7 DEF RowsOf, Claims
  <2> QED
    BY <1>1, <2>1, <2>2 DEF CountsClaims
<1> QED
  BY <1>8, <1>9, <1>10, <1>11, <1>12, <1>13 DEF IInv

(* The deployment of an adoption is made, or counts one VM more. *)

LEMMA WrittenKeeps ==
  ASSUME IInv, NEW q \in Requests, request[q].stage = "write", Step(q, "add"),
         request[q].mode # "rebind",
         UNCHANGED <<machine, dv, rows, teardown, tangled, usurped>>
  PROVE  /\ request' \in [Requests -> RequestStates]
         /\ request'[q].stage = "add"
         /\ request'[q].mode = request[q].mode /\ request'[q].dep = request[q].dep
         /\ \A p \in Requests : p # q => request'[p] = request[p]
         /\ \A p \in Requests : RequestOK(p)'
         /\ \A m \in Machines \ tangled' : BoundOnce(m)'
         /\ \A r \in Ids \ usurped' : ReadsOwnDisks(r)'
         /\ RecordUnused'
<1>1. Typed /\ InFlight(q)
  BY DEF IInv, InFlight, Working
<1>2. /\ request' \in [Requests -> RequestStates]
      /\ request'[q].stage = "add"
      /\ request'[q].mode = request[q].mode /\ request'[q].m = request[q].m
      /\ request'[q].dep = request[q].dep
      /\ \A p \in Requests : p # q => request'[p] = request[p]
      /\ \A p \in Requests : RequestOK(p)'
  BY <1>1, RequestSteps DEF Working
<1>3. ASSUME NEW n \in Machines, n \notin tangled' PROVE BoundOnce(n)'
  <2>1. BoundOnce(n)
    BY <1>3 DEF IInv
  <2>2. {request[q].stage, request'[q].stage} \subseteq {"write", "add"}
    BY <1>2
  <2> QED
    BY <1>2, <2>1, <2>2, BoundOnceGoesOn
<1>4. ASSUME NEW r \in Ids, r \notin usurped' PROVE ReadsOwnDisks(r)'
  <2>1. ReadsOwnDisks(r)
    BY <1>4 DEF IInv
  <2>2. \A p \in Requests : request'[p].stage \in {"data", "mark"} =>
          request'[p] = request[p]
    BY <1>2
  <2> QED
    BY <2>1, <2>2 DEF ReadsOwnDisks, RowOf
<1>5. RecordUnused'
  <2>1. \A p \in Requests : request'[p].stage \in {"idle", "write", "add"} =>
          request[p].stage \in {"idle", "write", "add"}
    BY <1>2
  <2> QED
    BY <2>1 DEF IInv, RecordUnused
<1> QED
  BY <1>2, <1>3, <1>4, <1>5

LEMMA CreateDeploymentStep ==
  ASSUME IInv, NEW q \in Requests, CreateDeployment(q)
  PROVE  IInv'
<1> DEFINE made == [status |-> "ready", vms |-> 1]
<1>1. Typed /\ DeploymentsThere /\ request[q].stage = "write" /\ request[q].mode = "create"
      /\ dep' = [dep EXCEPT ![q] = made] /\ Step(q, "add") /\ InFlight(q)
      /\ UNCHANGED <<machine, dv, rows, teardown, history, bounds>>
  BY DEF IInv, CreateDeployment, InFlight, Working
<1>2. /\ request' \in [Requests -> RequestStates]
      /\ request'[q].stage = "add"
      /\ request'[q].mode = request[q].mode /\ request'[q].dep = request[q].dep
      /\ \A p \in Requests : p # q => request'[p] = request[p]
      /\ \A p \in Requests : RequestOK(p)'
      /\ \A m \in Machines \ tangled' : BoundOnce(m)'
      /\ \A r \in Ids \ usurped' : ReadsOwnDisks(r)'
      /\ RecordUnused'
  BY <1>1, WrittenKeeps DEF history
<1>3. request[q].dep = q /\ dep[q].status = "none" /\ q \in Ids
  BY <1>1, Constants DEF DeploymentsThere
<1>4. made \in DeploymentStates /\ made.status = "ready" /\ made.vms = 1
  BY DEF DeploymentStates
<1> HIDE DEF made
<1>5. /\ dep' \in [Ids -> DeploymentStates] /\ dep'[q] = made
      /\ \A d \in Ids : d # q => dep'[d] = dep[d]
  BY <1>1, <1>3, <1>4 DEF Typed
<1>6. Typed'
  BY <1>1, <1>2, <1>5 DEF Typed
<1>7. DeploymentsThere'
  <2>1. \A d \in Ids : dep[d].status # "none" => dep'[d].status # "none" /\ d # q
                                                 /\ dep'[d] = dep[d]
    BY <1>3, <1>5
  <2>2. \A r \in Ids : rows[r].dep # None => dep'[rows[r].dep].status # "none"
    BY <1>1, <2>1, RowParts DEF DeploymentsThere
  <2>3. ASSUME NEW p \in Requests
        PROVE  /\ request'[p].stage = "idle" => dep'[p].status = "none"
               /\ request'[p].stage = "write" /\ request'[p].mode = "create" =>
                    request'[p].dep = p /\ dep'[p].status = "none"
               /\ request'[p].stage = "write" /\ request'[p].mode = "join" =>
                    dep'[request'[p].dep].status # "none"
               /\ request'[p].stage = "add" => dep'[request'[p].dep].status # "none"
    <3>1. CASE p = q
      BY <1>2, <1>3, <1>4, <1>5, <3>1
    <3>2. CASE p # q
      <4>1. request'[p] = request[p] /\ p \in Ids /\ dep'[p] = dep[p]
        BY <1>2, <1>5, <3>2, Constants
      <4>2. request[p].stage \in {"write", "add"} => request[p].dep \in Ids
        BY <1>1 DEF Typed, RequestOK, InFlight, Working
      <4> QED
        BY <1>1, <2>1, <4>1, <4>2 DEF DeploymentsThere
    <3> QED
      BY <3>1, <3>2
  <2>4. teardown.stage # "idle" => dep'[teardown.dep].status = "deleting"
    BY <1>1, <2>1 DEF Typed, DeploymentsThere
  <2> QED
    BY <1>1, <2>2, <2>3, <2>4 DEF DeploymentsThere
<1>8. ASSUME NEW d \in Requests, d \notin miscounted' PROVE CountsClaims(d)'
  <2>1. CASE d = q
    <3>1. (RowsOf(d) \cup Claims(d))' \subseteq {q}
      <4>1. RowsOf(d)' = {}
        <5>1. \A r \in Ids : rows[r].dep # q
          BY <1>1, <1>3, Constants DEF DeploymentsThere
        <5> QED
          BY <1>1, <2>1, <5>1 DEF RowsOf
      <4>2. \A p \in Requests : request[p].stage = "add" => request[p].dep # q
        BY <1>1, <1>3 DEF DeploymentsThere
      <4>3. Claims(d)' \subseteq {q}
        BY <1>2, <2>1, <4>2 DEF Claims
      <4> QED
        BY <4>1, <4>3
    <3>2. Cardinality((RowsOf(d) \cup Claims(d))') <= 1
      <4>1. IsFiniteSet({q}) /\ Cardinality({q}) = 1
        BY FS_Singleton
      <4> DEFINE S == (RowsOf(d) \cup Claims(d))'
      <4>2. S \subseteq {q}
        BY <3>1
      <4>3. Cardinality(S) <= Cardinality({q})
        BY <4>1, <4>2, FS_Subset
      <4> QED
        BY <4>1, <4>3
    <3>3. dep'[d].vms = 1
      BY <1>4, <1>5, <2>1
    <3> QED
      BY <3>2, <3>3 DEF CountsClaims
  <2>2. CASE d # q
    <3>1. CountsClaims(d) /\ d \in Ids
      BY <1>1, <1>8, Constants DEF IInv, history
    <3>2. RowsOf(d)' = RowsOf(d) /\ Claims(d)' = Claims(d)
      BY <1>1, <1>2, <1>3, <2>2 DEF RowsOf, Claims
    <3> QED
      BY <1>5, <2>2, <3>1, <3>2 DEF CountsClaims
  <2> QED
    BY <2>1, <2>2
<1> QED
  BY <1>2, <1>6, <1>7, <1>8 DEF IInv

LEMMA JoinStep ==
  ASSUME IInv, NEW q \in Requests, Join(q)
  PROVE  IInv'
<1> DEFINE d == request[q].dep
           joined == [dep[d] EXCEPT !.vms = Joined(request[q].count)]
<1>1. Typed /\ DeploymentsThere /\ request[q].stage = "write" /\ request[q].mode = "join"
      /\ dep' = [dep EXCEPT ![d] = joined] /\ Step(q, "add") /\ InFlight(q)
      /\ UNCHANGED <<machine, dv, rows, teardown, tangled, usurped, bounds>>
  BY DEF IInv, Join, InFlight, Working
<1>2. /\ miscounted \subseteq miscounted'
      /\ d \notin miscounted' => dep[d].vms = request[q].count
  BY DEF Join
<1>3. /\ request' \in [Requests -> RequestStates]
      /\ request'[q].stage = "add"
      /\ request'[q].mode = request[q].mode /\ request'[q].dep = request[q].dep
      /\ \A p \in Requests : p # q => request'[p] = request[p]
      /\ \A p \in Requests : RequestOK(p)'
      /\ \A m \in Machines \ tangled' : BoundOnce(m)'
      /\ \A r \in Ids \ usurped' : ReadsOwnDisks(r)'
      /\ RecordUnused'
  BY <1>1, WrittenKeeps
<1>4. d \in Ids /\ request[q].count \in Nat
  BY <1>1 DEF Typed, RequestOK, RequestStates
<1>5. dep[d] \in DeploymentStates
  BY <1>1, <1>4 DEF Typed
<1>6. joined \in DeploymentStates /\ joined.status = dep[d].status
      /\ joined.vms = request[q].count + 1
  BY <1>4, <1>5 DEF Joined, DeploymentStates
<1> HIDE DEF joined
<1>7. /\ dep' \in [Ids -> DeploymentStates] /\ dep'[d] = joined
      /\ \A x \in Ids : x # d => dep'[x] = dep[x]
      /\ \A x \in Ids : dep'[x].status = dep[x].status
  BY <1>1, <1>4, <1>6 DEF Typed
<1>8. Typed'
  BY <1>1, <1>3, <1>7 DEF Typed
<1>9. DeploymentsThere'
  <2>1. \A r \in Ids : rows[r].dep # None => dep'[rows[r].dep].status # "none"
    BY <1>1, <1>7, RowParts DEF DeploymentsThere
  <2>2. ASSUME NEW p \in Requests
        PROVE  /\ request'[p].stage = "idle" => dep'[p].status = "none"
               /\ request'[p].stage = "write" /\ request'[p].mode = "create" =>
                    request'[p].dep = p /\ dep'[p].status = "none"
               /\ request'[p].stage = "write" /\ request'[p].mode = "join" =>
                    dep'[request'[p].dep].status # "none"
               /\ request'[p].stage = "add" => dep'[request'[p].dep].status # "none"
    <3>1. CASE p = q
      BY <1>1, <1>3, <1>4, <1>7, <3>1 DEF DeploymentsThere
    <3>2. CASE p # q
      <4>1. request'[p] = request[p] /\ p \in Ids
        BY <1>3, <3>2, Constants
      <4>2. request[p].stage \in {"write", "add"} => request[p].dep \in Ids
        BY <1>1 DEF Typed, RequestOK, InFlight, Working
      <4> QED
        BY <1>1, <1>7, <4>1, <4>2 DEF DeploymentsThere
    <3> QED
      BY <3>1, <3>2
  <2>3. teardown.stage # "idle" => dep'[teardown.dep].status = "deleting"
    BY <1>1, <1>7 DEF Typed, DeploymentsThere
  <2> QED
    BY <1>1, <2>1, <2>2, <2>3 DEF DeploymentsThere
<1>10. ASSUME NEW x \in Requests, x \notin miscounted' PROVE CountsClaims(x)'
  <2>1. CountsClaims(x) /\ x \in Ids
    BY <1>2, <1>10, Constants DEF IInv
  <2>2. RowsOf(x)' = RowsOf(x)
    BY <1>1 DEF RowsOf
  <2>3. CASE x = d
    <3> DEFINE S == RowsOf(x) \cup Claims(x)
    <3>1. (RowsOf(x) \cup Claims(x))' = S \cup {q}
      BY <1>1, <1>3, <2>2, <2>3 DEF Claims
    <3>2. Cardinality(S) <= dep[x].vms
      BY <2>1 DEF CountsClaims
    <3>3. S \subseteq Ids
      BY Constants DEF RowsOf, Claims
    <3>4. dep'[x].vms = dep[x].vms + 1 /\ dep[x].vms \in Nat
      BY <1>2, <1>4, <1>6, <1>7, <1>10, <2>3
    <3> HIDE DEF S
    <3>5. Cardinality(S \cup {q}) <= Cardinality(S) + 1 /\ Cardinality(S) \in Nat
          /\ Cardinality(S \cup {q}) \in Nat
      <4>1. IsFiniteSet(S) /\ Cardinality(S) \in Nat
        BY <3>3, IdsAreFinite
      <4>2. Cardinality(S \cup {q}) = (IF q \in S THEN Cardinality(S) ELSE Cardinality(S) + 1)
        BY <4>1, FS_AddElement
      <4> QED
        BY <4>1, <4>2
    <3>6. Cardinality(S \cup {q}) <= dep'[x].vms
      BY <3>2, <3>4, <3>5
    <3> QED
      BY <3>1, <3>6 DEF CountsClaims
  <2>4. CASE x # d
    <3>1. Claims(x)' = Claims(x)
      BY <1>1, <1>3, <2>4 DEF Claims
    <3> QED
      BY <1>7, <2>1, <2>2, <2>4, <3>1 DEF CountsClaims
  <2> QED
    BY <2>3, <2>4
<1> QED
  BY <1>3, <1>8, <1>9, <1>10 DEF IInv

LEMMA AddManagedVMStep ==
  ASSUME IInv, NEW q \in Requests, AddManagedVM(q)
  PROVE  IInv'
<1> DEFINE d == request[q].dep
           m == request[q].m
           record == [dep |-> d, name |-> m, machine |-> m, data |-> None]
<1>1. Typed /\ DeploymentsThere /\ RecordUnused /\ request[q].stage = "add"
      /\ rows' = [rows EXCEPT ![q] = record] /\ Step(q, "data") /\ InFlight(q)
      /\ UNCHANGED <<machine, dv, dep, teardown, history, bounds>>
  BY DEF IInv, AddManagedVM, InFlight, Working
<1>2. m \in Machines /\ d \in Ids /\ q \in Ids /\ q # Original
      /\ dep[d].status # "none"
  BY <1>1, Constants DEF Typed, RequestOK, DeploymentsThere
<1>3. RowOf(q) = q
  BY <1>1 DEF Typed, RequestOK, RowOf
<1>4. rows[q] = NoRow /\ \A n \in Machines : machine[n].token # q
  BY <1>1 DEF RecordUnused
<1>5. record \in Records /\ record.dep = d /\ record.machine = m /\ record.data = None
  BY <1>2 DEF Records
<1> HIDE DEF record
<1>6. /\ rows' \in [Ids -> Records \cup {NoRow}] /\ rows'[q] = record
      /\ \A r \in Ids : r # q => rows'[r] = rows[r]
  BY <1>1, <1>2, <1>5 DEF Typed
<1>7. /\ request' \in [Requests -> RequestStates]
      /\ request'[q].stage = "data"
      /\ request'[q].mode = request[q].mode /\ request'[q].m = request[q].m
      /\ request'[q].dep = request[q].dep
      /\ \A p \in Requests : p # q => request'[p] = request[p]
      /\ \A p \in Requests : RequestOK(p)'
  BY <1>1, RequestSteps DEF Working
<1>8. Typed'
  BY <1>1, <1>6, <1>7 DEF Typed
<1>9. DeploymentsThere'
  <2>1. \A r \in Ids : rows'[r].dep # None => dep[rows'[r].dep].status # "none"
    BY <1>1, <1>2, <1>5, <1>6 DEF DeploymentsThere
  <2> QED
    BY <1>1, <1>7, <2>1 DEF DeploymentsThere
<1>10. ASSUME NEW n \in Machines, n \notin tangled' PROVE BoundOnce(n)'
  <2>1. BoundOnce(n)
    BY <1>1, <1>10 DEF IInv, history
  <2> QED
    BY <1>1, <1>2, <1>3, <1>5, <1>6, <1>7, <2>1, BoundOnceBinds
<1>11. ASSUME NEW r \in Ids, r \notin usurped' PROVE ReadsOwnDisks(r)'
  <2>1. ReadsOwnDisks(r)
    BY <1>1, <1>11 DEF IInv, history
  <2>2. RowOf(q)' = q
    BY <1>3, <1>7 DEF RowOf
  <2>3. CASE r = q
    <3>1. \A p \in Requests : RowOf(p)' = q => p = q
      BY <1>2 DEF RowOf
    <3> QED
      BY <1>1, <1>4, <1>5, <1>6, <1>7, <2>3, <3>1 DEF ReadsOwnDisks
  <2>4. CASE r # q
    <3>1. \A p \in Requests :
            request'[p].stage \in {"data", "mark"} /\ RowOf(p)' = r =>
              request'[p] = request[p] /\ RowOf(p) = r
      BY <1>7, <2>2, <2>4 DEF RowOf
    <3> QED
      BY <1>1, <1>6, <2>1, <2>4, <3>1 DEF ReadsOwnDisks
  <2> QED
    BY <2>3, <2>4
<1>12. RecordUnused'
  <2>1. \A p \in Requests : request'[p].stage \in {"idle", "write", "add"} =>
          request'[p] = request[p] /\ rows'[p] = rows[p]
    BY <1>6, <1>7, Constants
  <2> QED
    BY <1>1, <2>1 DEF RecordUnused
<1>13. ASSUME NEW x \in Requests, x \notin miscounted' PROVE CountsClaims(x)'
  <2>1. CountsClaims(x)
    BY <1>1, <1>13 DEF IInv, history
  <2>2. RowsOf(x)' \subseteq RowsOf(x) \cup Claims(x)
    BY <1>1, <1>5, <1>6 DEF RowsOf, Claims
  <2>3. Claims(x)' \subseteq Claims(x)
    BY <1>7 DEF Claims
  <2> QED
    BY <1>1, <2>1, <2>2, <2>3, CountsFewer
<1> QED
  BY <1>8, <1>9, <1>10, <1>11, <1>12, <1>13 DEF IInv

-----------------------------------------------------------------------------
(* Teardown.                                                                *)

(* A deployment that is there gets another status, and a teardown goes with  *)
(* it.                                                                      *)
LEMMA StatusChangeKeeps ==
  ASSUME IInv, NEW d \in Ids, dep[d].status # "none",
         NEW status \in {"deleting", "deleted"},
         dep' = [dep EXCEPT ![d].status = status],
         teardown' \in TeardownStates,
         teardown'.stage # "idle" => teardown'.dep \in Ids /\ dep'[teardown'.dep].status = "deleting",
         UNCHANGED <<machine, dv, rows, request, history>>
  PROVE  IInv'
<1> DEFINE state == [dep[d] EXCEPT !.status = status]
<1>1. Typed /\ DeploymentsThere
  BY DEF IInv
<1>2. dep[d] \in DeploymentStates
  BY <1>1 DEF Typed
<1>3. state \in DeploymentStates /\ state.status = status /\ state.vms = dep[d].vms
  BY <1>2 DEF DeploymentStates
<1>4. dep' = [dep EXCEPT ![d] = state]
  OBVIOUS
<1> HIDE DEF state
<1>5. /\ dep' \in [Ids -> DeploymentStates] /\ dep'[d] = state
      /\ \A x \in Ids : x # d => dep'[x] = dep[x]
  BY <1>1, <1>3, <1>4 DEF Typed
<1>6. \A x \in Ids : /\ dep'[x].vms = dep[x].vms
                     /\ dep'[x].status = "none" <=> dep[x].status = "none"
  BY <1>3, <1>5
<1>7. Typed'
  BY <1>1, <1>5 DEF Typed, RequestOK, InFlight
<1>8. DeploymentsThere'
  <2>1. \A r \in Ids : rows[r].dep # None => dep'[rows[r].dep].status # "none"
    BY <1>1, <1>6, RowParts DEF DeploymentsThere
  <2>2. ASSUME NEW p \in Requests
        PROVE  /\ request[p].stage = "idle" => dep'[p].status = "none"
               /\ request[p].stage = "write" /\ request[p].mode = "create" =>
                    request[p].dep = p /\ dep'[p].status = "none"
               /\ request[p].stage = "write" /\ request[p].mode = "join" =>
                    dep'[request[p].dep].status # "none"
               /\ request[p].stage = "add" => dep'[request[p].dep].status # "none"
    <3>1. p \in Ids /\ (request[p].stage \in {"write", "add"} => request[p].dep \in Ids)
      BY <1>1, Constants DEF Typed, RequestOK, InFlight, Working
    <3> QED
      BY <1>1, <1>6, <3>1 DEF DeploymentsThere
  <2> QED
    BY <2>1, <2>2 DEF DeploymentsThere
<1>9. ASSUME NEW m \in Machines, m \notin tangled' PROVE BoundOnce(m)'
  BY <1>9, BoundOnceKept DEF IInv, history
<1>10. ASSUME NEW r \in Ids, r \notin usurped' PROVE ReadsOwnDisks(r)'
  BY <1>10, ReadsKept DEF IInv, history
<1>11. RecordUnused'
  BY DEF IInv, RecordUnused
<1>12. ASSUME NEW x \in Requests, x \notin miscounted' PROVE CountsClaims(x)'
  <2>1. CountsClaims(x)
    BY <1>12 DEF IInv, history
  <2>2. RowsOf(x)' = RowsOf(x) /\ Claims(x)' = Claims(x)
    BY DEF RowsOf, Claims
  <2> QED
    BY <1>1, <1>6, <2>1, <2>2, Constants, CountsFewer
<1> QED
  BY <1>7, <1>8, <1>9, <1>10, <1>11, <1>12 DEF IInv

LEMMA StartTeardownStep ==
  ASSUME IInv, NEW d \in Ids, StartTeardown(d)
  PROVE  IInv'
<1>1. /\ dep[d].status = "ready" /\ dep' = [dep EXCEPT ![d].status = "deleting"]
      /\ teardown' = [stage |-> "list", dep |-> d, left |-> {}]
      /\ UNCHANGED <<machine, dv, rows, request, history>>
  BY DEF StartTeardown
<1>2. teardown' \in TeardownStates /\ teardown'.dep = d
  BY <1>1 DEF TeardownStates
<1>3. dep'[d].status = "deleting"
  <2>1. dep \in [Ids -> DeploymentStates]
    BY DEF IInv, Typed
  <2>2. dep[d] \in DeploymentStates
    BY <2>1
  <2> QED
    BY <1>1, <2>1, <2>2 DEF DeploymentStates
<1> QED
  BY <1>1, <1>2, <1>3, StatusChangeKeeps

LEMMA MarkDeletedStep ==
  ASSUME IInv, MarkDeploymentDeleted
  PROVE  IInv'
<1> DEFINE d == teardown.dep
<1>1. d \in Ids /\ dep[d].status = "deleting"
  BY DEF IInv, Typed, DeploymentsThere, MarkDeploymentDeleted
<1>2. /\ dep' = [dep EXCEPT ![d].status = "deleted"]
      /\ UNCHANGED <<machine, dv, rows, request, history>>
  BY DEF MarkDeploymentDeleted
<1>3. teardown' \in TeardownStates /\ teardown'.stage = "idle"
  BY DEF MarkDeploymentDeleted, NoTeardown, TeardownStates
<1> QED
  BY <1>1, <1>2, <1>3, StatusChangeKeeps

LEMMA ListStep ==
  ASSUME IInv, ListManagedVMs
  PROVE  IInv'
<1> DEFINE listed == {[row |-> r, machine |-> rows[r].machine] :
                        r \in {i \in Ids : rows[i].dep = teardown.dep}}
<1>1. Typed /\ DeploymentsThere /\ teardown.stage = "list"
      /\ teardown' = [teardown EXCEPT !.stage = "delete", !.left = listed]
      /\ UNCHANGED <<machine, dv, rows, dep, request, history, bounds>>
  BY DEF IInv, ListManagedVMs
<1>2. listed \in SUBSET Entries
  <2>1. ASSUME NEW r \in Ids, rows[r].dep = teardown.dep
        PROVE  [row |-> r, machine |-> rows[r].machine] \in Entries
    <3>1. rows[r] \in Records
      BY <1>1, <2>1, Constants, RowParts DEF Typed
    <3> QED
      BY <3>1 DEF Records, Entries
  <2> QED
    BY <2>1
<1> HIDE DEF listed
<1>3. teardown' \in TeardownStates /\ teardown'.stage = "delete" /\ teardown'.dep = teardown.dep
  BY <1>1, <1>2 DEF Typed, TeardownStates
<1>4. Typed'
  BY <1>1, <1>3 DEF Typed, RequestOK, InFlight
<1>5. DeploymentsThere'
  BY <1>1, <1>3 DEF DeploymentsThere
<1>6. ASSUME NEW m \in Machines, m \notin tangled' PROVE BoundOnce(m)'
  BY <1>1, <1>6, BoundOnceKept DEF IInv, history
<1>7. ASSUME NEW r \in Ids, r \notin usurped' PROVE ReadsOwnDisks(r)'
  BY <1>1, <1>7, ReadsKept DEF IInv, history
<1>8. RecordUnused'
  BY <1>1 DEF IInv, RecordUnused
<1>9. ASSUME NEW d \in Requests, d \notin miscounted' PROVE CountsClaims(d)'
  BY <1>1, <1>9, CountsKept DEF IInv, history
<1> QED
  BY <1>4, <1>5, <1>6, <1>7, <1>8, <1>9 DEF IInv

LEMMA TearDownVMStep ==
  ASSUME IInv, NEW entry \in teardown.left, TearDownVM(entry)
  PROVE  IInv'
<1> DEFINE t == entry.row
           gone == entry.machine
           others == teardown.left \ {entry}
<1>1. Typed /\ DeploymentsThere
      /\ Become(gone, At("gone")) /\ rows' = [rows EXCEPT ![t] = NoRow]
      /\ teardown' = [teardown EXCEPT !.left = others]
      /\ UNCHANGED <<dv, dep, request, history, bounds>>
  BY DEF IInv, TearDownVM
<1>2. entry \in Entries
  BY <1>1 DEF Typed, TeardownStates
<1>3. t \in Ids /\ gone \in Machines
  BY <1>2 DEF Entries
<1>4. At("gone") \in MachineStates /\ At("gone").stage = "gone" /\ At("gone").token = None
      /\ At("gone").gen = 0
  BY AtIsOne DEF Stages
<1>5. /\ machine' \in [Machines -> MachineStates]
      /\ machine'[gone] = At("gone")
      /\ \A n \in Machines : n # gone => machine'[n] = machine[n]
      /\ \A n \in Machines :
           machine'[n].stage \in {"booted", "managed"} <=> machine'[n].token # None
  BY <1>1, <1>3, <1>4, MachineBecomes
<1>6. \A n \in Machines : machine'[n].token \in {machine[n].token, None}
  BY <1>4, <1>5
<1>7. \A n \in Machines : machine'[n].gen <= dv[n].gen
  <2>1. 0 <= dv[gone].gen
    BY <1>1, <1>3 DEF Typed, Discovered
  <2> QED
    BY <1>1, <1>4, <1>5, <2>1 DEF Typed
<1>8. /\ rows' \in [Ids -> Records \cup {NoRow}] /\ rows'[t] = NoRow
      /\ \A r \in Ids : r # t => rows'[r] = rows[r]
  BY <1>1, <1>3 DEF Typed
<1>9. teardown' \in TeardownStates /\ teardown'.stage = teardown.stage
      /\ teardown'.dep = teardown.dep
  <2>1. others \in SUBSET Entries
    BY <1>1 DEF Typed, TeardownStates
  <2> HIDE DEF others
  <2> QED
    BY <1>1, <2>1 DEF Typed, TeardownStates
<1>10. Typed'
  BY <1>1, <1>5, <1>7, <1>8, <1>9 DEF Typed, RequestOK, InFlight
<1>11. DeploymentsThere'
  <2>1. \A r \in Ids : rows'[r].dep # None => dep[rows'[r].dep].status # "none"
    BY <1>1, <1>8, NoRowIsBlank DEF DeploymentsThere
  <2> QED
    BY <1>1, <1>9, <2>1 DEF DeploymentsThere
<1>12. ASSUME NEW m \in Machines, m \notin tangled' PROVE BoundOnce(m)'
  <2>1. BoundOnce(m)
    BY <1>1, <1>12 DEF IInv, history
  <2>2. \A r \in Ids : Bound(r, m)' <=> (Bound(r, m) /\ r # t)
    BY <1>8, NoRowIsBlank, Constants DEF Bound
  <2>3. IsManaged(m)' => IsManaged(m)
    BY <2>2 DEF IsManaged
  <2>4. \A q \in Requests : /\ InFlight(q)' <=> InFlight(q)
                            /\ RowOf(q)' = RowOf(q) /\ RowOf(q) \in Ids
    BY <1>1, Constants DEF InFlight, RowOf
  <2>5. ASSUME dv'[m].live, ~dv'[m].adopted, IsManaged(m)'
        PROVE  \E q \in Requests : HasBound(q)' /\ request'[q].m = m
    <3>1. PICK q \in Requests : HasBound(q) /\ request[q].m = m
      BY <1>1, <2>1, <2>3, <2>5 DEF BoundOnce
    <3>2. PICK s \in Ids : Bound(s, m) /\ s # t
      BY <2>2, <2>5 DEF IsManaged
    <3>3. RowOf(q) = s
      BY <2>1, <2>4, <3>1, <3>2 DEF BoundOnce, HasBound
    <3>4. Bound(RowOf(q), m)'
      BY <2>2, <2>4, <3>2, <3>3
    <3> QED
      BY <1>1, <3>1, <3>4 DEF HasBound
  <2>6. \A r, s \in Ids : Bound(r, m)' /\ Bound(s, m)' => r = s
    BY <2>1, <2>2 DEF BoundOnce
  <2>7. \A p, q \in Requests :
          InFlight(p)' /\ InFlight(q)' /\ request'[p].m = m /\ request'[q].m = m => p = q
    BY <1>1, <2>1, <2>4 DEF BoundOnce
  <2>8. \A q \in Requests :
          request'[q].m = m /\ request'[q].stage \in {"write", "add"} => ~IsManaged(m)'
    BY <1>1, <2>1, <2>3 DEF BoundOnce
  <2>9. \A q \in Requests, r \in Ids :
          request'[q].m = m /\ request'[q].stage \in {"data", "mark"} /\ Bound(r, m)' =>
            r = RowOf(q)'
    BY <1>1, <2>1, <2>2, <2>4 DEF BoundOnce
  <2> QED
    BY <2>5, <2>6, <2>7, <2>8, <2>9 DEF BoundOnce
<1>13. ASSUME NEW r \in Ids, r \notin usurped' PROVE ReadsOwnDisks(r)'
  <2>1. ReadsOwnDisks(r)
    BY <1>1, <1>13 DEF IInv, history
  <2>2. CASE r = t
    BY <1>8, <2>2, NoRowIsBlank DEF ReadsOwnDisks
  <2>3. CASE r # t
    <3>1. \A n \in Machines : machine'[n].token = r => machine[n].token = r
      BY <1>6, <1>3, Constants
    <3> QED
      BY <1>1, <1>8, <2>1, <2>3, <3>1 DEF ReadsOwnDisks, RowOf
  <2> QED
    BY <2>2, <2>3
<1>14. RecordUnused'
  <2>1. \A q \in Requests : request[q].stage \in {"idle", "write", "add"} => rows'[q] = NoRow
    BY <1>8, Constants DEF IInv, RecordUnused
  <2>2. \A q \in Requests, n \in Machines : machine'[n].token = q => machine[n].token = q
    BY <1>6, Constants
  <2> QED
    BY <1>1, <2>1, <2>2 DEF IInv, RecordUnused
<1>15. ASSUME NEW x \in Requests, x \notin miscounted' PROVE CountsClaims(x)'
  <2>1. CountsClaims(x)
    BY <1>1, <1>15 DEF IInv, history
  <2>2. RowsOf(x)' \subseteq RowsOf(x) /\ Claims(x)' = Claims(x)
    BY <1>1, <1>8, NoRowIsBlank, Constants DEF RowsOf, Claims
  <2> QED
    BY <1>1, <2>1, <2>2, CountsFewer
<1> QED
  BY <1>10, <1>11, <1>12, <1>13, <1>14, <1>15 DEF IInv

-----------------------------------------------------------------------------
(* The theorems.                                                            *)

LEMMA InitIInv == Init => IInv
<1> SUFFICES ASSUME Init PROVE IInv
  OBVIOUS
<1>1. Typed
  <2>1. machine \in [Machines -> MachineStates]
    BY Constants DEF Init, At, MachineStates, Stages
  <2>2. \A m \in Machines :
          /\ machine[m].stage \in {"booted", "managed"} <=> machine[m].token # None
          /\ machine[m].gen = 0
    BY Constants DEF Init, At
  <2>3. dv \in [Machines -> Discovered] /\ \A m \in Machines : dv[m].gen = 0
    BY DEF Init, Discovered
  <2>4. rows \in [Ids -> Records \cup {NoRow}]
    BY Constants DEF Init, Records
  <2>5. dep \in [Ids -> DeploymentStates]
    BY DEF Init, DeploymentStates
  <2>6. request \in [Requests -> RequestStates] /\ \A q \in Requests : RequestOK(q)
    BY AdoptionAssumption
    DEF Init, NoRequest, RequestStates, RequestStages, RequestOK, InFlight, Working
  <2>7. teardown \in TeardownStates /\ teardown.stage = "idle"
    BY DEF Init, NoTeardown, TeardownStates
  <2>8. \A m \in Machines : machine[m].gen <= dv[m].gen
    BY <2>2, <2>3
  <2> QED
    BY <2>1, <2>2, <2>3, <2>4, <2>5, <2>6, <2>7, <2>8 DEF Typed
<1>2. /\ \A r \in Ids : r # Original => rows[r] = NoRow
      /\ rows[Original].dep = Original /\ rows[Original].machine = Source
      /\ rows[Original].data = Source
  BY Constants DEF Init
<1>3. \A q \in Requests : request[q].stage = "idle" /\ request[q].m = None
  BY DEF Init, NoRequest
<1>4. DeploymentsThere
  BY <1>2, <1>3, Constants, NoRowIsBlank DEF Init, DeploymentsThere, NoTeardown
<1>5. \A m \in Machines : ~dv[m].live
  BY DEF Init
<1>6. ASSUME NEW m \in Machines PROVE BoundOnce(m)
  <2>1. \A r \in Ids : Bound(r, m) => r = Original
    BY <1>2, NoRowIsBlank, Constants DEF Bound
  <2> QED
    BY <1>3, <1>5, <2>1 DEF BoundOnce, InFlight, Working
<1>7. ASSUME NEW r \in Ids PROVE ReadsOwnDisks(r)
  <2>1. \A m \in Machines : machine[m].token = Original => m = Source
    BY Constants DEF Init, At
  <2> QED
    BY <1>2, <1>3, <2>1, NoRowIsBlank DEF ReadsOwnDisks
<1>8. RecordUnused
  <2>1. \A m \in Machines : machine[m].token \in {None, Original}
    BY DEF Init, At
  <2> QED
    BY <1>2, <2>1, Constants DEF RecordUnused
<1>9. ASSUME NEW d \in Requests PROVE CountsClaims(d)
  <2>1. RowsOf(d) \cup Claims(d) = {}
    BY <1>2, <1>3, NoRowIsBlank, Constants DEF RowsOf, Claims
  <2>2. dep[d].vms = 0
    BY Constants DEF Init
  <2> QED
    BY <2>1, <2>2, FS_EmptySet DEF CountsClaims
<1> QED
  BY <1>1, <1>4, <1>6, <1>7, <1>8, <1>9 DEF IInv

LEMMA StutterIInv == IInv /\ UNCHANGED vars => IInv'
<1> SUFFICES ASSUME IInv, UNCHANGED vars PROVE IInv'
  OBVIOUS
<1>1. MachinesGoOn
  BY DEF MachinesGoOn, IInv, Typed, vars, history
<1> QED
  BY <1>1, MachinesGoOnKeeps

LEMMA NextIInv == IInv /\ [Next]_vars => IInv'
<1> SUFFICES ASSUME IInv, [Next]_vars PROVE IInv'
  OBVIOUS
<1>1. ASSUME NEW m \in Machines,
             \/ Restore(m) \/ Destroy(m) \/ Reset(m) \/ Dismiss(m)
             \/ BootScript(m) \/ DiscoveryBoot(m) \/ DiscoveryReport(m)
             \/ DiscoveryHeartbeat(m)
      PROVE  IInv'
  BY <1>1, HypervisorSteps, DismissStep, BootScriptStep, DiscoveryBootStep,
     DiscoveryReportStep, HeartbeatStep, MachinesGoOnKeeps
<1>2. ASSUME NEW m \in Machines, Register(m) PROVE IInv'
  BY <1>2, RegisterStep
<1>3. ASSUME NEW q \in Requests, NEW m \in Machines, NEW mode \in Modes, NEW d \in Ids,
             Read(q, m, mode, d)
      PROVE  IInv'
  BY <1>3, ReadStep
<1>4. ASSUME NEW q \in Requests,
             \/ RebindFails(q) \/ AddFails(q) \/ AdoptionFails(q) \/ StatementFails(q)
             \/ MarkAdopted(q)
      PROVE  IInv'
  BY <1>4, FailureSteps, MarkAdoptedStep, RequestsEndKeeps
<1>5. ASSUME NEW q \in Requests,
             \/ RebindManagedVM(q) \/ CreateDeployment(q) \/ Join(q) \/ AddManagedVM(q)
             \/ SetDataState(q)
      PROVE  IInv'
  BY <1>5, RebindStep, CreateDeploymentStep, JoinStep, AddManagedVMStep, SetDataStateStep
<1>6. CASE Restart
  BY <1>6, RestartStep, RequestsEndKeeps
<1>7. ASSUME NEW d \in Ids, StartTeardown(d) PROVE IInv'
  BY <1>7, StartTeardownStep
<1>8. CASE ListManagedVMs
  BY <1>8, ListStep
<1>9. ASSUME NEW entry \in teardown.left, TearDownVM(entry) PROVE IInv'
  BY <1>9, TearDownVMStep
<1>10. CASE MarkDeploymentDeleted
  BY <1>10, MarkDeletedStep
<1>11. CASE UNCHANGED vars
  BY <1>11, StutterIInv
<1> QED
  BY <1>1, <1>2, <1>3, <1>4, <1>5, <1>6, <1>7, <1>8, <1>9, <1>10, <1>11 DEF Next

(* Every reachable state satisfies the inductive invariant. *)
THEOREM Inductive == Spec => []IInv
<1>1. Init => IInv
  BY InitIInv
<1>2. IInv /\ [Next]_vars => IInv'
  BY NextIInv
<1> QED
  BY <1>1, <1>2, PTL DEF Spec

(* Every table stays well-formed, and a record always belongs to a deployment *)
(* that has been made.                                                        *)
THEOREM TypeCorrect == Spec => []TypeOK
<1>1. IInv => TypeOK
  <2> SUFFICES ASSUME IInv PROVE TypeOK
    OBVIOUS
  <2>1. \A d \in Ids : dep[d].status \in {"none", "ready", "deleting", "deleted"}
                       /\ dep[d].vms \in Nat
    BY DEF IInv, Typed, DeploymentStates
  <2>2. \A q \in Requests : request[q].stage \in Working \cup {"idle", "over"}
    BY DEF IInv, Typed, RequestStates, RequestStages
  <2> QED
    BY <2>1, <2>2
    DEF IInv, Typed, DeploymentsThere, TypeOK, MachineStates, Discovered, Records
<1> QED
  BY <1>1, Inductive, PTL

(* A machine is bound to one record, unless its adoptions overlapped or were  *)
(* cut off after binding it, or it was recorded as discovered while it was    *)
(* bound (adopt.go 58, 125).                                                  *)
THEOREM OneRecord == Spec => []OneRecordPerMachine
<1>1. IInv => OneRecordPerMachine
  BY DEF IInv, BoundOnce, OneRecordPerMachine
<1> QED
  BY <1>1, Inductive, PTL

(* What a record says of the disks was read from the disks of the machine it  *)
(* is bound to, unless it was rebound while another machine acted for it      *)
(* (managed_vms.go 114-119, boot.go 113-117).                                 *)
THEOREM OwnDisks == Spec => []RowReadsItsOwnDisks
<1>1. IInv => RowReadsItsOwnDisks
  BY DEF IInv, ReadsOwnDisks, RowReadsItsOwnDisks
<1> QED
  BY <1>1, Inductive, PTL

(* A deployment that adoptions made counts no fewer VMs than it has records,  *)
(* unless two joins wrote over each other's count (adopt.go 189-197).         *)
THEOREM Counted == Spec => []JoinsAreCounted
<1>1. IInv => JoinsAreCounted
  <2> SUFFICES ASSUME IInv, NEW d \in Requests \ miscounted
               PROVE  Cardinality(RowsOf(d)) <= dep[d].vms
    BY DEF JoinsAreCounted
  <2> DEFINE S == RowsOf(d) \cup Claims(d)
  <2>1. Cardinality(S) <= dep[d].vms /\ dep[d].vms \in Nat
    BY Constants DEF IInv, CountsClaims, Typed, DeploymentStates
  <2>2. S \subseteq Ids /\ RowsOf(d) \subseteq S /\ RowsOf(d) \subseteq Ids
    BY Constants DEF RowsOf, Claims
  <2> HIDE DEF S
  <2>3. /\ Cardinality(RowsOf(d)) <= Cardinality(S)
        /\ Cardinality(S) \in Nat /\ Cardinality(RowsOf(d)) \in Nat
    BY <2>2, IdsAreFinite, FS_Subset
  <2> QED
    BY <2>1, <2>3
<1> QED
  BY <1>1, Inductive, PTL

=============================================================================
