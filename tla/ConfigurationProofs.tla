------------------------ MODULE ConfigurationProofs ------------------------
(***************************************************************************)
(* Proofs about Configuration: types and references, the spec of a         *)
(* deployment's version, the grow-only rule, the profiles in use, and what *)
(* the orders of a fill ask for, for any tables, callers, specs and        *)
(* restarts; and the split of a rate cap, for any spec.                    *)
(***************************************************************************)
EXTENDS Configuration, SequenceTheorems, TLAPS

ValidSpecs == {s \in SpecFields : Valid(s)}

States == {"none", "live", "gone"}
Statuses == {"none", "new", "deploying", "ready", "error", "deleting", "deleted"}
JobTypes == {"none", "deploy", "teardown", "fill"}
RowType ==
  [status : Statuses, profile : Profiles \cup {None}, version : Nat,
   connection : Connections \cup {None}, spec : ValidSpecs \cup {None}, own : BOOLEAN, built : Nat]
RequestType ==
  [op : {"none", "deleteProfile", "deleteConnection", "resolve", "insert", "edit",
         "deploy", "teardown", "deleteEmpty", "fill"},
   d : Deployments \cup {None}, p : Profiles \cup {None}, c : Connections \cup {None},
   version : Nat, spec : ValidSpecs \cup {None}, seen : (SUBSET Deployments) \cup ValidSpecs \cup {None}]

Typed ==
  /\ connection \in [Connections -> States]
  /\ profile \in [Profiles -> [status : States, versions : Seq(ValidSpecs)]]
  /\ deployment \in [Deployments -> RowType]
  /\ request \in [Requests -> RequestType]
  /\ job \in [Deployments -> [type : JobTypes, spec : ValidSpecs \cup {None}]]
  /\ outdated \subseteq Deployments
  /\ detached \subseteq Deployments

(* A profile exists as long as it has versions. *)
ProfileOK(p) == Exists(p) <=> Current(p) > 0

(* What a row refers to exists, and its spec is valid. *)
RowOK(d) ==
  HasRow(d) =>
    /\ deployment[d].spec \in ValidSpecs
    /\ deployment[d].connection \in Connections /\ connection[deployment[d].connection] = "live"
    /\ deployment[d].profile # None => Exists(deployment[d].profile)

OfItsVersion(d) ==
  LET r == deployment[d] IN
    HasRow(d) /\ ~r.own /\ r.profile # None =>
      /\ r.version \in 1 .. Current(r.profile)
      /\ r.spec = profile[r.profile].versions[r.version]

(* A fleet is within its spec, and so is what a deploy builds up to. *)
GrownOK(d) ==
  /\ job[d].type # "none" => HasRow(d)
  /\ job[d].type = "deploy" => job[d].spec \in ValidSpecs
  /\ HasRow(d) /\ d \notin outdated => deployment[d].built <= deployment[d].spec.vms
  /\ job[d].type = "deploy" /\ d \notin outdated => job[d].spec.vms <= deployment[d].spec.vms

Keeps(d) == Active(d) /\ deployment[d].profile = None => d \in detached

DeploymentOK(d) == RowOK(d) /\ OfItsVersion(d) /\ GrownOK(d) /\ Keeps(d)

(* What a handler has read still means what it acts on. *)
RequestOK(q) ==
  LET r == request[q] IN
  /\ r.op \in {"resolve", "insert"} => r.p \in Profiles /\ profile[r.p].status # "none" /\ r.c \in Connections
  /\ r.op = "insert" =>
       /\ r.spec \in ValidSpecs
       /\ r.seen = None /\ Exists(r.p) =>
            r.version \in 1 .. Current(r.p) /\ r.spec = profile[r.p].versions[r.version]
  /\ r.op \in {"edit", "deploy", "teardown", "deleteEmpty", "fill"} => r.d \in Deployments /\ HasRow(r.d)
  /\ r.op = "edit" => r.spec \in ValidSpecs /\ r.seen \in ValidSpecs /\ ~Shrinks(r.seen, r.spec)
  /\ r.op = "deploy" =>
       /\ r.spec \in ValidSpecs
       /\ r.d \notin outdated => r.spec.vms <= deployment[r.d].spec.vms
  /\ r.op = "deleteConnection" => r.c \in Connections
  /\ r.op = "deleteProfile" =>
       /\ r.p \in Profiles
       /\ \A d \in Deployments : d \in r.seen =>
            /\ HasRow(d)
            /\ Active(d) /\ deployment[d].profile = r.p => d \in detached

IInv ==
  /\ Typed
  /\ \A p \in Profiles : ProfileOK(p)
  /\ \A d \in Deployments : DeploymentOK(d)
  /\ \A q \in Requests : RequestOK(q)

-----------------------------------------------------------------------------

LEMMA Fields ==
  ASSUME NEW s \in ValidSpecs
  PROVE  s \in SpecFields /\ Valid(s) /\ s.vms \in Nat
  BY DEF ValidSpecs, SpecFields

(* The initial state satisfies the invariant: the tables are empty. *)
LEMMA InitIInv == Init => IInv
  <1> SUFFICES ASSUME Init PROVE IInv
    OBVIOUS
  <1> USE DEF Init
  <1>1. Typed
    <2>1. NoRow \in RowType
      BY DEF NoRow, RowType, Statuses
    <2>2. NoRequest \in RequestType
      BY DEF NoRequest, RequestType
    <2>3. NoJob \in [type : JobTypes, spec : ValidSpecs \cup {None}]
      BY DEF NoJob, JobTypes
    <2>4. [status |-> "none", versions |-> <<>>] \in [status : States, versions : Seq(ValidSpecs)]
      BY DEF States
    <2>5. QED
      BY <2>1, <2>2, <2>3, <2>4 DEF Typed, States
  <1>2. \A p \in Profiles : ProfileOK(p)
    BY DEF ProfileOK, Exists, Current
  <1>3. \A d \in Deployments : DeploymentOK(d)
    BY DEF DeploymentOK, RowOK, OfItsVersion, GrownOK, Keeps, HasRow, Active, NoRow, NoJob
  <1>4. \A q \in Requests : RequestOK(q)
    BY DEF RequestOK, NoRequest
  <1>5. QED
    BY <1>1, <1>2, <1>3, <1>4 DEF IInv

(* A request that is over asks for nothing. *)
LEMMA NothingAsked ==
  ASSUME NEW q \in Requests, request'[q] = NoRequest
  PROVE  RequestOK(q)'
  BY DEF RequestOK, NoRequest

(* Only a request changes, to one that is as it should be. *)
LEMMA OnlyRequest ==
  ASSUME IInv, NEW q \in Requests, NEW r \in RequestType,
         request' = [request EXCEPT ![q] = r], RequestOK(q)',
         UNCHANGED <<connection, profile, deployment, job, outdated, detached>>
  PROVE  IInv'
  <1>1. Typed'
    BY DEF IInv, Typed
  <1>2. \A p \in Profiles : ProfileOK(p)'
    BY DEF IInv, ProfileOK, Exists, Current
  <1>3. \A d \in Deployments : DeploymentOK(d)'
    BY DEF IInv, DeploymentOK, RowOK, OfItsVersion, GrownOK, Keeps, HasRow, Active, Exists, Current
  <1>4. ASSUME NEW p \in Requests PROVE RequestOK(p)'
    <2>1. CASE p = q
      BY <2>1
    <2>2. CASE p # q
      <3>1. request'[p] = request[p]
        BY <2>2 DEF IInv, Typed
      <3>2. RequestOK(p)
        BY DEF IInv
      <3>3. QED
        BY <3>1, <3>2 DEF RequestOK, HasRow, Active, Exists, Current
    <2>3. QED
      BY <2>1, <2>2
  <1>5. QED
    BY <1>1, <1>2, <1>3, <1>4 DEF IInv

(* A call that ends without effect. *)
LEMMA Answered ==
  ASSUME IInv, NEW q \in Requests, Answer(q),
         UNCHANGED <<connection, profile, deployment, job, outdated, detached>>
  PROVE  IInv'
  <1>1. NoRequest \in RequestType
    BY DEF NoRequest, RequestType
  <1>2. request' = [request EXCEPT ![q] = NoRequest]
    BY DEF Answer, Call
  <1>3. RequestOK(q)'
    BY <1>2, NothingAsked DEF IInv, Typed
  <1>4. QED
    BY <1>1, <1>2, <1>3, OnlyRequest

-----------------------------------------------------------------------------
(* Handlers that read *)

LEMMA CountProfileUsesIInv ==
  ASSUME IInv, NEW q \in Requests, CountProfileUses(q)
  PROVE  IInv'
  <1>1. PICK p \in Profiles :
          /\ ~InUse(p)
          /\ Call(q, [NoRequest EXCEPT !.op = "deleteProfile", !.p = p, !.seen = {d \in Deployments : HasRow(d)}])
    BY DEF CountProfileUses
  <1> DEFINE r == [NoRequest EXCEPT !.op = "deleteProfile", !.p = p, !.seen = {d \in Deployments : HasRow(d)}]
  <1>2. UNCHANGED <<connection, profile, deployment, job, outdated, detached>>
    BY DEF CountProfileUses, history
  <1>3. r \in RequestType /\ r.op = "deleteProfile" /\ r.p = p /\ r.seen = {d \in Deployments : HasRow(d)}
    BY DEF RequestType, NoRequest
  <1>4. request' = [request EXCEPT ![q] = r] /\ request'[q] = r
    BY <1>1 DEF Call, IInv, Typed
  <1>5. RequestOK(q)'
    BY <1>1, <1>2, <1>3, <1>4 DEF RequestOK, InUse, Active, HasRow
  <1>6. QED
    BY <1>2, <1>3, <1>4, <1>5, OnlyRequest

LEMMA CountConnectionUsesIInv ==
  ASSUME IInv, NEW q \in Requests, CountConnectionUses(q)
  PROVE  IInv'
  <1>1. PICK c \in Connections : Call(q, [NoRequest EXCEPT !.op = "deleteConnection", !.c = c])
    BY DEF CountConnectionUses
  <1> DEFINE r == [NoRequest EXCEPT !.op = "deleteConnection", !.c = c]
  <1>2. UNCHANGED <<connection, profile, deployment, job, outdated, detached>>
    BY DEF CountConnectionUses, history
  <1>3. r \in RequestType /\ r.op = "deleteConnection" /\ r.c = c
    BY DEF RequestType, NoRequest
  <1>4. request' = [request EXCEPT ![q] = r] /\ request'[q] = r
    BY <1>1 DEF Call, IInv, Typed
  <1>5. RequestOK(q)'
    BY <1>3, <1>4 DEF RequestOK
  <1>6. QED
    BY <1>2, <1>3, <1>4, <1>5, OnlyRequest

(* A spec of the caller's own is told from a resolved one by what the       *)
(* request has seen.                                                        *)
LEMMA ResolveProfileIInv ==
  ASSUME IInv, NEW q \in Requests, ResolveProfile(q)
  PROVE  IInv'
  <1>1. PICK c \in Connections, p \in Profiles, version \in 0 .. MaxVersions, spec \in Specs \cup {None} :
          /\ Exists(p)
          /\ Call(q, [NoRequest EXCEPT !.op = IF spec = None THEN "resolve" ELSE "insert",
                                       !.c = c, !.p = p, !.spec = spec, !.seen = spec,
                                       !.version = IF version = 0 THEN Current(p) ELSE version])
          /\ spec # None => Valid(spec)
    BY DEF ResolveProfile
  <1> DEFINE r == [NoRequest EXCEPT !.op = IF spec = None THEN "resolve" ELSE "insert",
                                    !.c = c, !.p = p, !.spec = spec, !.seen = spec,
                                    !.version = IF version = 0 THEN Current(p) ELSE version]
  <1>2. UNCHANGED <<connection, profile, deployment, job, outdated, detached>>
    BY DEF ResolveProfile, history
  <1>3. spec \in ValidSpecs \cup {None}
    BY <1>1, ConfigurationAssumption DEF ValidSpecs
  <1>4. Current(p) \in Nat /\ version \in Nat
    BY ConfigurationAssumption DEF IInv, Typed, Current
  <1>5. r \in RequestType
    BY <1>3, <1>4 DEF RequestType, NoRequest
  <1>6. /\ r.op = (IF spec = None THEN "resolve" ELSE "insert") /\ r.p = p /\ r.c = c
        /\ r.spec = spec /\ r.seen = spec /\ profile'[p].status = "live"
    BY <1>1, <1>2 DEF NoRequest, Exists
  <1>7. request' = [request EXCEPT ![q] = r] /\ request'[q] = r
    BY <1>1 DEF Call, IInv, Typed
  <1>8. RequestOK(q)'
    <2> HIDE DEF r
    <2>1. CASE spec = None
      BY <1>6, <1>7, <2>1 DEF RequestOK
    <2>2. CASE spec # None
      <3>1. r.op = "insert" /\ r.spec \in ValidSpecs /\ r.seen # None
        BY <1>3, <1>6, <2>2
      <3>2. QED
        BY <1>6, <1>7, <3>1 DEF RequestOK
    <2>3. QED
      BY <2>1, <2>2
  <1>9. QED
    BY <1>2, <1>5, <1>7, <1>8, OnlyRequest

(* The snapshot found is that of the version asked for. *)
LEMMA ResolveSpecIInv ==
  ASSUME IInv, NEW q \in Requests, ResolveSpec(q)
  PROVE  IInv'
  <1> DEFINE p == request[q].p
             version == request[q].version
             spec == profile[p].versions[version]
             r == [request[q] EXCEPT !.op = "insert", !.spec = spec]
  <1>1. UNCHANGED <<connection, profile, deployment, job, outdated, detached>>
    BY DEF ResolveSpec, history
  <1>2. CASE Answer(q)
    BY <1>1, <1>2, Answered
  <1>3. CASE version \in 1 .. Current(p) /\ Call(q, r)
    <2>1. /\ p \in Profiles /\ profile[p].status # "none"
          /\ request[q].c \in Connections /\ request[q] \in RequestType
      BY DEF ResolveSpec, IInv, RequestOK, Typed
    <2>2. profile[p].versions \in Seq(ValidSpecs)
      BY <2>1 DEF IInv, Typed
    <2>3. spec \in ValidSpecs
      BY <1>3, <2>2 DEF Current
    <2>4. r \in RequestType
      BY <2>1, <2>3 DEF RequestType
    <2>5. r.op = "insert" /\ r.p = p /\ r.c = request[q].c /\ r.spec = spec /\ r.version = version
      BY <2>1 DEF RequestType
    <2>6. request' = [request EXCEPT ![q] = r] /\ request'[q] = r
      BY <1>3 DEF Call, IInv, Typed
    <2>7. RequestOK(q)'
      BY <1>1, <1>3, <2>1, <2>3, <2>5, <2>6 DEF RequestOK, Current, Exists
    <2>8. QED
      BY <1>1, <2>4, <2>6, <2>7, OnlyRequest
  <1>4. QED
    BY <1>2, <1>3 DEF ResolveSpec, Snapshot

LEMMA CheckSpecIInv ==
  ASSUME IInv, NEW q \in Requests, NEW d \in Deployments, CheckSpec(q, d)
  PROVE  IInv'
  <1>1. PICK s \in Specs :
          /\ Valid(s) /\ ~Shrinks(deployment[d].spec, s)
          /\ Call(q, [NoRequest EXCEPT !.op = "edit", !.d = d, !.spec = s, !.seen = deployment[d].spec])
    BY DEF CheckSpec
  <1> DEFINE r == [NoRequest EXCEPT !.op = "edit", !.d = d, !.spec = s, !.seen = deployment[d].spec]
  <1>2. UNCHANGED <<connection, profile, deployment, job, outdated, detached>> /\ HasRow(d)
    BY DEF CheckSpec, history
  <1>3. s \in ValidSpecs /\ deployment[d].spec \in ValidSpecs
    BY <1>1, <1>2, ConfigurationAssumption DEF ValidSpecs, IInv, DeploymentOK, RowOK
  <1>4. r \in RequestType
    BY <1>3 DEF RequestType, NoRequest
  <1>5. r.op = "edit" /\ r.d = d /\ r.spec = s /\ r.seen = deployment[d].spec
    BY DEF NoRequest
  <1>6. request' = [request EXCEPT ![q] = r] /\ request'[q] = r
    BY <1>1 DEF Call, IInv, Typed
  <1>7. RequestOK(q)'
    <2>1. HasRow(d)'
      BY <1>2 DEF HasRow
    <2>2. QED
      BY <1>1, <1>3, <1>5, <1>6, <2>1 DEF RequestOK
  <1>8. QED
    BY <1>2, <1>4, <1>6, <1>7, OnlyRequest

LEMMA ReadForJobIInv ==
  ASSUME IInv, NEW q \in Requests, NEW d \in Deployments,
         NEW op \in {"deploy", "teardown", "fill"}, ReadForJob(q, d, op)
  PROVE  IInv'
  <1> DEFINE kind == IF op = "teardown" /\ deployment[d].built = 0 THEN "deleteEmpty" ELSE op
             r == [NoRequest EXCEPT !.d = d, !.spec = deployment[d].spec, !.op = kind]
  <1>1. /\ UNCHANGED <<connection, profile, deployment, job, outdated, detached>>
        /\ Call(q, r) /\ Accepts(op, deployment[d].status)
    BY DEF ReadForJob, history
  <1>2. HasRow(d)
    BY <1>1 DEF Accepts, HasRow
  <1>3. deployment[d].spec \in ValidSpecs
    BY <1>2 DEF IInv, DeploymentOK, RowOK
  <1>4. kind \in {"deploy", "teardown", "deleteEmpty", "fill"}
    OBVIOUS
  <1>5. r \in RequestType
    BY <1>3, <1>4 DEF RequestType, NoRequest
  <1>6. r.op = kind /\ r.d = d /\ r.spec = deployment[d].spec
    BY DEF NoRequest
  <1>7. request' = [request EXCEPT ![q] = r] /\ request'[q] = r
    BY <1>1 DEF Call, IInv, Typed
  <1>8. RequestOK(q)'
    <2>1. HasRow(d)'
      BY <1>1, <1>2 DEF HasRow
    <2>2. deployment[d].spec.vms <= deployment'[d].spec.vms
      BY <1>1, <1>3, Fields
    <2>3. QED
      BY <1>3, <1>4, <1>6, <1>7, <2>1, <2>2 DEF RequestOK
  <1>9. QED
    BY <1>1, <1>5, <1>7, <1>8, OnlyRequest

LEMMA RefusedIInv ==
  ASSUME IInv, NEW q \in Requests, Refused(q)
  PROVE  IInv'
  BY Answered DEF Refused, history

-----------------------------------------------------------------------------
(* Jobs *)

(* What a job leaves of a row, and of the reasons it is kept. *)
SameRow(d) ==
  /\ deployment'[d].profile = deployment[d].profile /\ deployment'[d].version = deployment[d].version
  /\ deployment'[d].connection = deployment[d].connection
  /\ deployment'[d].spec = deployment[d].spec /\ deployment'[d].own = deployment[d].own
  /\ HasRow(d)' = HasRow(d)
  /\ Active(d)' => Active(d) \/ d \in detached'

(* A step that moves statuses, VMs and jobs keeps all but GrownOK. *)
LEMMA RowsKept ==
  ASSUME IInv, Typed', UNCHANGED <<connection, profile, outdated>>, detached \subseteq detached',
         \A d \in Deployments : SameRow(d) /\ GrownOK(d)',
         \A q \in Requests : request'[q] = request[q] \/ request'[q] = NoRequest
  PROVE  IInv'
  <1>1. \A p \in Profiles : ProfileOK(p)'
    BY DEF IInv, ProfileOK, Exists, Current
  <1>2. ASSUME NEW d \in Deployments PROVE DeploymentOK(d)'
    <2>1. DeploymentOK(d) /\ SameRow(d) /\ GrownOK(d)'
      BY DEF IInv
    <2>2. RowOK(d)'
      BY <2>1 DEF DeploymentOK, RowOK, SameRow, Exists
    <2>3. OfItsVersion(d)'
      BY <2>1 DEF DeploymentOK, OfItsVersion, SameRow, Current
    <2>4. Keeps(d)'
      BY <2>1 DEF DeploymentOK, Keeps, SameRow
    <2>5. QED
      BY <2>1, <2>2, <2>3, <2>4 DEF DeploymentOK
  <1>3. ASSUME NEW q \in Requests PROVE RequestOK(q)'
    <2>1. CASE request'[q] = NoRequest
      BY <2>1, NothingAsked
    <2>2. CASE request'[q] = request[q]
      <3>1. RequestOK(q)
        BY DEF IInv
      <3>2. QED
        BY <2>2, <3>1 DEF RequestOK, SameRow, Exists, Current
    <2>3. QED
      BY <2>1, <2>2
  <1>4. QED
    BY <1>1, <1>2, <1>3 DEF IInv

(* The same, for a step that touches the row of one deployment only. *)
LEMMA RowKept ==
  ASSUME IInv, Typed', UNCHANGED <<connection, profile, outdated>>, detached \subseteq detached',
         NEW d \in Deployments, SameRow(d), GrownOK(d)',
         \A e \in Deployments : e # d => deployment'[e] = deployment[e] /\ job'[e] = job[e],
         \A q \in Requests : request'[q] = request[q] \/ request'[q] = NoRequest
  PROVE  IInv'
  <1>1. ASSUME NEW e \in Deployments PROVE SameRow(e) /\ GrownOK(e)'
    <2>1. CASE e = d
      BY <2>1
    <2>2. CASE e # d
      <3>1. GrownOK(e)
        BY DEF IInv, DeploymentOK
      <3>2. deployment'[e] = deployment[e] /\ job'[e] = job[e]
        BY <2>2
      <3>3. QED
        BY <3>1, <3>2 DEF GrownOK, SameRow, HasRow, Active
    <2>3. QED
      BY <2>1, <2>2
  <1>2. QED
    BY <1>1, RowsKept

(* Writing the status of a row keeps the rest of it. *)
LEMMA StatusSet ==
  ASSUME IInv, NEW d \in Deployments, HasRow(d), NEW s \in Statuses \ {"none"}, SetStatus(d, s)
  PROVE  /\ deployment' \in [Deployments -> RowType]
         /\ SameRow(d) /\ HasRow(d)'
         /\ deployment'[d].built = deployment[d].built
         /\ detached \subseteq detached' /\ detached' \subseteq Deployments
         /\ \A e \in Deployments : e # d => deployment'[e] = deployment[e]
  <1>1. deployment \in [Deployments -> RowType] /\ detached \subseteq Deployments
    BY DEF IInv, Typed
  <1>2. deployment' = [deployment EXCEPT ![d] = [deployment[d] EXCEPT !.status = s]]
    BY DEF SetStatus
  <1>3. deployment[d] \in RowType /\ s \in Statuses
    BY <1>1
  <1>4. [deployment[d] EXCEPT !.status = s] \in RowType
    BY <1>3 DEF RowType
  <1>5. deployment'[d] = [deployment[d] EXCEPT !.status = s]
    BY <1>1, <1>2
  <1>6. /\ deployment'[d].profile = deployment[d].profile /\ deployment'[d].version = deployment[d].version
        /\ deployment'[d].connection = deployment[d].connection
        /\ deployment'[d].spec = deployment[d].spec /\ deployment'[d].own = deployment[d].own
        /\ deployment'[d].built = deployment[d].built /\ deployment'[d].status = s
    BY <1>3, <1>5 DEF RowType
  <1>7. SameRow(d) /\ HasRow(d)'
    BY <1>6 DEF SameRow, HasRow, Active, SetStatus
  <1>8. QED
    BY <1>1, <1>2, <1>4, <1>6, <1>7 DEF SetStatus

(* Answering a request leaves the others alone. *)
LEMMA AnswerTyped ==
  ASSUME IInv, NEW q \in Requests, Answer(q)
  PROVE  /\ request' \in [Requests -> RequestType]
         /\ \A p \in Requests : request'[p] = request[p] \/ request'[p] = NoRequest
  <1>1. NoRequest \in RequestType
    BY DEF NoRequest, RequestType
  <1>2. request \in [Requests -> RequestType]
    BY DEF IInv, Typed
  <1>3. request' = [request EXCEPT ![q] = NoRequest]
    BY DEF Answer, Call
  <1>4. QED
    BY <1>1, <1>2, <1>3

(* Starting a job answers its request and takes the deployment's lock. *)
LEMMA Started ==
  ASSUME IInv, NEW q \in Requests, NEW type \in {"deploy", "teardown", "fill"}, Start(q, type),
         NEW d \in Deployments, d = request[q].d
  PROVE  /\ HasRow(d)
         /\ request' \in [Requests -> RequestType]
         /\ job' \in [Deployments -> [type : JobTypes, spec : ValidSpecs \cup {None}]]
         /\ job'[d].type = type /\ job'[d].spec = request[q].spec
         /\ \A e \in Deployments : e # d => job'[e] = job[e]
         /\ \A p \in Requests : request'[p] = request[p] \/ request'[p] = NoRequest
  <1>1. request[q].op = type
    BY DEF Start
  <1>2. d \in Deployments /\ HasRow(d)
    BY <1>1 DEF IInv, RequestOK
  <1>3. Answer(q)
    BY DEF Start
  <1>4. [type |-> type, spec |-> request[q].spec] \in [type : JobTypes, spec : ValidSpecs \cup {None}]
    <2>1. request[q] \in RequestType
      BY DEF IInv, Typed
    <2>2. request[q].spec \in ValidSpecs \cup {None}
      BY <2>1 DEF RequestType
    <2>3. QED
      BY <2>2 DEF JobTypes
  <1>5. job' = [job EXCEPT ![d] = [type |-> type, spec |-> request[q].spec]]
    BY DEF Start
  <1>6. job \in [Deployments -> [type : JobTypes, spec : ValidSpecs \cup {None}]]
    BY DEF IInv, Typed
  <1>7. QED
    BY <1>2, <1>3, <1>4, <1>5, <1>6, AnswerTyped

(* A deploy builds up to a spec its handler read, which has only grown. *)
LEMMA StartDeployIInv ==
  ASSUME IInv, NEW q \in Requests, StartDeploy(q)
  PROVE  IInv'
  <1>0. PICK d \in Deployments : d = request[q].d
    BY DEF StartDeploy, Start, IInv, RequestOK
  <1>1. Start(q, "deploy") /\ SetStatus(d, "deploying") /\ UNCHANGED <<connection, profile, outdated>>
    BY <1>0 DEF StartDeploy
  <1>2. /\ HasRow(d)
        /\ request' \in [Requests -> RequestType]
        /\ job' \in [Deployments -> [type : JobTypes, spec : ValidSpecs \cup {None}]]
        /\ job'[d].type = "deploy" /\ job'[d].spec = request[q].spec
        /\ \A e \in Deployments : e # d => job'[e] = job[e]
        /\ \A p \in Requests : request'[p] = request[p] \/ request'[p] = NoRequest
    BY <1>0, <1>1, Started
  <1>3. /\ deployment' \in [Deployments -> RowType]
        /\ SameRow(d) /\ HasRow(d)'
        /\ deployment'[d].built = deployment[d].built
        /\ detached \subseteq detached' /\ detached' \subseteq Deployments
        /\ \A e \in Deployments : e # d => deployment'[e] = deployment[e]
    BY <1>1, <1>2, StatusSet DEF Statuses
  <1>4. Typed'
    BY <1>1, <1>2, <1>3 DEF IInv, Typed
  <1>5. GrownOK(d) /\ RequestOK(q) /\ request[q].op = "deploy"
    BY <1>0, <1>1, <1>2 DEF IInv, DeploymentOK, Start
  <1>6. GrownOK(d)'
    <2>1. request[q].spec \in ValidSpecs /\ (d \notin outdated => request[q].spec.vms <= deployment[d].spec.vms)
      BY <1>0, <1>5 DEF RequestOK
    <2>2. job'[d].type = "deploy" /\ job'[d].spec = request[q].spec
      BY <1>2
    <2>3. deployment'[d].spec = deployment[d].spec
      BY <1>3 DEF SameRow
    <2>4. QED
      BY <1>1, <1>2, <1>3, <1>5, <2>1, <2>2, <2>3 DEF GrownOK
  <1>7. QED
    BY <1>1, <1>2, <1>3, <1>4, <1>6, RowKept

LEMMA StartTeardownIInv ==
  ASSUME IInv, NEW q \in Requests, StartTeardown(q)
  PROVE  IInv'
  <1>0. PICK d \in Deployments : d = request[q].d
    BY DEF StartTeardown, Start, IInv, RequestOK
  <1>1. Start(q, "teardown") /\ SetStatus(d, "deleting") /\ UNCHANGED <<connection, profile, outdated>>
    BY <1>0 DEF StartTeardown
  <1>2. /\ HasRow(d)
        /\ request' \in [Requests -> RequestType]
        /\ job' \in [Deployments -> [type : JobTypes, spec : ValidSpecs \cup {None}]]
        /\ job'[d].type = "teardown"
        /\ \A e \in Deployments : e # d => job'[e] = job[e]
        /\ \A p \in Requests : request'[p] = request[p] \/ request'[p] = NoRequest
    BY <1>0, <1>1, Started
  <1>3. /\ deployment' \in [Deployments -> RowType]
        /\ SameRow(d) /\ HasRow(d)'
        /\ deployment'[d].built = deployment[d].built
        /\ detached \subseteq detached' /\ detached' \subseteq Deployments
        /\ \A e \in Deployments : e # d => deployment'[e] = deployment[e]
    BY <1>1, <1>2, StatusSet DEF Statuses
  <1>4. Typed'
    BY <1>1, <1>2, <1>3 DEF IInv, Typed
  <1>5. GrownOK(d)
    BY <1>2 DEF IInv, DeploymentOK
  <1>6. GrownOK(d)'
    BY <1>1, <1>2, <1>3, <1>5 DEF GrownOK, SameRow
  <1>7. QED
    BY <1>1, <1>2, <1>3, <1>4, <1>6, RowKept

LEMMA StartFillIInv ==
  ASSUME IInv, NEW q \in Requests, StartFill(q)
  PROVE  IInv'
  <1>0. PICK d \in Deployments : d = request[q].d
    BY DEF StartFill, Start, IInv, RequestOK
  <1>1. Start(q, "fill") /\ UNCHANGED <<connection, profile, deployment, outdated, detached>>
    BY DEF StartFill, history
  <1>2. /\ HasRow(d)
        /\ request' \in [Requests -> RequestType]
        /\ job' \in [Deployments -> [type : JobTypes, spec : ValidSpecs \cup {None}]]
        /\ job'[d].type = "fill"
        /\ \A e \in Deployments : e # d => job'[e] = job[e]
        /\ \A p \in Requests : request'[p] = request[p] \/ request'[p] = NoRequest
    BY <1>0, <1>1, Started
  <1>3. Typed' /\ SameRow(d)
    BY <1>1, <1>2 DEF IInv, Typed, SameRow, HasRow, Active
  <1>4. GrownOK(d)
    BY <1>2 DEF IInv, DeploymentOK
  <1>5. GrownOK(d)'
    BY <1>1, <1>2, <1>4 DEF GrownOK, HasRow
  <1>6. QED
    BY <1>1, <1>2, <1>3, <1>5, RowKept

LEMMA TeardownEmptyIInv ==
  ASSUME IInv, NEW q \in Requests, TeardownEmpty(q)
  PROVE  IInv'
  <1>0. PICK d \in Deployments : d = request[q].d
    BY DEF TeardownEmpty, IInv, RequestOK
  <1>1. /\ UNCHANGED <<connection, profile, job, outdated, detached>> /\ Answer(q)
        /\ deployment' = [deployment EXCEPT ![d].status = "deleted"]
    BY <1>0 DEF TeardownEmpty, history
  <1>2. d \in Deployments /\ HasRow(d)
    BY <1>0 DEF TeardownEmpty, IInv, RequestOK
  <1>3. SetStatus(d, "deleted")
    BY <1>1 DEF SetStatus
  <1>4. /\ deployment' \in [Deployments -> RowType]
        /\ SameRow(d) /\ HasRow(d)'
        /\ deployment'[d].built = deployment[d].built
        /\ \A e \in Deployments : e # d => deployment'[e] = deployment[e]
    BY <1>2, <1>3, StatusSet DEF Statuses
  <1>5. Typed' /\ \A p \in Requests : request'[p] = request[p] \/ request'[p] = NoRequest
    BY <1>1, <1>4, AnswerTyped DEF IInv, Typed
  <1>6. GrownOK(d)
    BY <1>2 DEF IInv, DeploymentOK
  <1>7. GrownOK(d)'
    BY <1>1, <1>4, <1>6 DEF GrownOK, SameRow
  <1>8. QED
    BY <1>1, <1>2, <1>4, <1>5, <1>7, RowKept

(* Only the number of VMs changes, within what the job builds up to. *)
LEMMA BuiltChanged ==
  ASSUME IInv, NEW d \in Deployments, NEW n \in Nat, job[d].type # "none",
         deployment' = [deployment EXCEPT ![d].built = n],
         d \notin outdated => n <= deployment[d].spec.vms,
         UNCHANGED <<connection, profile, request, job, outdated, detached>>
  PROVE  IInv'
  <1>1. deployment[d] \in RowType /\ deployment \in [Deployments -> RowType]
    BY DEF IInv, Typed
  <1>2. [deployment[d] EXCEPT !.built = n] \in RowType
    BY <1>1 DEF RowType
  <1>3. deployment' = [deployment EXCEPT ![d] = [deployment[d] EXCEPT !.built = n]]
    OBVIOUS
  <1>4. deployment'[d] = [deployment[d] EXCEPT !.built = n]
    BY <1>1, <1>3
  <1>5. /\ deployment'[d].profile = deployment[d].profile /\ deployment'[d].version = deployment[d].version
        /\ deployment'[d].connection = deployment[d].connection
        /\ deployment'[d].spec = deployment[d].spec /\ deployment'[d].own = deployment[d].own
        /\ deployment'[d].built = n /\ deployment'[d].status = deployment[d].status
    BY <1>1, <1>4 DEF RowType
  <1>6. Typed'
    BY <1>1, <1>2, <1>3 DEF IInv, Typed
  <1>7. SameRow(d)
    BY <1>5 DEF SameRow, HasRow, Active
  <1>8. GrownOK(d)'
    <2>1. GrownOK(d)
      BY DEF IInv, DeploymentOK
    <2>2. QED
      BY <1>5, <2>1 DEF GrownOK, HasRow
  <1>9. QED
    BY <1>1, <1>3, <1>6, <1>7, <1>8, RowKept

(* A deploy stops at the spec it was started with. *)
LEMMA CreateVMIInv ==
  ASSUME IInv, NEW d \in Deployments, CreateVM(d)
  PROVE  IInv'
  <1>1. GrownOK(d) /\ RowOK(d) /\ deployment[d].built \in Nat /\ job[d].type = "deploy"
    BY DEF IInv, DeploymentOK, Typed, RowType, CreateVM
  <1>2. job[d].spec \in ValidSpecs /\ deployment[d].spec \in ValidSpecs
    BY <1>1 DEF GrownOK, RowOK
  <1>3. job[d].spec.vms \in Nat /\ deployment[d].spec.vms \in Nat
    BY <1>2, Fields
  <1>4. deployment[d].built < job[d].spec.vms
    BY DEF CreateVM
  <1>5. d \notin outdated => deployment[d].built + 1 <= deployment[d].spec.vms
    <2>1. d \notin outdated => job[d].spec.vms <= deployment[d].spec.vms
      BY <1>1 DEF GrownOK
    <2>2. QED
      BY <1>1, <1>3, <1>4, <2>1
  <1>6. /\ deployment' = [deployment EXCEPT ![d].built = deployment[d].built + 1]
        /\ UNCHANGED <<connection, profile, request, job, outdated, detached>>
    BY DEF CreateVM, history
  <1>7. deployment[d].built + 1 \in Nat /\ job[d].type # "none"
    BY <1>1
  <1>8. QED
    BY <1>5, <1>6, <1>7, BuiltChanged

LEMMA DeleteVMIInv ==
  ASSUME IInv, NEW d \in Deployments, DeleteVM(d)
  PROVE  IInv'
  <1>1. GrownOK(d) /\ RowOK(d) /\ deployment[d].built \in Nat /\ job[d].type = "teardown"
    BY DEF IInv, DeploymentOK, Typed, RowType, DeleteVM
  <1>2. HasRow(d) /\ deployment[d].spec.vms \in Nat
    BY <1>1, Fields DEF GrownOK, RowOK
  <1>3. deployment[d].built > 0
    BY DEF DeleteVM
  <1>4. d \notin outdated => deployment[d].built - 1 <= deployment[d].spec.vms
    <2>1. d \notin outdated => deployment[d].built <= deployment[d].spec.vms
      BY <1>1, <1>2 DEF GrownOK
    <2>2. QED
      BY <1>1, <1>2, <2>1
  <1>5. /\ deployment' = [deployment EXCEPT ![d].built = deployment[d].built - 1]
        /\ UNCHANGED <<connection, profile, request, job, outdated, detached>>
    BY DEF DeleteVM, history
  <1>6. deployment[d].built - 1 \in Nat /\ job[d].type # "none"
    BY <1>1, <1>3
  <1>7. QED
    BY <1>4, <1>5, <1>6, BuiltChanged

(* A job ends: its row gets the status it settles on. *)
LEMMA Settled ==
  ASSUME IInv, NEW d \in Deployments, job[d].type # "none", NEW s \in Statuses \ {"none"}, SetStatus(d, s),
         job' = [job EXCEPT ![d] = NoJob], UNCHANGED <<connection, profile, request, outdated>>
  PROVE  IInv'
  <1>1. GrownOK(d) /\ HasRow(d)
    BY DEF IInv, DeploymentOK, GrownOK
  <1>2. /\ deployment' \in [Deployments -> RowType]
        /\ SameRow(d) /\ HasRow(d)'
        /\ deployment'[d].built = deployment[d].built
        /\ detached \subseteq detached' /\ detached' \subseteq Deployments
        /\ \A e \in Deployments : e # d => deployment'[e] = deployment[e]
    BY <1>1, StatusSet
  <1>3. /\ job \in [Deployments -> [type : JobTypes, spec : ValidSpecs \cup {None}]]
        /\ NoJob \in [type : JobTypes, spec : ValidSpecs \cup {None}]
    BY DEF IInv, Typed, NoJob, JobTypes
  <1>4. job' \in [Deployments -> [type : JobTypes, spec : ValidSpecs \cup {None}]]
    BY <1>3
  <1>5. job'[d].type = "none" /\ \A e \in Deployments : e # d => job'[e] = job[e]
    BY <1>3 DEF NoJob
  <1>6. Typed'
    BY <1>2, <1>4 DEF IInv, Typed
  <1>7. GrownOK(d)'
    BY <1>1, <1>2, <1>5 DEF GrownOK, SameRow
  <1>8. QED
    BY <1>2, <1>5, <1>6, <1>7, RowKept

LEMMA JobSucceedsIInv ==
  ASSUME IInv, NEW d \in Deployments, JobSucceeds(d)
  PROVE  IInv'
  <1>1. job' = [job EXCEPT ![d] = NoJob] /\ UNCHANGED <<connection, profile, request, outdated>>
    BY DEF JobSucceeds
  <1>2. job[d].type # "none"
    BY DEF JobSucceeds
  <1>3. PICK s \in {"ready", "deleted"} : SetStatus(d, s)
    BY DEF JobSucceeds
  <1>4. s \in Statuses \ {"none"}
    BY DEF Statuses
  <1>5. QED
    BY <1>1, <1>2, <1>3, <1>4, Settled

LEMMA JobFailsIInv ==
  ASSUME IInv, NEW d \in Deployments, JobFails(d)
  PROVE  IInv'
  <1>1. /\ job[d].type # "none" /\ SetStatus(d, "error") /\ job' = [job EXCEPT ![d] = NoJob]
        /\ UNCHANGED <<connection, profile, request, outdated>>
    BY DEF JobFails
  <1>2. "error" \in Statuses \ {"none"}
    BY DEF Statuses
  <1>3. QED
    BY <1>1, <1>2, Settled

LEMMA FillEndsIInv ==
  ASSUME IInv, NEW d \in Deployments, FillEnds(d)
  PROVE  IInv'
  <1>1. job' = [job EXCEPT ![d] = NoJob] /\ UNCHANGED <<connection, profile, deployment, request, outdated, detached>>
    BY DEF FillEnds, history
  <1>2. job \in [Deployments -> [type : JobTypes, spec : ValidSpecs \cup {None}]]
    BY DEF IInv, Typed
  <1>3. job'[d].type = "none" /\ \A e \in Deployments : e # d => job'[e] = job[e]
    BY <1>1, <1>2 DEF NoJob
  <1>4. Typed'
    <2>1. NoJob \in [type : JobTypes, spec : ValidSpecs \cup {None}]
      BY DEF NoJob, JobTypes
    <2>2. job' \in [Deployments -> [type : JobTypes, spec : ValidSpecs \cup {None}]]
      BY <1>1, <1>2, <2>1
    <2>3. QED
      BY <1>1, <2>2 DEF IInv, Typed
  <1>5. GrownOK(d)' /\ SameRow(d)
    BY <1>1, <1>3 DEF IInv, DeploymentOK, GrownOK, SameRow, HasRow, Active
  <1>6. QED
    BY <1>1, <1>3, <1>4, <1>5, RowKept

(* What the fills write, the invariant does not read. *)
LEMMA OnlyFill ==
  ASSUME IInv, UNCHANGED <<connection, profile, deployment, request, job, outdated, detached>>
  PROVE  IInv'
  BY DEF IInv, Typed, ProfileOK, DeploymentOK, RowOK, OfItsVersion, GrownOK, Keeps, RequestOK,
         HasRow, Active, Exists, Current

-----------------------------------------------------------------------------
(* Handlers that write *)

LEMMA CreateConnectionIInv ==
  ASSUME IInv, NEW c \in Connections, CreateConnection(c)
  PROVE  IInv'
  <1>1. /\ connection[c] = "none" /\ connection' = [connection EXCEPT ![c] = "live"]
        /\ UNCHANGED <<profile, deployment, request, job, outdated, detached>>
    BY DEF CreateConnection, history
  <1>2. Typed'
    BY <1>1 DEF IInv, Typed, States
  <1>3. \A p \in Profiles : ProfileOK(p)'
    BY <1>1 DEF IInv, ProfileOK, Exists, Current
  <1>4. ASSUME NEW d \in Deployments PROVE DeploymentOK(d)'
    <2>1. DeploymentOK(d)
      BY DEF IInv
    <2>2. RowOK(d)'
      BY <1>1, <2>1 DEF IInv, Typed, DeploymentOK, RowOK, HasRow, Exists
    <2>3. QED
      BY <1>1, <2>1, <2>2 DEF DeploymentOK, OfItsVersion, GrownOK, Keeps, HasRow, Active, Current
  <1>5. \A q \in Requests : RequestOK(q)'
    BY <1>1 DEF IInv, RequestOK, HasRow, Active, Exists, Current
  <1>6. QED
    BY <1>2, <1>3, <1>4, <1>5 DEF IInv

(* A profile gains versions, or is new: what refers to a version still does. *)
LEMMA VersionsGrow ==
  ASSUME IInv, NEW p \in Profiles, NEW s \in ValidSpecs,
         profile[p].status # "gone",
         NEW new \in [status : States, versions : Seq(ValidSpecs)],
         new.status = "live", new.versions = Append(profile[p].versions, s),
         profile' = [profile EXCEPT ![p] = new],
         UNCHANGED <<connection, deployment, request, job, outdated, detached>>
  PROVE  IInv'
  <1>1. /\ profile \in [Profiles -> [status : States, versions : Seq(ValidSpecs)]]
        /\ profile[p].versions \in Seq(ValidSpecs)
    BY DEF IInv, Typed
  <1>3. Typed'
    BY <1>1 DEF IInv, Typed
  <1>4. /\ profile'[p].status = "live"
        /\ Current(p)' = Current(p) + 1 /\ Current(p) \in Nat
        /\ \A v \in 1 .. Current(p) : profile'[p].versions[v] = profile[p].versions[v]
    BY <1>1 DEF Current
  <1>5. \A o \in Profiles : o # p => profile'[o] = profile[o]
    BY <1>1
  <1>6. \A o \in Profiles : ProfileOK(o)'
    <2>1. ProfileOK(p)'
      BY <1>4 DEF ProfileOK, Exists
    <2>2. QED
      BY <1>5, <2>1 DEF IInv, ProfileOK, Exists, Current
  <1>7. \A o \in Profiles, v \in Nat : Exists(o) /\ v \in 1 .. Current(o) =>
          v \in 1 .. Current(o)' /\ profile'[o].versions[v] = profile[o].versions[v]
    BY <1>4, <1>5 DEF Current
  <1>8. ASSUME NEW d \in Deployments PROVE DeploymentOK(d)'
    <2>1. DeploymentOK(d) /\ deployment[d] \in RowType
      BY DEF IInv, Typed
    <2>2. RowOK(d)'
      <3>1. HasRow(d) /\ deployment[d].profile # None => deployment[d].profile \in Profiles
        BY <2>1 DEF RowType
      <3>2. QED
        BY <1>4, <1>5, <2>1, <3>1 DEF DeploymentOK, RowOK, HasRow, Exists
    <2>3. OfItsVersion(d)'
      <3> SUFFICES ASSUME HasRow(d), ~deployment[d].own, deployment[d].profile # None
                   PROVE  /\ deployment[d].version \in 1 .. Current(deployment[d].profile)'
                          /\ deployment[d].spec = profile'[deployment[d].profile].versions[deployment[d].version]
        BY DEF OfItsVersion, HasRow, Current
      <3>1. deployment[d].profile \in Profiles /\ deployment[d].version \in Nat
        BY <2>1 DEF RowType
      <3>2. Exists(deployment[d].profile)
        BY <2>1 DEF DeploymentOK, RowOK
      <3>3. /\ deployment[d].version \in 1 .. Current(deployment[d].profile)
            /\ deployment[d].spec = profile[deployment[d].profile].versions[deployment[d].version]
        BY <2>1 DEF DeploymentOK, OfItsVersion
      <3>4. QED
        BY <1>7, <3>1, <3>2, <3>3
    <2>4. QED
      BY <2>1, <2>2, <2>3 DEF DeploymentOK, GrownOK, Keeps, HasRow, Active
  <1>9. ASSUME NEW q \in Requests PROVE RequestOK(q)'
    <2>1. RequestOK(q) /\ request[q] \in RequestType /\ request'[q] = request[q]
      BY DEF IInv, Typed
    <2>2. CASE request[q].op = "insert"
      <3> DEFINE r == request[q]
      <3>1. r.p \in Profiles /\ profile[r.p].status # "none" /\ r.c \in Connections /\ r.spec \in ValidSpecs
        BY <2>1, <2>2 DEF RequestOK
      <3>2. profile'[r.p].status # "none"
        BY <1>4, <1>5, <3>1
      <3>3. ASSUME r.seen = None, profile'[r.p].status = "live"
            PROVE  /\ r.version \in 1 .. Current(r.p)
                   /\ r.spec = profile[r.p].versions[r.version]
        <4>1. profile[r.p].status = "live"
          <5>1. profile[r.p].status \in States
            BY <1>1, <3>1
          <5>2. QED
            BY <1>5, <3>1, <3>3, <5>1 DEF States
        <4>2. QED
          BY <2>1, <2>2, <3>3, <4>1 DEF RequestOK, Exists
      <3>4. ASSUME r.seen = None, profile'[r.p].status = "live"
            PROVE  /\ r.version \in 1 .. Len(profile'[r.p].versions)
                   /\ r.spec = profile'[r.p].versions[r.version]
        <4>1. CASE r.p = p
          BY <1>4, <3>3, <3>4, <4>1 DEF Current
        <4>2. CASE r.p # p
          BY <1>5, <3>1, <3>3, <3>4, <4>2 DEF Current
        <4>3. QED
          BY <4>1, <4>2
      <3>5. QED
        BY <2>1, <2>2, <3>1, <3>2, <3>4 DEF RequestOK, Exists, Current
    <2>3. CASE request[q].op # "insert"
      BY <1>4, <1>5, <2>1, <2>3 DEF RequestOK, HasRow, Active
    <2>4. QED
      BY <2>2, <2>3
  <1>10. QED
    BY <1>3, <1>6, <1>8, <1>9 DEF IInv

LEMMA CreateProfileIInv ==
  ASSUME IInv, NEW p \in Profiles, NEW s \in Specs, CreateProfile(p, s)
  PROVE  IInv'
  <1>1. s \in ValidSpecs
    BY ConfigurationAssumption DEF CreateProfile, ValidSpecs
  <1>2. /\ profile[p].status = "none"
        /\ profile' = [profile EXCEPT ![p] = [status |-> "live", versions |-> <<s>>]]
        /\ UNCHANGED <<connection, deployment, request, job, outdated, detached>>
    BY DEF CreateProfile, history
  <1>3. Append(profile[p].versions, s) = <<s>>
    <2>1. profile[p].versions \in Seq(ValidSpecs) /\ Len(profile[p].versions) = 0
      BY <1>2 DEF IInv, Typed, ProfileOK, Exists, Current
    <2>2. profile[p].versions = <<>>
      BY <2>1
    <2>3. QED
      BY <2>2
  <1> DEFINE new == [status |-> "live", versions |-> <<s>>]
  <1>4. /\ new \in [status : States, versions : Seq(ValidSpecs)]
        /\ new.status = "live" /\ new.versions = Append(profile[p].versions, s)
    BY <1>1, <1>3 DEF States
  <1> HIDE DEF new
  <1>5. /\ profile' = [profile EXCEPT ![p] = new] /\ profile[p].status # "gone"
        /\ UNCHANGED <<connection, deployment, request, job, outdated, detached>>
    BY <1>2 DEF new
  <1>6. QED
    BY <1>1, <1>4, <1>5, VersionsGrow

LEMMA UpdateProfileSpecIInv ==
  ASSUME IInv, NEW p \in Profiles, NEW s \in Specs, UpdateProfileSpec(p, s)
  PROVE  IInv'
  <1>1. s \in ValidSpecs
    BY ConfigurationAssumption DEF UpdateProfileSpec, ValidSpecs
  <1>2. /\ profile[p].status = "live"
        /\ profile' = [profile EXCEPT ![p].versions = Append(profile[p].versions, s)]
        /\ UNCHANGED <<connection, deployment, request, job, outdated, detached>>
    BY DEF UpdateProfileSpec, Exists, history
  <1>3. profile[p] \in [status : States, versions : Seq(ValidSpecs)]
    BY DEF IInv, Typed
  <1> DEFINE new == [profile[p] EXCEPT !.versions = Append(profile[p].versions, s)]
  <1>4. /\ new \in [status : States, versions : Seq(ValidSpecs)]
        /\ new.status = "live" /\ new.versions = Append(profile[p].versions, s)
    <2>1. Append(profile[p].versions, s) \in Seq(ValidSpecs)
      BY <1>1, <1>3
    <2>2. QED
      BY <1>2, <1>3, <2>1
  <1>5. profile' = [profile EXCEPT ![p] = new] /\ profile[p].status # "gone"
    BY <1>2
  <1> HIDE DEF new
  <1>6. QED
    BY <1>1, <1>2, <1>4, <1>5, VersionsGrow

(* Rows that refer to the profile refer to none afterwards; those found by  *)
(* the count were not active, unless they were revived since.               *)
LEMMA DeleteProfileIInv ==
  ASSUME IInv, NEW q \in Requests, DeleteProfile(q)
  PROVE  IInv'
  <1>1. PICK p \in Profiles : p = request[q].p
    BY DEF DeleteProfile, IInv, RequestOK
  <1> DEFINE users == {d \in Deployments : HasRow(d) /\ deployment[d].profile = p}
             bare(d) == [deployment[d] EXCEPT !.profile = None]
  <1>2. /\ profile' = [profile EXCEPT ![p] = [status |-> "gone", versions |-> <<>>]]
        /\ deployment' = [d \in Deployments |-> IF d \in users THEN bare(d) ELSE deployment[d]]
        /\ detached' = detached \cup (users \ request[q].seen)
        /\ Answer(q)
        /\ UNCHANGED <<connection, job, outdated>>
    BY <1>1 DEF DeleteProfile
  <1>3. ASSUME NEW d \in Deployments
        PROVE  /\ deployment'[d] \in RowType
               /\ deployment'[d].status = deployment[d].status /\ deployment'[d].version = deployment[d].version
               /\ deployment'[d].connection = deployment[d].connection
               /\ deployment'[d].spec = deployment[d].spec /\ deployment'[d].own = deployment[d].own
               /\ deployment'[d].built = deployment[d].built
               /\ d \in users => deployment'[d].profile = None
               /\ d \notin users => deployment'[d].profile = deployment[d].profile
    <2>1. deployment[d] \in RowType
      BY DEF IInv, Typed
    <2>2. deployment'[d] = IF d \in users THEN bare(d) ELSE deployment[d]
      BY <1>2
    <2>3. CASE d \in users
      <3>1. deployment'[d] = [deployment[d] EXCEPT !.profile = None]
        BY <2>2, <2>3
      <3> HIDE DEF users
      <3>2. QED
        BY <2>1, <2>3, <3>1 DEF RowType
    <2>4. CASE d \notin users
      BY <2>1, <2>2, <2>4
    <2>5. QED
      BY <2>3, <2>4
  <1>4. /\ profile' \in [Profiles -> [status : States, versions : Seq(ValidSpecs)]]
        /\ profile'[p].status = "gone" /\ Current(p)' = 0
        /\ \A o \in Profiles : o # p => profile'[o] = profile[o]
    <2>1. [status |-> "gone", versions |-> <<>>] \in [status : States, versions : Seq(ValidSpecs)]
      BY DEF States
    <2>2. QED
      BY <1>2, <2>1 DEF IInv, Typed, Current
  <1>5. Typed'
    <2>1. deployment' \in [Deployments -> RowType]
      BY <1>2, <1>3
    <2>2. users \subseteq Deployments
      OBVIOUS
    <2>3. QED
      BY <1>2, <1>4, <2>1, <2>2, AnswerTyped DEF IInv, Typed
  <1>6. \A o \in Profiles : ProfileOK(o)'
    BY <1>4 DEF IInv, ProfileOK, Exists, Current
  <1>7. RequestOK(q) /\ request[q].op = "deleteProfile"
    BY DEF IInv, DeleteProfile
  <1>8. ASSUME NEW d \in Deployments PROVE DeploymentOK(d)'
    <2>1. DeploymentOK(d) /\ deployment[d] \in RowType
      BY DEF IInv, Typed
    <2>2. HasRow(d)' = HasRow(d) /\ Active(d)' = Active(d)
      BY <1>3 DEF HasRow, Active
    <2>3. HasRow(d)' /\ deployment'[d].profile # None =>
            /\ deployment'[d].profile = deployment[d].profile /\ deployment[d].profile \in Profiles
            /\ profile'[deployment[d].profile] = profile[deployment[d].profile]
      BY <1>3, <1>4, <2>1, <2>2 DEF RowType
    <2>4. RowOK(d)'
      BY <1>2, <1>3, <2>1, <2>2, <2>3 DEF DeploymentOK, RowOK, Exists
    <2>5. OfItsVersion(d)'
      BY <1>3, <2>1, <2>2, <2>3 DEF DeploymentOK, OfItsVersion, Current
    <2>6. GrownOK(d)'
      BY <1>2, <1>3, <2>1, <2>2 DEF DeploymentOK, GrownOK
    <2>7. Keeps(d)'
      <3>1. CASE d \in users /\ d \notin request[q].seen
        BY <1>2, <3>1 DEF Keeps
      <3>2. CASE d \in users /\ d \in request[q].seen
        BY <1>1, <1>2, <1>7, <2>2, <3>2 DEF Keeps, RequestOK
      <3>3. CASE d \notin users
        BY <1>2, <1>3, <2>1, <2>2, <3>3 DEF DeploymentOK, Keeps
      <3>4. QED
        BY <3>1, <3>2, <3>3
    <2>8. QED
      BY <2>4, <2>5, <2>6, <2>7 DEF DeploymentOK
  <1>9. ASSUME NEW o \in Requests PROVE RequestOK(o)'
    <2>1. CASE request'[o] = NoRequest
      BY <2>1, NothingAsked
    <2>2. CASE request'[o] = request[o]
      <3>1. RequestOK(o) /\ request[o] \in RequestType
        BY DEF IInv, Typed
      <3>2. \A d \in Deployments : /\ HasRow(d)' = HasRow(d) /\ Active(d)' = Active(d)
                                   /\ deployment'[d].spec = deployment[d].spec
        BY <1>3 DEF HasRow, Active
      <3>3. \A r \in Profiles : Exists(r)' => profile'[r] = profile[r] /\ Exists(r)
        BY <1>4 DEF Exists
      <3>4. \A r \in Profiles : profile[r].status # "none" => profile'[r].status # "none"
        BY <1>4
      <3>5. CASE request[o].op = "deleteProfile"
        <4>1. \A d \in Deployments : deployment'[d].profile = request[o].p => deployment[d].profile = request[o].p
          BY <1>3, <3>1, <3>5, ConfigurationAssumption DEF RequestOK
        <4>2. detached \subseteq detached'
          BY <1>2
        <4>3. QED
          BY <2>2, <3>1, <3>2, <3>5, <4>1, <4>2 DEF RequestOK
      <3>6. CASE request[o].op # "deleteProfile"
        BY <1>2, <2>2, <3>1, <3>2, <3>3, <3>4, <3>6 DEF RequestOK, Current
      <3>7. QED
        BY <3>5, <3>6
    <2>3. QED
      BY <1>2, <2>1, <2>2, AnswerTyped
  <1>10. QED
    BY <1>5, <1>6, <1>8, <1>9 DEF IInv

(* The foreign key keeps the connection of any row. *)
LEMMA DeleteConnectionIInv ==
  ASSUME IInv, NEW q \in Requests, DeleteConnection(q)
  PROVE  IInv'
  <1>1. PICK c \in Connections : c = request[q].c
    BY DEF DeleteConnection, IInv, RequestOK
  <1>2. /\ connection' = IF \E d \in Deployments : HasRow(d) /\ deployment[d].connection = c
                         THEN connection ELSE [connection EXCEPT ![c] = "gone"]
        /\ Answer(q)
        /\ UNCHANGED <<profile, deployment, job, outdated, detached>>
    BY <1>1 DEF DeleteConnection, history
  <1>3. Typed'
    <2>1. connection' \in [Connections -> States]
      BY <1>2 DEF IInv, Typed, States
    <2>2. QED
      BY <1>2, <2>1, AnswerTyped DEF IInv, Typed
  <1>4. \A p \in Profiles : ProfileOK(p)'
    BY <1>2 DEF IInv, ProfileOK, Exists, Current
  <1>5. ASSUME NEW d \in Deployments PROVE DeploymentOK(d)'
    <2>1. DeploymentOK(d)
      BY DEF IInv
    <2>2. HasRow(d) => connection'[deployment[d].connection] = connection[deployment[d].connection]
      BY <1>2, <2>1 DEF IInv, Typed, DeploymentOK, RowOK
    <2>3. RowOK(d)'
      BY <1>2, <2>1, <2>2 DEF DeploymentOK, RowOK, HasRow, Exists
    <2>4. QED
      BY <1>2, <2>1, <2>3 DEF DeploymentOK, OfItsVersion, GrownOK, Keeps, HasRow, Active, Current
  <1>6. ASSUME NEW o \in Requests PROVE RequestOK(o)'
    <2>1. CASE request'[o] = NoRequest
      BY <2>1, NothingAsked
    <2>2. CASE request'[o] = request[o]
      BY <1>2, <2>2 DEF IInv, RequestOK, HasRow, Active, Exists, Current
    <2>3. QED
      BY <1>2, <2>1, <2>2, AnswerTyped
  <1>7. QED
    BY <1>3, <1>4, <1>5, <1>6 DEF IInv

(* Foreign keys are checked by the insert, and no request knows the row yet. *)
LEMMA CreateDeploymentIInv ==
  ASSUME IInv, NEW q \in Requests, NEW d \in Deployments, CreateDeployment(q, d)
  PROVE  IInv'
  <1>1. /\ Answer(q) /\ UNCHANGED <<connection, profile, job, outdated, detached>>
        /\ deployment[d].status = "none" /\ request[q].op = "insert"
    BY DEF CreateDeployment, history
  <1>2. CASE UNCHANGED deployment
    BY <1>1, <1>2, Answered
  <1>3. CASE MayInsert(q)
    <2> DEFINE r == request[q]
               row == [status |-> "new", profile |-> r.p, version |-> r.version, connection |-> r.c,
                       spec |-> r.spec, own |-> r.seen # None, built |-> 0]
    <2>1. RequestOK(q) /\ r \in RequestType
      BY DEF IInv, Typed
    <2>2. /\ r.p \in Profiles /\ r.c \in Connections /\ r.spec \in ValidSpecs
          /\ connection[r.c] = "live" /\ Exists(r.p)
          /\ r.version \in Nat
          /\ r.seen = None => r.version \in 1 .. Current(r.p) /\ r.spec = profile[r.p].versions[r.version]
      BY <1>1, <1>3, <2>1 DEF RequestOK, MayInsert, RequestType
    <2>3. row \in RowType
      BY <2>2 DEF RowType, Statuses
    <2>4. deployment' = [deployment EXCEPT ![d] = row]
      BY <1>3 DEF CreateDeployment
    <2>5. deployment \in [Deployments -> RowType]
      BY DEF IInv, Typed
    <2>6. Typed'
      BY <1>1, <2>3, <2>4, <2>5, AnswerTyped DEF IInv, Typed
    <2>7. /\ deployment'[d].status = "new" /\ deployment'[d].profile = r.p /\ deployment'[d].version = r.version
          /\ deployment'[d].connection = r.c /\ deployment'[d].spec = r.spec
          /\ deployment'[d].own = (r.seen # None) /\ deployment'[d].built = 0
      BY <2>4, <2>5
    <2>8. \A e \in Deployments : e # d => deployment'[e] = deployment[e]
      BY <2>4, <2>5
    <2>9. \A p \in Profiles : ProfileOK(p)'
      BY <1>1 DEF IInv, ProfileOK, Exists, Current
    <2>10. DeploymentOK(d)'
      <3>1. GrownOK(d)
        BY DEF IInv, DeploymentOK
      <3>2. job[d].type = "none"
        BY <1>1, <3>1 DEF GrownOK, HasRow
      <3>3. r.spec.vms \in Nat
        BY <2>2, Fields
      <3>4. RowOK(d)'
        BY <1>1, <2>2, <2>7 DEF RowOK, Exists
      <3>5. OfItsVersion(d)'
        BY <1>1, <2>2, <2>7 DEF OfItsVersion, Current
      <3>6. GrownOK(d)'
        BY <1>1, <2>7, <3>2, <3>3 DEF GrownOK, HasRow
      <3>7. Keeps(d)'
        BY <2>2, <2>7, ConfigurationAssumption DEF Keeps
      <3>8. QED
        BY <3>4, <3>5, <3>6, <3>7 DEF DeploymentOK
    <2>11. \A e \in Deployments : e # d => DeploymentOK(e)'
      BY <1>1, <2>8
         DEF IInv, DeploymentOK, RowOK, OfItsVersion, GrownOK, Keeps, HasRow, Active, Exists, Current
    <2>12. ASSUME NEW o \in Requests PROVE RequestOK(o)'
      <3>1. CASE request'[o] = NoRequest
        BY <3>1, NothingAsked
      <3>2. CASE request'[o] = request[o]
        <4>1. ~HasRow(d) /\ RequestOK(o)
          BY <1>1 DEF HasRow, IInv
        <4>2. QED
          BY <1>1, <2>8, <3>2, <4>1 DEF RequestOK, HasRow, Active, Exists, Current
      <3>3. QED
        BY <1>1, <3>1, <3>2, AnswerTyped
    <2>13. QED
      BY <2>6, <2>9, <2>10, <2>11, <2>12 DEF IInv
  <1>4. QED
    BY <1>2, <1>3 DEF CreateDeployment

(* The written spec is no smaller than the one that was checked; where that *)
(* is not the one it replaces, the deployment is outdated.                  *)
LEMMA UpdateDeploymentSpecIInv ==
  ASSUME IInv, NEW q \in Requests, UpdateDeploymentSpec(q)
  PROVE  IInv'
  <1>1. PICK d \in Deployments : d = request[q].d
    BY DEF UpdateDeploymentSpec, IInv, RequestOK
  <1>2. PICK s \in ValidSpecs : s = request[q].spec
    BY DEF UpdateDeploymentSpec, IInv, RequestOK
  <1>3. /\ deployment' = [deployment EXCEPT ![d].spec = s, ![d].own = TRUE]
        /\ outdated' = IF deployment[d].spec = request[q].seen THEN outdated ELSE outdated \cup {d}
        /\ Answer(q) /\ UNCHANGED <<connection, profile, job, detached>>
    BY <1>1, <1>2 DEF UpdateDeploymentSpec
  <1>4. /\ RequestOK(q) /\ request[q].op = "edit" /\ deployment \in [Deployments -> RowType]
        /\ deployment[d] \in RowType /\ DeploymentOK(d)
    BY DEF IInv, UpdateDeploymentSpec, Typed
  <1>5. HasRow(d) /\ request[q].seen \in ValidSpecs /\ ~Shrinks(request[q].seen, s)
    BY <1>1, <1>2, <1>4 DEF RequestOK
  <1> DEFINE row == [deployment[d] EXCEPT !.spec = s, !.own = TRUE]
  <1>6. row \in RowType /\ deployment' = [deployment EXCEPT ![d] = row]
    BY <1>3, <1>4 DEF RowType
  <1>7. /\ deployment'[d].profile = deployment[d].profile /\ deployment'[d].version = deployment[d].version
        /\ deployment'[d].connection = deployment[d].connection /\ deployment'[d].status = deployment[d].status
        /\ deployment'[d].built = deployment[d].built
        /\ deployment'[d].spec = s /\ deployment'[d].own = TRUE
    BY <1>3, <1>4 DEF RowType
  <1>8. \A e \in Deployments : e # d => deployment'[e] = deployment[e]
    BY <1>4, <1>6
  <1>9. Typed'
    BY <1>3, <1>4, <1>6, AnswerTyped DEF IInv, Typed
  <1>10. \A p \in Profiles : ProfileOK(p)'
    BY <1>3 DEF IInv, ProfileOK, Exists, Current
  <1>11. d \notin outdated' => d \notin outdated /\ deployment[d].spec.vms <= s.vms
    <2> SUFFICES ASSUME d \notin outdated' PROVE d \notin outdated /\ deployment[d].spec.vms <= s.vms
      OBVIOUS
    <2>1. d \notin outdated /\ deployment[d].spec = request[q].seen
      BY <1>3
    <2>2. request[q].seen.vms \in Nat /\ s.vms \in Nat
      BY <1>5, Fields
    <2>3. QED
      BY <1>5, <2>1, <2>2 DEF Shrinks
  <1>12. /\ deployment[d].spec \in ValidSpecs /\ deployment[d].spec.vms \in Nat
         /\ s.vms \in Nat /\ deployment[d].built \in Nat
    BY <1>4, <1>5, Fields DEF DeploymentOK, RowOK, RowType
  <1>13. DeploymentOK(d)'
    <2>1. RowOK(d)' /\ OfItsVersion(d)' /\ Keeps(d)'
      BY <1>3, <1>4, <1>7 DEF DeploymentOK, RowOK, OfItsVersion, Keeps, HasRow, Active, Exists
    <2>2. GrownOK(d)'
      <3>1. GrownOK(d)
        BY <1>4 DEF DeploymentOK
      <3>2. job[d].type = "deploy" => job[d].spec.vms \in Nat
        BY <3>1, Fields DEF GrownOK
      <3>3. QED
        BY <1>3, <1>5, <1>7, <1>11, <1>12, <3>1, <3>2 DEF GrownOK, HasRow
    <2>3. QED
      BY <2>1, <2>2 DEF DeploymentOK
  <1>14. outdated \subseteq outdated' /\ \A e \in Deployments : e # d => (e \in outdated' <=> e \in outdated)
    BY <1>3
  <1>15. ASSUME NEW e \in Deployments, e # d PROVE DeploymentOK(e)'
    <2>1. DeploymentOK(e) /\ deployment'[e] = deployment[e] /\ (e \in outdated' <=> e \in outdated)
      BY <1>8, <1>14, <1>15 DEF IInv
    <2>2. QED
      BY <1>3, <2>1 DEF DeploymentOK, RowOK, OfItsVersion, GrownOK, Keeps, HasRow, Active, Exists, Current
  <1>16. ASSUME NEW o \in Requests PROVE RequestOK(o)'
    <2>1. CASE request'[o] = NoRequest
      BY <2>1, NothingAsked
    <2>2. CASE request'[o] = request[o]
      <3>1. RequestOK(o)
        BY DEF IInv
      <3>2. \A e \in Deployments : /\ HasRow(e)' = HasRow(e) /\ Active(e)' = Active(e)
                                   /\ deployment'[e].profile = deployment[e].profile
        BY <1>7, <1>8 DEF HasRow, Active
      <3>3. CASE request[o].op = "deploy"
        <4>1. request[o].d \in Deployments /\ HasRow(request[o].d) /\ request[o].spec \in ValidSpecs
          BY <3>1, <3>3 DEF RequestOK
        <4>2. request[o].d \notin outdated' => request[o].spec.vms <= deployment'[request[o].d].spec.vms
          <5>1. CASE request[o].d = d
            <6>1. request[o].spec.vms \in Nat
              BY <4>1, Fields
            <6>2. d \notin outdated => request[o].spec.vms <= deployment[d].spec.vms
              BY <3>1, <3>3, <5>1 DEF RequestOK
            <6>3. QED
              BY <1>7, <1>11, <1>12, <5>1, <6>1, <6>2
          <5>2. CASE request[o].d # d
            BY <1>8, <1>14, <3>1, <3>3, <4>1, <5>2 DEF RequestOK
          <5>3. QED
            BY <5>1, <5>2
        <4>3. QED
          BY <2>2, <3>2, <3>3, <4>1, <4>2 DEF RequestOK
      <3>4. CASE request[o].op # "deploy"
        BY <1>3, <2>2, <3>1, <3>2, <3>4 DEF RequestOK, Exists, Current
      <3>5. QED
        BY <3>3, <3>4
    <2>3. QED
      BY <1>3, <2>1, <2>2, AnswerTyped
  <1>17. QED
    BY <1>9, <1>10, <1>13, <1>15, <1>16 DEF IInv

(* A job goes on with the spec of its row. *)
LEMMA RestartIInv ==
  ASSUME IInv, Restart
  PROVE  IInv'
  <1>1. /\ request' = [q \in Requests |-> NoRequest]
        /\ job' = [d \in Deployments |-> IF job[d] = NoJob THEN NoJob
                                         ELSE [job[d] EXCEPT !.spec = deployment[d].spec]]
        /\ UNCHANGED <<connection, profile, deployment, outdated, detached>>
    BY DEF Restart, history
  <1>2. NoRequest \in RequestType /\ NoJob \in [type : JobTypes, spec : ValidSpecs \cup {None}]
    BY DEF NoRequest, RequestType, NoJob, JobTypes
  <1>3. ASSUME NEW d \in Deployments
        PROVE  /\ job'[d] \in [type : JobTypes, spec : ValidSpecs \cup {None}]
               /\ job'[d].type = job[d].type
               /\ job'[d].type # "none" => job'[d].spec = deployment[d].spec
    <2>1. /\ job[d] \in [type : JobTypes, spec : ValidSpecs \cup {None}]
          /\ deployment[d].spec \in ValidSpecs \cup {None}
      BY DEF IInv, Typed, RowType
    <2>2. CASE job[d] = NoJob
      BY <1>1, <1>2, <2>2 DEF NoJob
    <2>3. CASE job[d] # NoJob
      <3>1. job'[d] = [job[d] EXCEPT !.spec = deployment[d].spec]
        BY <1>1, <2>3
      <3>2. QED
        BY <2>1, <3>1
    <2>4. QED
      BY <2>2, <2>3
  <1>4. Typed'
    <2>1. request' \in [Requests -> RequestType]
      BY <1>1, <1>2
    <2>2. job' \in [Deployments -> [type : JobTypes, spec : ValidSpecs \cup {None}]]
      BY <1>1, <1>3
    <2>3. QED
      BY <1>1, <2>1, <2>2 DEF IInv, Typed
  <1>5. ASSUME NEW d \in Deployments PROVE SameRow(d) /\ GrownOK(d)'
    <2>1. DeploymentOK(d)
      BY DEF IInv
    <2>2. SameRow(d)
      BY <1>1 DEF SameRow, HasRow, Active
    <2>3. HasRow(d) => deployment[d].spec \in ValidSpecs /\ deployment[d].spec.vms \in Nat
      BY <2>1, Fields DEF DeploymentOK, RowOK
    <2>4. GrownOK(d)'
      BY <1>1, <1>3, <2>1, <2>3 DEF DeploymentOK, GrownOK, HasRow
    <2>5. QED
      BY <2>2, <2>4
  <1>6. \A q \in Requests : request'[q] = NoRequest
    BY <1>1
  <1>7. QED
    BY <1>1, <1>4, <1>5, <1>6, RowsKept

-----------------------------------------------------------------------------
(* Every step keeps the invariant. *)
LEMMA NextIInv == IInv /\ [Next]_vars => IInv'
  <1> SUFFICES ASSUME IInv, [Next]_vars PROVE IInv'
    OBVIOUS
  <1>1. CASE UNCHANGED vars
    BY <1>1, OnlyFill DEF vars, history
  <1>2. CASE \E c \in Connections : CreateConnection(c)
    BY <1>2, CreateConnectionIInv
  <1>3. CASE \E p \in Profiles, s \in Specs : CreateProfile(p, s) \/ UpdateProfileSpec(p, s)
    BY <1>3, CreateProfileIInv, UpdateProfileSpecIInv
  <1>4. ASSUME NEW q \in Requests,
               \/ CountProfileUses(q) \/ DeleteProfile(q)
               \/ CountConnectionUses(q) \/ DeleteConnection(q)
               \/ ResolveProfile(q) \/ ResolveSpec(q)
               \/ UpdateDeploymentSpec(q)
               \/ StartDeploy(q) \/ TeardownEmpty(q) \/ StartTeardown(q) \/ StartFill(q) \/ Refused(q)
        PROVE  IInv'
    <2>1. CASE CountProfileUses(q) \/ DeleteProfile(q)
      BY <2>1, CountProfileUsesIInv, DeleteProfileIInv
    <2>2. CASE CountConnectionUses(q) \/ DeleteConnection(q)
      BY <2>2, CountConnectionUsesIInv, DeleteConnectionIInv
    <2>3. CASE ResolveProfile(q) \/ ResolveSpec(q)
      BY <2>3, ResolveProfileIInv, ResolveSpecIInv
    <2>4. CASE UpdateDeploymentSpec(q)
      BY <2>4, UpdateDeploymentSpecIInv
    <2>5. CASE StartDeploy(q) \/ TeardownEmpty(q) \/ StartTeardown(q)
      BY <2>5, StartDeployIInv, TeardownEmptyIInv, StartTeardownIInv
    <2>6. CASE StartFill(q) \/ Refused(q)
      BY <2>6, StartFillIInv, RefusedIInv
    <2>7. QED
      BY <1>4, <2>1, <2>2, <2>3, <2>4, <2>5, <2>6
  <1>5. ASSUME NEW q \in Requests, NEW d \in Deployments,
               \/ CreateDeployment(q, d) \/ CheckSpec(q, d)
               \/ \E op \in {"deploy", "teardown", "fill"} : ReadForJob(q, d, op)
        PROVE  IInv'
    BY <1>5, CreateDeploymentIInv, CheckSpecIInv, ReadForJobIInv
  <1>6. ASSUME NEW d \in Deployments,
               \/ CreateVM(d) \/ DeleteVM(d) \/ JobSucceeds(d) \/ JobFails(d) \/ FillEnds(d) \/ Promote(d)
               \/ \E i \in DOMAIN fill[d].shares : OrderAgain(d, i) \/ VMDone(d, i)
        PROVE  IInv'
    <2>1. CASE CreateVM(d) \/ DeleteVM(d)
      BY <2>1, CreateVMIInv, DeleteVMIInv
    <2>2. CASE JobSucceeds(d) \/ JobFails(d) \/ FillEnds(d)
      BY <2>2, JobSucceedsIInv, JobFailsIInv, FillEndsIInv
    <2>3. CASE Promote(d)
      BY <2>3, OnlyFill DEF Promote, history
    <2>4. CASE \E i \in DOMAIN fill[d].shares : OrderAgain(d, i) \/ VMDone(d, i)
      BY <2>4, OnlyFill DEF OrderAgain, VMDone, history
    <2>5. QED
      BY <1>6, <2>1, <2>2, <2>3, <2>4
  <1>7. CASE Restart
    BY <1>7, RestartIInv
  <1>8. QED
    BY <1>1, <1>2, <1>3, <1>4, <1>5, <1>6, <1>7 DEF Next

(* The inductive invariant holds in every reachable state. *)
THEOREM Inductive == Spec => []IInv
  <1>1. Init => IInv
    BY InitIInv
  <1>2. IInv /\ [Next]_vars => IInv'
    BY NextIInv
  <1>3. QED
    BY <1>1, <1>2, PTL DEF Spec

(* Tables are typed, stored specs are valid and foreign keys hold, though   *)
(* handlers check what they refer to long before they write.                *)
THEOREM TypeCorrect == Spec => []TypeOK
  <1>1. IInv => TypeOK
    <2> SUFFICES ASSUME IInv PROVE TypeOK
      OBVIOUS
    <2>1. connection \in [Connections -> States] /\ outdated \subseteq Deployments /\ detached \subseteq Deployments
      BY DEF IInv, Typed
    <2>2. ASSUME NEW p \in Profiles
          PROVE  /\ profile[p].status \in States
                 /\ Exists(p) <=> Current(p) > 0
                 /\ \A v \in 1 .. Current(p) : Valid(profile[p].versions[v])
      <3>1. profile[p].status \in States /\ profile[p].versions \in Seq(ValidSpecs) /\ ProfileOK(p)
        BY DEF IInv, Typed
      <3>2. \A v \in 1 .. Current(p) : profile[p].versions[v] \in ValidSpecs
        BY <3>1 DEF Current
      <3>3. QED
        BY <3>1, <3>2, Fields DEF ProfileOK
    <2>3. ASSUME NEW d \in Deployments, HasRow(d)
          PROVE  /\ deployment[d].status \in Statuses \ {"none"}
                 /\ Valid(deployment[d].spec)
                 /\ connection[deployment[d].connection] = "live"
                 /\ deployment[d].profile # None => Exists(deployment[d].profile)
      <3>1. RowOK(d) /\ deployment[d].status \in Statuses
        BY DEF IInv, DeploymentOK, Typed, RowType
      <3>2. QED
        BY <2>3, <3>1, Fields DEF RowOK, HasRow
    <2>4. \A d \in Deployments : job[d].type \in JobTypes
      BY DEF IInv, Typed
    <2>5. QED
      BY <2>1, <2>2, <2>3, <2>4 DEF TypeOK, States, Statuses, JobTypes
  <1>2. QED
    BY <1>1, Inductive, PTL

(* A deployment that was made from a profile version and not edited has its *)
(* spec, for any number of versions stored and profiles deleted meanwhile.  *)
THEOREM SpecIsOfItsVersion == Spec => []SpecOfItsVersion
  <1>1. IInv => SpecOfItsVersion
    BY DEF IInv, DeploymentOK, OfItsVersion, SpecOfItsVersion
  <1>2. QED
    BY <1>1, Inductive, PTL

(* Specs only grow, so that no fleet exceeds its spec, although jobs build  *)
(* by a spec read earlier: for any number of calls, jobs and restarts.      *)
THEOREM FleetStaysWithinSpec == Spec => []FleetWithinSpec
  <1>1. IInv => FleetWithinSpec
    BY DEF IInv, DeploymentOK, GrownOK, FleetWithinSpec
  <1>2. QED
    BY <1>1, Inductive, PTL

(* A profile in use is deleted only past the two races ActiveKeepsProfile   *)
(* names.                                                                   *)
THEOREM ActiveKeepsItsProfile == Spec => []ActiveKeepsProfile
  <1>1. IInv => ActiveKeepsProfile
    BY DEF IInv, DeploymentOK, Keeps, ActiveKeepsProfile
  <1>2. QED
    BY <1>1, Inductive, PTL
-----------------------------------------------------------------------------
(* Work orders *)

LEMMA Quotient ==
  ASSUME NEW x \in Nat, NEW n \in Nat \ {0}, NEW q, q = x \div n
  PROVE  q \in Nat /\ n * q <= x /\ (n <= x => q >= 1)
  OBVIOUS

LEMMA MinOfTwo ==
  ASSUME NEW a \in Nat, NEW b \in Nat
  PROVE  Min({a, b}) \in {a, b} /\ Min({a, b}) <= a /\ Min({a, b}) <= b
  <1>1. PICK m \in {a, b} : \A y \in {a, b} : m <= y
    <2>1. CASE a <= b
      BY <2>1
    <2>2. CASE b <= a
      BY <2>2
    <2>3. QED
      BY <2>1, <2>2
  <1>2. QED
    BY <1>1 DEF Min

LEMMA AtLeastOne ==
  ASSUME NEW a \in Nat \ {0}
  PROVE  Max({a, 1}) = a
  <1>1. a \in {a, 1} /\ \A y \in {a, 1} : a >= y
    OBVIOUS
  <1>2. \A x \in {a, 1} : (\A y \in {a, 1} : x >= y) => x = a
    OBVIOUS
  <1>3. QED
    BY <1>1, <1>2 DEF Max

(* How many VMs of a fill may write at once. *)
Writers(s) == IF s.parallel > 0 THEN s.parallel ELSE s.vms

(* With a rate cap, the shares of all VMs that may write at once stay below *)
(* it, and none is 0, which an agent takes for "no limit"                   *)
(* (orch/fill.go:435-449): for every valid spec, because the number of VMs  *)
(* is limited to less than the KB in a MB.                                  *)
THEOREM RateIsShared ==
  ASSUME NEW s \in SpecFields, Valid(s), s.rate > 0
  PROVE  PerVMRate(s) >= 1 /\ Writers(s) * PerVMRate(s) <= s.rate * KB
  <1>1. /\ s.vms \in Nat /\ s.parallel \in Nat /\ s.rate \in Nat
        /\ KB \in Nat /\ MaxVMs \in Nat /\ MaxVMs <= KB
    BY ConfigurationAssumption DEF SpecFields
  <1>2. s.vms >= 1 /\ s.vms <= MaxVMs /\ s.parallel <= s.vms
    BY <1>1 DEF Valid
  <1> DEFINE par == IF s.parallel > 0 THEN Min({s.parallel, s.vms}) ELSE s.vms
  <1>3. par = Writers(s) /\ Writers(s) \in Nat \ {0} /\ Writers(s) <= KB
    <2>1. s.parallel > 0 => Min({s.parallel, s.vms}) = s.parallel
      BY <1>1, <1>2, MinOfTwo
    <2>2. QED
      BY <1>1, <1>2, <2>1 DEF Writers
  <1>4. PerVMRate(s) = (s.rate * KB) \div Writers(s)
    <2>1. PerVMRate(s) = (s.rate * KB) \div Max({par, 1})
      BY <1>1 DEF PerVMRate
    <2> HIDE DEF par
    <2>2. QED
      BY <1>3, <2>1, AtLeastOne
  <1>5. s.rate * KB \in Nat /\ KB <= s.rate * KB
    BY <1>1
  <1>6. QED
    <2>1. PerVMRate(s) \in Nat /\ Writers(s) * PerVMRate(s) <= s.rate * KB
          /\ (Writers(s) <= s.rate * KB => PerVMRate(s) >= 1)
      BY <1>3, <1>4, <1>5, Quotient
    <2>2. Writers(s) <= s.rate * KB
      BY <1>1, <1>3, <1>5
    <2>3. QED
      BY <2>1, <2>2

-----------------------------------------------------------------------------
(* What a fill is assigned, and what its orders ask for *)

Shares == Seq(Nat)
FillType ==
  [total : Nat, pending : Nat, shares : Shares, written : SUBSET Nat, edited : BOOLEAN]

(* What one VM of the deployment writes, by the spec of the moment. *)
Today(d) == BytesPerVM(deployment[d].spec)

(* No order of a running fill asks for less than was assigned, and neither   *)
(* will the next one; if nothing was edited, both ask for just that.  When   *)
(* no fill runs, no VM is given an order.                                    *)
FillOK(d) ==
  IF job[d].type = "fill"
  THEN /\ d \notin outdated =>
            fill[d].total <= Today(d) /\ \A bytes \in fill[d].written : fill[d].total <= bytes
       /\ ~fill[d].edited => fill[d].total = Today(d) /\ fill[d].written \subseteq {fill[d].total}
  ELSE fill[d].pending = 0 /\ fill[d].shares = <<>>

(* The spec a fill is to be started with has only grown since it was read. *)
FillRequestOK(q) ==
  LET r == request[q] IN
  r.op = "fill" =>
    /\ r.spec \in ValidSpecs
    /\ r.d \notin outdated => BytesPerVM(r.spec) <= Today(r.d)

FillInv ==
  /\ fill \in [Deployments -> FillType]
  /\ \A d \in Deployments : FillOK(d)
  /\ \A q \in Requests : FillRequestOK(q)

LEMMA ProductGrows ==
  ASSUME NEW a \in Nat, NEW b \in Nat, NEW c \in Nat, NEW d \in Nat, a <= b, c <= d
  PROVE  a * c \in Nat /\ b * d \in Nat /\ a * c <= b * d
  <1>1. a * c <= b * c /\ a * c \in Nat /\ b * c \in Nat
    OBVIOUS
  <1>2. b * c <= b * d /\ b * d \in Nat
    OBVIOUS
  <1>3. QED
    BY <1>1, <1>2

(* A spec that does not shrink does not ask for less. *)
LEMMA BytesGrow ==
  ASSUME NEW old \in ValidSpecs, NEW new \in ValidSpecs
  PROVE  BytesPerVM(old) \in Nat /\ (~Shrinks(old, new) => BytesPerVM(old) <= BytesPerVM(new))
  <1>1. /\ old.disks \in Nat /\ old.data \in Nat /\ new.disks \in Nat /\ new.data \in Nat
        /\ GiB \in Nat
    BY ConfigurationAssumption, Fields DEF SpecFields
  <1>2. old.data * GiB \in Nat /\ new.data * GiB \in Nat /\ (old.data <= new.data => old.data * GiB <= new.data * GiB)
    BY <1>1, ProductGrows
  <1>3. BytesPerVM(old) \in Nat
    BY <1>1, <1>2, ProductGrows DEF BytesPerVM
  <1>4. ASSUME ~Shrinks(old, new) PROVE BytesPerVM(old) <= BytesPerVM(new)
    <2>1. old.disks <= new.disks /\ old.data <= new.data
      BY <1>1, <1>4 DEF Shrinks
    <2>2. QED
      BY <1>1, <1>2, <2>1, ProductGrows DEF BytesPerVM
  <1>5. QED
    BY <1>3, <1>4

(* An order asks for what the controller has estimated: the share all VMs    *)
(* have in common and the rest come to the payload of each disk.             *)
LEMMA OrderIsEstimate ==
  ASSUME NEW s \in ValidSpecs
  PROVE  BytesOf(BuildWorkOrder(s)) = BytesPerVM(s)
  <1> DEFINE data == s.data * GiB
             global == (data * s.dedupe) \div 100
  <1>1. data \in Nat /\ s.dedupe \in Nat
    BY ConfigurationAssumption, Fields DEF SpecFields
  <1>2. data * s.dedupe \in Nat
    <2> HIDE DEF data
    <2>1. QED
      BY <1>1
  <1>3. global \in Nat
    <2> HIDE DEF data
    <2>1. QED
      BY <1>2, Quotient
  <1>4. BytesOf(BuildWorkOrder(s)) = s.disks * (global + (data - global))
    BY DEF BytesOf, BuildWorkOrder, DiskWork
  <1> HIDE DEF data, global
  <1>5. global + (data - global) = data
    BY <1>1, <1>3
  <1>6. QED
    BY <1>4, <1>5 DEF BytesPerVM, data

LEMMA RateIsNat ==
  ASSUME NEW s \in ValidSpecs
  PROVE  PerVMRate(s) \in Nat
  <1>1. s.vms \in Nat /\ s.parallel \in Nat /\ s.rate \in Nat /\ KB \in Nat \ {0} /\ s.vms >= 1
    <2>1. s \in SpecFields /\ Valid(s)
      BY Fields
    <2>2. QED
      BY <2>1, ConfigurationAssumption DEF SpecFields, Valid
  <1> DEFINE par == IF s.parallel > 0 THEN Min({s.parallel, s.vms}) ELSE s.vms
  <1>2. par \in Nat \ {0}
    BY <1>1, MinOfTwo
  <1>3. PerVMRate(s) = IF s.rate = 0 THEN 0 ELSE (s.rate * KB) \div Max({par, 1})
    BY DEF PerVMRate
  <1> HIDE DEF par
  <1>4. Max({par, 1}) = par
    BY <1>2, AtLeastOne
  <1>5. s.rate * KB \in Nat
    BY <1>1
  <1>6. QED
    BY <1>2, <1>3, <1>4, <1>5, Quotient

LEMMA SharesKept ==
  ASSUME NEW s \in Shares, NEW x \in Nat, NEW i \in DOMAIN s
  PROVE  [s EXCEPT ![i] = x] \in Shares /\ RemoveAt(s, i) \in Shares
  <1>1. s \in Seq(Nat) /\ i \in 1 .. Len(s)
    BY DEF Shares
  <1>2. [s EXCEPT ![i] = x] \in Seq(Nat)
    BY <1>1
  <1>3. RemoveAt(s, i) \in Seq(Nat)
    <2>1. Len(s) \in Nat /\ \A j \in 1 .. Len(s) : s[j] \in Nat
      BY <1>1
    <2>2. \A j \in 1 .. i - 1 : s[j] \in Nat
      BY <1>1, <2>1
    <2>3. \A j \in i + 1 .. Len(s) : s[j] \in Nat
      BY <1>1, <2>1
    <2>4. SubSeq(s, 1, i - 1) \in Seq(Nat)
      BY <1>1, <2>1, <2>2, SubSeqProperties
    <2>5. SubSeq(s, i + 1, Len(s)) \in Seq(Nat)
      BY <1>1, <2>1, <2>3, SubSeqProperties
    <2>6. QED
      BY <2>4, <2>5, ConcatProperties DEF RemoveAt
  <1>4. QED
    BY <1>2, <1>3 DEF Shares

LEMMA InitFillInv == Init => FillInv
  <1> SUFFICES ASSUME Init PROVE FillInv
    OBVIOUS
  <1>1. NoFill \in FillType
    <2>1. <<>> \in Shares
      BY DEF Shares
    <2>2. QED
      BY <2>1 DEF NoFill, FillType
  <1>2. fill \in [Deployments -> FillType]
    BY <1>1 DEF Init
  <1>3. \A d \in Deployments : FillOK(d)
    BY DEF Init, FillOK, NoJob, NoFill
  <1>4. \A q \in Requests : FillRequestOK(q)
    BY DEF Init, FillRequestOK, NoRequest
  <1>5. QED
    BY <1>2, <1>3, <1>4 DEF FillInv

(* Steps of other jobs and handlers: the rows keep their specs, and the      *)
(* fills still to start what they have read.                                 *)
LEMMA FillKept ==
  ASSUME IInv, FillInv, UNCHANGED <<fill, outdated>>,
         \A d \in Deployments : job'[d].type = "fill" <=> job[d].type = "fill",
         \A d \in Deployments : HasRow(d) => deployment'[d].spec = deployment[d].spec,
         \A q \in Requests : request'[q].op = "fill" => request'[q] = request[q] \/ FillRequestOK(q)'
  PROVE  FillInv'
  <1>1. ASSUME NEW d \in Deployments PROVE FillOK(d)'
    <2>1. FillOK(d)
      BY DEF FillInv
    <2>2. GrownOK(d)
      BY DEF IInv, DeploymentOK
    <2>3. job[d].type = "fill" => Today(d)' = Today(d)
      BY <2>2 DEF GrownOK, Today
    <2>4. QED
      BY <2>1, <2>3 DEF FillOK
  <1>2. ASSUME NEW q \in Requests PROVE FillRequestOK(q)'
    <2>1. FillRequestOK(q) /\ RequestOK(q)
      BY DEF FillInv, IInv
    <2>2. CASE request'[q] = request[q] /\ request[q].op = "fill"
      <3>1. deployment'[request[q].d].spec = deployment[request[q].d].spec
        BY <2>1, <2>2 DEF RequestOK
      <3>2. QED
        BY <2>1, <2>2, <3>1 DEF FillRequestOK, Today
    <2>3. CASE request'[q].op # "fill"
      BY <2>3 DEF FillRequestOK
    <2>4. QED
      BY <2>2, <2>3
  <1>3. QED
    BY <1>1, <1>2 DEF FillInv

(* The row of a running job, and what it says a VM writes. *)
LEMMA FillRow ==
  ASSUME IInv, NEW d \in Deployments, HasRow(d) \/ job[d].type = "fill"
  PROVE  deployment[d].spec \in ValidSpecs /\ Today(d) \in Nat
  <1>1. RowOK(d) /\ GrownOK(d)
    BY DEF IInv, DeploymentOK
  <1>2. deployment[d].spec \in ValidSpecs
    BY <1>1 DEF RowOK, GrownOK
  <1>3. QED
    BY <1>2, BytesGrow DEF Today

(* The total goes by the spec the handler had read. *)
LEMMA StartFillFits ==
  ASSUME IInv, FillInv, NEW q \in Requests, StartFill(q)
  PROVE  FillInv'
  <1>1. PICK d \in Deployments : d = request[q].d
    BY DEF StartFill, Start, IInv, RequestOK
  <1>2. PICK s : s = request[q].spec
    OBVIOUS
  <1>3. /\ request[q].op = "fill" /\ Start(q, "fill") /\ UNCHANGED <<deployment, outdated>>
        /\ fill' = [fill EXCEPT ![d] =
             [total |-> BytesPerVM(s), pending |-> deployment[d].built, shares |-> <<>>, written |-> {},
              edited |-> s # deployment[d].spec]]
    BY <1>1, <1>2 DEF StartFill, Start, history
  <1>4. HasRow(d) /\ s \in ValidSpecs /\ (d \notin outdated => BytesPerVM(s) <= Today(d))
    <2>1. RequestOK(q) /\ FillRequestOK(q)
      BY DEF IInv, FillInv
    <2>2. HasRow(d)
      BY <1>1, <1>3, <2>1 DEF RequestOK
    <2>3. s \in ValidSpecs /\ (d \notin outdated => BytesPerVM(s) <= Today(d))
      BY <1>1, <1>2, <1>3, <2>1 DEF FillRequestOK
    <2>4. QED
      BY <2>2, <2>3
  <1>5. BytesPerVM(s) \in Nat /\ deployment[d].built \in Nat /\ <<>> \in Shares
    <2>1. BytesPerVM(s) \in Nat
      BY <1>4, BytesGrow
    <2>2. deployment[d].built \in Nat
      BY DEF IInv, Typed, RowType
    <2>3. QED
      BY <2>1, <2>2 DEF Shares
  <1>6. PICK new \in FillType : new = [total |-> BytesPerVM(s), pending |-> deployment[d].built,
                                       shares |-> <<>>, written |-> {}, edited |-> s # deployment[d].spec]
    <2>1. PICK edited \in BOOLEAN : edited = (s # deployment[d].spec)
      BY Zenon
    <2>2. PICK total \in Nat : total = BytesPerVM(s)
      BY <1>5
    <2>3. PICK built \in Nat : built = deployment[d].built
      BY <1>5
    <2>4. [total |-> total, pending |-> built, shares |-> <<>>, written |-> {}, edited |-> edited] \in FillType
      BY <1>5 DEF FillType
    <2>5. QED
      BY <2>1, <2>2, <2>3, <2>4
  <1>7. fill' = [fill EXCEPT ![d] = new] /\ fill \in [Deployments -> FillType]
    <2>1. fill \in [Deployments -> FillType]
      BY DEF FillInv
    <2>2. QED
      BY <1>3, <1>6, <2>1
  <1>8. /\ fill' \in [Deployments -> FillType] /\ fill'[d] = new
        /\ \A e \in Deployments : e # d => fill'[e] = fill[e]
    BY <1>7
  <1>9. /\ job'[d].type = "fill" /\ \A e \in Deployments : e # d => job'[e] = job[e]
        /\ \A p \in Requests : request'[p] = request[p] \/ request'[p] = NoRequest
    BY <1>1, <1>3, Started
  <1>10. FillOK(d)'
    <2>1. new.total = BytesPerVM(s) /\ new.written = {} /\ (~new.edited => s = deployment[d].spec)
      BY <1>6
    <2>2. Today(d)' = Today(d)
      BY <1>3 DEF Today
    <2>3. QED
      BY <1>3, <1>4, <1>8, <1>9, <2>1, <2>2 DEF FillOK, Today
  <1>11. ASSUME NEW e \in Deployments, e # d PROVE FillOK(e)'
    <2>1. FillOK(e)
      BY DEF FillInv
    <2>2. QED
      BY <1>3, <1>8, <1>9, <1>11, <2>1 DEF FillOK, Today
  <1>12. ASSUME NEW p \in Requests PROVE FillRequestOK(p)'
    <2>1. FillRequestOK(p)
      BY DEF FillInv
    <2>2. QED
      BY <1>3, <1>9, <2>1 DEF FillRequestOK, Today, NoRequest
  <1>13. QED
    BY <1>8, <1>10, <1>11, <1>12 DEF FillInv

(* An order goes by the spec of the moment, which has only grown. *)
LEMMA OrderFits ==
  ASSUME IInv, FillInv, NEW d \in Deployments, job[d].type = "fill", NEW new \in FillType,
         fill' = [fill EXCEPT ![d] = new], new.total = fill[d].total, new.edited = fill[d].edited,
         new.written = fill[d].written \cup {BytesOf(BuildWorkOrder(deployment[d].spec))}
                       \/ new.written = fill[d].written,
         UNCHANGED <<deployment, request, job, outdated>>
  PROVE  FillInv'
  <1>1. fill \in [Deployments -> FillType] /\ FillOK(d)
    BY DEF FillInv
  <1>2. /\ fill' \in [Deployments -> FillType] /\ fill'[d] = new
        /\ \A e \in Deployments : e # d => fill'[e] = fill[e]
    BY <1>1
  <1>3. Today(d)' = Today(d)
    BY DEF Today
  <1>4. FillOK(d)'
    <2>1. BytesOf(BuildWorkOrder(deployment[d].spec)) = Today(d)
      BY FillRow, OrderIsEstimate DEF Today
    <2>2. QED
      BY <1>1, <1>2, <1>3, <2>1 DEF FillOK
  <1>5. ASSUME NEW e \in Deployments, e # d PROVE FillOK(e)'
    <2>1. FillOK(e)
      BY DEF FillInv
    <2>2. QED
      BY <1>2, <1>5, <2>1 DEF FillOK, Today
  <1>6. ASSUME NEW q \in Requests PROVE FillRequestOK(q)'
    <2>1. FillRequestOK(q)
      BY DEF FillInv
    <2>2. QED
      BY <2>1 DEF FillRequestOK, Today
  <1>7. QED
    BY <1>2, <1>4, <1>5, <1>6 DEF FillInv

(* A VM gets an order, another one, or is done. *)
LEMMA OrderSteps ==
  ASSUME IInv, FillInv, NEW d \in Deployments,
         Promote(d) \/ \E i \in DOMAIN fill[d].shares : OrderAgain(d, i) \/ VMDone(d, i)
  PROVE  FillInv'
  <1>1. /\ fill \in [Deployments -> FillType] /\ fill[d] \in FillType
        /\ fill[d].pending \in Nat /\ fill[d].shares \in Shares /\ fill[d].written \subseteq Nat
    BY DEF FillInv, FillType
  <1>2. job[d].type = "fill"
    <2>1. FillOK(d)
      BY DEF FillInv
    <2>2. fill[d].pending > 0 \/ fill[d].shares # <<>>
      BY DEF Promote
    <2>3. QED
      BY <1>1, <2>1, <2>2 DEF FillOK
  <1>3. UNCHANGED <<deployment, request, job, outdated>>
    BY DEF Promote, OrderAgain, VMDone, history
  <1>4. PICK spec \in ValidSpecs : spec = deployment[d].spec
    BY <1>2, FillRow
  <1>5. PICK rate \in Nat : rate = PerVMRate(spec)
    BY RateIsNat
  <1>6. PICK bytes \in Nat : bytes = BytesOf(BuildWorkOrder(spec))
    BY OrderIsEstimate, BytesGrow
  <1>7. CASE Promote(d)
    <2> DEFINE new == [fill[d] EXCEPT !.pending = @ - 1, !.shares = Append(@, rate),
                                      !.written = @ \cup {bytes}]
    <2>1. Append(fill[d].shares, rate) \in Shares /\ fill[d].pending - 1 \in Nat
      BY <1>1, <1>7 DEF Shares, Promote
    <2>2. new \in FillType /\ new.total = fill[d].total /\ new.edited = fill[d].edited
          /\ new.written = fill[d].written \cup {bytes}
      BY <1>1, <2>1 DEF FillType
    <2>3. fill' = [fill EXCEPT ![d] = new]
      BY <1>1, <1>4, <1>5, <1>6, <1>7 DEF Promote
    <2>4. QED
      BY <1>2, <1>3, <1>4, <1>6, <2>2, <2>3, OrderFits
  <1>8. CASE \E i \in DOMAIN fill[d].shares : OrderAgain(d, i)
    <2>1. PICK i \in DOMAIN fill[d].shares : OrderAgain(d, i)
      BY <1>8
    <2> DEFINE shares == [fill[d].shares EXCEPT ![i] = rate]
               new == [fill[d] EXCEPT !.shares = shares, !.written = @ \cup {bytes}]
    <2>2. shares \in Shares
      BY <1>1, <2>1, SharesKept
    <2>3. new \in FillType /\ new.total = fill[d].total /\ new.edited = fill[d].edited
          /\ new.written = fill[d].written \cup {bytes}
      BY <1>1, <2>2 DEF FillType
    <2>4. fill' = [fill EXCEPT ![d] = new]
      <3>1. fill' = [fill EXCEPT ![d].shares[i] = rate, ![d].written = @ \cup {bytes}]
        BY <1>4, <1>5, <1>6, <2>1 DEF OrderAgain
      <3>2. QED
        BY <1>1, <3>1
    <2>5. QED
      BY <1>2, <1>3, <1>4, <1>6, <2>3, <2>4, OrderFits
  <1>9. CASE \E i \in DOMAIN fill[d].shares : VMDone(d, i)
    <2>1. PICK i \in DOMAIN fill[d].shares : VMDone(d, i)
      BY <1>9
    <2> DEFINE new == [fill[d] EXCEPT !.shares = RemoveAt(@, i)]
    <2>2. RemoveAt(fill[d].shares, i) \in Shares
      BY <1>1, <2>1, SharesKept
    <2>3. new \in FillType /\ new.total = fill[d].total /\ new.edited = fill[d].edited
          /\ new.written = fill[d].written
      BY <1>1, <2>2 DEF FillType
    <2>4. fill' = [fill EXCEPT ![d] = new]
      BY <1>1, <2>1 DEF VMDone
    <2>5. QED
      BY <1>2, <1>3, <2>3, <2>4, OrderFits
  <1>10. QED
    BY <1>7, <1>8, <1>9

LEMMA FillEndsFits ==
  ASSUME IInv, FillInv, NEW d \in Deployments, FillEnds(d)
  PROVE  FillInv'
  <1>1. /\ job' = [job EXCEPT ![d] = NoJob] /\ fill' = [fill EXCEPT ![d] = NoFill]
        /\ UNCHANGED <<deployment, request, outdated>>
    BY DEF FillEnds, history
  <1>2. NoFill \in FillType /\ fill \in [Deployments -> FillType] /\ DOMAIN job = Deployments
    <2>1. <<>> \in Shares
      BY DEF Shares
    <2>2. NoFill \in FillType
      BY <2>1 DEF NoFill, FillType
    <2>3. QED
      BY <2>2 DEF FillInv, IInv, Typed
  <1>3. /\ fill' \in [Deployments -> FillType] /\ fill'[d] = NoFill /\ job'[d] = NoJob
        /\ \A e \in Deployments : e # d => fill'[e] = fill[e] /\ job'[e] = job[e]
    BY <1>1, <1>2
  <1>4. FillOK(d)'
    BY <1>3 DEF FillOK, NoFill, NoJob
  <1>5. ASSUME NEW e \in Deployments, e # d PROVE FillOK(e)'
    <2>1. FillOK(e)
      BY DEF FillInv
    <2>2. QED
      BY <1>1, <1>3, <1>5, <2>1 DEF FillOK, Today
  <1>6. ASSUME NEW q \in Requests PROVE FillRequestOK(q)'
    <2>1. FillRequestOK(q)
      BY DEF FillInv
    <2>2. QED
      BY <1>1, <2>1 DEF FillRequestOK, Today
  <1>7. QED
    BY <1>3, <1>4, <1>5, <1>6 DEF FillInv

(* An edit that replaces the spec it was checked against does not shrink it. *)
LEMMA EditFits ==
  ASSUME IInv, FillInv, NEW q \in Requests, UpdateDeploymentSpec(q)
  PROVE  FillInv'
  <1>1. PICK d \in Deployments : d = request[q].d
    BY DEF UpdateDeploymentSpec, IInv, RequestOK
  <1>2. PICK s \in ValidSpecs : s = request[q].spec
    BY DEF UpdateDeploymentSpec, IInv, RequestOK
  <1>3. /\ deployment' = [deployment EXCEPT ![d].spec = s, ![d].own = TRUE]
        /\ outdated' = IF deployment[d].spec = request[q].seen THEN outdated ELSE outdated \cup {d}
        /\ fill' = [fill EXCEPT ![d].edited = @ \/ s # deployment[d].spec]
        /\ request[q].op = "edit" /\ Answer(q) /\ UNCHANGED job
    BY <1>1, <1>2 DEF UpdateDeploymentSpec
  <1>4. HasRow(d) /\ ~Shrinks(request[q].seen, s)
    <2>1. RequestOK(q)
      BY DEF IInv
    <2>2. QED
      BY <1>1, <1>2, <1>3, <2>1 DEF RequestOK
  <1>5. PICK old \in ValidSpecs : old = deployment[d].spec
    BY <1>4, FillRow
  <1>6. deployment \in [Deployments -> RowType] /\ deployment[d] \in RowType
    BY DEF IInv, Typed
  <1>7. deployment'[d].spec = s /\ \A e \in Deployments : e # d => deployment'[e] = deployment[e]
    BY <1>3, <1>6 DEF RowType
  <1>8. /\ Today(d) = BytesPerVM(old) /\ Today(d)' = BytesPerVM(s)
        /\ BytesPerVM(old) \in Nat /\ BytesPerVM(s) \in Nat
        /\ d \notin outdated' => d \notin outdated /\ BytesPerVM(old) <= BytesPerVM(s)
    <2>1. Today(d) = BytesPerVM(old) /\ Today(d)' = BytesPerVM(s)
      BY <1>5, <1>7 DEF Today
    <2>2. BytesPerVM(old) \in Nat /\ BytesPerVM(s) \in Nat
      BY BytesGrow
    <2>3. ASSUME d \notin outdated' PROVE d \notin outdated /\ BytesPerVM(old) <= BytesPerVM(s)
      <3>1. d \notin outdated /\ old = request[q].seen
        BY <1>3, <1>5, <2>3
      <3>2. QED
        BY <1>4, <3>1, BytesGrow
    <2>4. QED
      BY <2>1, <2>2, <2>3
  <1>9. \A e \in Deployments : e # d => (e \in outdated' <=> e \in outdated)
    BY <1>3
  <1>10. /\ fill \in [Deployments -> FillType] /\ fill[d] \in FillType
         /\ fill[d].total \in Nat /\ fill[d].written \subseteq Nat /\ fill[d].edited \in BOOLEAN
    BY DEF FillInv, FillType
  <1>11. PICK edited \in BOOLEAN : edited = (fill[d].edited \/ s # old)
    BY Zenon
  <1> DEFINE new == [fill[d] EXCEPT !.edited = edited]
  <1>12. /\ new \in FillType /\ new.total = fill[d].total /\ new.written = fill[d].written
         /\ new.pending = fill[d].pending /\ new.shares = fill[d].shares /\ new.edited = edited
    BY <1>10 DEF FillType
  <1>13. fill' = [fill EXCEPT ![d] = new]
    <2>1. fill' = [fill EXCEPT ![d].edited = edited]
      BY <1>3, <1>5, <1>11
    <2>2. QED
      BY <1>10, <2>1
  <1> HIDE DEF new
  <1>14. /\ fill' \in [Deployments -> FillType] /\ fill'[d] = new
         /\ \A e \in Deployments : e # d => fill'[e] = fill[e]
    BY <1>10, <1>12, <1>13
  <1>15. FillOK(d)'
    <2>1. FillOK(d)
      BY DEF FillInv
    <2>2. CASE job[d].type = "fill"
      <3>1. ASSUME d \notin outdated'
            PROVE  new.total <= BytesPerVM(s) /\ \A bytes \in new.written : new.total <= bytes
        <4>1. fill[d].total <= BytesPerVM(old) /\ \A bytes \in fill[d].written : fill[d].total <= bytes
          BY <1>8, <2>1, <2>2, <3>1 DEF FillOK
        <4>2. QED
          BY <1>8, <1>10, <1>12, <3>1, <4>1
      <3>2. ASSUME ~edited PROVE new.total = BytesPerVM(s) /\ new.written \subseteq {new.total}
        <4>1. ~fill[d].edited /\ s = old
          BY <1>11, <3>2, Zenon
        <4>2. QED
          BY <1>8, <1>12, <2>1, <2>2, <4>1 DEF FillOK
      <3>3. job'[d].type = "fill"
        BY <1>3, <2>2
      <3>4. QED
        BY <1>8, <1>12, <1>14, <3>1, <3>2, <3>3 DEF FillOK
    <2>3. CASE job[d].type # "fill"
      BY <1>3, <1>12, <1>14, <2>1, <2>3 DEF FillOK
    <2>4. QED
      BY <2>2, <2>3
  <1>16. ASSUME NEW e \in Deployments, e # d PROVE FillOK(e)'
    <2>1. FillOK(e)
      BY DEF FillInv
    <2>2. QED
      BY <1>3, <1>7, <1>9, <1>14, <1>16, <2>1 DEF FillOK, Today
  <1>17. ASSUME NEW p \in Requests PROVE FillRequestOK(p)'
    <2>1. CASE request'[p] = NoRequest
      BY <2>1 DEF FillRequestOK, NoRequest
    <2>2. CASE request'[p] = request[p] /\ request[p].op = "fill"
      <3>1. FillRequestOK(p) /\ RequestOK(p)
        BY DEF FillInv, IInv
      <3>2. PICK e \in Deployments : e = request[p].d
        BY <2>2, <3>1 DEF RequestOK
      <3>3. PICK read \in ValidSpecs : read = request[p].spec
        BY <2>2, <3>1 DEF FillRequestOK
      <3>4. e \notin outdated => BytesPerVM(read) <= Today(e)
        BY <2>2, <3>1, <3>2, <3>3 DEF FillRequestOK
      <3>5. e \notin outdated' => BytesPerVM(read) <= Today(e)'
        <4>1. CASE e = d
          <5>1. BytesPerVM(read) \in Nat
            BY BytesGrow
          <5>2. QED
            BY <1>8, <3>4, <4>1, <5>1
        <4>2. CASE e # d
          <5>1. Today(e)' = Today(e)
            BY <1>7, <4>2 DEF Today
          <5>2. QED
            BY <1>9, <3>4, <4>2, <5>1
        <4>3. QED
          BY <4>1, <4>2
      <3>6. QED
        BY <2>2, <3>2, <3>3, <3>5 DEF FillRequestOK, Today
    <2>3. CASE request'[p] = request[p] /\ request[p].op # "fill"
      BY <2>3 DEF FillRequestOK
    <2>4. QED
      BY <1>3, <2>1, <2>2, <2>3, AnswerTyped
  <1>18. QED
    BY <1>14, <1>15, <1>16, <1>17 DEF FillInv

(* A handler that is to start a fill reads the spec of the moment. *)
LEMMA ReadForJobFits ==
  ASSUME IInv, FillInv, NEW q \in Requests, NEW d \in Deployments,
         NEW op \in {"deploy", "teardown", "fill"}, ReadForJob(q, d, op)
  PROVE  FillInv'
  <1> DEFINE kind == IF op = "teardown" /\ deployment[d].built = 0 THEN "deleteEmpty" ELSE op
             r == [NoRequest EXCEPT !.d = d, !.spec = deployment[d].spec, !.op = kind]
  <1>1. /\ UNCHANGED <<deployment, job, fill, outdated>>
        /\ Call(q, r) /\ Accepts(op, deployment[d].status)
    BY DEF ReadForJob, history
  <1>2. HasRow(d)
    BY <1>1 DEF Accepts, HasRow
  <1>3. r.d = d /\ r.spec = deployment[d].spec
    BY DEF NoRequest
  <1> HIDE DEF r
  <1>4. request'[q] = r /\ \A p \in Requests : p # q => request'[p] = request[p]
    BY <1>1 DEF Call, IInv, Typed
  <1>5. FillRequestOK(q)'
    <2>1. deployment[d].spec \in ValidSpecs /\ Today(d) \in Nat
      BY <1>2, FillRow
    <2>2. Today(d)' = BytesPerVM(deployment[d].spec)
      BY <1>1 DEF Today
    <2>3. BytesPerVM(deployment[d].spec) <= Today(d)'
      BY <2>1, <2>2 DEF Today
    <2>4. QED
      BY <1>1, <1>3, <1>4, <2>1, <2>3 DEF FillRequestOK, Today
  <1>6. QED
    BY <1>1, <1>4, <1>5, FillKept

(* The calls of the other handlers start no fill. *)
LEMMA Asked ==
  ASSUME IInv, NEW q \in Requests, NEW r, r.op # "fill", Call(q, r)
  PROVE  \A p \in Requests : request'[p].op = "fill" => request'[p] = request[p]
  BY DEF IInv, Typed, Call

LEMMA AnsweredOthers ==
  ASSUME IInv, NEW q \in Requests, Answer(q)
  PROVE  \A p \in Requests : request'[p].op = "fill" => request'[p] = request[p]
  BY Asked DEF Answer, NoRequest

LEMMA CallFits ==
  ASSUME IInv, FillInv, NEW q \in Requests, NEW r, r.op # "fill", Call(q, r),
         UNCHANGED <<deployment, job, fill, outdated>>
  PROVE  FillInv'
  BY Asked, FillKept

(* Handlers that read *)
LEMMA CountProfileUsesFits ==
  ASSUME IInv, FillInv, NEW q \in Requests, CountProfileUses(q)
  PROVE  FillInv'
  <1>1. PICK p \in Profiles :
          Call(q, [NoRequest EXCEPT !.op = "deleteProfile", !.p = p, !.seen = {d \in Deployments : HasRow(d)}])
    BY DEF CountProfileUses
  <1> DEFINE r == [NoRequest EXCEPT !.op = "deleteProfile", !.p = p, !.seen = {d \in Deployments : HasRow(d)}]
  <1>2. r.op = "deleteProfile"
    BY DEF NoRequest
  <1>3. UNCHANGED <<deployment, job, fill, outdated>>
    BY DEF CountProfileUses, history
  <1>4. QED
    BY <1>1, <1>2, <1>3, CallFits

LEMMA CountConnectionUsesFits ==
  ASSUME IInv, FillInv, NEW q \in Requests, CountConnectionUses(q)
  PROVE  FillInv'
  <1>1. PICK c \in Connections :
          Call(q, [NoRequest EXCEPT !.op = "deleteConnection", !.c = c])
    BY DEF CountConnectionUses
  <1> DEFINE r == [NoRequest EXCEPT !.op = "deleteConnection", !.c = c]
  <1>2. r.op = "deleteConnection"
    BY DEF NoRequest
  <1>3. UNCHANGED <<deployment, job, fill, outdated>>
    BY DEF CountConnectionUses, history
  <1>4. QED
    BY <1>1, <1>2, <1>3, CallFits

LEMMA ResolveProfileFits ==
  ASSUME IInv, FillInv, NEW q \in Requests, ResolveProfile(q)
  PROVE  FillInv'
  <1>1. PICK c \in Connections, p \in Profiles, version \in 0 .. MaxVersions, spec \in Specs \cup {None} :
          Call(q, [NoRequest EXCEPT !.op = IF spec = None THEN "resolve" ELSE "insert",
                                    !.c = c, !.p = p, !.spec = spec, !.seen = spec,
                                    !.version = IF version = 0 THEN Current(p) ELSE version])
    BY DEF ResolveProfile
  <1> DEFINE r == [NoRequest EXCEPT !.op = IF spec = None THEN "resolve" ELSE "insert",
                                    !.c = c, !.p = p, !.spec = spec, !.seen = spec,
                                    !.version = IF version = 0 THEN Current(p) ELSE version]
  <1>2. r.op = (IF spec = None THEN "resolve" ELSE "insert")
    BY DEF NoRequest
  <1>3. UNCHANGED <<deployment, job, fill, outdated>>
    BY DEF ResolveProfile, history
  <1>4. Call(q, r) /\ r.op # "fill"
    BY <1>1, <1>2
  <1> HIDE DEF r
  <1>5. QED
    BY <1>3, <1>4, CallFits

LEMMA ResolveSpecFits ==
  ASSUME IInv, FillInv, NEW q \in Requests, ResolveSpec(q)
  PROVE  FillInv'
  <1> DEFINE r == [request[q] EXCEPT !.op = "insert", !.spec = Snapshot(request[q].p, request[q].version)]
  <1>1. r.op = "insert" /\ NoRequest.op = "none"
    <2>1. request[q] \in RequestType
      BY DEF IInv, Typed
    <2>2. QED
      BY <2>1 DEF RequestType, NoRequest
  <1>2. UNCHANGED <<deployment, job, fill, outdated>>
    BY DEF ResolveSpec, history
  <1>3. Call(q, r) \/ Call(q, NoRequest)
    BY DEF ResolveSpec, Answer
  <1> HIDE DEF r
  <1>4. QED
    BY <1>1, <1>2, <1>3, CallFits

LEMMA CheckSpecFits ==
  ASSUME IInv, FillInv, NEW q \in Requests, NEW d \in Deployments, CheckSpec(q, d)
  PROVE  FillInv'
  <1>1. PICK s \in Specs :
          Call(q, [NoRequest EXCEPT !.op = "edit", !.d = d, !.spec = s, !.seen = deployment[d].spec])
    BY DEF CheckSpec
  <1> DEFINE r == [NoRequest EXCEPT !.op = "edit", !.d = d, !.spec = s, !.seen = deployment[d].spec]
  <1>2. r.op = "edit"
    BY DEF NoRequest
  <1>3. UNCHANGED <<deployment, job, fill, outdated>>
    BY DEF CheckSpec, history
  <1>4. QED
    BY <1>1, <1>2, <1>3, CallFits

(* Handlers that end without a job. *)
LEMMA AnswersFit ==
  ASSUME IInv, FillInv, NEW q \in Requests, DeleteProfile(q) \/ DeleteConnection(q) \/ Refused(q)
  PROVE  FillInv'
  <1>1. Answer(q) /\ UNCHANGED <<job, fill, outdated>>
    BY DEF DeleteProfile, DeleteConnection, Refused, history
  <1>2. ASSUME NEW d \in Deployments PROVE deployment'[d].spec = deployment[d].spec
    <2>1. deployment[d] \in RowType
      BY DEF IInv, Typed
    <2>2. deployment'[d] = deployment[d] \/ deployment'[d] = [deployment[d] EXCEPT !.profile = None]
      <3>1. CASE DeleteProfile(q)
        BY <3>1 DEF DeleteProfile
      <3>2. CASE DeleteConnection(q) \/ Refused(q)
        BY <3>2 DEF DeleteConnection, Refused
      <3>3. QED
        BY <3>1, <3>2
    <2>3. QED
      BY <2>1, <2>2 DEF RowType
  <1>3. \A p \in Requests : request'[p].op = "fill" => request'[p] = request[p]
    BY <1>1, AnsweredOthers
  <1>4. QED
    BY <1>1, <1>2, <1>3, FillKept

(* A row is inserted where there was none. *)
LEMMA CreateDeploymentFits ==
  ASSUME IInv, FillInv, NEW q \in Requests, NEW d \in Deployments, CreateDeployment(q, d)
  PROVE  FillInv'
  <1>1. Answer(q) /\ UNCHANGED <<job, fill, outdated>> /\ ~HasRow(d)
    BY DEF CreateDeployment, history, HasRow
  <1>2. \A e \in Deployments : e # d => deployment'[e] = deployment[e]
    BY DEF CreateDeployment, IInv, Typed
  <1>3. \A p \in Requests : request'[p].op = "fill" => request'[p] = request[p]
    BY <1>1, AnsweredOthers
  <1>4. QED
    BY <1>1, <1>2, <1>3, FillKept

(* The other jobs start, go on and end: none of them touches a spec. *)
LEMMA StartsFit ==
  ASSUME IInv, FillInv, NEW q \in Requests, StartDeploy(q) \/ StartTeardown(q)
  PROVE  FillInv'
  <1>1. PICK d \in Deployments : d = request[q].d
    BY DEF StartDeploy, StartTeardown, Start, IInv, RequestOK
  <1>2. PICK type \in {"deploy", "teardown"} : Start(q, type)
    BY DEF StartDeploy, StartTeardown
  <1>3. PICK s \in {"deploying", "deleting"} : SetStatus(d, s)
    BY <1>1 DEF StartDeploy, StartTeardown
  <1>4. UNCHANGED <<fill, outdated>>
    BY DEF StartDeploy, StartTeardown
  <1>5. /\ HasRow(d) /\ job'[d].type = type /\ \A e \in Deployments : e # d => job'[e] = job[e]
        /\ \A p \in Requests : request'[p] = request[p] \/ request'[p] = NoRequest
    BY <1>1, <1>2, Started
  <1>6. job[d].type = "none"
    BY <1>1, <1>2 DEF Start, NoJob
  <1>7. s \in Statuses \ {"none"}
    BY DEF Statuses
  <1>8. \A e \in Deployments : deployment'[e].spec = deployment[e].spec
    BY <1>3, <1>5, <1>7, StatusSet DEF SameRow
  <1>9. \A p \in Requests : request'[p].op = "fill" => request'[p] = request[p]
    BY <1>5 DEF NoRequest
  <1>10. QED
    BY <1>4, <1>5, <1>6, <1>8, <1>9, FillKept

LEMMA TeardownEmptyFits ==
  ASSUME IInv, FillInv, NEW q \in Requests, TeardownEmpty(q)
  PROVE  FillInv'
  <1>1. Answer(q) /\ UNCHANGED <<job, fill, outdated>>
    BY DEF TeardownEmpty, history
  <1>2. ASSUME NEW d \in Deployments PROVE deployment'[d].spec = deployment[d].spec
    <2>1. deployment[d] \in RowType
      BY DEF IInv, Typed
    <2>2. deployment'[d] = deployment[d] \/ deployment'[d] = [deployment[d] EXCEPT !.status = "deleted"]
      BY DEF TeardownEmpty, IInv, Typed
    <2>3. QED
      BY <2>1, <2>2 DEF RowType
  <1>3. \A p \in Requests : request'[p].op = "fill" => request'[p] = request[p]
    BY <1>1, AnsweredOthers
  <1>4. QED
    BY <1>1, <1>2, <1>3, FillKept

LEMMA JobStepsFit ==
  ASSUME IInv, FillInv, NEW d \in Deployments,
         CreateVM(d) \/ DeleteVM(d) \/ JobSucceeds(d) \/ JobFails(d)
  PROVE  FillInv'
  <1>1. UNCHANGED <<request, fill, outdated>> /\ job[d].type \in {"deploy", "teardown"}
    BY DEF CreateVM, DeleteVM, JobSucceeds, JobFails, history
  <1>2. ASSUME NEW e \in Deployments PROVE deployment'[e].spec = deployment[e].spec
    <2>1. deployment[e] \in RowType /\ deployment \in [Deployments -> RowType]
      BY DEF IInv, Typed
    <2>2. \/ deployment'[e] = deployment[e]
          \/ \E n : deployment'[e] = [deployment[e] EXCEPT !.built = n]
          \/ \E s : deployment'[e] = [deployment[e] EXCEPT !.status = s]
      <3>1. CASE CreateVM(d) \/ DeleteVM(d)
        BY <2>1, <3>1 DEF CreateVM, DeleteVM
      <3>2. ASSUME NEW s, SetStatus(d, s)
            PROVE  \/ deployment'[e] = deployment[e]
                   \/ deployment'[e] = [deployment[e] EXCEPT !.status = s]
        BY <2>1, <3>2 DEF SetStatus
      <3>3. CASE JobSucceeds(d) \/ JobFails(d)
        <4>1. PICK s \in {"ready", "deleted", "error"} : SetStatus(d, s)
          BY <3>3 DEF JobSucceeds, JobFails
        <4>2. QED
          BY <3>2, <4>1
      <3>4. QED
        BY <3>1, <3>3
    <2>3. QED
      BY <2>1, <2>2 DEF RowType
  <1>3. \A e \in Deployments : job'[e].type = "fill" <=> job[e].type = "fill"
    <2>1. CASE UNCHANGED job
      BY <2>1
    <2>2. CASE job' = [job EXCEPT ![d] = NoJob]
      BY <1>1, <2>2 DEF IInv, Typed, NoJob
    <2>3. QED
      BY <2>1, <2>2 DEF CreateVM, DeleteVM, JobSucceeds, JobFails
  <1>4. QED
    BY <1>1, <1>2, <1>3, FillKept

(* A job goes on as what it was. *)
LEMMA RestartFits ==
  ASSUME IInv, FillInv, Restart
  PROVE  FillInv'
  <1>1. /\ request' = [q \in Requests |-> NoRequest]
        /\ job' = [d \in Deployments |-> IF job[d] = NoJob THEN NoJob
                                         ELSE [job[d] EXCEPT !.spec = deployment[d].spec]]
        /\ UNCHANGED <<deployment, fill, outdated>>
    BY DEF Restart, history
  <1>2. ASSUME NEW d \in Deployments PROVE job'[d].type = job[d].type
    <2>1. job[d] \in [type : JobTypes, spec : ValidSpecs \cup {None}]
      BY DEF IInv, Typed
    <2>2. job'[d] = job[d] \/ job'[d] = [job[d] EXCEPT !.spec = deployment[d].spec]
      BY <1>1
    <2>3. QED
      BY <2>1, <2>2
  <1>3. \A q \in Requests : request'[q].op # "fill"
    BY <1>1 DEF NoRequest
  <1>4. QED
    BY <1>1, <1>2, <1>3, FillKept

LEMMA NextFillInv == IInv /\ FillInv /\ [Next]_vars => FillInv'
  <1> SUFFICES ASSUME IInv, FillInv, [Next]_vars PROVE FillInv'
    OBVIOUS
  <1>1. CASE UNCHANGED vars
    BY <1>1, FillKept DEF vars, history
  <1>2. CASE \/ \E c \in Connections : CreateConnection(c)
             \/ \E p \in Profiles, s \in Specs : CreateProfile(p, s) \/ UpdateProfileSpec(p, s)
    BY <1>2, FillKept DEF CreateConnection, CreateProfile, UpdateProfileSpec, history
  <1>3. ASSUME NEW q \in Requests,
               \/ CountProfileUses(q) \/ DeleteProfile(q)
               \/ CountConnectionUses(q) \/ DeleteConnection(q)
               \/ ResolveProfile(q) \/ ResolveSpec(q)
               \/ UpdateDeploymentSpec(q)
               \/ StartDeploy(q) \/ TeardownEmpty(q) \/ StartTeardown(q) \/ StartFill(q) \/ Refused(q)
        PROVE  FillInv'
    BY <1>3, CountProfileUsesFits, CountConnectionUsesFits, ResolveProfileFits, ResolveSpecFits,
       AnswersFit, EditFits, StartsFit, TeardownEmptyFits, StartFillFits
  <1>4. ASSUME NEW q \in Requests, NEW d \in Deployments,
               \/ CreateDeployment(q, d) \/ CheckSpec(q, d)
               \/ \E op \in {"deploy", "teardown", "fill"} : ReadForJob(q, d, op)
        PROVE  FillInv'
    BY <1>4, CreateDeploymentFits, CheckSpecFits, ReadForJobFits
  <1>5. ASSUME NEW d \in Deployments,
               \/ CreateVM(d) \/ DeleteVM(d) \/ JobSucceeds(d) \/ JobFails(d) \/ FillEnds(d) \/ Promote(d)
               \/ \E i \in DOMAIN fill[d].shares : OrderAgain(d, i) \/ VMDone(d, i)
        PROVE  FillInv'
    BY <1>5, JobStepsFit, FillEndsFits, OrderSteps
  <1>6. CASE Restart
    BY <1>6, RestartFits
  <1>7. QED
    BY <1>1, <1>2, <1>3, <1>4, <1>5, <1>6 DEF Next

(* No order of a fill asks for less than its VM was assigned, however often *)
(* the spec is edited between the handler that read it, the start of the    *)
(* job and the order, unless two edits overlapped; and as long as nothing   *)
(* was edited, every order asks for exactly that: for any specs, VMs,       *)
(* callers and restarts.                                                    *)
THEOREM OrdersMeetTheEstimate == Spec => []OrdersMeetEstimate
  <1>1. Init => FillInv
    BY InitFillInv
  <1>2. IInv /\ FillInv /\ [Next]_vars => FillInv'
    BY NextFillInv
  <1>3. FillInv => OrdersMeetEstimate
    BY DEF FillInv, FillOK, OrdersMeetEstimate
  <1>4. QED
    BY <1>1, <1>2, <1>3, Inductive, PTL DEF Spec
=============================================================================
