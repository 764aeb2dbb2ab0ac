------------------------------ MODULE Scheduler ------------------------------
(***************************************************************************)
(* The schedules of one deployment: the tick loop that fires due rows      *)
(* (internal/sched), the API that edits them (internal/api/schedules.go)   *)
(* and the rows themselves (internal/store/schedules.go), while the        *)
(* deployment is busy with other jobs, is torn down, and the controller    *)
(* dies between any two writes.                                            *)
(*                                                                         *)
(* Time is a small clock: a day has DayLen units, and the loop may tick    *)
(* any number of times in each.  All wall-clock times are UTC.             *)
(***************************************************************************)
EXTENDS Naturals, Sequences, FiniteSets, FiniteSetsExt, SequencesExt

CONSTANTS
  Schedules,    \* identifiers of schedules; none is used twice
  Actions,      \* what they kick off: some of "fill", "power", "teardown"
  Intervals,    \* intervals of "every" definitions
  Hours,        \* times of day of "daily" definitions
  DaySets,      \* weekday filters of "daily" definitions; {} allows every day
  Times,        \* fire times of "once" definitions
  DayLen,       \* units of time in a day
  Grace,        \* busyGrace
  MaxTime,      \* bound on the clock
  MaxEdits,     \* bound on API calls
  MaxJobs,      \* bound on jobs the schedules did not start
  MaxRestarts,  \* bound on controller restarts
  MaxFaults     \* bound on failing database reads

ASSUME SchedulerAssumption ==
  /\ IsFiniteSet(Schedules)
  /\ Actions \subseteq {"fill", "power", "teardown"}
  /\ Intervals \cup Times \cup {DayLen, Grace} \subseteq Nat \ {0}
  /\ Hours \subseteq 0 .. DayLen - 1
  /\ DaySets \subseteq SUBSET (0 .. 6)
  /\ {MaxTime, MaxEdits, MaxJobs, MaxRestarts, MaxFaults} \subseteq Nat

Definition(kind, at, days) == [kind |-> kind, at |-> at, days |-> days]
Definitions ==
  {Definition("every", i, {}) : i \in Intervals}
    \cup {Definition("daily", h, days) : h \in Hours, days \in DaySets}
    \cup {Definition("once", t, {}) : t \in Times}

VARIABLES
  clock,
  up,          \* the controller runs
  rows,        \* the schedules table
  busySince,   \* in memory: when a due schedule first found its deployment busy
  tick,        \* the tick loop: what it listed, and how far it is with the first
  request,     \* one API call between its reads and its write
  dep,         \* status of the deployment
  job,         \* the job that holds the deployment, "none" if there is none
  last,        \* history: the last fire of each schedule, and how many there were
  overwritten, \* history: rows an advance wrote over an edit it had not read
  edits, jobs, restarts, faults

bounds == <<edits, jobs, restarts, faults>>
vars == <<clock, up, rows, busySince, tick, request, dep, job, last, overwritten, bounds>>

NoTime == 0
NoRow ==
  [status |-> "none", def |-> Definition("once", NoTime, {}), action |-> "none",
   enabled |-> FALSE, next |-> NoTime, edit |-> 0]
NotBusy == [at |-> NoTime, edit |-> 0, seen |-> FALSE]
NoFire == [count |-> 0, due |-> NoTime, next |-> NoTime, edit |-> 0, cut |-> FALSE]
NoTick == [stage |-> "idle", now |-> 0, due |-> <<>>, ready |-> FALSE, result |-> "none"]
NoRequest == [op |-> "none", id |-> 0, row |-> NoRow]

Init ==
  /\ clock = 0
  /\ up = TRUE
  /\ rows = [s \in Schedules |-> NoRow]
  /\ busySince = [s \in Schedules |-> NotBusy]
  /\ tick = NoTick
  /\ request = NoRequest
  /\ dep = "ready"
  /\ job = "none"
  /\ last = [s \in Schedules |-> NoFire]
  /\ overwritten = {}
  /\ edits = 0 /\ jobs = 0 /\ restarts = 0 /\ faults = 0

-----------------------------------------------------------------------------
(* NextAfter: the next occurrence strictly after now, NoTime if none is left *)

DayOf(t) == t \div DayLen
AllowedOn(def, t) == def.days = {} \/ DayOf(t) % 7 \in def.days

(* Variant: a week of days, today's included, is walked. *)
WalkOneWeek(def, now) ==
  LET at(i) == (DayOf(now) + i) * DayLen + def.at
      days == {i \in 0 .. 6 : at(i) > now /\ AllowedOn(def, at(i))} IN
  IF days = {} THEN NoTime ELSE at(Min(days))

WalkDays(def, now) ==
  LET at(i) == (DayOf(now) + i) * DayLen + def.at
      days == {i \in 0 .. 7 : at(i) > now /\ AllowedOn(def, at(i))} IN
  IF days = {} THEN NoTime ELSE at(Min(days))

NextAfter(def, now) ==
  CASE def.kind = "every" -> now + def.at
    [] def.kind = "daily" -> WalkDays(def, now)
    [] def.kind = "once"  -> IF def.at > now THEN def.at ELSE NoTime

-----------------------------------------------------------------------------
(* The world around: time, other jobs of the deployment, restarts *)

(* Bound: MaxTime. *)
TimePasses ==
  /\ clock < MaxTime
  /\ clock' = clock + 1
  /\ UNCHANGED <<up, rows, busySince, tick, request, dep, job, last, overwritten, bounds>>

Gone(status) == status \in {"deleted", "deleting"}
StatusOf(type, status) ==
  CASE type = "teardown" -> "deleting" [] type = "deploy" -> "deploying" [] OTHER -> status

(* The operator's deploy, power job or teardown; a fill keeps the deployment *)
(* busy as a power job does.  Bound: MaxJobs.                                *)
StartByHand(type) ==
  /\ up /\ job = "none" /\ ~Gone(dep)
  /\ jobs < MaxJobs
  /\ jobs' = jobs + 1
  /\ job' = type
  /\ dep' = StatusOf(type, dep)
  /\ UNCHANGED <<clock, up, rows, busySince, tick, request, last, overwritten, edits, restarts, faults>>

(* A job ends; what a power job or a fill does leaves the status alone. *)
JobEnds ==
  /\ up
  /\ job \in {"deploy", "fill", "power"}
  /\ dep' \in IF job = "deploy" THEN {"ready", "error"} ELSE {dep}
  /\ job' = "none"
  /\ UNCHANGED <<clock, up, rows, busySince, tick, request, last, overwritten, bounds>>

TeardownFails ==
  /\ up
  /\ job = "teardown"
  /\ dep' = "error"
  /\ job' = "none"
  /\ UNCHANGED <<clock, up, rows, busySince, tick, request, last, overwritten, bounds>>

(* MarkDeploymentDeleted is two writes: the status, then the schedules. *)
MarkDeleted ==
  /\ up
  /\ job = "teardown"
  /\ dep' = "deleted"
  /\ job' = "dropping"
  /\ UNCHANGED <<clock, up, rows, busySince, tick, request, last, overwritten, bounds>>

DropSchedules ==
  /\ up
  /\ job = "dropping"
  /\ rows' = [s \in Schedules |->
       IF rows[s].status = "live" THEN [NoRow EXCEPT !.status = "gone"] ELSE rows[s]]
  /\ job' = "none"
  /\ UNCHANGED <<clock, up, busySince, tick, request, dep, last, overwritten, bounds>>

(* The fire in progress whose advance will not be written. *)
CutOff ==
  IF tick.stage = "advance" /\ tick.result = "fired"
  THEN [last EXCEPT ![Head(tick.due).id].cut = TRUE] ELSE last

(* The controller dies; its memory is gone.  A job whose run had ended is    *)
(* not resumed, every other one is.  Bound: MaxRestarts.                     *)
Die ==
  /\ up
  /\ restarts < MaxRestarts
  /\ restarts' = restarts + 1
  /\ up' = FALSE
  /\ tick' = NoTick
  /\ request' = NoRequest
  /\ busySince' = [s \in Schedules |-> NotBusy]
  /\ job' = IF job = "dropping" THEN "none" ELSE job
  /\ last' = CutOff
  /\ UNCHANGED <<clock, rows, dep, overwritten, edits, jobs, faults>>

Boot ==
  /\ ~up
  /\ up' = TRUE
  /\ UNCHANGED <<clock, rows, busySince, tick, request, dep, job, last, overwritten, bounds>>

-----------------------------------------------------------------------------
(* The tick loop *)

Live(s) == rows[s].status = "live"
IsDue(s) == Live(s) /\ rows[s].enabled /\ rows[s].next # NoTime /\ rows[s].next <= clock

(* tick: the rows are read once, ordered by fire time. *)
Tick ==
  /\ up
  /\ tick.stage = "idle"
  /\ \E s \in Schedules : IsDue(s)
  /\ \E due \in SetToSeqs({[id |-> s, row |-> rows[s]] : s \in {t \in Schedules : IsDue(t)}}) :
       /\ \A i, j \in DOMAIN due : i < j => due[i].row.next <= due[j].row.next
       /\ tick' = [NoTick EXCEPT !.stage = "fetch", !.now = clock, !.due = due]
  /\ UNCHANGED <<clock, up, rows, busySince, request, dep, job, last, overwritten, bounds>>

Following(due) ==
  IF Len(due) = 1 THEN NoTick ELSE [tick EXCEPT !.stage = "fetch", !.due = Tail(due)]
Outcome(result) == [tick EXCEPT !.stage = "advance", !.result = result]

(* fire: the deployment is read. *)
Fetch ==
  /\ tick.stage = "fetch"
  /\ tick' = IF Gone(dep) THEN Outcome("parked")
             ELSE [tick EXCEPT !.stage = "start", !.ready = dep = "ready"]
  /\ UNCHANGED <<clock, up, rows, busySince, request, dep, job, last, overwritten, bounds>>

(* An unreadable deployment parks the schedule.  Bound: MaxFaults. *)
FetchFails ==
  /\ tick.stage = "fetch"
  /\ faults < MaxFaults
  /\ faults' = faults + 1
  /\ tick' = Outcome("parked")
  /\ UNCHANGED <<clock, up, rows, busySince, request, dep, job, last, overwritten, edits, jobs, restarts>>

Current == Head(tick.due)
NotReady == Current.row.action = "fill" /\ ~tick.ready

(* Variant: what cannot be started stays due. *)
StartRefusedStaysDue ==
  /\ tick.stage = "start"
  /\ NotReady \/ (Current.row.action = "fill" /\ job = "none")
  /\ tick' = Following(tick.due)
  /\ UNCHANGED <<clock, up, rows, busySince, request, dep, job, last, overwritten, bounds>>

(* start: the status guard of the API handlers, or StartFill's own refusal. *)
StartRefused ==
  /\ tick.stage = "start"
  /\ NotReady \/ (Current.row.action = "fill" /\ job = "none")
  /\ tick' = Outcome("error")
  /\ UNCHANGED <<clock, up, rows, busySince, request, dep, job, last, overwritten, bounds>>

Fired(s, row) ==
  [count |-> last[s].count + 1, due |-> row.next, next |-> NextAfter(row.def, tick.now),
   edit |-> row.edit, cut |-> FALSE]

(* The run is stamped with the schedule right after; nothing reads that.     *)
Start ==
  LET s == Current.id
      row == Current.row IN
  /\ tick.stage = "start"
  /\ ~NotReady /\ job = "none"
  /\ job' = row.action
  /\ dep' = StatusOf(row.action, dep)
  /\ last' = [last EXCEPT ![s] = Fired(s, row)]
  /\ tick' = Outcome("fired")
  /\ UNCHANGED <<clock, up, rows, busySince, request, overwritten, bounds>>

(* ErrBusy: the schedule stays due within the grace, and is skipped after. *)
StartBusy ==
  LET s == Current.id IN
  /\ tick.stage = "start"
  /\ ~NotReady /\ job # "none"
  /\ IF ~busySince[s].seen
     THEN /\ busySince' = [busySince EXCEPT ![s] =
               [at |-> tick.now, edit |-> Current.row.edit, seen |-> TRUE]]
          /\ tick' = Following(tick.due)
     ELSE /\ tick' = IF tick.now - busySince[s].at < Grace
                     THEN Following(tick.due) ELSE Outcome("skipped")
          /\ UNCHANGED busySince
  /\ UNCHANGED <<clock, up, rows, request, dep, job, last, overwritten, bounds>>

NextOf(row, result) ==
  IF result = "parked" THEN NoTime ELSE NextAfter(row.def, tick.now)

(* Variant: nothing is stored for a schedule that has no next occurrence. *)
AdvanceUnlessSpent ==
  LET s == Current.id
      next == NextOf(Current.row, tick.result) IN
  /\ tick.stage = "advance"
  /\ busySince' = [busySince EXCEPT ![s] = NotBusy]
  /\ rows' = IF Live(s) /\ next # NoTime
             THEN [rows EXCEPT ![s].next = next, ![s].enabled = TRUE] ELSE rows
  /\ overwritten' = IF Live(s) /\ rows[s].edit # Current.row.edit
                    THEN overwritten \cup {s} ELSE overwritten
  /\ tick' = Following(tick.due)
  /\ UNCHANGED <<clock, up, request, dep, job, last, bounds>>

(* Variant: the grace of an occurrence outlives it. *)
AdvanceKeepingBusy ==
  LET s == Current.id
      next == NextOf(Current.row, tick.result) IN
  /\ tick.stage = "advance"
  /\ rows' = IF Live(s) THEN [rows EXCEPT ![s].next = next, ![s].enabled = next # NoTime] ELSE rows
  /\ overwritten' = IF Live(s) /\ rows[s].edit # Current.row.edit
                    THEN overwritten \cup {s} ELSE overwritten
  /\ tick' = Following(tick.due)
  /\ UNCHANGED <<clock, up, busySince, request, dep, job, last, bounds>>

(* Variant: a schedule without a next occurrence stays enabled. *)
AdvanceLeavingEnabled ==
  LET s == Current.id
      next == NextOf(Current.row, tick.result) IN
  /\ tick.stage = "advance"
  /\ busySince' = [busySince EXCEPT ![s] = NotBusy]
  /\ rows' = IF Live(s) THEN [rows EXCEPT ![s].next = next] ELSE rows
  /\ overwritten' = IF Live(s) /\ rows[s].edit # Current.row.edit
                    THEN overwritten \cup {s} ELSE overwritten
  /\ tick' = Following(tick.due)
  /\ UNCHANGED <<clock, up, request, dep, job, last, bounds>>

(* advance: computed from the row as it was listed, written over the row as *)
(* it is; a row that is gone by now is left alone.                          *)
Advance ==
  LET s == Current.id
      next == NextOf(Current.row, tick.result) IN
  /\ tick.stage = "advance"
  /\ busySince' = [busySince EXCEPT ![s] = NotBusy]
  /\ rows' = IF Live(s) THEN [rows EXCEPT ![s].next = next, ![s].enabled = next # NoTime] ELSE rows
  /\ overwritten' = IF Live(s) /\ rows[s].edit # Current.row.edit
                    THEN overwritten \cup {s} ELSE overwritten
  /\ tick' = Following(tick.due)
  /\ UNCHANGED <<clock, up, request, dep, job, last, bounds>>

-----------------------------------------------------------------------------
(* The API *)

NewRow(def, action, enabled) ==
  [status |-> "live", def |-> def, action |-> action, enabled |-> enabled,
   next |-> IF enabled THEN NextAfter(def, clock) ELSE NoTime, edit |-> edits + 1]
Accepts(def, enabled) == enabled => NextAfter(def, clock) # NoTime

(* createSchedule and updateSchedule up to their write.  Bounds: MaxEdits,  *)
(* and one call at a time.                                                  *)
Call(op, s, row) ==
  /\ up
  /\ request.op = "none"
  /\ edits < MaxEdits
  /\ edits' = edits + 1
  /\ request' = [op |-> op, id |-> s, row |-> row]
  /\ UNCHANGED <<clock, up, rows, busySince, tick, dep, job, last, overwritten, jobs, restarts, faults>>

(* A schedule may be created paused; a paused one needs no next occurrence. *)
CreateSchedule(s, def, action, enabled) ==
  /\ rows[s].status = "none"
  /\ ~Gone(dep)
  /\ Accepts(def, enabled)
  /\ Call("create", s, NewRow(def, action, enabled))

(* The whole definition is replaced, the action too. *)
UpdateSchedule(s, def, action, enabled) ==
  /\ Live(s)
  /\ Accepts(def, enabled)
  /\ Call("update", s, NewRow(def, action, enabled))

(* Variant: an enabled schedule keeps the fire time it has. *)
StoreKeepingTime ==
  LET s == request.id IN
  /\ request.op # "none"
  /\ rows' = IF request.op = "create" \/ Live(s)
             THEN [rows EXCEPT ![s] = [request.row EXCEPT
                    !.next = IF request.row.enabled /\ rows[s].enabled THEN rows[s].next ELSE @]]
             ELSE rows
  /\ overwritten' = overwritten \ {s}
  /\ request' = NoRequest
  /\ UNCHANGED <<clock, up, busySince, tick, dep, job, last, bounds>>

(* The INSERT, or the UPDATE of every field of the definition. *)
StoreSchedule ==
  LET s == request.id IN
  /\ request.op # "none"
  /\ rows' = IF request.op = "create" \/ Live(s) THEN [rows EXCEPT ![s] = request.row] ELSE rows
  /\ overwritten' = overwritten \ {s}
  /\ request' = NoRequest
  /\ UNCHANGED <<clock, up, busySince, tick, dep, job, last, bounds>>

DeleteSchedule(s) ==
  /\ up
  /\ Live(s)
  /\ edits < MaxEdits
  /\ edits' = edits + 1
  /\ rows' = [rows EXCEPT ![s] = [NoRow EXCEPT !.status = "gone"]]
  /\ UNCHANGED <<clock, up, busySince, tick, request, dep, job, last, overwritten, jobs, restarts, faults>>

-----------------------------------------------------------------------------

TickLoop ==
  Tick \/ Fetch \/ FetchFails \/ StartRefused \/ Start \/ StartBusy \/ Advance
JobLoop == JobEnds \/ TeardownFails \/ MarkDeleted \/ DropSchedules

Next ==
  \/ TimePasses
  \/ \E type \in {"deploy", "power", "teardown"} : StartByHand(type)
  \/ JobEnds \/ TeardownFails \/ MarkDeleted \/ DropSchedules
  \/ Die \/ Boot
  \/ Tick \/ Fetch \/ FetchFails \/ StartRefused \/ Start \/ StartBusy \/ Advance
  \/ \E s \in Schedules, def \in Definitions, action \in Actions, enabled \in BOOLEAN :
       CreateSchedule(s, def, action, enabled) \/ UpdateSchedule(s, def, action, enabled)
  \/ StoreSchedule
  \/ \E s \in Schedules : DeleteSchedule(s)

(* The loop ticks for as long as the controller runs, jobs end, and a       *)
(* controller that died is started again.                                   *)
Fairness == WF_vars(TickLoop) /\ WF_vars(JobLoop) /\ WF_vars(Boot)

Spec == Init /\ [][Next]_vars /\ Fairness

-----------------------------------------------------------------------------
(* Properties *)

(* The table, the loop and the call in flight are well-formed; a row is      *)
(* enabled exactly when it has a fire time, and a fire time lies ahead of    *)
(* the moment it was computed.                                               *)
TypeOK ==
  /\ clock \in 0 .. MaxTime
  /\ \A s \in Schedules :
       /\ rows[s].status \in {"none", "live", "gone"}
       /\ rows[s].status = "live" => rows[s].def \in Definitions /\ rows[s].action \in Actions
       /\ rows[s].enabled <=> rows[s].next \in Nat \ {NoTime}
       /\ busySince[s].at \in 0 .. MaxTime /\ busySince[s].seen \in BOOLEAN
  /\ tick.stage \in {"idle", "fetch", "start", "advance"}
  /\ tick.stage # "idle" => up /\ tick.due # <<>>
  /\ dep \in {"ready", "error", "deploying", "deleting", "deleted"}
  /\ job \in {"none", "deploy", "fill", "power", "teardown", "dropping"}
  /\ job \in {"deploy", "teardown"} => dep = StatusOf(job, dep)
  /\ overwritten \subseteq Schedules

IsOccurrence(def, t) ==
  CASE def.kind = "every" -> TRUE
    [] def.kind = "daily" -> t % DayLen = def.at /\ AllowedOn(def, t)
    [] def.kind = "once"  -> t = def.at

(* model.go 449-490: the walk over at most eight days finds the earliest    *)
(* allowed time after now.  A run tries the times up to a day ahead of its  *)
(* clock; SchedulerProofs has it for every time.                            *)
NextAfterIsEarliest ==
  \A def \in Definitions, now \in clock .. clock + DayLen :
    LET next == NextAfter(def, now) IN
    /\ def.kind = "once" \/ next # NoTime
    /\ next # NoTime => next > now /\ IsOccurrence(def, next)
    /\ def.kind = "daily" => \A t \in now + 1 .. next - 1 : ~IsOccurrence(def, t)

(* sched.go 3-6: an occurrence is fired at most once, and occurrences that  *)
(* were missed are not replayed one by one.  A schedule that is fired again *)
(* without an edit in between is fired for an occurrence no earlier than    *)
(* the one its last fire left to come; a one-shot left none, so it is never *)
(* fired again.  The exception is a fire whose advance a restart cut off.   *)
FiresArePaced ==
  [][\A s \in Schedules :
       last'[s].count # last[s].count /\ last[s].due # NoTime
         /\ ~last[s].cut /\ last'[s].edit = last[s].edit
       => last[s].next # NoTime /\ last'[s].due >= last[s].next]_vars

(* sched.go 25-27: an occurrence is skipped as busy only after its           *)
(* deployment has been busy for the grace, counted from the occurrence; the  *)
(* exception is a schedule that was edited while it waited.                  *)
SkippedAfterGrace ==
  tick.stage = "advance" /\ tick.result = "skipped" =>
    \/ tick.now - Current.row.next >= Grace
    \/ busySince[Current.id].edit # Current.row.edit

(* model.go 375-378: the fire time of an enabled row is an occurrence of the *)
(* definition the row has, unless an advance wrote over an edit.             *)
RowsFireOnTime ==
  \A s \in Schedules \ overwritten :
    Live(s) /\ rows[s].enabled => IsOccurrence(rows[s].def, rows[s].next)

(* sched.go 92-94: a due schedule does not stay due: it is fired, skipped,   *)
(* parked or rejected, or the operator edits it, across restarts too.        *)
DueIsDealtWith ==
  \A s \in Schedules : IsDue(s) ~> ~IsDue(s)
=============================================================================
