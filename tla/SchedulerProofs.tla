--------------------------- MODULE SchedulerProofs ---------------------------
(***************************************************************************)
(* Theorems about Scheduler: which occurrences of a schedule are fired and  *)
(* which are skipped, for any schedules, definitions, lengths of the day    *)
(* and of the grace, edits, jobs, failing reads and restarts.               *)
(*                                                                         *)
(* The loop works with rows it listed a while ago, the API with a row it    *)
(* has not stored yet, and the memory of busy deployments is keyed by       *)
(* schedule.  The inductive invariant ties the four together by the number  *)
(* of the edit a row stems from.                                            *)
(***************************************************************************)
EXTENDS Scheduler, FiniteSetTheorems, TLAPS

-----------------------------------------------------------------------------
(* The inductive invariant.                                                 *)

Row ==
  [status : {"none", "live", "gone"}, def : Definitions \cup {NoRow.def},
   action : Actions \cup {"none"}, enabled : BOOLEAN, next : Nat, edit : Nat]
GoodRow(row) ==
  /\ row.status = "live" => row.def \in Definitions /\ row.action \in Actions
  /\ row.enabled <=> row.next # NoTime
  /\ row.enabled => row.status = "live"

Entries == [id : Schedules, row : Row]
Results == {"none", "parked", "error", "fired", "skipped"}
Ticks ==
  [stage : {"idle", "fetch", "start", "advance"}, now : 0 .. MaxTime, due : Seq(Entries),
   ready : BOOLEAN, result : Results]
Fires == [count : Nat, due : Nat, next : Nat, edit : Nat, cut : BOOLEAN]

Typed ==
  /\ clock \in 0 .. MaxTime
  /\ up \in BOOLEAN
  /\ rows \in [Schedules -> Row] /\ \A s \in Schedules : GoodRow(rows[s])
  /\ busySince \in [Schedules -> [at : 0 .. MaxTime, edit : Nat, seen : BOOLEAN]]
  /\ tick \in Ticks
  /\ tick.stage # "idle" => up /\ tick.due # <<>>
  /\ tick.now <= clock
  /\ request.op \in {"none", "create", "update"}
  /\ request.op # "none" =>
       request.id \in Schedules /\ request.row \in Row /\ GoodRow(request.row)
  /\ dep \in {"ready", "error", "deploying", "deleting", "deleted"}
  /\ job \in {"none", "deploy", "fill", "power", "teardown", "dropping"}
  /\ job \in {"deploy", "teardown"} => dep = StatusOf(job, dep)
  /\ last \in [Schedules -> Fires]
  /\ overwritten \subseteq Schedules
  /\ edits \in Nat

(* A fire that is on record and whose advance nothing prevents. *)
Counts(s) == last[s].due # NoTime /\ ~last[s].cut
Pending(s) ==
  tick.stage = "advance" /\ tick.result = "fired" /\ Current.id = s

(* How the next time of a row that stems from the edit of the last fire      *)
(* relates to what that fire had computed.                                   *)
ComputedBy(s, def, now) == \E n \in 0 .. now : last[s].next = NextAfter(def, n)
Paced(s, row) == row.next = NoTime \/ (last[s].next # NoTime /\ row.next >= last[s].next)

RowOK(s) ==
  /\ {rows[s].edit, busySince[s].edit, last[s].edit} \subseteq 0 .. edits
  /\ s \in overwritten \/ ~rows[s].enabled \/ IsOccurrence(rows[s].def, rows[s].next)
  /\ busySince[s].seen /\ Live(s) /\ rows[s].edit = busySince[s].edit =>
       rows[s].next <= busySince[s].at
  /\ Counts(s) /\ Live(s) /\ rows[s].edit = last[s].edit =>
       /\ ComputedBy(s, rows[s].def, clock)
       /\ Pending(s) \/ Paced(s, rows[s])

(* A row on the list was due when it was listed; until it has been dealt     *)
(* with the table has it as it was or holds a later edit.                    *)
EntryOK(e) ==
  LET s == e.id
      row == e.row IN
  /\ row.status = "live" /\ GoodRow(row) /\ row.enabled /\ row.next <= tick.now
  /\ row.edit <= edits
  /\ Live(s) /\ rows[s].edit = row.edit => rows[s] = row
  /\ busySince[s].seen /\ row.edit = busySince[s].edit => row.next <= busySince[s].at
  /\ Counts(s) /\ row.edit = last[s].edit =>
       /\ ComputedBy(s, row.def, tick.now)
       /\ Pending(s) \/ Paced(s, row)
  /\ Counts(s) /\ Live(s) /\ rows[s].edit = last[s].edit => row.edit = rows[s].edit

Listed(e) == \E i \in 1 .. Len(tick.due) : e = tick.due[i]

TickOK ==
  /\ \A e \in Entries : Listed(e) => EntryOK(e)
  /\ \A i, j \in 1 .. Len(tick.due) : i # j => tick.due[i].id # tick.due[j].id
  /\ \A s \in Schedules : Pending(s) /\ Counts(s) =>
       last[s].edit = Current.row.edit /\ last[s].next = NextAfter(Current.row.def, tick.now)
  /\ SkippedAfterGrace

(* Nobody has seen the edit of the call that is in flight. *)
RequestOK ==
  LET s == request.id
      edit == request.row.edit IN
  request.op # "none" =>
    /\ request.row.status = "live"
    /\ edit \in 1 .. edits
    /\ edit \notin {rows[s].edit, busySince[s].edit, last[s].edit}
    /\ \A i \in 1 .. Len(tick.due) : tick.due[i].id = s => tick.due[i].row.edit # edit
    /\ request.row.enabled => IsOccurrence(request.row.def, request.row.next)

IInv ==
  /\ Typed
  /\ \A s \in Schedules : RowOK(s)
  /\ TickOK
  /\ RequestOK

-----------------------------------------------------------------------------
(* Days and times of day.                                                   *)

LEMMA Divides ==
  ASSUME NEW t \in Nat
  PROVE  /\ DayOf(t) \in Nat /\ t % DayLen \in 0 .. DayLen - 1
         /\ t = DayOf(t) * DayLen + (t % DayLen)
<1>1. DayLen \in Nat \ {0}
  BY SchedulerAssumption
<1>2. t % DayLen \in 0 .. DayLen - 1
  BY <1>1
<1>3. t \div DayLen \in Nat
  BY <1>1
<1>4. t = (t \div DayLen) * DayLen + (t % DayLen)
  BY <1>1
<1> QED
  BY <1>2, <1>3, <1>4 DEF DayOf

LEMMA DaysAreTimes ==
  ASSUME NEW d \in Nat
  PROVE  d * DayLen \in Nat
BY SchedulerAssumption

(* A later day starts after the end of an earlier one. *)
LEMMA DaysApart ==
  ASSUME NEW d \in Nat, NEW e \in Nat, d < e
  PROVE  d * DayLen + DayLen <= e * DayLen
<1>1. PICK k \in Nat : e = d + 1 + k
  <2>1. e - d - 1 \in Nat /\ e = d + 1 + (e - d - 1)
    OBVIOUS
  <2> QED
    BY <2>1
<1>2. k * DayLen \in Nat
  BY SchedulerAssumption
<1>3. e * DayLen = d * DayLen + DayLen + k * DayLen
  BY <1>1, SchedulerAssumption
<1>4. d * DayLen \in Nat /\ DayLen \in Nat
  BY SchedulerAssumption
<1> QED
  BY <1>2, <1>3, <1>4

(* Day and time of day of a time are the only ones that make it up. *)
LEMMA DayAndTime ==
  ASSUME NEW d \in Nat, NEW h \in 0 .. DayLen - 1
  PROVE  LET t == d * DayLen + h IN t \in Nat /\ DayOf(t) = d /\ t % DayLen = h
<1> DEFINE t == d * DayLen + h
           e == DayOf(t)
           g == t % DayLen
<1>1. DayLen \in Nat \ {0} /\ d * DayLen \in Nat /\ t \in Nat
  BY SchedulerAssumption
<1>2. e \in Nat /\ g \in 0 .. DayLen - 1 /\ t = e * DayLen + g /\ e * DayLen \in Nat
  BY <1>1, Divides
<1>3. t = d * DayLen + h
  OBVIOUS
<1> HIDE DEF t, e, g
<1>4. ~(d < e)
  BY <1>1, <1>2, <1>3, DaysApart
<1>5. ~(e < d)
  BY <1>1, <1>2, <1>3, DaysApart
<1>6. d = e
  BY <1>2, <1>4, <1>5
<1>7. g = h
  BY <1>1, <1>2, <1>3, <1>6
<1> QED
  BY <1>1, <1>6, <1>7 DEF t, e, g

(* Within a week from any day lies every day of the week. *)
LEMMA WeekIsWhole ==
  ASSUME NEW d \in Nat, NEW w \in 0 .. 6
  PROVE  \E i \in 1 .. 7 : (d + i) % 7 = w
<1>1. d % 7 \in 0 .. 6
  OBVIOUS
<1>2. CASE d % 7 < w
  <2>1. w - (d % 7) \in 1 .. 7 /\ (d + (w - (d % 7))) % 7 = w
    BY <1>1, <1>2
  <2> QED
    BY <2>1
<1>3. CASE d % 7 >= w
  <2>1. (w + 7) - (d % 7) \in 1 .. 7 /\ (d + ((w + 7) - (d % 7))) % 7 = w
    BY <1>1, <1>3
  <2> QED
    BY <2>1
<1> QED
  BY <1>1, <1>2, <1>3

LEMMA MinOfDays ==
  ASSUME NEW S, S \subseteq 0 .. 7, S # {}
  PROVE  Min(S) \in S /\ \A i \in S : Min(S) <= i
<1>1. \E x \in S : \A y \in S : x <= y
  <2>1. CASE 0 \in S
    BY <2>1
  <2>2. CASE 0 \notin S /\ 1 \in S
    BY <2>2
  <2>3. CASE 0 \notin S /\ 1 \notin S /\ 2 \in S
    BY <2>3
  <2>4. CASE 0 \notin S /\ 1 \notin S /\ 2 \notin S /\ 3 \in S
    BY <2>4
  <2>5. CASE 0 \notin S /\ 1 \notin S /\ 2 \notin S /\ 3 \notin S /\ 4 \in S
    BY <2>5
  <2>6. CASE /\ 0 \notin S /\ 1 \notin S /\ 2 \notin S /\ 3 \notin S /\ 4 \notin S
             /\ 5 \in S \/ 6 \in S \/ 7 \in S
    <3>1. CASE 5 \in S
      BY <2>6, <3>1
    <3>2. CASE 5 \notin S /\ 6 \in S
      BY <2>6, <3>2
    <3>3. CASE 5 \notin S /\ 6 \notin S /\ 7 \in S
      BY <2>6, <3>3
    <3> QED
      BY <2>6, <3>1, <3>2, <3>3
  <2> QED
    <3>1. PICK x \in S : TRUE
      OBVIOUS
    <3>2. x \in {0, 1, 2, 3, 4, 5, 6, 7}
      OBVIOUS
    <3> QED
      BY <2>1, <2>2, <2>3, <2>4, <2>5, <2>6, <3>2
<1> QED
  BY <1>1 DEF Min

-----------------------------------------------------------------------------
(* The recurrence.                                                          *)

LEMMA DefinitionParts ==
  ASSUME NEW def \in Definitions
  PROVE  \/ def.kind = "every" /\ def.at \in Nat \ {0}
         \/ def.kind = "daily" /\ def.at \in 0 .. DayLen - 1 /\ def.days \subseteq 0 .. 6
         \/ def.kind = "once" /\ def.at \in Nat \ {0}
<1>1. CASE \E i \in Intervals : def = Definition("every", i, {})
  BY <1>1, SchedulerAssumption DEF Definition
<1>2. CASE \E h \in Hours, days \in DaySets : def = Definition("daily", h, days)
  BY <1>2, SchedulerAssumption DEF Definition
<1>3. CASE \E t \in Times : def = Definition("once", t, {})
  BY <1>3, SchedulerAssumption DEF Definition
<1> QED
  BY <1>1, <1>2, <1>3 DEF Definitions

(* The walk over eight days ends at the earliest allowed time after now. *)
LEMMA WalkIsEarliest ==
  ASSUME NEW def, def.at \in 0 .. DayLen - 1, def.days \subseteq 0 .. 6, NEW now \in Nat
  PROVE  LET next == WalkDays(def, now) IN
         /\ next \in Nat /\ next > now
         /\ next % DayLen = def.at /\ AllowedOn(def, next)
         /\ \A t \in Nat : t > now /\ t < next => ~(t % DayLen = def.at /\ AllowedOn(def, t))
<1> DEFINE q == DayOf(now)
           h == def.at
           at(i) == (q + i) * DayLen + h
           S == {i \in 0 .. 7 : at(i) > now /\ AllowedOn(def, at(i))}
<1>1. DayLen \in Nat \ {0} /\ h \in 0 .. DayLen - 1
  BY SchedulerAssumption
<1>2. q \in Nat /\ now = q * DayLen + (now % DayLen) /\ now % DayLen \in 0 .. DayLen - 1
      /\ q * DayLen \in Nat
  <2>1. q \in Nat /\ now = q * DayLen + (now % DayLen) /\ now % DayLen \in 0 .. DayLen - 1
    BY Divides
  <2> HIDE DEF q
  <2> QED
    BY <2>1, DaysAreTimes
<1>3. WalkDays(def, now) = IF S = {} THEN NoTime ELSE at(Min(S))
  BY DEF WalkDays
<1> HIDE DEF q, h
<1>4. ASSUME NEW i \in Nat
      PROVE  at(i) \in Nat /\ DayOf(at(i)) = q + i /\ at(i) % DayLen = h
  <2>1. q + i \in Nat
    BY <1>2
  <2> QED
    BY <1>1, <2>1, DayAndTime
<1>5. \A i \in 1 .. 7 : at(i) > now
  <2> SUFFICES ASSUME NEW i \in 1 .. 7 PROVE at(i) > now
    OBVIOUS
  <2>1. q * DayLen + DayLen <= (q + i) * DayLen
    BY <1>2, DaysApart
  <2>2. (q + i) * DayLen \in Nat
    BY <1>1, <1>2
  <2> QED
    BY <1>1, <1>2, <2>1, <2>2
<1>6. \E i \in 1 .. 7 : AllowedOn(def, at(i))
  <2>1. CASE def.days = {}
    BY <2>1 DEF AllowedOn
  <2>2. CASE def.days # {}
    <3>1. PICK w \in def.days : TRUE
      BY <2>2
    <3>2. PICK i \in 1 .. 7 : (q + i) % 7 = w
      BY <1>2, <3>1, WeekIsWhole
    <3>3. DayOf(at(i)) % 7 = w
      BY <1>4, <3>2
    <3> QED
      BY <3>1, <3>3 DEF AllowedOn
  <2> QED
    BY <2>1, <2>2
<1> HIDE DEF at
<1>7. S # {} /\ S \subseteq 0 .. 7
  BY <1>5, <1>6
<1> DEFINE m == Min(S)
<1>8. m \in S /\ \A i \in S : m <= i
  BY <1>7, MinOfDays
<1>9. m \in 0 .. 7 /\ at(m) > now /\ AllowedOn(def, at(m)) /\ WalkDays(def, now) = at(m)
  BY <1>3, <1>7, <1>8
<1> HIDE DEF m
<1>10. ASSUME NEW t \in Nat, t > now, t < at(m), t % DayLen = h, AllowedOn(def, t)
       PROVE  FALSE
  <2> DEFINE k == DayOf(t)
             g == t % DayLen
  <2>1. k \in Nat /\ t = k * DayLen + h
    BY <1>10, Divides
  <2> HIDE DEF k
  <2>2. /\ at(m) = (q + m) * DayLen + h /\ (q + m) * DayLen \in Nat /\ q + m \in Nat
        /\ k * DayLen \in Nat
    BY <1>1, <1>2, <1>9, <2>1, DaysAreTimes DEF at
  <2>3. ~(k < q)
    <3>1. k < q => k * DayLen + DayLen <= q * DayLen
      BY <1>2, <2>1, DaysApart
    <3> QED
      BY <1>1, <1>2, <1>10, <2>1, <2>2, <3>1
  <2>4. ~(k >= q + m)
    <3>1. k > q + m => (q + m) * DayLen + DayLen <= k * DayLen
      BY <2>1, <2>2, DaysApart
    <3>2. k = q + m => t = at(m)
      BY <2>1, <2>2
    <3>3. ~(k > q + m)
      BY <1>1, <1>10, <2>1, <2>2, <3>1
    <3>4. k # q + m
      BY <1>10, <3>2, <2>1, <2>2
    <3> QED
      BY <2>1, <2>2, <3>3, <3>4
  <2> DEFINE i == k - q
  <2>5. i \in 0 .. 7 /\ i < m /\ k = q + i
    BY <1>2, <1>9, <2>1, <2>3, <2>4
  <2>6. at(i) = t
    BY <2>1, <2>5 DEF at
  <2> HIDE DEF i
  <2>7. i \in S
    BY <1>10, <2>5, <2>6
  <2> QED
    BY <1>8, <1>9, <2>5, <2>7
<1>11. at(m) \in Nat /\ at(m) % DayLen = h
  BY <1>4, <1>9
<1> QED
  BY <1>9, <1>10, <1>11 DEF h

(* What NextAfter (model.go 449-490) promises for every definition and every *)
(* time: the result is an occurrence after now, a daily definition has none  *)
(* in between, and only a "once" definition runs out.                        *)
THEOREM NextOccurs ==
  ASSUME NEW def \in Definitions, NEW now \in Nat
  PROVE  LET next == NextAfter(def, now) IN
         /\ next \in Nat
         /\ next # NoTime => next > now /\ IsOccurrence(def, next)
         /\ def.kind = "once" \/ next # NoTime
         /\ def.kind = "daily" => \A t \in Nat : t > now /\ t < next => ~IsOccurrence(def, t)
<1>1. CASE def.kind = "every" /\ def.at \in Nat \ {0}
  BY <1>1 DEF NextAfter, IsOccurrence, NoTime
<1>2. CASE def.kind = "daily" /\ def.at \in 0 .. DayLen - 1 /\ def.days \subseteq 0 .. 6
  <2> DEFINE next == WalkDays(def, now)
  <2>1. /\ next \in Nat /\ next > now
        /\ next % DayLen = def.at /\ AllowedOn(def, next)
        /\ \A t \in Nat : t > now /\ t < next => ~(t % DayLen = def.at /\ AllowedOn(def, t))
    BY <1>2, WalkIsEarliest
  <2>2. NextAfter(def, now) = next
    BY <1>2 DEF NextAfter
  <2>3. \A t : IsOccurrence(def, t) <=> t % DayLen = def.at /\ AllowedOn(def, t)
    BY <1>2 DEF IsOccurrence
  <2> HIDE DEF next
  <2> QED
    BY <2>1, <2>2, <2>3 DEF NoTime
<1>3. CASE def.kind = "once" /\ def.at \in Nat \ {0}
  BY <1>3 DEF NextAfter, IsOccurrence, NoTime
<1> QED
  BY <1>1, <1>2, <1>3, DefinitionParts

(* A later look finds no earlier occurrence. *)
LEMMA NextIsMonotone ==
  ASSUME NEW def \in Definitions, NEW m \in Nat, NEW n \in Nat, m <= n,
         NextAfter(def, n) # NoTime
  PROVE  NextAfter(def, m) # NoTime /\ NextAfter(def, n) >= NextAfter(def, m)
<1>1. CASE def.kind = "every" /\ def.at \in Nat \ {0}
  BY <1>1 DEF NextAfter, NoTime
<1>2. CASE def.kind = "daily"
  <2> DEFINE a == NextAfter(def, m)
             b == NextAfter(def, n)
  <2>1. /\ a \in Nat /\ a # NoTime
        /\ \A t \in Nat : t > m /\ t < a => ~IsOccurrence(def, t)
        /\ b \in Nat /\ b > n /\ IsOccurrence(def, b)
    BY <1>2, NextOccurs
  <2> HIDE DEF a, b
  <2>2. a # NoTime /\ b >= a
    BY <2>1
  <2> QED
    BY <2>2 DEF a, b
<1>3. CASE def.kind = "once" /\ def.at \in Nat \ {0}
  BY <1>3 DEF NextAfter, NoTime
<1> QED
  BY <1>1, <1>2, <1>3, DefinitionParts

-----------------------------------------------------------------------------
(* What a step leaves as it is.                                             *)

LEMMA Blanks ==
  /\ NoRow \in Row /\ GoodRow(NoRow) /\ NoRow.status = "none" /\ NoRow.edit = 0
  /\ NoRow.enabled = FALSE /\ NoRow.next = NoTime
  /\ NotBusy \in [at : 0 .. MaxTime, edit : Nat, seen : BOOLEAN]
  /\ NotBusy.seen = FALSE /\ NotBusy.edit = 0
  /\ NoTick \in Ticks /\ NoTick.stage = "idle" /\ NoTick.due = <<>> /\ NoTick.now = 0
  /\ Len(<<>>) = 0
<1>1. /\ NoRow \in Row /\ GoodRow(NoRow) /\ NoRow.status = "none" /\ NoRow.edit = 0
      /\ NoRow.enabled = FALSE /\ NoRow.next = NoTime
  BY DEF NoRow, Row, GoodRow, NoTime
<1>2. /\ NotBusy \in [at : 0 .. MaxTime, edit : Nat, seen : BOOLEAN]
      /\ NotBusy.seen = FALSE /\ NotBusy.edit = 0
  BY SchedulerAssumption DEF NotBusy, NoTime
<1>3. NoTick \in Ticks /\ NoTick.stage = "idle" /\ NoTick.due = <<>> /\ NoTick.now = 0
  <2>1. <<>> \in Seq(Entries) /\ 0 \in 0 .. MaxTime
    BY SchedulerAssumption
  <2> QED
    BY <2>1 DEF NoTick, Ticks, Results
<1> QED
  BY <1>1, <1>2, <1>3

LEMMA RowKept ==
  ASSUME NEW s \in Schedules, Typed, Typed', RowOK(s),
         rows'[s] = rows[s] \/ rows'[s] = [NoRow EXCEPT !.status = "gone"],
         busySince'[s] = busySince[s] \/ busySince'[s] = NotBusy,
         last'[s] = last[s] \/ (last'[s].cut /\ last'[s].edit = last[s].edit),
         s \in overwritten => s \in overwritten',
         clock <= clock', edits <= edits', Pending(s) => Pending(s)' \/ last'[s].cut
  PROVE  RowOK(s)'
<1>1. /\ clock \in Nat /\ clock' \in Nat /\ edits \in Nat /\ edits' \in Nat
      /\ rows[s] \in Row /\ busySince[s].edit \in Nat /\ last[s].edit \in Nat
  <2>1. clock \in Nat /\ clock' \in Nat
    BY SchedulerAssumption DEF Typed
  <2>2. edits \in Nat /\ edits' \in Nat /\ rows[s] \in Row /\ busySince[s].edit \in Nat
    BY DEF Typed
  <2>3. last[s].edit \in Nat
    BY DEF Typed, Fires
  <2> QED
    BY <2>1, <2>2, <2>3
<1>2. {rows'[s].edit, busySince'[s].edit, last'[s].edit} \subseteq 0 .. edits'
  BY <1>1, Blanks DEF RowOK, NoRow
<1>3. CASE rows'[s] = [NoRow EXCEPT !.status = "gone"]
  BY <1>2, <1>3 DEF RowOK, Live, NoRow
<1>4. CASE rows'[s] = rows[s]
  <2>1. s \in overwritten' \/ ~rows'[s].enabled \/ IsOccurrence(rows'[s].def, rows'[s].next)
    BY <1>4 DEF RowOK
  <2>2. busySince'[s].seen /\ Live(s)' /\ rows'[s].edit = busySince'[s].edit =>
          rows'[s].next <= busySince'[s].at
    BY <1>4, Blanks DEF RowOK, Live
  <2>3. ASSUME Counts(s)', Live(s)', rows'[s].edit = last'[s].edit
        PROVE  /\ ComputedBy(s, rows[s].def, clock)'
               /\ Pending(s)' \/ Paced(s, rows[s])'
    <3>1. last'[s] = last[s] /\ Counts(s) /\ Live(s) /\ (Pending(s) => Pending(s)')
      BY <1>4, <2>3 DEF Counts, Live
    <3>2. /\ ComputedBy(s, rows[s].def, clock)
          /\ Pending(s) \/ Paced(s, rows[s])
      BY <1>4, <2>3, <3>1 DEF RowOK
    <3>3. 0 .. clock \subseteq 0 .. clock'
      BY <1>1
    <3> QED
      BY <1>4, <3>1, <3>2, <3>3 DEF ComputedBy, Paced
  <2> QED
    BY <1>2, <2>1, <2>2, <2>3 DEF RowOK
<1> QED
  BY <1>3, <1>4

LEMMA EntryKept ==
  ASSUME NEW e \in Entries, Typed, Typed', EntryOK(e),
         \/ rows'[e.id] = rows[e.id]
         \/ rows'[e.id].status # "live"
         \/ rows'[e.id].edit \notin {e.row.edit, last[e.id].edit},
         busySince'[e.id] = busySince[e.id] \/ busySince'[e.id] = NotBusy,
         last'[e.id] = last[e.id] \/ last'[e.id].cut,
         tick'.now = tick.now, edits <= edits', Pending(e.id) => Pending(e.id)'
  PROVE  EntryOK(e)'
<1> DEFINE s == e.id
           row == e.row
<1>1. s \in Schedules /\ row \in Row
  BY DEF Entries
<1>2. edits \in Nat /\ edits' \in Nat /\ row.edit \in Nat
  BY <1>1 DEF Typed, Row
<1>3. /\ row.status = "live" /\ GoodRow(row) /\ row.enabled /\ row.next <= tick'.now
      /\ row.edit <= edits'
  BY <1>2 DEF EntryOK
<1>4. Live(s)' /\ rows'[s].edit = row.edit => rows'[s] = row
  BY DEF EntryOK, Live
<1>5. busySince'[s].seen /\ row.edit = busySince'[s].edit => row.next <= busySince'[s].at
  BY Blanks DEF EntryOK
<1>6. Counts(s)' /\ row.edit = last'[s].edit =>
        /\ ComputedBy(s, row.def, tick.now)'
        /\ Pending(s)' \/ Paced(s, row)'
  BY DEF EntryOK, Counts, ComputedBy, Paced
<1>7. Counts(s)' /\ Live(s)' /\ rows'[s].edit = last'[s].edit => row.edit = rows'[s].edit
  BY DEF EntryOK, Counts, Live
<1> QED
  BY <1>3, <1>4, <1>5, <1>6, <1>7 DEF EntryOK

(* The list of the loop: its entries, and what is left of it.               *)
LEMMA DueParts ==
  ASSUME Typed
  PROVE  /\ tick.due \in Seq(Entries) /\ Len(tick.due) \in Nat
         /\ \A i \in 1 .. Len(tick.due) : tick.due[i] \in Entries
         /\ tick.stage # "idle" => /\ 1 \in 1 .. Len(tick.due) /\ Current = tick.due[1]
                                   /\ Current \in Entries
<1>1. tick.due \in Seq(Entries)
  BY DEF Typed, Ticks
<1>2. tick.stage # "idle" => tick.due # <<>>
  BY DEF Typed
<1> QED
  BY <1>1, <1>2 DEF Current

LEMMA FollowingParts ==
  ASSUME Typed, tick.stage # "idle", tick' = Following(tick.due)
  PROVE  /\ tick' \in Ticks /\ tick'.stage \in {"idle", "fetch"} /\ Len(tick'.due) \in Nat
         /\ tick'.stage = "fetch" => tick'.due # <<>> /\ tick'.now = tick.now
         /\ tick'.now <= clock
         /\ \A i \in 1 .. Len(tick'.due) :
              /\ tick'.now = tick.now
              /\ i + 1 \in 2 .. Len(tick.due) /\ tick'.due[i] = tick.due[i + 1]
<1>1. tick \in Ticks /\ tick.due \in Seq(Entries) /\ tick.due # <<>> /\ tick.now <= clock
      /\ clock \in Nat
  BY SchedulerAssumption DEF Typed, Ticks
<1>2. CASE Len(tick.due) = 1
  BY <1>1, <1>2, Blanks DEF Following
<1>3. CASE Len(tick.due) # 1
  <2> DEFINE due == Tail(tick.due)
             t == [tick EXCEPT !.stage = "fetch", !.due = due]
  <2>1. due \in Seq(Entries) /\ Len(due) = Len(tick.due) - 1 /\ Len(due) \in Nat /\ due # <<>>
    <3>1. due \in Seq(Entries) /\ Len(due) = Len(tick.due) - 1
      BY <1>1
    <3>2. Len(tick.due) \in Nat /\ Len(tick.due) # 0
      BY <1>1
    <3> HIDE DEF due
    <3>3. Len(due) \in Nat /\ Len(due) # 0
      BY <1>3, <3>1, <3>2
    <3> QED
      BY <3>1, <3>3, Blanks
  <2>2. \A i \in 1 .. Len(due) : i + 1 \in 2 .. Len(tick.due) /\ due[i] = tick.due[i + 1]
    BY <1>1, <1>3
  <2>3. tick' = t
    BY <1>3 DEF Following
  <2> HIDE DEF due
  <2>4. t \in Ticks /\ t.stage = "fetch" /\ t.due = due /\ t.now = tick.now
    BY <1>1, <2>1 DEF Ticks
  <2> HIDE DEF t
  <2> QED
    BY <1>1, <2>1, <2>2, <2>3, <2>4
<1> QED
  BY <1>2, <1>3

-----------------------------------------------------------------------------
(* Time, other jobs and the first half of a fire.                           *)

LEMMA IInvParts ==
  ASSUME IInv
  PROVE  /\ Typed /\ TickOK /\ RequestOK
         /\ \A s \in Schedules : RowOK(s)
         /\ \A e \in Entries : Listed(e) => EntryOK(e)
         /\ tick.stage # "idle" => Current \in Entries /\ Current.id \in Schedules
                                   /\ Current.row \in Row /\ EntryOK(Current)
<1>1. Typed /\ TickOK /\ RequestOK /\ \A s \in Schedules : RowOK(s)
  BY DEF IInv
<1>2. tick.stage # "idle" => /\ 1 \in 1 .. Len(tick.due) /\ Current = tick.due[1]
                             /\ Current \in Entries
  BY <1>1, DueParts
<1>3. \A e \in Entries : Listed(e) => EntryOK(e)
  BY <1>1 DEF TickOK
<1>4. tick.stage # "idle" => EntryOK(Current)
  <2> SUFFICES ASSUME tick.stage # "idle" PROVE EntryOK(Current)
    OBVIOUS
  <2>1. Current \in Entries /\ Listed(Current)
    BY <1>2 DEF Listed
  <2> QED
    BY <1>3, <2>1
<1>5. \A e \in Entries : e.id \in Schedules /\ e.row \in Row
  BY DEF Entries
<1> QED
  BY <1>1, <1>2, <1>3, <1>4, <1>5

(* The loop is at another stage with the same list, and has fired nothing. *)
LEMMA TickMovesOn ==
  ASSUME IInv, Typed', UNCHANGED <<rows, busySince, request, last, overwritten, edits>>,
         clock <= clock', tick'.due = tick.due, tick'.now = tick.now,
         tick' = tick \/
           (tick.stage # "advance" /\ (tick'.stage = "advance" => tick'.result # "fired")),
         SkippedAfterGrace'
  PROVE  IInv'
<1>1. Typed /\ TickOK /\ RequestOK /\ \A s \in Schedules : RowOK(s)
  BY IInvParts
<1>2. \A s : Pending(s) => Pending(s)'
  BY DEF Pending, Current
<1>3. \A s : Pending(s)' => Pending(s)
  BY DEF Pending, Current
<1>4. edits \in Nat
  BY <1>1 DEF Typed
<1>5. \A s \in Schedules : RowOK(s)'
  BY <1>1, <1>2, <1>4, RowKept
<1>6. \A e \in Entries : Listed(e)' => Listed(e)
  BY DEF Listed
<1>7. \A e \in Entries : Listed(e)' => EntryOK(e)'
  <2> SUFFICES ASSUME NEW e \in Entries, Listed(e)' PROVE EntryOK(e)'
    OBVIOUS
  <2>1. EntryOK(e)
    BY <1>1, <1>6 DEF TickOK
  <2>2. Pending(e.id) => Pending(e.id)'
    BY <1>2
  <2>3. edits <= edits'
    BY <1>4
  <2> QED
    BY <1>1, <2>1, <2>2, <2>3, EntryKept
<1>8. TickOK'
  <2>1. \A i, j \in 1 .. Len(tick'.due) : i # j => tick'.due[i].id # tick'.due[j].id
    BY <1>1 DEF TickOK
  <2>2. \A s \in Schedules : Pending(s)' /\ Counts(s)' =>
          /\ last'[s].edit = Current'.row.edit
          /\ last'[s].next = NextAfter(Current'.row.def, tick'.now)
    <3> SUFFICES ASSUME NEW s \in Schedules, Pending(s)', Counts(s)'
                 PROVE  /\ last'[s].edit = Current'.row.edit
                        /\ last'[s].next = NextAfter(Current'.row.def, tick'.now)
      OBVIOUS
    <3>1. Pending(s) /\ Counts(s)
      BY <1>3 DEF Counts
    <3>2. Current' = Current
      BY DEF Current
    <3> QED
      BY <1>1, <3>1, <3>2 DEF TickOK
  <2> QED
    BY <1>7, <2>1, <2>2 DEF TickOK
<1>9. RequestOK'
  BY <1>1 DEF RequestOK
<1> QED
  BY <1>5, <1>8, <1>9 DEF IInv

LEMMA WorldSteps ==
  ASSUME IInv,
         \/ TimePasses \/ JobEnds \/ TeardownFails \/ MarkDeleted \/ Boot
         \/ \E type \in {"deploy", "power", "teardown"} : StartByHand(type)
  PROVE  IInv'
<1>1. Typed /\ TickOK
  BY IInvParts
<1>2. UNCHANGED <<rows, busySince, tick, request, last, overwritten, edits>>
  BY DEF TimePasses, JobEnds, TeardownFails, MarkDeleted, Boot, StartByHand, bounds
<1>3. clock' \in 0 .. MaxTime /\ clock <= clock'
  BY <1>1, SchedulerAssumption
  DEF Typed, TimePasses, JobEnds, TeardownFails, MarkDeleted, Boot, StartByHand
<1>4. up' \in BOOLEAN /\ (up => up')
  BY <1>1 DEF Typed, TimePasses, JobEnds, TeardownFails, MarkDeleted, Boot, StartByHand
<1>5. /\ dep' \in {"ready", "error", "deploying", "deleting", "deleted"}
      /\ job' \in {"none", "deploy", "fill", "power", "teardown", "dropping"}
      /\ job' \in {"deploy", "teardown"} => dep' = StatusOf(job', dep')
  <2>1. CASE TimePasses \/ Boot
    BY <1>1, <2>1 DEF Typed, TimePasses, Boot
  <2>2. CASE JobEnds
    BY <1>1, <2>2 DEF Typed, JobEnds
  <2>3. CASE TeardownFails \/ MarkDeleted
    BY <1>1, <2>3 DEF Typed, TeardownFails, MarkDeleted
  <2>4. CASE \E type \in {"deploy", "power", "teardown"} : StartByHand(type)
    BY <1>1, <2>4 DEF Typed, StartByHand, StatusOf
  <2> QED
    BY <2>1, <2>2, <2>3, <2>4
<1>6. Typed'
  <2>1. tick'.now <= clock'
    BY <1>1, <1>2, <1>3, SchedulerAssumption DEF Typed, Ticks
  <2> QED
    BY <1>1, <1>2, <1>3, <1>4, <1>5, <2>1 DEF Typed
<1>7. SkippedAfterGrace'
  BY <1>1, <1>2 DEF TickOK, SkippedAfterGrace, Current
<1> QED
  BY <1>2, <1>3, <1>6, <1>7, TickMovesOn

LEMMA OutcomeParts ==
  ASSUME Typed, NEW result \in Results
  PROVE  /\ Outcome(result) \in Ticks /\ Outcome(result).stage = "advance"
         /\ Outcome(result).result = result /\ Outcome(result).due = tick.due
         /\ Outcome(result).now = tick.now
BY DEF Typed, Ticks, Outcome

LEMMA FetchSteps ==
  ASSUME IInv, Fetch \/ FetchFails \/ StartRefused
  PROVE  IInv'
<1>1. Typed /\ tick \in Ticks
  BY IInvParts DEF Typed
<1>2. /\ UNCHANGED <<clock, up, rows, busySince, request, dep, job, last, overwritten, edits>>
      /\ tick.stage \in {"fetch", "start"}
  BY DEF Fetch, FetchFails, StartRefused, bounds
<1>3. /\ tick' \in Ticks /\ tick'.due = tick.due /\ tick'.now = tick.now
      /\ tick'.stage = "start" \/ (tick'.stage = "advance" /\ tick'.result \in {"parked", "error"})
  <2>1. CASE tick' = Outcome("parked") \/ tick' = Outcome("error")
    BY <1>1, <2>1, OutcomeParts DEF Results
  <2>2. CASE tick' = [tick EXCEPT !.stage = "start", !.ready = dep = "ready"]
    <3> DEFINE ready == dep = "ready"
    <3>1. ready \in BOOLEAN
      OBVIOUS
    <3>2. tick' = [tick EXCEPT !.stage = "start", !.ready = ready]
      BY <2>2
    <3> HIDE DEF ready
    <3> QED
      BY <1>1, <3>1, <3>2 DEF Ticks
  <2> QED
    BY <2>1, <2>2 DEF Fetch, FetchFails, StartRefused
<1>4. Typed'
  BY <1>1, <1>2, <1>3 DEF Typed
<1>5. SkippedAfterGrace'
  BY <1>3 DEF SkippedAfterGrace
<1>6. clock <= clock'
  BY <1>1, <1>2, SchedulerAssumption DEF Typed
<1> QED
  BY <1>2, <1>3, <1>4, <1>5, <1>6, TickMovesOn

-----------------------------------------------------------------------------
(* The loop fires, waits, or writes the next fire time.                     *)

LEMMA DueOnce ==
  ASSUME IInv, tick.stage # "idle", NEW e \in Entries, Listed(e), e.id = Current.id
  PROVE  e = Current
<1>1. Typed /\ TickOK
  BY IInvParts
<1>2. 1 \in 1 .. Len(tick.due) /\ Current = tick.due[1]
  BY <1>1, DueParts
<1>3. PICK i \in 1 .. Len(tick.due) : e = tick.due[i]
  BY DEF Listed
<1>4. i # 1 => tick.due[i].id # tick.due[1].id
  BY <1>1, <1>2 DEF TickOK
<1> QED
  BY <1>2, <1>3, <1>4

LEMMA DueShrinks ==
  ASSUME IInv, tick.stage # "idle", tick' = Following(tick.due)
  PROVE  /\ tick'.stage \in {"idle", "fetch"}
         /\ \A e \in Entries :
              Listed(e)' => Listed(e) /\ e.id # Current.id /\ tick'.now = tick.now
         /\ \A i, j \in 1 .. Len(tick'.due) : i # j => tick'.due[i].id # tick'.due[j].id
<1>1. Typed /\ TickOK
  BY IInvParts
<1>2. 1 \in 1 .. Len(tick.due) /\ Current = tick.due[1] /\ Len(tick.due) \in Nat
  BY <1>1, DueParts
<1>3. /\ tick'.stage \in {"idle", "fetch"} /\ Len(tick'.due) \in Nat
      /\ \A i \in 1 .. Len(tick'.due) :
           /\ tick'.now = tick.now
           /\ i + 1 \in 2 .. Len(tick.due) /\ tick'.due[i] = tick.due[i + 1]
  BY <1>1, FollowingParts
<1>4. ASSUME NEW e \in Entries, Listed(e)'
      PROVE  Listed(e) /\ e.id # Current.id /\ tick'.now = tick.now
  <2>1. PICK i \in 1 .. Len(tick'.due) : e = tick'.due[i]
    BY <1>4 DEF Listed
  <2>2. /\ tick'.now = tick.now /\ e = tick.due[i + 1]
        /\ i + 1 \in 1 .. Len(tick.due) /\ i + 1 # 1
    BY <1>2, <1>3, <2>1
  <2>3. tick.due[i + 1].id # tick.due[1].id
    BY <1>1, <1>2, <2>2 DEF TickOK
  <2> QED
    BY <1>2, <2>2, <2>3 DEF Listed
<1>5. ASSUME NEW i \in 1 .. Len(tick'.due), NEW j \in 1 .. Len(tick'.due), i # j
      PROVE  tick'.due[i].id # tick'.due[j].id
  <2>1. /\ i + 1 \in 1 .. Len(tick.due) /\ j + 1 \in 1 .. Len(tick.due) /\ i + 1 # j + 1
        /\ tick'.due[i] = tick.due[i + 1] /\ tick'.due[j] = tick.due[j + 1]
    BY <1>2, <1>3, <1>5
  <2>2. tick.due[i + 1].id # tick.due[j + 1].id
    BY <1>1, <2>1 DEF TickOK
  <2> QED
    BY <2>1, <2>2
<1> QED
  BY <1>3, <1>4, <1>5

(* The loop is done with the first schedule of its list, and has touched     *)
(* nothing of another one.                                                   *)
LEMMA LoopGoesOn ==
  ASSUME IInv, Typed', tick.stage # "idle", tick' = Following(tick.due),
         UNCHANGED <<clock, request, last, edits>>,
         overwritten \subseteq overwritten',
         \A t \in Schedules \ {Current.id} : rows'[t] = rows[t] /\ busySince'[t] = busySince[t],
         rows'[Current.id].edit = rows[Current.id].edit,
         busySince'[Current.id].edit \in {0, busySince[Current.id].edit, Current.row.edit},
         \A s \in Schedules : s = Current.id => RowOK(s)'
  PROVE  IInv'
<1>1. Typed /\ TickOK /\ RequestOK /\ \A t \in Schedules : RowOK(t)
  BY IInvParts
<1>2. clock \in Nat /\ edits \in Nat
  BY <1>1, SchedulerAssumption DEF Typed
<1>3. \A t \in Schedules : RowOK(t)'
  <2> SUFFICES ASSUME NEW t \in Schedules, t # Current.id PROVE RowOK(t)'
    OBVIOUS
  <2>1. ~Pending(t)
    BY DEF Pending
  <2>2. /\ rows'[t] = rows[t] /\ busySince'[t] = busySince[t] /\ last'[t] = last[t]
        /\ t \in overwritten => t \in overwritten'
        /\ clock <= clock' /\ edits <= edits'
    BY <1>2
  <2> QED
    BY <1>1, <2>1, <2>2, RowKept
<1>4. \A e \in Entries : Listed(e)' => EntryOK(e)'
  <2> SUFFICES ASSUME NEW e \in Entries, Listed(e)' PROVE EntryOK(e)'
    OBVIOUS
  <2>1. Listed(e) /\ e.id # Current.id /\ tick'.now = tick.now /\ e.id \in Schedules
    BY DueShrinks DEF Entries
  <2>2. EntryOK(e)
    BY <1>1, <2>1 DEF TickOK
  <2>3. /\ ~Pending(e.id) /\ rows'[e.id] = rows[e.id] /\ busySince'[e.id] = busySince[e.id]
        /\ last'[e.id] = last[e.id] /\ edits <= edits'
    BY <1>2, <2>1 DEF Pending
  <2> QED
    BY <1>1, <2>1, <2>2, <2>3, EntryKept
<1>5. TickOK'
  <2>1. tick'.stage # "advance"
    BY DueShrinks
  <2>2. SkippedAfterGrace'
    BY <2>1 DEF SkippedAfterGrace
  <2>3. \A s : ~Pending(s)'
    BY <2>1 DEF Pending
  <2> QED
    BY <1>4, <2>2, <2>3, DueShrinks DEF TickOK
<1>6. RequestOK'
  <2> DEFINE s == request.id
             edit == request.row.edit
  <2> SUFFICES ASSUME request.op # "none"
               PROVE  /\ request.row.status = "live"
                      /\ edit \in 1 .. edits
                      /\ edit \notin {rows'[s].edit, busySince'[s].edit, last[s].edit}
                      /\ \A i \in 1 .. Len(tick'.due) :
                           tick'.due[i].id = s => tick'.due[i].row.edit # edit
                      /\ request.row.enabled => IsOccurrence(request.row.def, request.row.next)
    BY DEF RequestOK
  <2>1. /\ request.row.status = "live"
        /\ edit \in 1 .. edits
        /\ edit \notin {rows[s].edit, busySince[s].edit, last[s].edit}
        /\ \A i \in 1 .. Len(tick.due) : tick.due[i].id = s => tick.due[i].row.edit # edit
        /\ request.row.enabled => IsOccurrence(request.row.def, request.row.next)
    BY <1>1 DEF RequestOK
  <2>2. s \in Schedules
    BY <1>1 DEF Typed
  <2>3. s = Current.id => Current.row.edit # edit
    BY <1>1, <2>1, DueParts
  <2>4. edit \notin {rows'[s].edit, busySince'[s].edit}
    <3>1. CASE s = Current.id
      BY <1>2, <2>1, <2>3, <3>1
    <3>2. CASE s # Current.id
      BY <2>1, <2>2, <3>2
    <3> QED
      BY <3>1, <3>2
  <2>5. \A i \in 1 .. Len(tick'.due) : tick'.due[i].id = s => tick'.due[i].row.edit # edit
    <3>1. \A i \in 1 .. Len(tick'.due) :
            i + 1 \in 2 .. Len(tick.due) /\ tick'.due[i] = tick.due[i + 1]
      BY <1>1, FollowingParts
    <3>2. \A j \in 2 .. Len(tick.due) : j \in 1 .. Len(tick.due)
      BY <1>1, DueParts
    <3> SUFFICES ASSUME NEW i \in 1 .. Len(tick'.due), tick'.due[i].id = s
                 PROVE  tick'.due[i].row.edit # edit
      OBVIOUS
    <3>3. i + 1 \in 1 .. Len(tick.due) /\ tick'.due[i] = tick.due[i + 1]
      BY <3>1, <3>2
    <3>4. tick.due[i + 1].id = s => tick.due[i + 1].row.edit # edit
      BY <2>1, <3>3
    <3> QED
      BY <3>3, <3>4
  <2> QED
    BY <2>1, <2>4, <2>5
<1> QED
  BY <1>3, <1>5, <1>6 DEF IInv

LEMMA StartStep ==
  ASSUME IInv, Start
  PROVE  IInv'
<1>0. tick.stage = "start" /\ Current \in Entries /\ EntryOK(Current)
  BY IInvParts DEF Start
<1> PICK c \in Entries : c = Current
  BY <1>0
<1> DEFINE s == c.id
           row == c.row
<1>1. /\ Typed /\ TickOK /\ RequestOK /\ \A t \in Schedules : RowOK(t)
      /\ tick.stage = "start" /\ EntryOK(c) /\ s \in Schedules /\ row \in Row
  BY <1>0, IInvParts DEF Entries
<1>2. /\ UNCHANGED <<clock, up, rows, busySince, request, overwritten, edits>>
      /\ job' = row.action /\ dep' = StatusOf(row.action, dep)
      /\ last' = [last EXCEPT ![s] = Fired(s, row)] /\ tick' = Outcome("fired")
  BY DEF Start, bounds
<1>3. /\ tick' \in Ticks /\ tick'.stage = "advance" /\ tick'.result = "fired"
      /\ tick'.due = tick.due /\ tick'.now = tick.now
  BY <1>1, <1>2, OutcomeParts DEF Results
<1>4. /\ clock \in Nat /\ edits \in Nat /\ tick.now \in Nat /\ tick.now <= clock
      /\ row.def \in Definitions /\ row.action \in Actions /\ row.next \in Nat /\ row.edit \in Nat
      /\ row.status = "live" /\ row.edit <= edits
  BY <1>1, SchedulerAssumption DEF Typed, Ticks, EntryOK, GoodRow, Row
<1> DEFINE next == NextAfter(row.def, tick.now)
<1>5. next \in Nat
  BY <1>4, NextOccurs
<1>6. /\ last'[s].due = row.next /\ last'[s].next = next /\ last'[s].edit = row.edit
      /\ last'[s].cut = FALSE
      /\ \A t \in Schedules : t # s => last'[t] = last[t]
      /\ last' \in [Schedules -> Fires]
  <2>1. last \in [Schedules -> Fires]
    BY <1>1 DEF Typed
  <2>2. /\ Fired(s, row) \in Fires /\ Fired(s, row).due = row.next /\ Fired(s, row).next = next
        /\ Fired(s, row).edit = row.edit /\ Fired(s, row).cut = FALSE
    <3> HIDE DEF next
    <3>1. Fired(s, row) = [count |-> last[s].count + 1, due |-> row.next, next |-> next,
                           edit |-> row.edit, cut |-> FALSE]
      BY DEF Fired, next
    <3>2. last[s].count + 1 \in Nat
      BY <1>1, <2>1 DEF Fires
    <3> QED
      BY <1>4, <1>5, <3>1, <3>2 DEF Fires
  <2> QED
    BY <1>1, <1>2, <2>1, <2>2
<1> HIDE DEF next
<1>7. Typed'
  <2>1. row.action \in {"fill", "power", "teardown"}
    BY <1>4, SchedulerAssumption
  <2>2. /\ dep' \in {"ready", "error", "deploying", "deleting", "deleted"}
        /\ job' \in {"none", "deploy", "fill", "power", "teardown", "dropping"}
        /\ job' \in {"deploy", "teardown"} => dep' = StatusOf(job', dep')
    BY <1>1, <1>2, <2>1 DEF Typed, StatusOf
  <2> QED
    BY <1>1, <1>2, <1>3, <1>6, <2>2 DEF Typed
<1>8. Current' = Current /\ \A t : ~Pending(t) /\ (Pending(t)' <=> t = s)
  BY <1>1, <1>3 DEF Pending, Current
<1>9. ComputedBy(s, row.def, tick.now)' /\ ComputedBy(s, row.def, clock)'
  <2>1. tick.now \in 0 .. tick.now /\ tick.now \in 0 .. clock
    BY <1>4
  <2> QED
    BY <1>2, <1>3, <1>6, <2>1 DEF ComputedBy, next
<1>10. \A t \in Schedules : RowOK(t)'
  <2>1. ASSUME NEW t \in Schedules, t # s PROVE RowOK(t)'
    <3>1. /\ rows'[t] = rows[t] /\ busySince'[t] = busySince[t] /\ last'[t] = last[t]
          /\ t \in overwritten => t \in overwritten'
          /\ clock <= clock' /\ edits <= edits'
      BY <1>2, <1>4, <1>6, <2>1
    <3> QED
      BY <1>1, <1>7, <1>8, <3>1, RowKept
  <2>2. RowOK(s)'
    <3>1. {rows'[s].edit, busySince'[s].edit, last'[s].edit} \subseteq 0 .. edits'
      BY <1>1, <1>2, <1>4, <1>6 DEF RowOK
    <3>2. /\ s \in overwritten' \/ ~rows'[s].enabled \/ IsOccurrence(rows'[s].def, rows'[s].next)
          /\ busySince'[s].seen /\ Live(s)' /\ rows'[s].edit = busySince'[s].edit =>
               rows'[s].next <= busySince'[s].at
      BY <1>1, <1>2 DEF RowOK, Live
    <3>3. Live(s)' /\ rows'[s].edit = last'[s].edit => rows'[s] = row
      BY <1>1, <1>2, <1>6 DEF EntryOK, Live
    <3>4. Counts(s)' /\ Live(s)' /\ rows'[s].edit = last'[s].edit =>
            ComputedBy(s, rows[s].def, clock)'
      BY <1>9, <3>3 DEF ComputedBy
    <3> QED
      BY <1>8, <3>1, <3>2, <3>4 DEF RowOK
  <2> QED
    BY <2>1, <2>2
<1>11. \A e \in Entries : Listed(e)' => EntryOK(e)'
  <2> SUFFICES ASSUME NEW e \in Entries, Listed(e)' PROVE EntryOK(e)'
    OBVIOUS
  <2>1. Listed(e) /\ EntryOK(e) /\ e.id \in Schedules
    BY <1>1, <1>3 DEF Listed, TickOK, Entries
  <2>2. CASE e.id # s
    <3>1. /\ rows'[e.id] = rows[e.id] /\ busySince'[e.id] = busySince[e.id]
          /\ last'[e.id] = last[e.id] /\ edits <= edits'
      BY <1>2, <1>4, <1>6, <2>1, <2>2
    <3> QED
      BY <1>1, <1>3, <1>7, <1>8, <2>1, <3>1, EntryKept
  <2>3. CASE e.id = s
    <3>1. e.row = row
      BY <1>1, <2>1, <2>3, DueOnce
    <3>2. /\ row.status = "live" /\ GoodRow(row) /\ row.enabled /\ row.next <= tick'.now
          /\ row.edit <= edits'
          /\ Live(s)' /\ rows'[s].edit = row.edit => rows'[s] = row
          /\ busySince'[s].seen /\ row.edit = busySince'[s].edit => row.next <= busySince'[s].at
      BY <1>1, <1>2, <1>3 DEF EntryOK, Live
    <3>3. Counts(s)' /\ row.edit = last'[s].edit =>
            /\ ComputedBy(s, row.def, tick.now)'
            /\ Pending(s)' \/ Paced(s, row)'
      BY <1>8, <1>9
    <3>4. rows'[s].edit = last'[s].edit => row.edit = rows'[s].edit
      BY <1>6
    <3> QED
      BY <2>3, <3>1, <3>2, <3>3, <3>4 DEF EntryOK
  <2> QED
    BY <2>2, <2>3
<1>12. TickOK'
  <2>1. \A i, j \in 1 .. Len(tick'.due) : i # j => tick'.due[i].id # tick'.due[j].id
    BY <1>1, <1>3 DEF TickOK
  <2>2. SkippedAfterGrace'
    BY <1>3 DEF SkippedAfterGrace
  <2>3. \A t \in Schedules : Pending(t)' /\ Counts(t)' =>
          last'[t].edit = Current'.row.edit /\ last'[t].next = NextAfter(Current'.row.def, tick'.now)
    BY <1>3, <1>6, <1>8 DEF next
  <2> QED
    BY <1>11, <2>1, <2>2, <2>3 DEF TickOK
<1>13. RequestOK'
  <2>1. request.op # "none" /\ request.id = s => request.row.edit # row.edit
    BY <1>1, DueParts DEF RequestOK
  <2>2. request.op # "none" => request.id \in Schedules
    BY <1>1 DEF Typed
  <2>3. request.op # "none" => request.row.edit # last'[request.id].edit
    BY <1>1, <1>6, <2>1, <2>2 DEF RequestOK
  <2> QED
    BY <1>1, <1>2, <1>3, <2>3 DEF RequestOK
<1> QED
  BY <1>7, <1>10, <1>12, <1>13 DEF IInv

LEMMA BusyStep ==
  ASSUME IInv, StartBusy
  PROVE  IInv'
<1>0. tick.stage = "start" /\ Current \in Entries /\ EntryOK(Current)
  BY IInvParts DEF StartBusy
<1> PICK c \in Entries : c = Current
  BY <1>0
<1> DEFINE s == c.id
           row == c.row
<1>1. /\ Typed /\ TickOK /\ \A t \in Schedules : RowOK(t)
      /\ tick.stage = "start" /\ EntryOK(c) /\ s \in Schedules /\ row \in Row
  BY <1>0, IInvParts DEF Entries
<1>2. UNCHANGED <<clock, up, rows, request, dep, job, last, overwritten, edits>>
  BY DEF StartBusy, bounds
<1>3. /\ clock \in Nat /\ edits \in Nat /\ tick.now \in Nat /\ tick.now <= clock
      /\ tick.now \in 0 .. MaxTime /\ row.next \in Nat /\ row.edit \in Nat
      /\ row.edit <= edits /\ row.next <= tick.now
      /\ busySince[s] \in [at : 0 .. MaxTime, edit : Nat, seen : BOOLEAN]
  BY <1>1, SchedulerAssumption DEF Typed, Ticks, EntryOK, Row
<1>4. CASE tick' = Following(tick.due) /\ ~busySince[s].seen
  <2> DEFINE seen == [at |-> tick.now, edit |-> row.edit, seen |-> TRUE]
  <2>1. busySince' = [busySince EXCEPT ![s] = seen]
    BY <1>4 DEF StartBusy
  <2>2. /\ seen \in [at : 0 .. MaxTime, edit : Nat, seen : BOOLEAN]
        /\ seen.at = tick.now /\ seen.edit = row.edit /\ seen.seen
    BY <1>3
  <2> HIDE DEF seen
  <2>3. busySince \in [Schedules -> [at : 0 .. MaxTime, edit : Nat, seen : BOOLEAN]]
    BY <1>1 DEF Typed
  <2>4. /\ busySince'[s] = seen /\ \A t \in Schedules : t # s => busySince'[t] = busySince[t]
        /\ busySince' \in [Schedules -> [at : 0 .. MaxTime, edit : Nat, seen : BOOLEAN]]
    BY <1>1, <2>1, <2>2, <2>3
  <2>5. Typed'
    <3>1. /\ tick' \in Ticks /\ tick'.now <= clock'
          /\ tick'.stage # "idle" => up' /\ tick'.due # <<>>
      BY <1>1, <1>2, <1>4, FollowingParts DEF Typed
    <3> QED
      BY <1>1, <1>2, <2>4, <3>1 DEF Typed
  <2>6. RowOK(s)'
    <3>1. /\ {rows[s].edit, last[s].edit} \subseteq 0 .. edits
          /\ s \in overwritten \/ ~rows[s].enabled \/ IsOccurrence(rows[s].def, rows[s].next)
          /\ Counts(s) /\ Live(s) /\ rows[s].edit = last[s].edit =>
               ComputedBy(s, rows[s].def, clock) /\ (Pending(s) \/ Paced(s, rows[s]))
      BY <1>1 DEF RowOK
    <3>2. {rows'[s].edit, busySince'[s].edit, last'[s].edit} \subseteq 0 .. edits'
      BY <1>2, <1>3, <2>2, <2>4, <3>1
    <3>3. Live(s)' /\ rows'[s].edit = busySince'[s].edit => rows'[s].next <= busySince'[s].at
      BY <1>1, <1>2, <1>3, <2>2, <2>4 DEF EntryOK, Live
    <3>4. ~Pending(s)
      BY <1>1 DEF Pending
    <3>5. Counts(s)' /\ Live(s)' /\ rows'[s].edit = last'[s].edit =>
            ComputedBy(s, rows[s].def, clock)' /\ Paced(s, rows[s])'
      BY <1>2, <3>1, <3>4 DEF Counts, Live, ComputedBy, Paced
    <3> QED
      BY <1>2, <3>1, <3>2, <3>3, <3>5 DEF RowOK
  <2>7. /\ \A t \in Schedules \ {Current.id} : rows'[t] = rows[t] /\ busySince'[t] = busySince[t]
        /\ rows'[Current.id].edit = rows[Current.id].edit
        /\ busySince'[Current.id].edit \in {0, busySince[Current.id].edit, Current.row.edit}
    BY <1>2, <2>2, <2>4
  <2>8. \A t \in Schedules : t = Current.id => RowOK(t)'
    BY <2>6
  <2> QED
    BY <1>1, <1>2, <1>4, <2>5, <2>7, <2>8, LoopGoesOn
<1>5. CASE tick' = Following(tick.due) /\ busySince[s].seen
  <2>1. busySince' = busySince
    BY <1>5 DEF StartBusy
  <2>2. Typed'
    <3>1. /\ tick' \in Ticks /\ tick'.now <= clock'
          /\ tick'.stage # "idle" => up' /\ tick'.due # <<>>
      BY <1>1, <1>2, <1>5, FollowingParts DEF Typed
    <3> QED
      BY <1>1, <1>2, <2>1, <3>1 DEF Typed
  <2>3. RowOK(s)'
    <3>1. ~Pending(s) /\ clock <= clock' /\ edits <= edits'
      BY <1>1, <1>2, <1>3 DEF Pending
    <3> QED
      BY <1>1, <1>2, <2>1, <2>2, <3>1, RowKept
  <2>4. \A t \in Schedules : t = Current.id => RowOK(t)'
    BY <2>3
  <2> QED
    BY <1>1, <1>2, <1>5, <2>1, <2>2, <2>4, LoopGoesOn
<1>6. CASE tick' = Outcome("skipped") /\ ~(tick.now - busySince[s].at < Grace) /\ busySince[s].seen
  <2>1. busySince' = busySince
    BY <1>6 DEF StartBusy
  <2>2. /\ tick' \in Ticks /\ tick'.stage = "advance" /\ tick'.result = "skipped"
        /\ tick'.due = tick.due /\ tick'.now = tick.now
    BY <1>1, <1>6, OutcomeParts DEF Results
  <2>3. Typed'
    BY <1>1, <1>2, <2>1, <2>2 DEF Typed
  <2>4. SkippedAfterGrace'
    <3>1. row.edit = busySince[s].edit => row.next <= busySince[s].at
      BY <1>1, <1>6 DEF EntryOK
    <3>2. busySince[s].at \in Nat /\ Grace \in Nat
      BY <1>3, SchedulerAssumption
    <3>3. row.edit = busySince[s].edit => tick.now - row.next >= Grace
      BY <1>3, <1>6, <3>1, <3>2
    <3>4. Current' = c
      BY <2>2 DEF Current
    <3> QED
      BY <2>1, <2>2, <3>3, <3>4 DEF SkippedAfterGrace
  <2>5. clock <= clock'
    BY <1>2, <1>3
  <2>6. tick'.result # "fired"
    BY <2>2
  <2> QED
    BY <1>1, <1>2, <2>1, <2>2, <2>3, <2>4, <2>5, <2>6, TickMovesOn
<1> QED
  BY <1>4, <1>5, <1>6 DEF StartBusy

LEMMA AdvanceStep ==
  ASSUME IInv, Advance
  PROVE  IInv'
<1>0. tick.stage = "advance" /\ Current \in Entries /\ EntryOK(Current)
  BY IInvParts DEF Advance
<1> PICK c \in Entries : c = Current
  BY <1>0
<1> DEFINE s == c.id
           row == c.row
           next == NextOf(row, tick.result)
<1>1. /\ Typed /\ TickOK /\ \A t \in Schedules : RowOK(t)
      /\ tick.stage = "advance" /\ EntryOK(c) /\ s \in Schedules /\ row \in Row
  BY <1>0, IInvParts DEF Entries
<1>2. /\ UNCHANGED <<clock, up, request, dep, job, last, edits>>
      /\ busySince' = [busySince EXCEPT ![s] = NotBusy]
      /\ rows' = IF Live(s) THEN [rows EXCEPT ![s].next = next, ![s].enabled = next # NoTime] ELSE rows
      /\ overwritten' = IF Live(s) /\ rows[s].edit # row.edit
                        THEN overwritten \cup {s} ELSE overwritten
      /\ tick' = Following(tick.due)
  BY DEF Advance, bounds
<1>3. /\ clock \in Nat /\ edits \in Nat /\ tick.now \in Nat /\ tick.now <= clock
      /\ row.def \in Definitions /\ row.next \in Nat /\ row.next # NoTime /\ row.edit \in Nat
  BY <1>1, SchedulerAssumption DEF Typed, Ticks, EntryOK, Row, GoodRow
<1>4. /\ next \in Nat
      /\ next # NoTime => next = NextAfter(row.def, tick.now) /\ IsOccurrence(row.def, next)
      /\ tick.result = "fired" => next = NextAfter(row.def, tick.now)
  BY <1>3, NextOccurs DEF NextOf, NoTime
<1> HIDE DEF next
<1> DEFINE new == [rows[s] EXCEPT !.next = next, !.enabled = next # NoTime]
<1>5. /\ rows \in [Schedules -> Row] /\ rows[s] \in Row /\ \A t \in Schedules : GoodRow(rows[t])
      /\ busySince \in [Schedules -> [at : 0 .. MaxTime, edit : Nat, seen : BOOLEAN]]
  BY <1>1 DEF Typed
<1>6. /\ new \in Row /\ new.next = next /\ new.edit = rows[s].edit /\ new.def = rows[s].def
      /\ new.status = rows[s].status /\ (new.enabled <=> next # NoTime)
      /\ Live(s) => GoodRow(new)
  <2> DEFINE enabled == next # NoTime
  <2>1. enabled \in BOOLEAN
    OBVIOUS
  <2>2. new = [rows[s] EXCEPT !.next = next, !.enabled = enabled]
    OBVIOUS
  <2>3. enabled <=> next # NoTime
    OBVIOUS
  <2> HIDE DEF enabled, new
  <2>4. /\ new \in Row /\ new.next = next /\ new.edit = rows[s].edit /\ new.def = rows[s].def
        /\ new.status = rows[s].status /\ new.enabled = enabled /\ new.action = rows[s].action
    BY <1>4, <1>5, <2>1, <2>2 DEF Row
  <2>5. Live(s) => GoodRow(new)
    BY <1>1, <1>5, <2>3, <2>4 DEF GoodRow, Live
  <2> QED
    BY <2>3, <2>4, <2>5
<1>7. Live(s) => rows' = [rows EXCEPT ![s] = new]
  BY <1>2, <1>5
<1> HIDE DEF new
<1>8. /\ rows'[s] = IF Live(s) THEN new ELSE rows[s]
      /\ \A t \in Schedules : t # s => rows'[t] = rows[t]
      /\ rows' \in [Schedules -> Row]
      /\ \A t \in Schedules : GoodRow(rows'[t])
  <2>1. CASE Live(s)
    BY <1>1, <1>5, <1>6, <1>7, <2>1
  <2>2. CASE ~Live(s)
    BY <1>2, <1>5, <2>2
  <2> QED
    BY <2>1, <2>2
<1>9. /\ busySince'[s] = NotBusy /\ \A t \in Schedules : t # s => busySince'[t] = busySince[t]
      /\ busySince' \in [Schedules -> [at : 0 .. MaxTime, edit : Nat, seen : BOOLEAN]]
  BY <1>1, <1>2, <1>5, Blanks
<1>10. Typed'
  <2>1. /\ tick' \in Ticks /\ tick'.now <= clock'
        /\ tick'.stage # "idle" => up' /\ tick'.due # <<>>
    BY <1>1, <1>2, FollowingParts DEF Typed
  <2>2. overwritten' \subseteq Schedules
    BY <1>1, <1>2 DEF Typed
  <2>3. \A t \in Schedules : GoodRow(rows[t])'
    BY <1>8 DEF GoodRow
  <2> QED
    BY <1>1, <1>2, <1>8, <1>9, <2>1, <2>2, <2>3 DEF Typed
<1>11. RowOK(s)'
  <2>1. /\ {rows[s].edit, last[s].edit} \subseteq 0 .. edits
        /\ s \in overwritten \/ ~rows[s].enabled \/ IsOccurrence(rows[s].def, rows[s].next)
        /\ Counts(s) /\ Live(s) /\ rows[s].edit = last[s].edit =>
             ComputedBy(s, rows[s].def, clock)
    BY <1>1 DEF RowOK
  <2>2. {rows'[s].edit, busySince'[s].edit, last'[s].edit} \subseteq 0 .. edits'
    BY <1>2, <1>3, <1>6, <1>8, <1>9, <2>1, Blanks
  <2>3. Live(s) /\ rows[s].edit = row.edit => rows[s] = row
    BY <1>1 DEF EntryOK
  <2>4. s \in overwritten' \/ ~rows'[s].enabled \/ IsOccurrence(rows'[s].def, rows'[s].next)
    <3>1. CASE Live(s)
      <4>1. rows'[s].def = rows[s].def /\ rows'[s].next = next /\ (rows'[s].enabled <=> next # NoTime)
        BY <1>6, <1>8, <3>1
      <4>2. s \in overwritten' \/ rows[s] = row
        BY <1>2, <2>3, <3>1
      <4> QED
        BY <1>4, <4>1, <4>2
    <3>2. CASE ~Live(s)
      BY <1>2, <1>8, <2>1, <3>2
    <3> QED
      BY <3>1, <3>2
  <2>5. ~busySince'[s].seen
    BY <1>9, Blanks
  <2>6. Live(s)' => Live(s)
    BY <1>8 DEF Live
  <2>7. ASSUME Counts(s)', Live(s)', rows'[s].edit = last'[s].edit
        PROVE  ComputedBy(s, rows[s].def, clock)' /\ Paced(s, rows[s])'
    <3>1. Counts(s) /\ Live(s) /\ rows[s].edit = last[s].edit /\ rows'[s] = new
      BY <1>2, <1>6, <1>8, <2>6, <2>7 DEF Counts
    <3>2. rows[s] = row /\ row.edit = last[s].edit
      BY <1>1, <2>3, <3>1 DEF EntryOK
    <3>3. ComputedBy(s, rows[s].def, clock)'
      BY <1>2, <1>6, <2>1, <3>1 DEF ComputedBy
    <3>4. new.next = NoTime \/ (last[s].next # NoTime /\ new.next >= last[s].next)
      <4> SUFFICES ASSUME next # NoTime PROVE last[s].next # NoTime /\ next >= last[s].next
        BY <1>6
      <4>1. CASE tick.result = "fired"
        <5>1. Pending(s)
          BY <1>1, <4>1 DEF Pending
        <5>2. last[s].next = NextAfter(row.def, tick.now)
          BY <1>1, <3>1, <5>1 DEF TickOK
        <5> QED
          BY <1>4, <5>2
      <4>2. CASE tick.result # "fired"
        <5>1. ~Pending(s)
          BY <4>2 DEF Pending
        <5>2. ComputedBy(s, row.def, tick.now) /\ Paced(s, row)
          BY <1>1, <3>1, <3>2, <5>1 DEF EntryOK
        <5>3. last[s].next # NoTime
          BY <1>3, <5>2 DEF Paced
        <5>4. PICK n \in 0 .. tick.now : last[s].next = NextAfter(row.def, n)
          BY <5>2 DEF ComputedBy
        <5>5. n \in Nat /\ n <= tick.now
          BY <1>3
        <5>6. NextAfter(row.def, tick.now) >= NextAfter(row.def, n)
          BY <1>3, <1>4, <5>5, NextIsMonotone
        <5> QED
          BY <1>4, <5>3, <5>4, <5>6
      <4> QED
        BY <4>1, <4>2
    <3> QED
      BY <1>2, <3>1, <3>3, <3>4 DEF Paced
  <2> QED
    BY <2>2, <2>4, <2>5, <2>7 DEF RowOK
<1>12. /\ \A t \in Schedules \ {Current.id} : rows'[t] = rows[t] /\ busySince'[t] = busySince[t]
       /\ rows'[Current.id].edit = rows[Current.id].edit
       /\ busySince'[Current.id].edit \in {0, busySince[Current.id].edit, Current.row.edit}
       /\ overwritten \subseteq overwritten'
  BY <1>2, <1>6, <1>8, <1>9, Blanks
<1>13. \A t \in Schedules : t = Current.id => RowOK(t)'
  BY <1>11
<1> QED
  BY <1>1, <1>2, <1>10, <1>12, <1>13, LoopGoesOn

-----------------------------------------------------------------------------
(* The loop lists what is due, and the controller dies.                     *)

(* The list holds some rows of the table, each of them once. *)
LEMMA Listing ==
  ASSUME NEW f \in [Schedules -> Row],
         NEW S \in SUBSET {[id |-> s, row |-> f[s]] : s \in Schedules}, S # {},
         NEW due \in SetToSeqs(S)
  PROVE  /\ due \in Seq(Entries) /\ due # <<>>
         /\ \A i \in 1 .. Len(due) : due[i] \in S
         /\ \A i, j \in 1 .. Len(due) : i # j => due[i].id # due[j].id
<1> DEFINE All == {[id |-> s, row |-> f[s]] : s \in Schedules}
           g == [s \in Schedules |-> [id |-> s, row |-> f[s]]]
<1>1. IsFiniteSet(Schedules)
  BY SchedulerAssumption
<1>2. g \in Surjection(Schedules, All)
  BY DEF Surjection
<1>3. S \subseteq Entries
  <2>1. \A s \in Schedules : [id |-> s, row |-> f[s]] \in Entries
    BY DEF Entries
  <2> QED
    BY <2>1
<1>4. \A d, e \in S : d.id = e.id => d = e
  OBVIOUS
<1> HIDE DEF g, All
<1>5. IsFiniteSet(S)
  <2>1. IsFiniteSet(All)
    BY <1>1, <1>2, FS_Surjection
  <2>2. S \in SUBSET All
    BY DEF All
  <2> QED
    BY <2>1, <2>2, FS_Subset
<1>6. Cardinality(S) \in Nat \ {0}
  BY <1>5, FS_CardinalityType, FS_EmptySet
<1>7. /\ due \in [1 .. Cardinality(S) -> S]
      /\ \A i, j \in 1 .. Cardinality(S) : i # j => due[i] # due[j]
  BY DEF SetToSeqs
<1> DEFINE n == Cardinality(S)
<1> HIDE DEF n
<1>8. n \in Nat \ {0} /\ due \in [1 .. n -> S] /\ \A i, j \in 1 .. n : i # j => due[i] # due[j]
  BY <1>6, <1>7 DEF n
<1>9. due \in Seq(Entries) /\ Len(due) = n /\ due # <<>>
  BY <1>3, <1>8
<1>10. \A i \in 1 .. n : due[i] \in S
  BY <1>8
<1>11. \A i, j \in 1 .. n : i # j => due[i].id # due[j].id
  BY <1>4, <1>8, <1>10
<1> QED
  BY <1>9, <1>10, <1>11

LEMMA TickStep ==
  ASSUME IInv, Tick
  PROVE  IInv'
<1>1. /\ Typed /\ TickOK /\ RequestOK /\ \A s \in Schedules : RowOK(s)
      /\ tick.stage = "idle" /\ up
  BY IInvParts DEF Tick
<1> DEFINE T == {t \in Schedules : IsDue(t)}
           S == {[id |-> s, row |-> rows[s]] : s \in T}
<1>2. UNCHANGED <<clock, up, rows, busySince, request, dep, job, last, overwritten, edits>>
  BY DEF Tick, bounds
<1>3. PICK due \in SetToSeqs(S) :
        tick' = [NoTick EXCEPT !.stage = "fetch", !.now = clock, !.due = due]
  BY DEF Tick
<1>4. /\ S \in SUBSET {[id |-> s, row |-> rows[s]] : s \in Schedules}
      /\ S # {} /\ rows \in [Schedules -> Row]
  <2>1. rows \in [Schedules -> Row]
    BY <1>1 DEF Typed
  <2>2. PICK t \in T : TRUE
    BY DEF Tick
  <2>3. [id |-> t, row |-> rows[t]] \in S
    OBVIOUS
  <2>4. S \subseteq {[id |-> s, row |-> rows[s]] : s \in Schedules}
    OBVIOUS
  <2> HIDE DEF S
  <2> QED
    BY <2>1, <2>3, <2>4
<1>5. \A e \in S : e.id \in Schedules /\ IsDue(e.id) /\ e.row = rows[e.id]
  <2>1. \A i : [id |-> i, row |-> rows[i]].row = rows[i]
    OBVIOUS
  <2> QED
    BY <2>1
<1> HIDE DEF T, S
<1>6. /\ due \in Seq(Entries) /\ due # <<>>
      /\ \A i \in 1 .. Len(due) : due[i] \in S
      /\ \A i, j \in 1 .. Len(due) : i # j => due[i].id # due[j].id
  BY <1>4, Listing
<1>7. clock \in 0 .. MaxTime /\ clock \in Nat /\ edits \in Nat
  BY <1>1, SchedulerAssumption DEF Typed
<1>8. tick' \in Ticks /\ tick'.stage = "fetch" /\ tick'.now = clock /\ tick'.due = due
  BY <1>3, <1>6, <1>7, Blanks DEF Ticks
<1>9. Typed'
  BY <1>1, <1>2, <1>6, <1>7, <1>8 DEF Typed
<1>10. \A t : ~Pending(t) /\ ~Pending(t)'
  BY <1>1, <1>8 DEF Pending
<1>11. \A t \in Schedules : RowOK(t)'
  <2>1. clock <= clock' /\ edits <= edits'
    BY <1>2, <1>7
  <2> QED
    BY <1>1, <1>2, <1>9, <1>10, <2>1, RowKept
<1>12. \A e \in Entries : Listed(e)' => EntryOK(e)'
  <2> SUFFICES ASSUME NEW e \in Entries, Listed(e)' PROVE EntryOK(e)'
    OBVIOUS
  <2> DEFINE s == e.id
             row == e.row
  <2>1. e \in S
    BY <1>6, <1>8 DEF Listed
  <2>2. s \in Schedules /\ IsDue(s) /\ row = rows[s]
    BY <1>5, <2>1
  <2>3. /\ row.status = "live" /\ row.enabled /\ row.next <= clock /\ GoodRow(row) /\ Live(s)
    BY <1>1, <2>2 DEF IsDue, Live, Typed, GoodRow
  <2>4. /\ row.edit \in 0 .. edits
        /\ busySince[s].seen /\ row.edit = busySince[s].edit => row.next <= busySince[s].at
        /\ Counts(s) /\ row.edit = last[s].edit =>
             ComputedBy(s, row.def, clock) /\ (Pending(s) \/ Paced(s, row))
    BY <1>1, <2>2, <2>3 DEF RowOK, Paced
  <2>5. row.edit <= edits
    BY <1>7, <2>4
  <2>6. Counts(s)' /\ row.edit = last'[s].edit => ComputedBy(s, row.def, tick.now)' /\ Paced(s, row)'
    BY <1>2, <1>8, <1>10, <2>4 DEF Counts, ComputedBy, Paced
  <2> QED
    BY <1>2, <1>8, <2>2, <2>3, <2>4, <2>5, <2>6 DEF EntryOK
<1>13. TickOK'
  <2>1. SkippedAfterGrace'
    BY <1>8 DEF SkippedAfterGrace
  <2> QED
    BY <1>6, <1>8, <1>10, <1>12, <2>1 DEF TickOK
<1>14. RequestOK'
  <2>1. \A i \in 1 .. Len(due) : due[i].row = rows[due[i].id]
    BY <1>5, <1>6
  <2> QED
    BY <1>1, <1>2, <1>8, <2>1 DEF RequestOK
<1> QED
  BY <1>9, <1>11, <1>13, <1>14 DEF IInv

LEMMA DieStep ==
  ASSUME IInv, Die
  PROVE  IInv'
<1>1. Typed /\ \A s \in Schedules : RowOK(s)
  BY IInvParts
<1>2. /\ UNCHANGED <<clock, rows, dep, overwritten, edits>>
      /\ up' = FALSE /\ tick' = NoTick /\ request' = NoRequest /\ last' = CutOff
      /\ busySince' = [s \in Schedules |-> NotBusy]
      /\ job' = IF job = "dropping" THEN "none" ELSE job
  BY DEF Die
<1>3. \A s \in Schedules : last'[s] = last[s] \/ (last'[s].cut /\ last'[s].edit = last[s].edit)
  BY <1>1, <1>2 DEF Typed, Fires, CutOff
<1>4. \A s \in Schedules : Pending(s) => last'[s].cut
  BY <1>1, <1>2 DEF Typed, Fires, CutOff, Pending, Current
<1>5. last' \in [Schedules -> Fires]
  BY <1>1, <1>2 DEF Typed, Fires, CutOff
<1>6. tick'.stage = "idle" /\ tick'.due = <<>> /\ Len(tick'.due) = 0
  BY <1>2, Blanks
<1>7. Typed'
  <2>1. tick' \in Ticks /\ tick'.now <= clock'
    BY <1>1, <1>2, Blanks, SchedulerAssumption DEF Typed
  <2>2. request'.op = "none"
    BY <1>2 DEF NoRequest
  <2>3. busySince' \in [Schedules -> [at : 0 .. MaxTime, edit : Nat, seen : BOOLEAN]]
    BY <1>2, Blanks
  <2>4. /\ job' \in {"none", "deploy", "fill", "power", "teardown", "dropping"}
        /\ job' \in {"deploy", "teardown"} => dep' = StatusOf(job', dep')
    BY <1>1, <1>2 DEF Typed
  <2> QED
    BY <1>1, <1>2, <1>5, <1>6, <2>1, <2>2, <2>3, <2>4 DEF Typed
<1>8. \A s \in Schedules : RowOK(s)'
  <2> SUFFICES ASSUME NEW s \in Schedules PROVE RowOK(s)'
    OBVIOUS
  <2>1. clock <= clock' /\ edits <= edits'
    BY <1>1, <1>2, SchedulerAssumption DEF Typed
  <2>2. busySince'[s] = NotBusy
    BY <1>2
  <2> QED
    BY <1>1, <1>2, <1>3, <1>4, <1>7, <2>1, <2>2, RowKept
<1>9. TickOK' /\ RequestOK'
  <2>1. SkippedAfterGrace' /\ \A s : ~Pending(s)'
    BY <1>6 DEF SkippedAfterGrace, Pending
  <2>2. \A e : ~Listed(e)'
    BY <1>6 DEF Listed
  <2>3. \A i, j \in 1 .. Len(tick'.due) : i # j => tick'.due[i].id # tick'.due[j].id
    BY <1>6
  <2>4. request'.op = "none"
    BY <1>2 DEF NoRequest
  <2> QED
    BY <2>1, <2>2, <2>3, <2>4 DEF TickOK, RequestOK
<1> QED
  BY <1>7, <1>8, <1>9 DEF IInv

-----------------------------------------------------------------------------
(* The calls of the API, and what tears the rows down.                      *)

(* The table changes under the loop: a row is kept, gone, or holds an edit   *)
(* nobody has seen.                                                          *)
LEMMA TableMoves ==
  ASSUME IInv, Typed', UNCHANGED <<clock, busySince, tick, last>>, edits <= edits',
         \A s \in Schedules :
           \/ rows'[s] = rows[s]
           \/ rows'[s].status # "live"
           \/ /\ rows'[s].edit # last[s].edit
              /\ \A i \in 1 .. Len(tick.due) :
                   tick.due[i].id = s => tick.due[i].row.edit # rows'[s].edit,
         \A s \in Schedules : RowOK(s)',
         RequestOK'
  PROVE  IInv'
<1>1. Typed /\ TickOK
  BY IInvParts
<1>2. /\ Current' = Current
      /\ \A t : (Pending(t)' <=> Pending(t)) /\ (Listed(t)' <=> Listed(t))
      /\ \A t : Counts(t)' <=> Counts(t)
  BY DEF Pending, Listed, Current, Counts
<1>3. \A e \in Entries : Listed(e)' => EntryOK(e)'
  <2> SUFFICES ASSUME NEW e \in Entries, Listed(e)' PROVE EntryOK(e)'
    OBVIOUS
  <2>1. EntryOK(e) /\ e.id \in Schedules
    BY <1>1, <1>2 DEF TickOK, Entries
  <2>2. PICK i \in 1 .. Len(tick.due) : e = tick.due[i]
    BY <1>2 DEF Listed
  <2>3. \/ rows'[e.id] = rows[e.id]
        \/ rows'[e.id].status # "live"
        \/ rows'[e.id].edit \notin {e.row.edit, last[e.id].edit}
    BY <2>1, <2>2
  <2>4. Pending(e.id) => Pending(e.id)'
    BY <1>2
  <2> QED
    BY <1>1, <2>1, <2>3, <2>4, EntryKept
<1>4. TickOK'
  <2>1. SkippedAfterGrace'
    BY <1>1, <1>2 DEF TickOK, SkippedAfterGrace
  <2>2. \A s \in Schedules : Pending(s)' /\ Counts(s)' =>
          last'[s].edit = Current'.row.edit /\ last'[s].next = NextAfter(Current'.row.def, tick'.now)
    BY <1>1, <1>2 DEF TickOK
  <2>3. \A i, j \in 1 .. Len(tick'.due) : i # j => tick'.due[i].id # tick'.due[j].id
    BY <1>1 DEF TickOK
  <2> QED
    BY <1>3, <2>1, <2>2, <2>3 DEF TickOK
<1> QED
  BY <1>4 DEF IInv

(* The numbers of the edits in use. *)
LEMMA EditsInUse ==
  ASSUME IInv, NEW s \in Schedules
  PROVE  /\ edits \in Nat
         /\ {rows[s].edit, busySince[s].edit, last[s].edit} \subseteq 0 .. edits
         /\ \A i \in 1 .. Len(tick.due) : tick.due[i].row.edit <= edits
<1>1. Typed /\ TickOK /\ RowOK(s)
  BY IInvParts
<1>2. \A i \in 1 .. Len(tick.due) : tick.due[i].row.edit <= edits
  <2> SUFFICES ASSUME NEW i \in 1 .. Len(tick.due) PROVE tick.due[i].row.edit <= edits
    OBVIOUS
  <2>1. PICK e \in Entries : e = tick.due[i]
    BY <1>1, DueParts
  <2>2. EntryOK(e)
    BY <1>1, <2>1 DEF Listed, TickOK
  <2> QED
    BY <2>1, <2>2 DEF EntryOK
<1> QED
  BY <1>1, <1>2 DEF Typed, RowOK

LEMMA CallStep ==
  ASSUME IInv, NEW op \in {"create", "update"}, NEW s \in Schedules, NEW def \in Definitions,
         NEW action \in Actions, NEW enabled \in BOOLEAN, Accepts(def, enabled),
         Call(op, s, NewRow(def, action, enabled))
  PROVE  IInv'
<1>1. Typed /\ \A t \in Schedules : RowOK(t)
  BY IInvParts
<1> DEFINE row == NewRow(def, action, enabled)
           next == IF enabled THEN NextAfter(def, clock) ELSE NoTime
<1>2. /\ UNCHANGED <<clock, up, rows, busySince, tick, dep, job, last, overwritten>>
      /\ edits' = edits + 1 /\ request' = [op |-> op, id |-> s, row |-> row]
  BY DEF Call
<1>3. clock \in Nat /\ edits \in Nat
  BY <1>1, SchedulerAssumption DEF Typed
<1>4. next \in Nat /\ (enabled <=> next # NoTime) /\ (enabled => IsOccurrence(def, next))
  BY <1>3, NextOccurs DEF Accepts, NoTime
<1>5. row = [status |-> "live", def |-> def, action |-> action, enabled |-> enabled,
             next |-> next, edit |-> edits + 1]
  BY DEF NewRow
<1> HIDE DEF next, row
<1>6. /\ row \in Row /\ row.status = "live" /\ row.enabled = enabled /\ row.next = next
      /\ row.def = def /\ row.edit = edits + 1 /\ row.action = action
  BY <1>3, <1>4, <1>5 DEF Row
<1>7. GoodRow(row)
  BY <1>4, <1>6 DEF GoodRow
<1>8. request'.op = op /\ request'.id = s /\ request'.row = row
  BY <1>2
<1>9. Typed'
  <2>1. edits' \in Nat
    BY <1>2, <1>3
  <2>2. request'.op \in {"none", "create", "update"} /\ request'.id \in Schedules /\ request'.row \in Row
    BY <1>6, <1>8
  <2>3. GoodRow(request.row)'
    BY <1>7, <1>8 DEF GoodRow
  <2> QED
    BY <1>1, <1>2, <2>1, <2>2, <2>3 DEF Typed
<1>10. clock <= clock' /\ edits <= edits' /\ edits < edits'
  BY <1>2, <1>3
<1>11. \A t \in Schedules : RowOK(t)'
  <2>1. \A t : Pending(t) => Pending(t)'
    BY <1>2 DEF Pending, Current
  <2> QED
    BY <1>1, <1>2, <1>9, <1>10, <2>1, RowKept
<1>12. RequestOK'
  <2>1. row.edit \in 1 .. edits'
    BY <1>2, <1>3, <1>6
  <2>2. row.edit \notin {rows'[s].edit, busySince'[s].edit, last'[s].edit}
    BY <1>2, <1>6, EditsInUse
  <2>3. \A i \in 1 .. Len(tick'.due) : tick'.due[i].id = s => tick'.due[i].row.edit # row.edit
    BY <1>2, <1>6, EditsInUse
  <2>4. row.enabled => IsOccurrence(row.def, row.next)
    BY <1>4, <1>6
  <2> QED
    BY <1>6, <1>8, <2>1, <2>2, <2>3, <2>4 DEF RequestOK
<1> QED
  BY <1>2, <1>9, <1>10, <1>11, <1>12, TableMoves

LEMMA EditSteps ==
  ASSUME IInv, NEW s \in Schedules, NEW def \in Definitions, NEW action \in Actions,
         NEW enabled \in BOOLEAN,
         CreateSchedule(s, def, action, enabled) \/ UpdateSchedule(s, def, action, enabled)
  PROVE  IInv'
<1>1. Accepts(def, enabled)
  BY DEF CreateSchedule, UpdateSchedule
<1>2. PICK op \in {"create", "update"} : Call(op, s, NewRow(def, action, enabled))
  BY DEF CreateSchedule, UpdateSchedule
<1> QED
  BY <1>1, <1>2, CallStep

LEMMA StoreStep ==
  ASSUME IInv, StoreSchedule
  PROVE  IInv'
<1>1. /\ Typed /\ RequestOK /\ \A t \in Schedules : RowOK(t) /\ GoodRow(rows[t])
      /\ rows \in [Schedules -> Row]
  BY IInvParts DEF Typed
<1>2. PICK s \in Schedules, row \in Row : s = request.id /\ row = request.row /\ GoodRow(request.row)
  BY <1>1 DEF Typed, StoreSchedule
<1>3. /\ UNCHANGED <<clock, up, busySince, tick, dep, job, last, edits>>
      /\ request' = NoRequest /\ overwritten' = overwritten \ {s}
      /\ rows' = [rows EXCEPT ![s] = row] \/ (rows' = rows /\ ~Live(s))
  BY <1>2 DEF StoreSchedule, bounds
<1>4. /\ row.status = "live" /\ row.edit \in 1 .. edits
      /\ row.edit \notin {rows[s].edit, busySince[s].edit, last[s].edit}
      /\ \A i \in 1 .. Len(tick.due) : tick.due[i].id = s => tick.due[i].row.edit # row.edit
      /\ row.enabled => IsOccurrence(row.def, row.next)
  BY <1>1, <1>2 DEF RequestOK, StoreSchedule
<1>5. clock \in Nat /\ edits \in Nat
  BY <1>1, SchedulerAssumption DEF Typed
<1>6. request'.op = "none"
  BY <1>3 DEF NoRequest
<1>7. /\ rows' \in [Schedules -> Row]
      /\ \A t \in Schedules : t # s => rows'[t] = rows[t]
      /\ rows'[s] = row \/ (rows'[s] = rows[s] /\ ~Live(s))
  BY <1>1, <1>3
<1>8. Typed'
  <2>1. GoodRow(row)
    BY <1>2 DEF GoodRow
  <2>2. \A t \in Schedules : GoodRow(rows[t])'
    BY <1>1, <1>7, <2>1 DEF GoodRow
  <2>3. overwritten' \subseteq Schedules
    BY <1>1, <1>3 DEF Typed
  <2> QED
    BY <1>1, <1>3, <1>6, <1>7, <2>2, <2>3 DEF Typed
<1>9. \A t : Pending(t) <=> Pending(t)'
  BY <1>3 DEF Pending, Current
<1>10. \A t \in Schedules : RowOK(t)'
  <2>1. ASSUME NEW t \in Schedules, t # s PROVE RowOK(t)'
    <3>1. /\ rows'[t] = rows[t] /\ (t \in overwritten => t \in overwritten')
          /\ clock <= clock' /\ edits <= edits'
      BY <1>3, <1>5, <1>7, <2>1
    <3> QED
      BY <1>1, <1>3, <1>8, <1>9, <3>1, RowKept
  <2>2. ASSUME rows'[s] = row PROVE RowOK(s)'
    <3>1. {rows[s].edit, busySince[s].edit, last[s].edit} \subseteq 0 .. edits
      BY <1>1 DEF RowOK
    <3>2. {rows'[s].edit, busySince'[s].edit, last'[s].edit} \subseteq 0 .. edits'
      BY <1>3, <1>4, <1>5, <2>2, <3>1
    <3>3. ~rows'[s].enabled \/ IsOccurrence(rows'[s].def, rows'[s].next)
      BY <1>4, <2>2
    <3>4. rows'[s].edit # busySince'[s].edit /\ rows'[s].edit # last'[s].edit
      BY <1>3, <1>4, <2>2
    <3> QED
      BY <3>2, <3>3, <3>4 DEF RowOK
  <2>3. ASSUME rows'[s] = rows[s], ~Live(s) PROVE RowOK(s)'
    <3>1. {rows'[s].edit, busySince'[s].edit, last'[s].edit} \subseteq 0 .. edits'
      BY <1>1, <1>3, <2>3 DEF RowOK
    <3>2. ~rows'[s].enabled /\ ~Live(s)'
      BY <1>1, <2>3 DEF GoodRow, Live
    <3> QED
      BY <3>1, <3>2 DEF RowOK
  <2> QED
    BY <1>7, <2>1, <2>2, <2>3
<1>11. RequestOK'
  BY <1>6 DEF RequestOK
<1>12. edits <= edits'
  BY <1>3, <1>5
<1>13. \A t \in Schedules :
         \/ rows'[t] = rows[t]
         \/ rows'[t].status # "live"
         \/ /\ rows'[t].edit # last[t].edit
            /\ \A i \in 1 .. Len(tick.due) :
                 tick.due[i].id = t => tick.due[i].row.edit # rows'[t].edit
  BY <1>4, <1>7
<1> QED
  BY <1>3, <1>8, <1>10, <1>11, <1>12, <1>13, TableMoves

LEMMA RowsGo ==
  ASSUME IInv, DropSchedules \/ \E s \in Schedules : DeleteSchedule(s)
  PROVE  IInv'
<1> DEFINE gone == [NoRow EXCEPT !.status = "gone"]
<1>1. /\ Typed /\ RequestOK /\ \A t \in Schedules : RowOK(t) /\ GoodRow(rows[t])
      /\ rows \in [Schedules -> Row] /\ edits \in Nat /\ clock \in Nat
  BY IInvParts, SchedulerAssumption DEF Typed
<1>2. /\ UNCHANGED <<clock, up, busySince, tick, request, dep, last, overwritten>>
      /\ edits' \in Nat /\ edits <= edits'
      /\ job' \in {job, "none"}
  BY <1>1 DEF DropSchedules, DeleteSchedule, bounds
<1>3. gone \in Row /\ GoodRow(gone) /\ gone.status = "gone" /\ gone.edit = 0 /\ ~gone.enabled
  BY DEF NoRow, Row, GoodRow, NoTime
<1>4. /\ rows' \in [Schedules -> Row]
      /\ \A t \in Schedules : rows'[t] \in {rows[t], gone}
  <2> HIDE DEF gone
  <2>1. CASE DropSchedules
    <3>1. rows' = [s \in Schedules |-> IF rows[s].status = "live" THEN gone ELSE rows[s]]
      BY <2>1 DEF DropSchedules, gone
    <3> QED
      BY <1>1, <1>3, <3>1
  <2>2. ASSUME NEW s \in Schedules, DeleteSchedule(s)
        PROVE  /\ rows' \in [Schedules -> Row]
               /\ \A t \in Schedules : rows'[t] \in {rows[t], gone}
    <3>1. rows' = [rows EXCEPT ![s] = gone]
      BY <2>2 DEF DeleteSchedule, gone
    <3> QED
      BY <1>1, <1>3, <3>1
  <2> QED
    BY <2>1, <2>2
<1>5. \A t \in Schedules : rows'[t] = rows[t] \/ rows'[t] = gone
  BY <1>4
<1>6. Typed'
  <2>1. \A t \in Schedules : GoodRow(rows[t])'
    BY <1>1, <1>3, <1>5 DEF GoodRow
  <2>2. request.op # "none" => GoodRow(request.row)'
    BY <1>1, <1>2 DEF Typed, GoodRow
  <2> QED
    BY <1>1, <1>2, <1>4, <2>1, <2>2 DEF Typed
<1>7. \A t \in Schedules : RowOK(t)'
  <2>1. \A t : Pending(t) => Pending(t)'
    BY <1>2 DEF Pending, Current
  <2>2. clock <= clock'
    BY <1>1, <1>2
  <2> QED
    BY <1>1, <1>2, <1>5, <1>6, <2>1, <2>2, RowKept
<1>8. RequestOK'
  <2>1. request.op # "none" => request.id \in Schedules
    BY <1>1 DEF Typed
  <2>2. request.op # "none" =>
          request.row.edit \in 1 .. edits /\ request.row.edit # rows[request.id].edit
    BY <1>1 DEF RequestOK
  <2>3. request.op # "none" =>
          request.row.edit \in 1 .. edits' /\ request.row.edit # rows'[request.id].edit
    <3> HIDE DEF gone
    <3>1. \A t \in Schedules : rows'[t].edit = rows[t].edit \/ rows'[t].edit = 0
      BY <1>3, <1>5
    <3>2. \A n \in 1 .. edits : n \in 1 .. edits' /\ n # 0
      BY <1>1, <1>2
    <3> QED
      BY <2>1, <2>2, <3>1, <3>2
  <2>4. request' = request /\ tick' = tick /\ busySince' = busySince /\ last' = last
    BY <1>2
  <2> QED
    BY <1>1, <2>3, <2>4 DEF RequestOK
<1>9. \A t \in Schedules : rows'[t] = rows[t] \/ rows'[t].status # "live"
  BY <1>3, <1>5
<1> QED
  BY <1>2, <1>6, <1>7, <1>8, <1>9, TableMoves

-----------------------------------------------------------------------------
(* The invariant.                                                           *)

LEMMA InitIInv ==
  ASSUME Init
  PROVE  IInv
<1>1. /\ clock = 0 /\ up = TRUE /\ rows = [s \in Schedules |-> NoRow]
      /\ busySince = [s \in Schedules |-> NotBusy] /\ tick = NoTick /\ request = NoRequest
      /\ dep = "ready" /\ job = "none" /\ last = [s \in Schedules |-> NoFire]
      /\ overwritten = {} /\ edits = 0
  BY DEF Init
<1>2. NoFire \in Fires /\ NoFire.edit = 0 /\ NoFire.due = NoTime
  BY DEF NoFire, Fires, NoTime
<1>3. tick.stage = "idle" /\ tick.due = <<>> /\ Len(tick.due) = 0 /\ request.op = "none"
  BY <1>1, Blanks DEF NoRequest
<1>4. Typed
  <2>1. clock \in 0 .. MaxTime /\ 0 <= 0
    BY <1>1, SchedulerAssumption
  <2>2. rows \in [Schedules -> Row] /\ \A s \in Schedules : GoodRow(rows[s])
    BY <1>1, Blanks DEF GoodRow
  <2>3. busySince \in [Schedules -> [at : 0 .. MaxTime, edit : Nat, seen : BOOLEAN]]
    BY <1>1, Blanks
  <2>4. last \in [Schedules -> Fires]
    BY <1>1, <1>2
  <2>5. tick \in Ticks /\ tick.now <= clock
    BY <1>1, <2>1, Blanks
  <2> QED
    BY <1>1, <1>3, <2>1, <2>2, <2>3, <2>4, <2>5 DEF Typed
<1>5. ASSUME NEW s \in Schedules PROVE RowOK(s)
  <2>1. rows[s] = NoRow /\ busySince[s] = NotBusy /\ last[s] = NoFire
    BY <1>1
  <2> QED
    BY <1>1, <1>2, <2>1, Blanks DEF RowOK, Counts
<1>6. TickOK
  <2>1. SkippedAfterGrace /\ \A s : ~Pending(s)
    BY <1>3 DEF SkippedAfterGrace, Pending
  <2> QED
    BY <1>3, <2>1 DEF TickOK, Listed
<1>7. RequestOK
  BY <1>3 DEF RequestOK
<1> QED
  BY <1>4, <1>5, <1>6, <1>7 DEF IInv

LEMMA NextIInv ==
  ASSUME IInv, [Next]_vars
  PROVE  IInv'
<1>1. CASE UNCHANGED vars
  <2>1. UNCHANGED <<clock, up, rows, busySince, tick, request, dep, job, last, overwritten, edits>>
    BY <1>1 DEF vars, bounds
  <2>2. Typed'
    BY <2>1, IInvParts DEF Typed, GoodRow
  <2>3. SkippedAfterGrace'
    BY <2>1, IInvParts DEF TickOK, SkippedAfterGrace, Current
  <2>4. clock <= clock'
    BY <2>1, IInvParts, SchedulerAssumption DEF Typed
  <2> QED
    BY <2>1, <2>2, <2>3, <2>4, TickMovesOn
<1>2. CASE \/ TimePasses \/ JobEnds \/ TeardownFails \/ MarkDeleted \/ Boot
           \/ \E type \in {"deploy", "power", "teardown"} : StartByHand(type)
  BY <1>2, WorldSteps
<1>3. CASE Fetch \/ FetchFails \/ StartRefused
  BY <1>3, FetchSteps
<1>4. CASE Tick
  BY <1>4, TickStep
<1>5. CASE Start
  BY <1>5, StartStep
<1>6. CASE StartBusy
  BY <1>6, BusyStep
<1>7. CASE Advance
  BY <1>7, AdvanceStep
<1>8. CASE Die
  BY <1>8, DieStep
<1>9. CASE \E s \in Schedules, def \in Definitions, action \in Actions, enabled \in BOOLEAN :
             CreateSchedule(s, def, action, enabled) \/ UpdateSchedule(s, def, action, enabled)
  BY <1>9, EditSteps
<1>10. CASE StoreSchedule
  BY <1>10, StoreStep
<1>11. CASE DropSchedules \/ \E s \in Schedules : DeleteSchedule(s)
  BY <1>11, RowsGo
<1> QED
  BY <1>1, <1>2, <1>3, <1>4, <1>5, <1>6, <1>7, <1>8, <1>9, <1>10, <1>11 DEF Next

(* Rows, list, memory of busy deployments, fires and the call in flight      *)
(* agree, edit by edit, in every reachable state.                            *)
THEOREM Inductive == Spec => []IInv
<1>1. Init => IInv
  BY InitIInv
<1>2. IInv /\ [Next]_vars => IInv'
  BY NextIInv
<1> QED
  BY <1>1, <1>2, PTL DEF Spec

(* The table, the loop and the call in flight are well-formed, and a row is  *)
(* enabled exactly when it has a fire time.                                  *)
THEOREM TypeCorrect == Spec => []TypeOK
<1>1. IInv => TypeOK
  <2> SUFFICES ASSUME IInv PROVE TypeOK
    OBVIOUS
  <2>1. Typed
    BY IInvParts
  <2>2. ASSUME NEW s \in Schedules
        PROVE  /\ rows[s].status \in {"none", "live", "gone"}
               /\ rows[s].status = "live" => rows[s].def \in Definitions /\ rows[s].action \in Actions
               /\ rows[s].enabled <=> rows[s].next \in Nat \ {NoTime}
               /\ busySince[s].at \in 0 .. MaxTime /\ busySince[s].seen \in BOOLEAN
    <3>1. rows[s] \in Row /\ GoodRow(rows[s])
      BY <2>1 DEF Typed
    <3>2. busySince[s] \in [at : 0 .. MaxTime, edit : Nat, seen : BOOLEAN]
      BY <2>1 DEF Typed
    <3>3. rows[s].next \in Nat
      BY <3>1 DEF Row
    <3>4. rows[s].enabled <=> rows[s].next \in Nat \ {NoTime}
      BY <3>1, <3>3 DEF GoodRow
    <3>5. rows[s].status \in {"none", "live", "gone"}
      BY <3>1 DEF Row
    <3>6. rows[s].status = "live" => rows[s].def \in Definitions /\ rows[s].action \in Actions
      BY <3>1 DEF GoodRow
    <3> QED
      BY <3>2, <3>4, <3>5, <3>6
  <2>3. tick.stage \in {"idle", "fetch", "start", "advance"}
    BY <2>1 DEF Typed, Ticks
  <2> QED
    BY <2>1, <2>2, <2>3 DEF Typed, TypeOK
<1> QED
  BY <1>1, Inductive, PTL

(* model.go 449-490: the walk over at most eight days finds the earliest     *)
(* allowed time after now; no invariant is needed, only arithmetic.          *)
THEOREM Earliest == Spec => []NextAfterIsEarliest
<1>1. IInv => NextAfterIsEarliest
  <2> SUFFICES ASSUME IInv, NEW def \in Definitions, NEW now \in clock .. clock + DayLen
               PROVE  LET next == NextAfter(def, now) IN
                      /\ def.kind = "once" \/ next # NoTime
                      /\ next # NoTime => next > now /\ IsOccurrence(def, next)
                      /\ def.kind = "daily" => \A t \in now + 1 .. next - 1 : ~IsOccurrence(def, t)
    BY DEF NextAfterIsEarliest
  <2> DEFINE next == NextAfter(def, now)
  <2>1. now \in Nat
    BY IInvParts, SchedulerAssumption DEF Typed
  <2>2. /\ next \in Nat
        /\ def.kind = "once" \/ next # NoTime
        /\ next # NoTime => next > now /\ IsOccurrence(def, next)
        /\ def.kind = "daily" => \A t \in Nat : t > now /\ t < next => ~IsOccurrence(def, t)
    BY <2>1, NextOccurs
  <2> HIDE DEF next
  <2>3. \A t \in now + 1 .. next - 1 : t \in Nat /\ t > now /\ t < next
    BY <2>1, <2>2
  <2>4. /\ def.kind = "once" \/ next # NoTime
        /\ next # NoTime => next > now /\ IsOccurrence(def, next)
        /\ def.kind = "daily" => \A t \in now + 1 .. next - 1 : ~IsOccurrence(def, t)
    BY <2>2, <2>3
  <2> QED
    BY <2>4 DEF next
<1> QED
  BY <1>1, Inductive, PTL

(* sched.go 25-27: an occurrence is skipped as busy only after its           *)
(* deployment has been busy for the grace, unless the schedule was edited.   *)
THEOREM Skipped == Spec => []SkippedAfterGrace
<1>1. IInv => SkippedAfterGrace
  BY DEF IInv, TickOK
<1> QED
  BY <1>1, Inductive, PTL

(* model.go 375-378: the fire time of an enabled row is an occurrence of the *)
(* definition the row has, unless an advance wrote over an edit.             *)
THEOREM OnTime == Spec => []RowsFireOnTime
<1>1. IInv => RowsFireOnTime
  BY DEF IInv, RowOK, RowsFireOnTime
<1> QED
  BY <1>1, Inductive, PTL

(* sched.go 3-6: each fire of a schedule, but the first after an edit, is    *)
(* for an occurrence no earlier than the one the last fire left to come, and *)
(* there is none after a one-shot, unless a restart cut the last fire off.   *)
THEOREM FiresApart == Spec => FiresArePaced
<1>1. ASSUME IInv, [Next]_vars, NEW s \in Schedules,
             last'[s].count # last[s].count, last[s].due # NoTime, ~last[s].cut,
             last'[s].edit = last[s].edit
      PROVE  last[s].next # NoTime /\ last'[s].due >= last[s].next
  <2>1. Typed
    BY <1>1, IInvParts
  <2>2. CASE Start
    <3>1. tick.stage = "start" /\ Current \in Entries /\ EntryOK(Current)
      BY <1>1, <2>2, IInvParts DEF Start
    <3>2. PICK e \in Entries : e = Current
      BY <3>1
    <3>3. last' = [last EXCEPT ![e.id] = Fired(e.id, e.row)]
      BY <2>2, <3>2 DEF Start
    <3>4. s = e.id /\ last'[s] = Fired(s, e.row)
      BY <1>1, <2>1, <3>3 DEF Typed
    <3>5. last'[s].due = e.row.next /\ last'[s].edit = e.row.edit
      BY <3>4 DEF Fired
    <3>6. EntryOK(e) /\ ~Pending(s)
      BY <3>1, <3>2 DEF Pending
    <3>7. e.row.next # NoTime /\ Paced(s, e.row)
      BY <1>1, <3>4, <3>5, <3>6 DEF EntryOK, GoodRow, Counts
    <3> QED
      BY <3>5, <3>7 DEF Paced
  <2>3. CASE Die
    <3>1. last'[s].count = last[s].count
      BY <2>1, <2>3 DEF Typed, Fires, CutOff, Die
    <3> QED
      BY <1>1, <3>1
  <2>4. CASE ~Start /\ ~Die
    <3>1. last' = last
      BY <1>1, <2>4
      DEF Next, vars, bounds, TimePasses, StartByHand, JobEnds, TeardownFails, MarkDeleted,
          DropSchedules, Boot, Tick, Fetch, FetchFails, StartRefused, StartBusy, Advance,
          CreateSchedule, UpdateSchedule, Call, StoreSchedule, DeleteSchedule
    <3> QED
      BY <1>1, <3>1
  <2> QED
    BY <2>2, <2>3, <2>4
<1> DEFINE PacedStep ==
       \A s \in Schedules :
         last'[s].count # last[s].count /\ last[s].due # NoTime
           /\ ~last[s].cut /\ last'[s].edit = last[s].edit
         => last[s].next # NoTime /\ last'[s].due >= last[s].next
<1>2. IInv /\ [Next]_vars => [PacedStep]_vars
  BY <1>1
<1> QED
  BY <1>2, Inductive, PTL DEF Spec, FiresArePaced
=============================================================================
