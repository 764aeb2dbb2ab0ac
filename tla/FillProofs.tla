----------------------------- MODULE FillProofs -----------------------------
(***************************************************************************)
(* Theorems about Fill: how many agents write at once and what a fill that  *)
(* reads succeeded stands for, for any number of VMs, runs, boots, deaths,  *)
(* lost reports and restarts.                                               *)
(*                                                                         *)
(* A VM has a row, an agent and a handler, and the three know of each other *)
(* only what they read earlier.  The inductive invariant says how far they  *)
(* can be apart.                                                            *)
(***************************************************************************)
EXTENDS Fill, FiniteSetTheorems, TLAPS

-----------------------------------------------------------------------------
(* The inductive invariant.                                                 *)

RunStates == {"absent", "pending", "running"} \cup Ended
Steps == {"reset", "stop", "finish"}
Plans == {<<>>, <<"finish">>, <<"stop">>, <<"finish", "stop">>, <<"stop", "finish">>,
          <<"reset", "finish">>}
Jobs ==
  [stage : JobStages, run : Runs \cup {NoRun}, todo : SUBSET VMs, fresh : SUBSET VMs,
   tally : Ended \cup {"none"}, silent : BOOLEAN, idle : BOOLEAN, plan : Plans]
Calls == [stage : CallStages, run : Runs \cup {NoRun}, status : FillStatuses]

Typed ==
  /\ runStatus \in [Runs -> RunStates]
  /\ fillRun \in [VMs -> Runs \cup {NoRun}]
  /\ fillStatus \in [VMs -> FillStatuses]
  /\ recent \in [VMs -> BOOLEAN]
  /\ heard \in [VMs -> BOOLEAN]
  /\ job \in Jobs
  /\ tries \in [VMs -> 0 .. MaxBootAttempts]
  /\ cancelled \in BOOLEAN
  /\ vm \in [VMs -> VMStates]
  /\ doing \in [VMs -> [Runs -> AgentStages]]
  /\ current \in [VMs -> Runs \cup {NoRun}]
  /\ completed \in [VMs -> SUBSET Runs]
  /\ call \in [VMs -> Calls]
  /\ waiting \in [VMs -> BOOLEAN]
  /\ wrote \in [Runs -> SUBSET VMs]
  /\ disowned \in BOOLEAN /\ overtaken \in BOOLEAN
  /\ deaths \in Nat /\ lost \in Nat /\ restarts \in Nat

Attended == {"opening", "booting", "sleeping", "watching"}

(* The run that reads running is the job's, and the job still means to end *)
(* it; the pending VMs its watchdog has listed are of that run, and there   *)
(* are none once the job has a result.                                      *)
JobOwnsRun ==
  /\ job.stage # "none" => job.run \in Runs
  /\ job.stage = "assigning" => runStatus[job.run] = "pending"
  /\ job.stage \in Attended => runStatus[job.run] = "running"
  /\ \A r \in Runs : runStatus[r] = "running" =>
       /\ job.run = r /\ job.stage \in Attended \cup {"closing"}
       /\ job.stage = "closing" => "finish" \in Range(job.plan)
  /\ job.stage = "closing" => job.tally \in Ended
  /\ job.tally # "none" =>
       /\ job.stage \in {"watching", "closing"}
       /\ job.stage = "watching" => job.todo = {}
  /\ job.stage = "watching" => \A v \in job.todo : fillRun[v] = job.run

(* A row with a status, a handler or work is assigned to a run that was     *)
(* started, and a handler works with what such a row once said.             *)
RowOK(v) ==
  /\ fillStatus[v] # "none" \/ call[v] # NoCall \/ doing[v] # NoWork => fillRun[v] \in Runs
  /\ fillRun[v] \in Runs => runStatus[fillRun[v]] # "absent"
  /\ call[v] = NoCall \/ (call[v].stage # "none" /\ call[v].run \in Runs /\ call[v].status \in InFlight)

Failing(v) == disowned /\ fillStatus[v] = "failed"

(* An agent works for the run its row is assigned to, and the row tells how *)
(* far it is, unless the controller has declared the VM failed.              *)
AgentOK(v) ==
  /\ \A r \in Runs : doing[v][r] # "none" =>
       /\ fillRun[v] = r /\ current[v] = r
       /\ doing[v][r] = "writing" => fillStatus[v] = "working" \/ Failing(v)
       /\ doing[v][r] \in {"done", "error"} => fillStatus[v] \in {"working", "done", "failed"}
       /\ doing[v][r] = "error" => fillStatus[v] # "done"
       /\ doing[v][r] = "done" => v \in wrote[r]
  /\ fillStatus[v] = "done" => v \in wrote[fillRun[v]]

(* A handler that may still promote its VM finds the row as it read it, and *)
(* one that may still hand out an order finds the VM at work, through with   *)
(* the run, or not begun.                                                    *)
Asks(v) ==
  \/ call[v].stage \in {"checked", "counted"}
  \/ call[v].stage = "read" /\ call[v].status = "pending" /\ fillRun[v] = call[v].run
Ordered(v) ==
  \/ call[v].stage = "order"
  \/ call[v].stage = "read" /\ call[v].status = "working" /\ fillRun[v] = call[v].run
CallOK(v) ==
  LET r == call[v].run IN
  /\ call[v].stage \in {"checked", "counted", "order"} =>
       fillRun[v] = r /\ runStatus[r] \in {"running"} \cup Ended
  /\ call[v].stage = "read" =>
       fillRun[v] = r \/ (runStatus[r] # "running" /\ job.run # r)
  /\ Asks(v) => doing[v][r] = "none" /\ (fillStatus[v] = "pending" \/ Failing(v))
  /\ waiting[v] /\ Ordered(v) =>
       fillStatus[v] = "working" \/ Failing(v) \/ doing[v][r] # "none" \/ r \in completed[v]

(* While rows are assigned nobody works, and nobody is promoted. *)
QuietVM(v) ==
  /\ doing[v] = NoWork
  /\ call[v].stage \in {"none", "read"}
  /\ call[v].stage = "read" /\ call[v].run = job.run => call[v].status = "pending"
  /\ fillRun[v] = job.run => fillStatus[v] = "pending"
AssigningIsQuiet == job.stage = "assigning" => \A v \in VMs : QuietVM(v)

AllDone(r) == \A v \in VMs : fillRun[v] = r /\ fillStatus[v] = "done"

(* What the job has tallied stays true until its run is ended, and after.   *)
TallyStands ==
  /\ job.tally = "succeeded" => AllDone(job.run)
  /\ \A r \in Runs : runStatus[r] = "succeeded" =>
       /\ wrote[r] = VMs
       /\ \A v \in VMs : fillRun[v] = r => fillStatus[v] = "done"

Counted(r) == {v \in VMs : call[v].stage = "counted" /\ call[v].run = r}

(* The gate: one handler at a time is between count and promotion, and it    *)
(* has counted right.                                                        *)
GateHolds ==
  /\ \A u, v \in VMs : call[u].stage = "counted" /\ call[v].stage = "counted" => u = v
  /\ \A r \in Runs :
       MaxParallel = 0 \/ disowned
         \/ Cardinality(OfRun(r, "working") \cup Counted(r)) <= MaxParallel

IInv ==
  /\ Typed
  /\ JobOwnsRun
  /\ \A v \in VMs : RowOK(v)
  /\ overtaken \/ (/\ \A v \in VMs : AgentOK(v) /\ CallOK(v)
                   /\ AssigningIsQuiet /\ TallyStands /\ GateHolds)

-----------------------------------------------------------------------------
(* Parts of the invariant that a step of another actor leaves as they are.  *)

LEMMA NoWorkIsNone ==
  /\ NoWork \in [Runs -> AgentStages] /\ \A r \in Runs : NoWork[r] = "none"
BY DEF NoWork, AgentStages

LEMMA NoCallIsOne ==
  NoCall \in Calls /\ NoCall.stage = "none" /\ NoCall.run = NoRun /\ NoCall.status = "none"
BY DEF NoCall, Calls, CallStages, FillStatuses

LEMMA NoJobIsOne ==
  /\ NoJob \in Jobs /\ NoJob.stage = "none" /\ NoJob.run = NoRun /\ NoJob.tally = "none"
  /\ NoJob.todo = {} /\ NoJob.plan = <<>>
BY DEF NoJob, Jobs, JobStages, Ended, Plans

LEMMA CallParts ==
  ASSUME Typed, NEW v \in VMs, RowOK(v)
  PROVE  /\ call[v].stage = "none" <=> call[v] = NoCall
         /\ call[v].stage # "none" => call[v].run \in Runs /\ call[v].status \in InFlight
         /\ call[v].stage \in CallStages
BY NoCallIsOne DEF Typed, RowOK, Calls

LEMMA RowKept ==
  ASSUME NEW v \in VMs, RowOK(v), Typed,
         fillStatus'[v] = fillStatus[v], fillRun'[v] = fillRun[v], call'[v] = call[v],
         doing'[v] \in {doing[v], NoWork},
         \A r \in Runs : runStatus'[r] = "absent" => runStatus[r] = "absent"
  PROVE  RowOK(v)'
BY DEF RowOK, Typed

(* An agent that is not touched, or starts afresh. *)
Afresh(v) ==
  doing'[v] = NoWork /\ current'[v] = NoRun /\ completed'[v] = {} /\ waiting'[v] = FALSE
Untouched(v) ==
  /\ doing'[v] = doing[v] /\ current'[v] = current[v] /\ completed'[v] = completed[v]
  /\ waiting'[v] = waiting[v]

LEMMA AgentKept ==
  ASSUME NEW v \in VMs, AgentOK(v), RowOK(v), Typed, Untouched(v) \/ Afresh(v),
         fillStatus'[v] = fillStatus[v], fillRun'[v] = fillRun[v],
         disowned => disowned',
         \A r \in Runs : wrote[r] \subseteq wrote'[r]
  PROVE  AgentOK(v)'
<1>1. fillStatus'[v] = "done" => v \in wrote'[fillRun'[v]]
  BY DEF AgentOK, RowOK, Typed
<1>2. CASE Afresh(v)
  BY <1>1, <1>2, NoWorkIsNone DEF AgentOK, Afresh
<1>3. CASE Untouched(v)
  BY <1>1, <1>3 DEF AgentOK, Untouched, Failing
<1> QED
  BY <1>2, <1>3

LEMMA CallKept ==
  ASSUME NEW v \in VMs, CallOK(v), RowOK(v), Typed, Untouched(v) \/ Afresh(v),
         fillStatus'[v] = fillStatus[v], fillRun'[v] = fillRun[v], call'[v] = call[v],
         disowned => disowned',
         \A r \in Runs : runStatus'[r] = "running" => runStatus[r] = "running",
         \A r \in Runs : runStatus[r] \in {"running"} \cup Ended =>
                           runStatus'[r] \in {"running"} \cup Ended,
         job'.run \in {job.run, NoRun}
  PROVE  CallOK(v)'
<1> DEFINE r == call[v].run
<1>1. NoRun \notin Runs
  BY FillAssumption
<1>2. call[v].stage # "none" => r \in Runs
  BY CallParts
<1>3. /\ Asks(v)' <=> Asks(v)
      /\ Ordered(v)' <=> Ordered(v)
      /\ Failing(v) => Failing(v)'
      /\ Asks(v) \/ Ordered(v) => call[v].stage # "none"
  BY DEF Asks, Ordered, Failing
<1>4. call'[v].stage \in {"checked", "counted", "order"} =>
        fillRun'[v] = r /\ runStatus'[r] \in {"running"} \cup Ended
  BY <1>2 DEF CallOK
<1>5. call'[v].stage = "read" =>
        fillRun'[v] = r \/ (runStatus'[r] # "running" /\ job'.run # r)
  BY <1>1, <1>2 DEF CallOK
<1>6. Asks(v)' => doing'[v][r] = "none" /\ (fillStatus'[v] = "pending" \/ Failing(v)')
  BY <1>2, <1>3, NoWorkIsNone DEF CallOK, Untouched, Afresh
<1>7. waiting'[v] /\ Ordered(v)' =>
        \/ fillStatus'[v] = "working" \/ Failing(v)' \/ doing'[v][r] # "none"
        \/ r \in completed'[v]
  BY <1>3 DEF CallOK, Untouched, Afresh
<1> QED
  BY <1>4, <1>5, <1>6, <1>7 DEF CallOK

LEMMA GateKept ==
  ASSUME GateHolds, UNCHANGED <<fillRun, fillStatus, call>>, disowned => disowned'
  PROVE  GateHolds'
<1>1. \A r \in Runs : OfRun(r, "working")' = OfRun(r, "working") /\ Counted(r)' = Counted(r)
  BY DEF OfRun, Counted
<1> QED
  BY <1>1 DEF GateHolds

LEMMA VMsAreFinite ==
  ASSUME NEW S, S \subseteq VMs
  PROVE  IsFiniteSet(S) /\ Cardinality(S) \in Nat
BY FS_Subset, FS_CardinalityType, FillAssumption

(* Fewer VMs at work still keep to the limit. *)
LEMMA GateFewer ==
  ASSUME GateHolds, disowned => disowned',
         \A u \in VMs : call'[u].stage = "counted" =>
           call[u].stage = "counted" /\ call'[u].run = call[u].run,
         \A r \in Runs : disowned' \/
           (OfRun(r, "working") \cup Counted(r))' \subseteq OfRun(r, "working") \cup Counted(r)
  PROVE  GateHolds'
<1>1. \A u, v \in VMs : call'[u].stage = "counted" /\ call'[v].stage = "counted" => u = v
  BY DEF GateHolds
<1>2. ASSUME NEW r \in Runs, MaxParallel # 0, ~disowned'
      PROVE  Cardinality((OfRun(r, "working") \cup Counted(r))') <= MaxParallel
  <2> DEFINE S == OfRun(r, "working") \cup Counted(r)
             T == (OfRun(r, "working") \cup Counted(r))'
  <2>1. T \subseteq S
    BY <1>2
  <2>2. S \subseteq VMs
    BY DEF OfRun, Counted
  <2>3. Cardinality(S) <= MaxParallel
    BY <1>2 DEF GateHolds
  <2> HIDE DEF S, T
  <2>4. Cardinality(T) <= Cardinality(S) /\ Cardinality(S) \in Nat /\ Cardinality(T) \in Nat
    BY <2>1, <2>2, VMsAreFinite, FS_Subset
  <2>5. Cardinality(T) <= MaxParallel
    BY <2>3, <2>4, FillAssumption
  <2> QED
    BY <2>5 DEF T
<1> QED
  BY <1>1, <1>2 DEF GateHolds

(* The job goes on, and agents are left alone or start afresh. *)
JobGoesOn ==
  /\ UNCHANGED <<runStatus, fillRun, fillStatus, call, wrote, disowned, overtaken>>
  /\ \A v \in VMs : Untouched(v) \/ Afresh(v)
  /\ job'.run \in {job.run, NoRun}
  /\ job'.stage # "assigning" \/ UNCHANGED job
  /\ job'.tally = "succeeded" => overtaken \/ UNCHANGED job \/ AllDone(job'.run)

LEMMA JobGoesOnKeeps ==
  ASSUME IInv, JobGoesOn, Typed', JobOwnsRun'
  PROVE  IInv'
<1>1. Typed /\ \A v \in VMs : RowOK(v)
  BY DEF IInv
<1>2. \A v \in VMs : RowOK(v)'
  BY <1>1, RowKept DEF JobGoesOn, Untouched, Afresh
<1>3. ASSUME ~overtaken'
      PROVE  /\ \A v \in VMs : AgentOK(v)' /\ CallOK(v)'
             /\ AssigningIsQuiet' /\ TallyStands' /\ GateHolds'
  <2>1. /\ \A v \in VMs : AgentOK(v) /\ CallOK(v)
        /\ AssigningIsQuiet /\ TallyStands /\ GateHolds
    BY <1>3 DEF IInv, JobGoesOn
  <2>2. \A v \in VMs : AgentOK(v)' /\ CallOK(v)'
    BY <1>1, <2>1, AgentKept, CallKept DEF JobGoesOn
  <2>3. AssigningIsQuiet'
    BY <2>1 DEF AssigningIsQuiet, QuietVM, JobGoesOn, Untouched, Afresh
  <2>4. TallyStands'
    <3>1. \A r \in Runs \cup {NoRun} : AllDone(r)' <=> AllDone(r)
      BY DEF AllDone, JobGoesOn
    <3>2. job'.tally = "succeeded" => AllDone(job'.run)
      BY <1>3, <2>1 DEF TallyStands, JobGoesOn
    <3>3. job'.run \in Runs \cup {NoRun}
      BY <1>1 DEF Typed, Jobs, JobGoesOn
    <3> QED
      BY <2>1, <3>1, <3>2, <3>3 DEF TallyStands, JobGoesOn
  <2>5. GateHolds'
    BY <2>1, GateKept DEF JobGoesOn
  <2> QED
    BY <2>2, <2>3, <2>4, <2>5
<1> QED
  BY <1>2, <1>3 DEF IInv

-----------------------------------------------------------------------------
(* What the job does on its own, and to the power of its VMs.               *)

LEMMA PlanSteps ==
  /\ Range(<<>>) = {}
  /\ "finish" \in Range(<<"finish">>)
  /\ "finish" \in Range(<<"finish", "stop">>)
  /\ "finish" \in Range(<<"stop", "finish">>)
  /\ "finish" \in Range(<<"reset", "finish">>)
BY DEF Range

LEMMA PlanTails ==
  ASSUME NEW plan \in Plans, plan # <<>>
  PROVE  /\ Tail(plan) \in Plans
         /\ Head(plan) # "finish" /\ "finish" \in Range(plan) =>
              "finish" \in Range(Tail(plan))
<1>1. CASE plan = <<"finish">>
  BY <1>1 DEF Plans
<1>2. CASE plan = <<"stop">>
  <2>1. Range(plan) = {"stop"}
    BY <1>2 DEF Range
  <2> QED
    BY <1>2, <2>1 DEF Plans
<1>3. CASE plan = <<"finish", "stop">>
  BY <1>3 DEF Plans
<1>4. CASE plan = <<"stop", "finish">>
  <2>1. Tail(plan) = <<"finish">>
    BY <1>4
  <2> QED
    BY <2>1, PlanSteps DEF Plans
<1>5. CASE plan = <<"reset", "finish">>
  <2>1. Tail(plan) = <<"finish">>
    BY <1>5
  <2> QED
    BY <2>1, PlanSteps DEF Plans
<1> QED
  BY <1>1, <1>2, <1>3, <1>4, <1>5 DEF Plans

LEMMA PowerSteps ==
  ASSUME Typed, NEW v \in VMs, NEW state \in VMStates, Power(v, state)
  PROVE  /\ vm' \in [VMs -> VMStates]
         /\ doing' \in [VMs -> [Runs -> AgentStages]]
         /\ current' \in [VMs -> Runs \cup {NoRun}]
         /\ completed' \in [VMs -> SUBSET Runs]
         /\ waiting' \in [VMs -> BOOLEAN]
         /\ \A u \in VMs : Untouched(u) \/ Afresh(u)
BY NoWorkIsNone DEF Typed, Power, Untouched, Afresh

LEMMA PowerCycleSteps ==
  ASSUME Typed, NEW v \in VMs, PowerCycle(v) \/ UNCHANGED <<agents, waiting>>
  PROVE  /\ vm' \in [VMs -> VMStates]
         /\ doing' \in [VMs -> [Runs -> AgentStages]]
         /\ current' \in [VMs -> Runs \cup {NoRun}]
         /\ completed' \in [VMs -> SUBSET Runs]
         /\ waiting' \in [VMs -> BOOLEAN]
         /\ \A u \in VMs : Untouched(u) \/ Afresh(u)
<1>1. CASE UNCHANGED <<agents, waiting>>
  BY <1>1 DEF Typed, agents, Untouched
<1>2. CASE Power(v, "booting") \/ Power(v, "off")
  BY <1>2, PowerSteps DEF VMStates
<1> QED
  BY <1>1, <1>2 DEF PowerCycle

LEMMA CloseSteps ==
  ASSUME IInv, NEW plan \in Plans, "finish" \in Range(plan), NEW result \in Ended,
         Close(plan, result), job.stage \in Attended,
         result = "succeeded" => job.tally = "succeeded"
  PROVE  IInv'
<1> DEFINE todo == IF "stop" \in Range(plan) THEN VMs ELSE {}
           j == [NoJob EXCEPT !.stage = "closing", !.run = job.run, !.plan = plan,
                   !.tally = result, !.todo = todo]
<1>1. Typed /\ JobOwnsRun /\ job.run \in Runs
  BY DEF IInv, JobOwnsRun, Attended
<1>2. todo \in SUBSET VMs
  OBVIOUS
<1> HIDE DEF todo
<1>3. j \in Jobs /\ j.stage = "closing" /\ j.run = job.run /\ j.plan = plan /\ j.tally = result
  BY <1>1, <1>2 DEF Jobs, NoJob, JobStages
<1>4. job' = j
  BY DEF Close, todo
<1> HIDE DEF j
<1>5. UNCHANGED <<store, cancelled, agents, calls, wrote, bounds>>
      /\ heard' = [v \in VMs |-> FALSE] /\ tries' = [v \in VMs |-> 0]
  BY DEF Close
<1>6. Typed'
  BY <1>1, <1>3, <1>4, <1>5, FillAssumption DEF Typed, store, agents, calls, bounds
<1>7. JobOwnsRun'
  BY <1>1, <1>3, <1>4, <1>5 DEF JobOwnsRun, store, Attended
<1>8. JobGoesOn
  <2>1. job'.tally = "succeeded" => overtaken \/ AllDone(job'.run)
    BY <1>3, <1>4 DEF IInv, TallyStands
  <2> QED
    BY <1>3, <1>4, <1>5, <2>1 DEF JobGoesOn, Untouched, store, agents, calls, bounds
<1> QED
  BY <1>6, <1>7, <1>8, JobGoesOnKeeps

LEMMA ClosingSteps ==
  ASSUME IInv,
         \/ OpenDriverFails \/ SilentFails \/ StallFails \/ DeadlineFails
         \/ FinishFill \/ CancelFill
  PROVE  IInv'
<1>1. CASE OpenDriverFails
  BY <1>1, CloseSteps, PlanSteps DEF OpenDriverFails, Plans, Ended, Attended
<1>2. CASE SilentFails \/ StallFails \/ DeadlineFails
  <2>1. Watched /\ FailFill
    BY <1>2 DEF SilentFails, StallFails, DeadlineFails
  <2> DEFINE plan == IF Shutdown THEN <<"finish", "stop">> ELSE <<"finish">>
  <2>2. plan \in Plans /\ "finish" \in Range(plan)
    BY PlanSteps DEF Plans
  <2>3. Close(plan, "failed")
    BY <2>1 DEF FailFill
  <2> HIDE DEF plan
  <2> QED
    BY <2>1, <2>2, <2>3, CloseSteps DEF Watched, Ended, Attended
<1>3. CASE FinishFill
  <2> DEFINE plan == IF Shutdown THEN <<"stop", "finish">> ELSE <<"finish">>
  <2>1. plan \in Plans /\ "finish" \in Range(plan)
    BY PlanSteps DEF Plans
  <2>2. Close(plan, job.tally) /\ Watched /\ job.tally # "none"
    BY <1>3 DEF FinishFill
  <2>3. job.tally \in Ended
    BY <2>2 DEF IInv, Typed, Jobs
  <2> HIDE DEF plan
  <2> QED
    BY <2>1, <2>2, <2>3, CloseSteps DEF Watched, Attended
<1>4. CASE CancelFill
  BY <1>4, CloseSteps, PlanSteps DEF CancelFill, Plans, Ended, Attended
<1> QED
  BY <1>1, <1>2, <1>3, <1>4

(* The job is at another stage of its run, or has looked after one more VM. *)
LEMMA JobMovesOn ==
  ASSUME IInv, NEW j \in Jobs, job' = j, j.run = job.run,
         job.stage \in Attended, j.stage \in Attended,
         j.stage = "watching" => \A v \in j.todo : fillRun[v] = job.run,
         j.tally # "none" => j.stage = "watching" /\ j.todo = {},
         j.tally = "succeeded" => overtaken \/ AllDone(job.run),
         UNCHANGED <<runStatus, fillRun, fillStatus, call, wrote, disowned, overtaken>>,
         \A u \in VMs : Untouched(u) \/ Afresh(u),
         Typed'
  PROVE  IInv'
<1>1. JobOwnsRun'
  BY DEF IInv, JobOwnsRun, Attended
<1>2. JobGoesOn
  BY DEF JobGoesOn, Attended
<1> QED
  BY <1>1, <1>2, JobGoesOnKeeps

LEMMA OpenDriverStep ==
  ASSUME IInv, OpenDriver
  PROVE  IInv'
<1> DEFINE j == [job EXCEPT !.stage = "booting", !.todo = VMs]
<1>1. Typed /\ job \in Jobs /\ job.stage = "opening" /\ job.tally = "none"
  BY DEF IInv, Typed, OpenDriver, JobOwnsRun
<1>2. /\ j \in Jobs /\ j.stage = "booting" /\ j.run = job.run
      /\ j.tally = job.tally
  BY <1>1 DEF Jobs, JobStages
<1>3. job' = j /\ tries' = [v \in VMs |-> 1]
      /\ UNCHANGED <<store, heard, cancelled, agents, calls, wrote, bounds>>
  BY DEF OpenDriver
<1> HIDE DEF j
<1>4. Typed'
  BY <1>1, <1>2, <1>3, FillAssumption DEF Typed, store, agents, calls, bounds
<1> QED
  BY <1>1, <1>2, <1>3, <1>4, JobMovesOn DEF Attended, Untouched, store, agents, calls, bounds

LEMMA FleetBootedStep ==
  ASSUME IInv, FleetBooted
  PROVE  IInv'
<1> DEFINE j == [job EXCEPT !.stage = "sleeping", !.fresh = {}]
<1>1. Typed /\ job \in Jobs /\ job.stage = "booting" /\ job.tally = "none"
  BY DEF IInv, Typed, FleetBooted, JobOwnsRun
<1>2. /\ j \in Jobs /\ j.stage = "sleeping" /\ j.run = job.run
      /\ j.tally = job.tally
  BY <1>1 DEF Jobs, JobStages
<1>3. job' = j /\ UNCHANGED <<store, heard, tries, cancelled, agents, calls, wrote, bounds>>
  BY DEF FleetBooted
<1> HIDE DEF j
<1>4. Typed'
  BY <1>1, <1>2, <1>3 DEF Typed, store, agents, calls, bounds
<1> QED
  BY <1>1, <1>2, <1>3, <1>4, JobMovesOn DEF Attended, Untouched, store, agents, calls, bounds

LEMMA PollStep ==
  ASSUME IInv, Poll
  PROVE  IInv'
<1> DEFINE r == job.run
           settled == OfRun(r, "done") \cup OfRun(r, "failed")
           todo == {v \in OfRun(r, "pending") : ~heard[v]}
           tally == IF settled # VMs THEN "none"
                    ELSE IF OfRun(r, "failed") # {} THEN "failed" ELSE "succeeded"
           silent == \E v \in OfRun(r, "working") : ~recent[v]
           idle == OfRun(r, "working") = {}
           j == [job EXCEPT !.stage = "watching", !.todo = todo, !.tally = tally,
                   !.silent = silent, !.idle = idle]
<1>1. Typed /\ job \in Jobs /\ job.stage = "sleeping"
  BY DEF IInv, Typed, Poll
<1>2. todo \in SUBSET VMs /\ tally \in Ended \cup {"none"} /\ silent \in BOOLEAN
      /\ idle \in BOOLEAN
  BY DEF OfRun, Ended
<1>3. \A v \in todo : fillRun[v] = r
  BY DEF OfRun
<1>4. tally # "none" => todo = {}
  BY DEF OfRun
<1>5. tally = "succeeded" => AllDone(r)
  BY DEF OfRun, AllDone
<1>6. job' = j /\ UNCHANGED <<store, heard, tries, cancelled, agents, calls, wrote, bounds>>
  BY DEF Poll
<1> HIDE DEF todo, tally, silent, idle
<1>7. /\ j \in Jobs /\ j.stage = "watching" /\ j.run = job.run
      /\ j.tally = tally /\ j.todo = todo
  BY <1>1, <1>2 DEF Jobs, JobStages
<1> HIDE DEF j
<1>8. Typed'
  BY <1>1, <1>6, <1>7 DEF Typed, store, agents, calls, bounds
<1> QED
  BY <1>1, <1>3, <1>4, <1>5, <1>6, <1>7, <1>8, JobMovesOn
  DEF Attended, Untouched, store, agents, calls, bounds

LEMMA WatchdogWaitsStep ==
  ASSUME IInv, NEW v \in VMs, WatchdogWaits(v)
  PROVE  IInv'
<1> DEFINE j == [job EXCEPT !.todo = @ \ {v}, !.idle = FALSE]
<1>1. Typed /\ JobOwnsRun /\ job \in Jobs /\ job.stage = "watching"
      /\ job.tally = "none"
  BY DEF IInv, Typed, WatchdogWaits, JobOwnsRun
<1>2. /\ j \in Jobs /\ j.stage = "watching" /\ j.run = job.run
      /\ j.tally = job.tally /\ j.todo \subseteq job.todo
  BY <1>1 DEF Jobs
<1>3. job' = j /\ UNCHANGED <<store, heard, tries, cancelled, agents, calls, wrote, bounds>>
  BY DEF WatchdogWaits
<1> HIDE DEF j
<1>4. Typed'
  BY <1>1, <1>2, <1>3 DEF Typed, store, agents, calls, bounds
<1>5. \A u \in j.todo : fillRun[u] = job.run
  BY <1>1, <1>2 DEF JobOwnsRun
<1> QED
  BY <1>1, <1>2, <1>3, <1>4, <1>5, JobMovesOn
  DEF Attended, Untouched, store, agents, calls, bounds

LEMMA WatchdogCyclesStep ==
  ASSUME IInv, NEW v \in VMs, WatchdogCycles(v)
  PROVE  IInv'
<1> DEFINE j == [job EXCEPT !.todo = @ \ {v}, !.idle = FALSE]
<1>1. Typed /\ JobOwnsRun /\ job \in Jobs /\ job.stage = "watching"
      /\ job.tally = "none" /\ tries[v] < MaxBootAttempts
  BY DEF IInv, Typed, WatchdogCycles, JobOwnsRun
<1>2. /\ j \in Jobs /\ j.stage = "watching" /\ j.run = job.run
      /\ j.tally = job.tally /\ j.todo \subseteq job.todo
  BY <1>1 DEF Jobs
<1>3. job' = j /\ PowerCycle(v) /\ UNCHANGED <<store, cancelled, call, wrote, bounds>>
  BY DEF WatchdogCycles
<1>4. heard' \in [VMs -> BOOLEAN] /\ tries' \in [VMs -> 0 .. MaxBootAttempts]
  BY <1>1, FillAssumption DEF WatchdogCycles, Typed
<1> HIDE DEF j
<1>5. /\ vm' \in [VMs -> VMStates]
      /\ doing' \in [VMs -> [Runs -> AgentStages]]
      /\ current' \in [VMs -> Runs \cup {NoRun}]
      /\ completed' \in [VMs -> SUBSET Runs]
      /\ waiting' \in [VMs -> BOOLEAN]
      /\ \A u \in VMs : Untouched(u) \/ Afresh(u)
  BY <1>1, <1>3, PowerCycleSteps
<1>6. Typed'
  BY <1>1, <1>2, <1>3, <1>4, <1>5 DEF Typed, store, bounds
<1>7. \A u \in j.todo : fillRun[u] = job.run
  BY <1>1, <1>2 DEF JobOwnsRun
<1> QED
  BY <1>1, <1>2, <1>3, <1>5, <1>6, <1>7, JobMovesOn DEF Attended, store, bounds

LEMMA KeepPollingStep ==
  ASSUME IInv, KeepPolling
  PROVE  IInv'
<1> DEFINE j == [job EXCEPT !.stage = "sleeping", !.silent = FALSE, !.idle = FALSE]
<1>1. Typed /\ job \in Jobs /\ job.stage = "watching" /\ job.tally = "none"
  BY DEF IInv, Typed, KeepPolling, Watched
<1>2. j \in Jobs /\ j.stage = "sleeping" /\ j.run = job.run /\ j.tally = job.tally
  BY <1>1 DEF Jobs, JobStages
<1>3. job' = j /\ UNCHANGED <<store, heard, tries, cancelled, agents, calls, wrote, bounds>>
  BY DEF KeepPolling
<1> HIDE DEF j
<1>4. Typed'
  BY <1>1, <1>2, <1>3 DEF Typed, store, agents, calls, bounds
<1> QED
  BY <1>1, <1>2, <1>3, <1>4, JobMovesOn DEF Attended, Untouched, store, agents, calls, bounds

LEMMA BootVMStep ==
  ASSUME IInv, NEW v \in VMs, BootVM(v)
  PROVE  IInv'
<1> DEFINE j == [job EXCEPT !.todo = @ \ {v}]
<1>1. Typed /\ job \in Jobs /\ job.stage = "booting" /\ job.tally = "none"
  BY DEF IInv, Typed, BootVM, JobOwnsRun
<1>2. /\ j \in Jobs /\ j.stage = "booting" /\ j.run = job.run /\ j.tally = job.tally
  BY <1>1 DEF Jobs
<1>3. job' = j /\ UNCHANGED <<store, heard, tries, cancelled, call, wrote, bounds>>
      /\ (PowerCycle(v) \/ UNCHANGED <<agents, waiting>>)
  BY DEF BootVM, PowerCycle
<1> HIDE DEF j
<1>4. /\ vm' \in [VMs -> VMStates]
      /\ doing' \in [VMs -> [Runs -> AgentStages]]
      /\ current' \in [VMs -> Runs \cup {NoRun}]
      /\ completed' \in [VMs -> SUBSET Runs]
      /\ waiting' \in [VMs -> BOOLEAN]
      /\ \A u \in VMs : Untouched(u) \/ Afresh(u)
  BY <1>1, <1>3, PowerCycleSteps
<1>5. Typed'
  BY <1>1, <1>2, <1>3, <1>4 DEF Typed, store, bounds
<1> QED
  BY <1>1, <1>2, <1>3, <1>4, <1>5, JobMovesOn DEF Attended, store, bounds

LEMMA StopVMStep ==
  ASSUME IInv, NEW v \in VMs, StopVM(v)
  PROVE  IInv'
<1> DEFINE plan == IF job.todo = {v} THEN Tail(job.plan) ELSE job.plan
           j == [job EXCEPT !.todo = @ \ {v}, !.plan = plan]
<1>1. Typed /\ JobOwnsRun /\ job \in Jobs /\ job.stage = "closing"
      /\ job.plan # <<>> /\ Head(job.plan) = "stop" /\ job.plan \in Plans
  BY DEF IInv, Typed, StopVM, Closing, Jobs
<1>2. plan \in Plans /\ ("finish" \in Range(job.plan) => "finish" \in Range(plan))
  BY <1>1, PlanTails
<1>3. job' = j /\ UNCHANGED <<runStatus, fillRun, fillStatus, heard, tries, cancelled, call,
                              wrote, bounds>>
  BY DEF StopVM
<1> HIDE DEF plan
<1>4. /\ j \in Jobs /\ j.stage = "closing" /\ j.run = job.run /\ j.tally = job.tally
      /\ j.plan = plan
  BY <1>1, <1>2 DEF Jobs
<1> HIDE DEF j
<1>5. /\ vm' \in [VMs -> VMStates]
      /\ doing' \in [VMs -> [Runs -> AgentStages]]
      /\ current' \in [VMs -> Runs \cup {NoRun}]
      /\ completed' \in [VMs -> SUBSET Runs]
      /\ waiting' \in [VMs -> BOOLEAN]
      /\ \A u \in VMs : Untouched(u) \/ Afresh(u)
  BY <1>1, PowerCycleSteps DEF StopVM, PowerCycle
<1>6. recent' \in [VMs -> BOOLEAN]
  BY <1>1 DEF StopVM, Typed
<1>7. Typed'
  BY <1>1, <1>3, <1>4, <1>5, <1>6 DEF Typed, bounds
<1>8. JobOwnsRun'
  BY <1>1, <1>2, <1>3, <1>4 DEF JobOwnsRun, Attended
<1>9. JobGoesOn
  <2>1. job'.tally = "succeeded" => overtaken \/ AllDone(job'.run)
    BY <1>3, <1>4 DEF IInv, TallyStands
  <2> QED
    BY <1>3, <1>4, <1>5, <2>1 DEF JobGoesOn, bounds
<1> QED
  BY <1>7, <1>8, <1>9, JobGoesOnKeeps

LEMMA JobReturnsStep ==
  ASSUME IInv, JobReturns
  PROVE  IInv'
<1>1. Typed /\ JobOwnsRun /\ job.stage = "closing" /\ job.plan = <<>>
      /\ job' = NoJob /\ cancelled' = FALSE
      /\ UNCHANGED <<store, heard, tries, agents, calls, wrote, bounds>>
  BY DEF IInv, JobReturns
<1>2. Typed'
  BY <1>1, NoJobIsOne DEF Typed, store, agents, calls, bounds
<1>3. \A r \in Runs : runStatus[r] # "running"
  BY <1>1, PlanSteps DEF JobOwnsRun
<1>4. JobOwnsRun'
  BY <1>1, <1>3, NoJobIsOne DEF JobOwnsRun, store, Attended
<1>5. JobGoesOn
  BY <1>1, NoJobIsOne DEF JobGoesOn, Untouched, store, agents, calls, bounds
<1> QED
  BY <1>2, <1>4, <1>5, JobGoesOnKeeps

(* The world around the job. *)
LEMMA WorldSteps ==
  ASSUME IInv, NEW v \in VMs, Cancel \/ HeartbeatAges(v) \/ AgentStarts(v) \/ AgentDies(v)
  PROVE  IInv'
<1>1. Typed
  BY DEF IInv
<1>2. UNCHANGED <<runStatus, fillRun, fillStatus, job, call, wrote, disowned, overtaken>>
  BY DEF Cancel, HeartbeatAges, AgentStarts, AgentDies, store, jobVars, calls, bounds
<1>3. /\ vm' \in [VMs -> VMStates]
      /\ doing' \in [VMs -> [Runs -> AgentStages]]
      /\ current' \in [VMs -> Runs \cup {NoRun}]
      /\ completed' \in [VMs -> SUBSET Runs]
      /\ waiting' \in [VMs -> BOOLEAN]
      /\ \A u \in VMs : Untouched(u) \/ Afresh(u)
  <2>1. CASE Cancel \/ HeartbeatAges(v)
    BY <1>1, <2>1 DEF Cancel, HeartbeatAges, Typed, Untouched, agents, calls
  <2>2. CASE AgentStarts(v)
    BY <1>1, <2>2 DEF AgentStarts, Typed, Untouched, calls, VMStates
  <2>3. CASE AgentDies(v)
    BY <1>1, <2>3, PowerSteps DEF AgentDies, VMStates
  <2> QED
    BY <2>1, <2>2, <2>3
<1>4. UNCHANGED <<heard, tries, lost, restarts>>
  BY DEF Cancel, HeartbeatAges, AgentStarts, AgentDies, store, jobVars, bounds
<1>5. recent' \in [VMs -> BOOLEAN]
  BY <1>1 DEF Typed, Cancel, HeartbeatAges, AgentStarts, AgentDies, store
<1>6. cancelled' \in BOOLEAN
  <2>1. cancelled' = TRUE \/ cancelled' = cancelled
    BY DEF Cancel, HeartbeatAges, AgentStarts, AgentDies, jobVars
  <2> QED
    BY <1>1, <2>1 DEF Typed
<1>7. deaths' \in Nat
  BY <1>1 DEF Typed, Cancel, HeartbeatAges, AgentStarts, AgentDies, bounds
<1>8. Typed'
  BY <1>1, <1>2, <1>3, <1>4, <1>5, <1>6, <1>7 DEF Typed
<1>9. JobOwnsRun'
  BY <1>2 DEF IInv, JobOwnsRun
<1>10. JobGoesOn
  BY <1>2, <1>3 DEF JobGoesOn
<1> QED
  BY <1>8, <1>9, <1>10, JobGoesOnKeeps

-----------------------------------------------------------------------------
(* Runs begin and end, and rows are assigned.                               *)

LEMMA StartFillStep ==
  ASSUME IInv, NEW r \in Runs, StartFill(r)
  PROVE  IInv'
<1> DEFINE fresh == {v \in VMs : recent[v]}
           j == [NoJob EXCEPT !.stage = "assigning", !.run = r, !.todo = VMs, !.fresh = fresh]
<1>1. Typed /\ JobOwnsRun /\ job.stage = "none" /\ runStatus[r] = "absent"
      /\ runStatus' = [runStatus EXCEPT ![r] = "pending"] /\ job' = j /\ cancelled' = FALSE
      /\ UNCHANGED <<fillRun, fillStatus, recent, heard, tries, agents, calls,
                     wrote, disowned, deaths, lost, restarts>>
  BY DEF IInv, StartFill
<1>2. fresh \in SUBSET VMs
  OBVIOUS
<1> HIDE DEF fresh
<1>3. j \in Jobs /\ j.stage = "assigning" /\ j.run = r /\ j.tally = "none"
  BY <1>2 DEF Jobs, NoJob, JobStages, Plans
<1> HIDE DEF j
<1>4. /\ runStatus' \in [Runs -> RunStates] /\ runStatus'[r] = "pending"
      /\ \A s \in Runs : s # r => runStatus'[s] = runStatus[s]
  BY <1>1 DEF Typed, RunStates
<1>5. overtaken' \in BOOLEAN /\ (overtaken => overtaken')
      /\ (~overtaken' => \A v \in VMs : doing[v] = NoWork /\ call[v] = NoCall)
  <2>1. overtaken' = (overtaken \/ \E v \in VMs : doing[v] # NoWork \/ call[v] # NoCall)
    BY DEF StartFill
  <2> QED
    BY <2>1 DEF IInv, Typed
<1>6. Typed'
  BY <1>1, <1>3, <1>4, <1>5 DEF Typed, agents, calls
<1>7. \A s \in Runs : runStatus[s] # "running"
  BY <1>1 DEF JobOwnsRun, Attended
<1>8. JobOwnsRun'
  BY <1>1, <1>3, <1>4, <1>7 DEF JobOwnsRun, Attended
<1>9. \A v \in VMs : RowOK(v)'
  BY <1>1, <1>4, RowKept DEF IInv, agents, calls
<1>10. ASSUME ~overtaken'
       PROVE  /\ \A v \in VMs : AgentOK(v)' /\ CallOK(v)'
              /\ AssigningIsQuiet' /\ TallyStands' /\ GateHolds'
  <2>1. /\ \A v \in VMs : AgentOK(v)
        /\ TallyStands /\ GateHolds
    BY <1>5, <1>10 DEF IInv
  <2>2. \A v \in VMs : AgentOK(v)'
    BY <1>1, <2>1 DEF AgentOK, Failing, agents
  <2>3. \A v \in VMs : call'[v] = NoCall /\ doing'[v] = NoWork
    BY <1>1, <1>5, <1>10 DEF agents, calls
  <2>4. \A v \in VMs : CallOK(v)'
    BY <2>3, NoCallIsOne DEF CallOK, Asks, Ordered
  <2>5. \A v \in VMs : fillRun[v] # r
    BY <1>1 DEF IInv, RowOK
  <2>6. AssigningIsQuiet'
    BY <1>1, <1>3, <2>3, <2>5, NoCallIsOne DEF AssigningIsQuiet, QuietVM
  <2>7. TallyStands'
    BY <1>1, <1>3, <1>4, <2>1 DEF TallyStands
  <2>8. GateHolds'
    BY <1>1, <2>1, GateKept DEF calls
  <2> QED
    BY <2>2, <2>4, <2>6, <2>7, <2>8
<1> QED
  BY <1>6, <1>8, <1>9, <1>10 DEF IInv

LEMMA AssignFillStep ==
  ASSUME IInv, NEW v \in VMs, AssignFill(v)
  PROVE  IInv'
<1> DEFINE j == [job EXCEPT !.todo = @ \ {v}]
           r == job.run
<1>1. Typed /\ JobOwnsRun /\ job \in Jobs /\ job.stage = "assigning" /\ job.tally = "none"
      /\ r \in Runs /\ runStatus[r] = "pending"
      /\ fillRun' = [fillRun EXCEPT ![v] = r]
      /\ fillStatus' = [fillStatus EXCEPT ![v] = "pending"] /\ job' = j
      /\ UNCHANGED <<runStatus, recent, heard, tries, cancelled, agents, calls, wrote, bounds>>
  BY DEF IInv, AssignFill, JobOwnsRun, Typed
<1>2. j \in Jobs /\ j.stage = "assigning" /\ j.run = r /\ j.tally = "none"
  BY <1>1 DEF Jobs
<1> HIDE DEF j
<1>3. /\ fillRun' \in [VMs -> Runs \cup {NoRun}] /\ fillRun'[v] = r
      /\ fillStatus' \in [VMs -> FillStatuses] /\ fillStatus'[v] = "pending"
      /\ \A u \in VMs : u # v => fillRun'[u] = fillRun[u] /\ fillStatus'[u] = fillStatus[u]
  BY <1>1 DEF Typed, FillStatuses
<1>4. Typed'
  BY <1>1, <1>2, <1>3 DEF Typed, agents, calls, bounds
<1>5. JobOwnsRun'
  BY <1>1, <1>2 DEF JobOwnsRun, Attended
<1>6. ASSUME NEW u \in VMs PROVE RowOK(u)'
  <2>1. RowOK(u)
    BY DEF IInv
  <2>2. CASE u # v
    BY <1>1, <1>3, <2>1, <2>2, RowKept DEF agents, calls
  <2>3. CASE u = v
    BY <1>1, <1>3, <2>1, <2>3 DEF RowOK, agents, calls
  <2> QED
    BY <2>2, <2>3
<1>7. ASSUME ~overtaken'
      PROVE  /\ \A u \in VMs : AgentOK(u)' /\ CallOK(u)'
             /\ AssigningIsQuiet' /\ TallyStands' /\ GateHolds'
  <2>1. /\ \A u \in VMs : AgentOK(u) /\ CallOK(u) /\ RowOK(u)
        /\ \A u \in VMs : QuietVM(u)
        /\ TallyStands /\ GateHolds
    BY <1>1, <1>7 DEF IInv, bounds, AssigningIsQuiet
  <2>2. \A u \in VMs : u # v => AgentOK(u)' /\ CallOK(u)'
    BY <1>1, <1>2, <1>3, <2>1, AgentKept, CallKept DEF Untouched, agents, calls, bounds
  <2>3. AgentOK(v)'
    BY <1>1, <1>3, <2>1, NoWorkIsNone DEF AgentOK, QuietVM, agents
  <2>4. CallOK(v)'
    <3> DEFINE s == call[v].run
    <3>1. call[v].stage \in {"none", "read"} /\ (call[v].stage = "read" => s \in Runs)
      BY <1>1, <2>1, CallParts DEF QuietVM
    <3>2. call'[v].stage = "read" =>
            fillRun'[v] = s \/ (runStatus'[s] # "running" /\ job'.run # s)
      BY <1>1, <1>2, <1>3, <3>1 DEF JobOwnsRun, Attended, calls
    <3>3. Asks(v)' => doing'[v][s] = "none" /\ fillStatus'[v] = "pending"
      BY <1>1, <1>3, <2>1, <3>1, NoWorkIsNone DEF Asks, QuietVM, agents, calls
    <3>4. ~Ordered(v)'
      BY <1>1, <1>3, <2>1, <3>1 DEF Ordered, QuietVM, calls
    <3> QED
      BY <1>1, <3>1, <3>2, <3>3, <3>4 DEF CallOK, calls
  <2>5. AssigningIsQuiet'
    BY <1>1, <1>2, <1>3, <2>1 DEF AssigningIsQuiet, QuietVM, agents, calls
  <2>6. TallyStands'
    BY <1>1, <1>2, <1>3, <2>1 DEF TallyStands
  <2>7. GateHolds'
    <3>1. \A s \in Runs :
            (OfRun(s, "working") \cup Counted(s))' \subseteq OfRun(s, "working") \cup Counted(s)
      BY <1>1, <1>3 DEF OfRun, Counted, calls
    <3> QED
      BY <1>1, <2>1, <3>1, GateFewer DEF calls, bounds
  <2> QED
    BY <2>2, <2>3, <2>4, <2>5, <2>6, <2>7
<1> QED
  BY <1>4, <1>5, <1>6, <1>7 DEF IInv

LEMMA StartRunStep ==
  ASSUME IInv, StartRun
  PROVE  IInv'
<1> DEFINE j == [job EXCEPT !.stage = "opening"]
           r == job.run
<1>1. Typed /\ JobOwnsRun /\ job \in Jobs /\ job.stage = "assigning" /\ job.tally = "none"
      /\ r \in Runs /\ runStatus[r] = "pending"
      /\ runStatus' = [runStatus EXCEPT ![r] = "running"] /\ job' = j
      /\ UNCHANGED <<fillRun, fillStatus, recent, heard, tries, cancelled, agents, calls, wrote,
                     bounds>>
  BY DEF IInv, StartRun, JobOwnsRun, Typed
<1>2. j \in Jobs /\ j.stage = "opening" /\ j.run = r /\ j.tally = "none"
  BY <1>1 DEF Jobs, JobStages
<1> HIDE DEF j
<1>3. /\ runStatus' \in [Runs -> RunStates] /\ runStatus'[r] = "running"
      /\ \A s \in Runs : s # r => runStatus'[s] = runStatus[s]
  BY <1>1 DEF Typed, RunStates
<1>4. Typed'
  BY <1>1, <1>2, <1>3 DEF Typed, agents, calls, bounds
<1>5. JobOwnsRun'
  BY <1>1, <1>2, <1>3 DEF JobOwnsRun, Attended
<1>6. \A v \in VMs : RowOK(v)'
  BY <1>1, <1>3, RowKept DEF IInv, agents, calls
<1>7. ASSUME ~overtaken'
      PROVE  /\ \A v \in VMs : AgentOK(v)' /\ CallOK(v)'
             /\ AssigningIsQuiet' /\ TallyStands' /\ GateHolds'
  <2>1. /\ \A v \in VMs : AgentOK(v) /\ CallOK(v) /\ RowOK(v)
        /\ TallyStands /\ GateHolds
    BY <1>7, <1>1 DEF IInv, bounds
  <2>2. \A v \in VMs : AgentOK(v)'
    BY <1>1, <2>1, AgentKept DEF Untouched, agents, calls, bounds
  <2>3. ASSUME NEW v \in VMs PROVE CallOK(v)'
    <3>1. call[v].stage # "none" => call[v].run \in Runs
      BY <1>1, <2>1, CallParts
    <3>2. CallOK(v)
      BY <2>1
    <3>3. /\ call'[v] = call[v] /\ fillRun'[v] = fillRun[v] /\ fillStatus'[v] = fillStatus[v]
          /\ doing'[v] = doing[v] /\ completed'[v] = completed[v] /\ waiting'[v] = waiting[v]
          /\ disowned' = disowned
      BY <1>1 DEF agents, calls, bounds
    <3>4. (Asks(v)' <=> Asks(v)) /\ (Ordered(v)' <=> Ordered(v)) /\ (Failing(v)' <=> Failing(v))
      BY <3>3 DEF Asks, Ordered, Failing
    <3>5. call[v].stage \in {"checked", "counted", "order"} =>
            fillRun[v] = call[v].run /\ runStatus'[call[v].run] \in {"running"} \cup Ended
      BY <1>3, <3>1, <3>2 DEF CallOK
    <3>6. call[v].stage = "read" =>
            fillRun[v] = call[v].run
              \/ (runStatus'[call[v].run] # "running" /\ job'.run # call[v].run)
      BY <1>1, <1>2, <1>3, <3>1, <3>2 DEF CallOK
    <3> QED
      BY <3>2, <3>3, <3>4, <3>5, <3>6 DEF CallOK
  <2>4. AssigningIsQuiet'
    BY <1>1, <1>2 DEF AssigningIsQuiet
  <2>5. TallyStands'
    BY <1>1, <1>2, <1>3, <2>1 DEF TallyStands
  <2>6. GateHolds'
    BY <1>1, <2>1, GateKept DEF calls, bounds
  <2> QED
    BY <2>2, <2>3, <2>4, <2>5, <2>6
<1> QED
  BY <1>4, <1>5, <1>6, <1>7 DEF IInv

LEMMA FinishRunStep ==
  ASSUME IInv, FinishRun
  PROVE  IInv'
<1> DEFINE j == [job EXCEPT !.plan = Tail(@)]
           r == job.run
<1>1. Typed /\ JobOwnsRun /\ job \in Jobs /\ job.stage = "closing" /\ job.tally \in Ended
      /\ r \in Runs /\ job.plan \in Plans /\ job.plan # <<>>
      /\ runStatus' = [runStatus EXCEPT ![r] = job.tally] /\ job' = j
      /\ UNCHANGED <<fillRun, fillStatus, recent, heard, tries, cancelled, agents, calls, wrote,
                     bounds>>
  BY DEF IInv, FinishRun, Closing, NextStep, JobOwnsRun, Typed, Jobs
<1>2. j \in Jobs /\ j.stage = "closing" /\ j.run = r /\ j.tally = job.tally
  BY <1>1, PlanTails DEF Jobs
<1> HIDE DEF j
<1>3. /\ runStatus' \in [Runs -> RunStates] /\ runStatus'[r] = job.tally
      /\ \A s \in Runs : s # r => runStatus'[s] = runStatus[s]
  BY <1>1 DEF Typed, RunStates
<1>4. Typed'
  BY <1>1, <1>2, <1>3 DEF Typed, agents, calls, bounds
<1>5. \A s \in Runs : runStatus'[s] # "running"
  BY <1>1, <1>3 DEF JobOwnsRun, Ended
<1>6. JobOwnsRun'
  BY <1>1, <1>2, <1>5 DEF JobOwnsRun, Attended
<1>7. \A v \in VMs : RowOK(v)'
  BY <1>1, <1>3, RowKept DEF IInv, agents, calls, Ended
<1>8. ASSUME ~overtaken'
      PROVE  /\ \A v \in VMs : AgentOK(v)' /\ CallOK(v)'
             /\ AssigningIsQuiet' /\ TallyStands' /\ GateHolds'
  <2>1. /\ \A v \in VMs : AgentOK(v) /\ CallOK(v) /\ RowOK(v)
        /\ TallyStands /\ GateHolds
    BY <1>1, <1>8 DEF IInv, bounds
  <2>2. \A v \in VMs : AgentOK(v)'
    BY <1>1, <2>1, AgentKept DEF Untouched, agents, calls, bounds
  <2>3. /\ \A s \in Runs : runStatus'[s] = "running" => runStatus[s] = "running"
        /\ \A s \in Runs : runStatus[s] \in {"running"} \cup Ended =>
                             runStatus'[s] \in {"running"} \cup Ended
    BY <1>1, <1>3, <1>5
  <2>4. \A v \in VMs : CallOK(v)'
    BY <1>1, <1>2, <2>1, <2>3, CallKept DEF Untouched, agents, calls, bounds
  <2>5. AssigningIsQuiet'
    BY <1>1, <1>2 DEF AssigningIsQuiet
  <2>6. job.tally = "succeeded" => AllDone(r) /\ wrote[r] = VMs
    <3>1. job.tally = "succeeded" => AllDone(r)
      BY <2>1 DEF TallyStands
    <3>2. AllDone(r) => \A v \in VMs : v \in wrote[r]
      BY <2>1 DEF AllDone, AgentOK
    <3>3. wrote[r] \subseteq VMs
      BY <1>1 DEF Typed
    <3> QED
      BY <3>1, <3>2, <3>3
  <2>7. TallyStands'
    <3>1. job'.tally = "succeeded" => AllDone(job.run)'
      BY <1>1, <1>2, <2>6 DEF AllDone
    <3>2. ASSUME NEW s \in Runs, runStatus'[s] = "succeeded"
          PROVE  wrote'[s] = VMs /\ \A v \in VMs : fillRun'[v] = s => fillStatus'[v] = "done"
      <4>1. CASE s = r
        BY <1>1, <1>3, <2>6, <3>2, <4>1 DEF AllDone
      <4>2. CASE s # r
        BY <1>1, <1>3, <2>1, <3>2, <4>2 DEF TallyStands
      <4> QED
        BY <4>1, <4>2
    <3> QED
      BY <1>1, <1>2, <3>1, <3>2 DEF TallyStands
  <2>8. GateHolds'
    BY <1>1, <2>1, GateKept DEF calls, bounds
  <2> QED
    BY <2>2, <2>4, <2>5, <2>7, <2>8
<1> QED
  BY <1>4, <1>6, <1>7, <1>8 DEF IInv

LEMMA RestartStep ==
  ASSUME IInv, Restart
  PROVE  IInv'
<1>1. Typed /\ JobOwnsRun
      /\ restarts' = restarts + 1 /\ cancelled' = FALSE
      /\ heard' = [v \in VMs |-> FALSE] /\ tries' = [v \in VMs |-> 0]
      /\ call' = [v \in VMs |-> NoCall] /\ waiting' = [v \in VMs |-> FALSE]
      /\ UNCHANGED <<store, agents, wrote, disowned, overtaken, deaths, lost>>
  BY DEF IInv, Restart
<1>2. /\ job' \in Jobs /\ job'.tally = "none" /\ job'.todo = {}
      /\ \/ /\ job'.stage = "none"
            /\ \A r \in Runs : runStatus[r] # "running"
         \/ /\ job'.stage = "opening" /\ job'.run \in Runs /\ runStatus[job'.run] = "running"
  <2>1. CASE job' = NoJob /\ \A r \in Runs : runStatus[r] # "running"
    BY <2>1, NoJobIsOne
  <2>2. CASE \E r \in Runs :
               /\ runStatus[r] = "running"
               /\ job' = [NoJob EXCEPT !.stage = "opening", !.run = r,
                                       !.fresh = {v \in VMs : recent[v]}]
    <3> DEFINE fresh == {v \in VMs : recent[v]}
    <3>1. fresh \in SUBSET VMs
      OBVIOUS
    <3> HIDE DEF fresh
    <3>2. PICK r \in Runs :
            /\ runStatus[r] = "running"
            /\ job' = [NoJob EXCEPT !.stage = "opening", !.run = r, !.fresh = fresh]
      BY <2>2 DEF fresh
    <3> DEFINE j == [NoJob EXCEPT !.stage = "opening", !.run = r, !.fresh = fresh]
    <3>3. /\ j \in Jobs /\ j.stage = "opening" /\ j.run = r
          /\ j.tally = "none" /\ j.todo = {}
      BY <3>1 DEF Jobs, NoJob, JobStages, Plans
    <3> HIDE DEF j
    <3> QED
      BY <3>2, <3>3 DEF j
  <2> QED
    BY <2>1, <2>2 DEF Restart
<1>3. Typed'
  <2>1. tries' \in [VMs -> 0 .. MaxBootAttempts]
    BY <1>1, FillAssumption
  <2>2. restarts' \in Nat
    BY <1>1 DEF Typed
  <2>3. heard' \in [VMs -> BOOLEAN] /\ call' \in [VMs -> Calls] /\ waiting' \in [VMs -> BOOLEAN]
    BY <1>1, NoCallIsOne
  <2> QED
    BY <1>1, <1>2, <2>1, <2>2, <2>3 DEF Typed, store, agents
<1>4. JobOwnsRun'
  BY <1>1, <1>2 DEF JobOwnsRun, Attended, store
<1>5. \A v \in VMs : RowOK(v)'
  BY <1>1 DEF IInv, RowOK, store, agents
<1>6. ASSUME ~overtaken'
      PROVE  /\ \A v \in VMs : AgentOK(v)' /\ CallOK(v)'
             /\ AssigningIsQuiet' /\ TallyStands' /\ GateHolds'
  <2>1. /\ \A v \in VMs : AgentOK(v)
        /\ TallyStands /\ GateHolds
    BY <1>1, <1>6 DEF IInv
  <2>2. \A v \in VMs : AgentOK(v)'
    BY <1>1, <2>1 DEF AgentOK, Failing, store, agents
  <2>3. \A v \in VMs : CallOK(v)'
    BY <1>1, NoCallIsOne DEF CallOK, Asks, Ordered
  <2>4. AssigningIsQuiet'
    BY <1>2 DEF AssigningIsQuiet
  <2>5. TallyStands'
    BY <1>1, <1>2, <2>1 DEF TallyStands, store
  <2>6. GateHolds'
    <3>1. \A r \in Runs :
            (OfRun(r, "working") \cup Counted(r))' \subseteq OfRun(r, "working") \cup Counted(r)
      BY <1>1, NoCallIsOne DEF OfRun, Counted, store
    <3>2. \A u \in VMs : call'[u].stage # "counted"
      BY <1>1, NoCallIsOne
    <3> QED
      BY <1>1, <2>1, <3>1, <3>2, GateFewer
  <2> QED
    BY <2>2, <2>3, <2>4, <2>5, <2>6
<1> QED
  BY <1>3, <1>4, <1>5, <1>6 DEF IInv

-----------------------------------------------------------------------------
(* The controller declares VMs failed, whatever their agents do.            *)

LEMMA RowsFail ==
  ASSUME IInv, Typed', JobOwnsRun', disowned' = TRUE,
         UNCHANGED <<runStatus, fillRun, agents, calls, wrote, overtaken>>,
         job'.stage # "assigning", job'.run = job.run,
         \A v \in VMs :
           fillStatus'[v] = fillStatus[v] \/ (fillStatus'[v] = "failed" /\ fillRun[v] \in Runs),
         overtaken \/ TallyStands'
  PROVE  IInv'
<1>1. Typed /\ \A v \in VMs : RowOK(v)
  BY DEF IInv
<1>2. \A v \in VMs : RowOK(v)'
  BY <1>1 DEF RowOK, agents, calls
<1>3. ASSUME ~overtaken'
      PROVE  /\ \A v \in VMs : AgentOK(v)' /\ CallOK(v)'
             /\ AssigningIsQuiet' /\ TallyStands' /\ GateHolds'
  <2>1. /\ \A v \in VMs : AgentOK(v) /\ CallOK(v)
        /\ GateHolds /\ TallyStands'
    BY <1>3 DEF IInv
  <2>2. ASSUME NEW v \in VMs, fillStatus'[v] = fillStatus[v]
        PROVE  AgentOK(v)' /\ CallOK(v)'
    BY <1>1, <2>1, <2>2, AgentKept, CallKept DEF Untouched, agents, calls
  <2>3. ASSUME NEW v \in VMs, fillStatus'[v] = "failed"
        PROVE  AgentOK(v)' /\ CallOK(v)'
    <3>1. /\ doing'[v] = doing[v] /\ current'[v] = current[v] /\ completed'[v] = completed[v]
          /\ call'[v] = call[v] /\ waiting'[v] = waiting[v] /\ fillRun'[v] = fillRun[v]
          /\ Failing(v)'
      BY <2>3 DEF agents, calls, Failing
    <3>2. AgentOK(v) /\ CallOK(v)
      BY <2>1
    <3>3. AgentOK(v)'
      BY <2>3, <3>1, <3>2 DEF AgentOK
    <3>4. Asks(v)' <=> Asks(v)
      BY <3>1 DEF Asks
    <3>5. CallOK(v)'
      BY <3>1, <3>2, <3>4 DEF CallOK
    <3> QED
      BY <3>3, <3>5
  <2>4. AssigningIsQuiet'
    BY DEF AssigningIsQuiet
  <2>5. GateHolds'
    <3>1. \A r \in Runs :
            disowned' \/
              (OfRun(r, "working") \cup Counted(r))' \subseteq OfRun(r, "working") \cup Counted(r)
      OBVIOUS
    <3> QED
      BY <2>1, <3>1, GateFewer DEF calls
  <2> QED
    BY <2>1, <2>2, <2>3, <2>4, <2>5
<1> QED
  BY <1>2, <1>3 DEF IInv

LEMMA WatchdogGivesUpStep ==
  ASSUME IInv, NEW v \in VMs, WatchdogGivesUp(v)
  PROVE  IInv'
<1> DEFINE j == [job EXCEPT !.todo = @ \ {v}]
<1>1. Typed /\ JobOwnsRun /\ job \in Jobs /\ job.stage = "watching" /\ job.tally = "none"
      /\ job.run \in Runs /\ runStatus[job.run] = "running" /\ fillRun[v] = job.run
  BY DEF IInv, Typed, WatchdogGivesUp, JobOwnsRun, Attended
<1>2. /\ j \in Jobs /\ j.stage = "watching" /\ j.run = job.run
      /\ j.tally = "none" /\ j.todo \subseteq job.todo
  BY <1>1 DEF Jobs
<1>3. /\ fillStatus' = [fillStatus EXCEPT ![v] = "failed"]
      /\ disowned' = TRUE /\ job' = j
      /\ UNCHANGED <<runStatus, fillRun, recent, heard, tries, cancelled, agents,
                     calls, wrote, overtaken, deaths, lost, restarts>>
  BY DEF WatchdogGivesUp
<1> HIDE DEF j
<1>4. /\ fillStatus' \in [VMs -> FillStatuses] /\ fillStatus'[v] = "failed"
      /\ \A u \in VMs : u # v => fillStatus'[u] = fillStatus[u]
  BY <1>1, <1>3 DEF Typed, FillStatuses
<1>5. Typed'
  BY <1>1, <1>2, <1>3, <1>4 DEF Typed, agents, calls
<1>6. JobOwnsRun'
  BY <1>1, <1>2, <1>3 DEF JobOwnsRun, Attended
<1>7. overtaken \/ TallyStands'
  BY <1>1, <1>2, <1>3, <1>4 DEF IInv, TallyStands
<1> QED
  BY <1>1, <1>2, <1>3, <1>4, <1>5, <1>6, <1>7, RowsFail

LEMMA CancelUnfinishedFillsStep ==
  ASSUME IInv, CancelUnfinishedFills
  PROVE  IInv'
<1> DEFINE j == [job EXCEPT !.plan = Tail(@)]
<1>1. Typed /\ JobOwnsRun /\ job \in Jobs /\ job.stage = "closing"
      /\ job.run \in Runs /\ job.plan \in Plans /\ job.plan # <<>> /\ Head(job.plan) = "reset"
  BY DEF IInv, Typed, CancelUnfinishedFills, Closing, JobOwnsRun, Jobs
<1>2. /\ j \in Jobs /\ j.stage = "closing" /\ j.run = job.run /\ j.tally = job.tally
      /\ ("finish" \in Range(job.plan) => "finish" \in Range(j.plan))
  BY <1>1, PlanTails DEF Jobs
<1>3. /\ fillStatus' = [v \in VMs |->
           IF fillRun[v] = job.run /\ fillStatus[v] \in InFlight
           THEN "failed" ELSE fillStatus[v]]
      /\ disowned' = TRUE /\ job' = j
      /\ UNCHANGED <<runStatus, fillRun, recent, heard, tries, cancelled, agents,
                     calls, wrote, overtaken, deaths, lost, restarts>>
  BY DEF CancelUnfinishedFills, NextStep
<1> HIDE DEF j
<1>4. /\ fillStatus' \in [VMs -> FillStatuses]
      /\ \A v \in VMs :
           fillStatus'[v] = fillStatus[v] \/ (fillStatus'[v] = "failed" /\ fillRun[v] \in Runs)
      /\ \A v \in VMs : fillStatus[v] = "done" => fillStatus'[v] = "done"
  BY <1>1, <1>3 DEF Typed, FillStatuses, InFlight
<1>5. Typed'
  BY <1>1, <1>2, <1>3, <1>4 DEF Typed, agents, calls
<1>6. JobOwnsRun'
  BY <1>1, <1>2, <1>3 DEF JobOwnsRun, Attended
<1>7. overtaken \/ TallyStands'
  <2>1. AllDone(job.run) => AllDone(job.run)'
    BY <1>2, <1>3, <1>4 DEF AllDone
  <2> QED
    BY <1>2, <1>3, <1>4, <2>1 DEF IInv, TallyStands
<1> QED
  BY <1>1, <1>2, <1>3, <1>4, <1>5, <1>6, <1>7, RowsFail

-----------------------------------------------------------------------------
(* One VM's handler or agent takes a step.                                  *)

(* What the step has to leave in order at its own VM. *)
KeepsOrder(v) ==
  /\ AgentOK(v)' /\ CallOK(v)'
  /\ job.stage = "assigning" => QuietVM(v)'
  /\ fillStatus[v] = "done" => fillStatus'[v] = "done"
  /\ GateHolds'

LEMMA OneVM ==
  ASSUME IInv, NEW v \in VMs, Typed', RowOK(v)',
         UNCHANGED <<runStatus, fillRun, job, disowned, overtaken>>,
         \A u \in VMs : u # v => /\ fillStatus'[u] = fillStatus[u] /\ call'[u] = call[u]
                                 /\ Untouched(u),
         \A r \in Runs : wrote[r] \subseteq wrote'[r],
         overtaken \/ KeepsOrder(v)
  PROVE  IInv'
<1>1. Typed /\ JobOwnsRun /\ \A u \in VMs : RowOK(u)
  BY DEF IInv
<1>2. JobOwnsRun'
  BY <1>1 DEF JobOwnsRun
<1>3. \A u \in VMs : RowOK(u)'
  BY <1>1, RowKept DEF Untouched
<1>4. ASSUME ~overtaken'
      PROVE  /\ \A u \in VMs : AgentOK(u)' /\ CallOK(u)'
             /\ AssigningIsQuiet' /\ TallyStands' /\ GateHolds'
  <2>1. /\ \A u \in VMs : AgentOK(u) /\ CallOK(u)
        /\ AssigningIsQuiet /\ TallyStands /\ KeepsOrder(v)
    BY <1>4 DEF IInv
  <2>2. ASSUME NEW u \in VMs, u # v
        PROVE  AgentOK(u)' /\ CallOK(u)'
    BY <1>1, <2>1, <2>2, AgentKept, CallKept
  <2>3. ASSUME job.stage = "assigning", NEW u \in VMs, u # v
        PROVE  QuietVM(u)'
    <3>1. QuietVM(u)
      BY <2>1, <2>3 DEF AssigningIsQuiet
    <3> QED
      BY <2>3, <3>1 DEF QuietVM, Untouched
  <2>4. AssigningIsQuiet'
    BY <2>1, <2>3 DEF AssigningIsQuiet, KeepsOrder
  <2>5. \A u \in VMs : fillStatus[u] = "done" => fillStatus'[u] = "done"
    BY <2>1 DEF KeepsOrder
  <2>6. TallyStands'
    <3>1. AllDone(job.run) => AllDone(job.run)'
      BY <2>5 DEF AllDone
    <3>2. \A r \in Runs : wrote'[r] \subseteq VMs
      BY DEF Typed
    <3>3. ASSUME NEW r \in Runs, runStatus'[r] = "succeeded"
          PROVE  wrote'[r] = VMs /\ \A u \in VMs : fillRun'[u] = r => fillStatus'[u] = "done"
      <4>1. wrote[r] = VMs /\ \A u \in VMs : fillRun[u] = r => fillStatus[u] = "done"
        BY <2>1, <3>3 DEF TallyStands
      <4> QED
        BY <2>5, <3>2, <4>1
    <3> QED
      BY <2>1, <3>1, <3>3 DEF TallyStands
  <2> QED
    BY <2>1, <2>2, <2>4, <2>6 DEF KeepsOrder
<1> QED
  BY <1>2, <1>3, <1>4 DEF IInv

(* What the invariant says of one VM unless runs have overlapped. *)
LEMMA AtVM ==
  ASSUME IInv, NEW v \in VMs
  PROVE  /\ Typed /\ JobOwnsRun /\ RowOK(v) /\ NoRun \notin Runs
         /\ overtaken \/ (AgentOK(v) /\ CallOK(v) /\ GateHolds
                          /\ (job.stage = "assigning" => QuietVM(v)))
BY FillAssumption DEF IInv, AssigningIsQuiet

(* A handler that moves on without touching rows or agents. *)
LEMMA HandlerMoves ==
  ASSUME IInv, NEW v \in VMs, Typed', RowOK(v)',
         UNCHANGED <<runStatus, fillRun, fillStatus, job, agents, wrote, disowned, overtaken>>,
         \A u \in VMs : u # v => call'[u] = call[u] /\ waiting'[u] = waiting[u],
         overtaken \/ (CallOK(v)' /\ GateHolds'),
         overtaken \/ job.stage # "assigning" \/ call'[v] = NoCall
           \/ (call'[v].stage = "read" /\ (call'[v].run = job.run => call'[v].status = "pending"))
  PROVE  IInv'
<1>1. Typed /\ RowOK(v)
  BY AtVM
<1>2. ASSUME ~overtaken
      PROVE  KeepsOrder(v)
  <2>1. AgentOK(v) /\ (job.stage = "assigning" => QuietVM(v))
    BY <1>2, AtVM
  <2>2. AgentOK(v)'
    BY <2>1 DEF AgentOK, Failing, agents
  <2>3. job.stage = "assigning" => QuietVM(v)'
    BY <1>2, <2>1, NoCallIsOne DEF QuietVM, agents
  <2> QED
    BY <1>2, <2>2, <2>3 DEF KeepsOrder
<1> QED
  BY <1>2, OneVM DEF Untouched, agents

(* The handler has answered, with an order or without. *)
LEMMA AnswerSteps ==
  ASSUME Typed, NEW v \in VMs, AnswerIdle(v)
  PROVE  /\ call' \in [VMs -> Calls] /\ waiting' \in [VMs -> BOOLEAN]
         /\ call'[v] = NoCall
         /\ \A u \in VMs : u # v => call'[u] = call[u] /\ waiting'[u] = waiting[u]
BY NoCallIsOne DEF Typed, AnswerIdle

LEMMA NoCallKeeps ==
  ASSUME NEW v \in VMs, call'[v] = NoCall
  PROVE  CallOK(v)'
BY NoCallIsOne DEF CallOK, Asks, Ordered

LEMMA HandlerAnswers ==
  ASSUME IInv, NEW v \in VMs, AnswerIdle(v), Typed',
         UNCHANGED <<runStatus, fillRun, fillStatus, job, agents, wrote, disowned, overtaken>>
  PROVE  IInv'
<1>1. Typed /\ RowOK(v) /\ (overtaken \/ GateHolds)
  BY AtVM
<1>2. /\ call'[v] = NoCall
      /\ \A u \in VMs : u # v => call'[u] = call[u] /\ waiting'[u] = waiting[u]
  BY <1>1, AnswerSteps
<1>3. RowOK(v)'
  BY <1>1, <1>2 DEF RowOK, agents
<1>4. CallOK(v)'
  BY <1>2, NoCallKeeps
<1>5. overtaken \/ GateHolds'
  <2>1. \A u \in VMs : call'[u].stage = "counted" =>
          call[u].stage = "counted" /\ call'[u].run = call[u].run
    BY <1>2, NoCallIsOne
  <2>2. \A r \in Runs :
          (OfRun(r, "working") \cup Counted(r))' \subseteq OfRun(r, "working") \cup Counted(r)
    BY <2>1 DEF OfRun, Counted
  <2> QED
    BY <1>1, <2>1, <2>2, GateFewer
<1> QED
  BY <1>2, <1>3, <1>4, <1>5, HandlerMoves

LEMMA HeardSteps ==
  ASSUME Typed, NEW v \in VMs, Heard(v)
  PROVE  recent' \in [VMs -> BOOLEAN] /\ heard' \in [VMs -> BOOLEAN]
<1>1. Attending \in BOOLEAN
  BY DEF Attending
<1> HIDE DEF Attending
<1> QED
  BY <1>1 DEF Typed, Heard

LEMMA AgentCallsStep ==
  ASSUME IInv, NEW v \in VMs, AgentCalls(v)
  PROVE  IInv'
<1>1. Typed /\ RowOK(v) /\ call[v].stage = "none"
      /\ UNCHANGED <<runStatus, fillRun, fillStatus, job, tries, cancelled, agents, wrote, bounds>>
  BY AtVM DEF AgentCalls
<1>2. call[v] = NoCall
  BY <1>1, CallParts
<1>3. CASE /\ fillStatus[v] \in InFlight
           /\ waiting' = [waiting EXCEPT ![v] = TRUE]
           /\ call' = [call EXCEPT ![v] =
                [stage |-> "read", run |-> fillRun[v], status |-> fillStatus[v]]]
           /\ UNCHANGED <<recent, heard>>
  <2> DEFINE c == [stage |-> "read", run |-> fillRun[v], status |-> fillStatus[v]]
  <2>1. fillRun[v] \in Runs
    BY <1>1, <1>3 DEF RowOK, InFlight
  <2>2. c \in Calls /\ c.stage = "read" /\ c.run = fillRun[v] /\ c.status = fillStatus[v]
    BY <1>1, <2>1 DEF Calls, CallStages, Typed
  <2>3. call' = [call EXCEPT ![v] = c]
    BY <1>3
  <2> HIDE DEF c
  <2>4. /\ call' \in [VMs -> Calls] /\ call'[v] = c
        /\ waiting' \in [VMs -> BOOLEAN]
        /\ \A u \in VMs : u # v => call'[u] = call[u] /\ waiting'[u] = waiting[u]
    BY <1>1, <1>3, <2>2, <2>3 DEF Typed
  <2>5. Typed'
    BY <1>1, <1>3, <2>4 DEF Typed, agents, bounds
  <2>6. RowOK(v)'
    BY <1>1, <1>3, <2>1, <2>2, <2>4 DEF RowOK, agents
  <2>7. ASSUME ~overtaken
        PROVE  CallOK(v)' /\ GateHolds'
    <3>1. AgentOK(v) /\ GateHolds
      BY <2>7, AtVM
    <3>2. fillStatus[v] = "pending" => doing[v][fillRun[v]] = "none"
      BY <1>1, <2>1, <3>1 DEF AgentOK, Failing, Typed, AgentStages
    <3>3. CallOK(v)'
      BY <1>1, <1>3, <2>2, <2>4, <3>2 DEF CallOK, Asks, Ordered, agents, InFlight
    <3>4. \A u \in VMs : call'[u].stage = "counted" =>
            call[u].stage = "counted" /\ call'[u].run = call[u].run
      BY <2>2, <2>4
    <3>5. \A r \in Runs :
            (OfRun(r, "working") \cup Counted(r))' \subseteq OfRun(r, "working") \cup Counted(r)
      BY <1>1, <3>4 DEF OfRun, Counted
    <3>6. GateHolds'
      BY <1>1, <3>1, <3>4, <3>5, GateFewer DEF bounds
    <3> QED
      BY <3>3, <3>6
  <2>8. overtaken \/ job.stage # "assigning"
          \/ (call'[v].stage = "read" /\ (call'[v].run = job.run => call'[v].status = "pending"))
    BY <2>2, <2>4, AtVM DEF QuietVM
  <2> QED
    BY <1>1, <2>4, <2>5, <2>6, <2>7, <2>8, HandlerMoves DEF bounds
<1>4. CASE Heard(v) /\ UNCHANGED calls
  <2>1. Typed'
    BY <1>1, <1>4, HeardSteps DEF Typed, agents, calls, bounds
  <2>2. RowOK(v)'
    BY <1>1, <1>4 DEF RowOK, agents, calls
  <2>3. CallOK(v)'
    BY <1>2, <1>4, NoCallKeeps DEF calls
  <2>4. overtaken \/ GateHolds'
    BY <1>1, <1>4, AtVM, GateKept DEF calls, bounds
  <2> QED
    BY <1>1, <1>2, <1>4, <2>1, <2>2, <2>3, <2>4, HandlerMoves DEF calls, bounds
<1> QED
  BY <1>3, <1>4 DEF AgentCalls

(* The handler goes on to another stage, with the run and the status it read. *)
LEMMA StageSteps ==
  ASSUME Typed, NEW v \in VMs, RowOK(v), call[v].stage # "none",
         NEW stage \in CallStages \ {"none"}, call' = [call EXCEPT ![v].stage = stage]
  PROVE  /\ call' \in [VMs -> Calls]
         /\ call'[v].stage = stage /\ call'[v].run = call[v].run
         /\ call'[v].status = call[v].status
         /\ call'[v].run \in Runs /\ call'[v].status \in InFlight /\ fillRun[v] \in Runs
         /\ \A u \in VMs : u # v => call'[u] = call[u]
<1>1. call[v] \in Calls /\ call[v].run \in Runs /\ call[v].status \in InFlight
  BY CallParts DEF Typed
<1> DEFINE c == [call[v] EXCEPT !.stage = stage]
<1>2. c \in Calls /\ c.stage = stage /\ c.run = call[v].run /\ c.status = call[v].status
  BY <1>1 DEF Calls
<1>3. call' = [call EXCEPT ![v] = c]
  OBVIOUS
<1> HIDE DEF c
<1>4. fillRun[v] \in Runs
  BY NoCallIsOne DEF RowOK
<1> QED
  BY <1>1, <1>2, <1>3, <1>4 DEF Typed

LEMMA CheckOrderStep ==
  ASSUME IInv, NEW v \in VMs, CheckOrder(v)
  PROVE  IInv'
<1> DEFINE r == call[v].run
<1>1. Typed /\ JobOwnsRun /\ RowOK(v) /\ call[v].stage = "read"
      /\ UNCHANGED <<runStatus, fillRun, fillStatus, job, tries, cancelled, agents, wrote, bounds>>
  BY AtVM DEF CheckOrder
<1>2. r \in Runs /\ call[v].status \in InFlight
  BY <1>1, CallParts
<1>3. recent' \in [VMs -> BOOLEAN] /\ heard' \in [VMs -> BOOLEAN]
  BY <1>1, HeardSteps DEF CheckOrder
<1>4. CASE AnswerIdle(v)
  <2>1. Typed'
    BY <1>1, <1>3, <1>4, AnswerSteps DEF Typed, agents, bounds
  <2> QED
    BY <1>1, <1>4, <2>1, HandlerAnswers DEF bounds
<1>5. CASE /\ runStatus[r] = "running"
           /\ call' = [call EXCEPT ![v].stage =
                IF call[v].status = "pending" THEN "checked" ELSE "order"]
           /\ UNCHANGED waiting
  <2> DEFINE stage == IF call[v].status = "pending" THEN "checked" ELSE "order"
  <2>1. stage \in CallStages \ {"none"} /\ call' = [call EXCEPT ![v].stage = stage]
    BY <1>5 DEF CallStages
  <2>2. stage \in {"checked", "order"}
    OBVIOUS
  <2>3. (stage = "checked" => call[v].status = "pending")
        /\ (stage = "order" => call[v].status = "working")
    BY <1>2 DEF InFlight
  <2> HIDE DEF stage
  <2>4. /\ call' \in [VMs -> Calls]
        /\ call'[v].stage = stage /\ call'[v].run = r /\ call'[v].status \in InFlight
        /\ \A u \in VMs : u # v => call'[u] = call[u]
        /\ fillRun[v] \in Runs
    BY <1>1, <2>1, StageSteps
  <2>5. Typed'
    BY <1>1, <1>3, <1>5, <2>4 DEF Typed, agents, bounds
  <2>6. RowOK(v)'
    BY <1>1, <1>2, <2>2, <2>4 DEF RowOK, agents
  <2>7. job.stage # "assigning"
    BY <1>1, <1>2, <1>5 DEF JobOwnsRun, Attended
  <2>8. ASSUME ~overtaken
        PROVE  CallOK(v)' /\ GateHolds'
    <3>1. CallOK(v) /\ GateHolds
      BY <2>8, AtVM
    <3>2. fillRun[v] = r
      BY <1>1, <1>5, <3>1 DEF CallOK
    <3>3. stage = "checked" => doing[v][r] = "none" /\ (fillStatus[v] = "pending" \/ Failing(v))
      BY <1>1, <2>3, <3>1, <3>2 DEF CallOK, Asks
    <3>4. stage = "order" /\ waiting[v] =>
            \/ fillStatus[v] = "working" \/ Failing(v) \/ doing[v][r] # "none"
            \/ r \in completed[v]
      BY <1>1, <2>3, <3>1, <3>2 DEF CallOK, Ordered
    <3>5. /\ fillStatus'[v] = fillStatus[v] /\ fillRun'[v] = fillRun[v] /\ doing'[v] = doing[v]
          /\ completed'[v] = completed[v] /\ waiting'[v] = waiting[v]
          /\ (Failing(v)' <=> Failing(v)) /\ runStatus'[r] = "running"
      BY <1>1, <1>5 DEF Failing, agents, bounds
    <3>6. CallOK(v)'
      BY <2>2, <2>4, <3>2, <3>3, <3>4, <3>5 DEF CallOK, Asks, Ordered
    <3>7. \A u \in VMs : call'[u].stage = "counted" =>
            call[u].stage = "counted" /\ call'[u].run = call[u].run
      BY <2>2, <2>4
    <3>8. \A s \in Runs :
            (OfRun(s, "working") \cup Counted(s))' \subseteq OfRun(s, "working") \cup Counted(s)
      BY <1>1, <3>7 DEF OfRun, Counted
    <3>9. GateHolds'
      BY <1>1, <3>1, <3>7, <3>8, GateFewer DEF bounds
    <3> QED
      BY <3>6, <3>9
  <2> QED
    BY <1>1, <1>5, <2>4, <2>5, <2>6, <2>7, <2>8, HandlerMoves DEF bounds
<1> QED
  BY <1>4, <1>5 DEF CheckOrder

(* The gate lets one more VM through after counting fewer than the limit. *)
LEMMA GateOneMore ==
  ASSUME GateHolds, NEW v \in VMs, NEW r \in Runs,
         SlotFree(r), call'[v].stage = "counted", call'[v].run = r,
         \A u \in VMs : call[u].stage # "counted",
         \A u \in VMs : u # v => call'[u] = call[u],
         UNCHANGED <<fillRun, fillStatus, disowned>>
  PROVE  GateHolds'
<1>1. \A u, w \in VMs : call'[u].stage = "counted" /\ call'[w].stage = "counted" => u = w
  OBVIOUS
<1>2. ASSUME NEW s \in Runs, MaxParallel # 0, ~disowned
      PROVE  Cardinality((OfRun(s, "working") \cup Counted(s))') <= MaxParallel
  <2> DEFINE W == OfRun(s, "working")
             T == (OfRun(s, "working") \cup Counted(s))'
  <2>1. W \subseteq VMs
    BY DEF OfRun
  <2>2. CASE s = r
    <3>1. T = W \cup {v}
      BY <2>2 DEF OfRun, Counted
    <3>2. Cardinality(W) < MaxParallel
      BY <1>2, <2>2 DEF SlotFree
    <3> HIDE DEF W, T
    <3>3. IsFiniteSet(W) /\ Cardinality(W) \in Nat
      BY <2>1, VMsAreFinite
    <3>4. Cardinality(W \cup {v}) = IF v \in W THEN Cardinality(W) ELSE Cardinality(W) + 1
      BY <3>3, FS_AddElement
    <3>5. Cardinality(W \cup {v}) <= MaxParallel
      BY <3>2, <3>3, <3>4, FillAssumption
    <3> QED
      BY <3>1, <3>5 DEF T
  <2>3. CASE s # r
    <3>1. T = W
      BY <2>3 DEF OfRun, Counted
    <3>2. W \cup Counted(s) = W
      BY DEF Counted
    <3> QED
      BY <1>2, <3>1, <3>2 DEF GateHolds
  <2> QED
    BY <2>2, <2>3
<1> QED
  BY <1>1, <1>2 DEF GateHolds

LEMMA CountWorkingStep ==
  ASSUME IInv, NEW v \in VMs, CountWorking(v)
  PROVE  IInv'
<1> DEFINE r == call[v].run
<1>1. Typed /\ JobOwnsRun /\ RowOK(v) /\ call[v].stage = "checked"
      /\ UNCHANGED <<store, jobVars, agents, wrote, bounds>>
  BY AtVM DEF CountWorking
<1>2. r \in Runs
  BY <1>1, CallParts
<1>3. CASE AnswerIdle(v)
  <2>1. Typed'
    BY <1>1, <1>3, AnswerSteps DEF Typed, store, jobVars, agents, bounds
  <2> QED
    BY <1>1, <1>3, <2>1, HandlerAnswers DEF store, jobVars, bounds
<1>4. CASE /\ SlotFree(r)
           /\ call' = [call EXCEPT ![v].stage = "counted"]
           /\ UNCHANGED waiting
  <2>1. /\ call' \in [VMs -> Calls]
        /\ call'[v].stage = "counted" /\ call'[v].run = r /\ call'[v].status \in InFlight
        /\ \A u \in VMs : u # v => call'[u] = call[u]
        /\ fillRun[v] \in Runs
    BY <1>1, <1>4, StageSteps DEF CallStages
  <2>2. Typed'
    BY <1>1, <1>4, <2>1 DEF Typed, store, jobVars, agents, bounds
  <2>3. RowOK(v)'
    BY <1>1, <1>2, <2>1 DEF RowOK, store, agents
  <2>4. ASSUME ~overtaken
        PROVE  CallOK(v)' /\ GateHolds' /\ job.stage # "assigning"
    <3>1. CallOK(v) /\ GateHolds /\ (job.stage = "assigning" => QuietVM(v))
      BY <2>4, AtVM
    <3>2. job.stage # "assigning"
      BY <1>1, <3>1 DEF QuietVM
    <3>3. /\ fillStatus'[v] = fillStatus[v] /\ fillRun'[v] = fillRun[v] /\ doing'[v] = doing[v]
          /\ runStatus' = runStatus /\ (Failing(v)' <=> Failing(v))
      BY <1>1 DEF Failing, store, agents, bounds
    <3>4. CallOK(v)'
      BY <1>1, <2>1, <3>1, <3>3 DEF CallOK, Asks, Ordered
    <3>5. GateHolds'
      BY <1>1, <1>2, <1>4, <2>1, <3>1, GateOneMore DEF CountWorking, store, bounds
    <3> QED
      BY <3>2, <3>4, <3>5
  <2> QED
    BY <1>1, <1>4, <2>1, <2>2, <2>3, <2>4, HandlerMoves DEF store, jobVars, bounds
<1> QED
  BY <1>3, <1>4 DEF CountWorking

LEMMA PromoteStep ==
  ASSUME IInv, NEW v \in VMs, Promote(v)
  PROVE  IInv'
<1> DEFINE r == call[v].run
<1>1. Typed /\ JobOwnsRun /\ RowOK(v) /\ call[v].stage = "counted"
      /\ fillStatus' = [fillStatus EXCEPT ![v] = "working"]
      /\ call' = [call EXCEPT ![v].stage = "order"]
      /\ UNCHANGED <<runStatus, fillRun, recent, jobVars, agents, waiting, wrote, bounds>>
  BY AtVM DEF Promote
<1>2. r \in Runs
  BY <1>1, CallParts
<1>3. /\ call' \in [VMs -> Calls]
      /\ call'[v].stage = "order" /\ call'[v].run = r /\ call'[v].status \in InFlight
      /\ \A u \in VMs : u # v => call'[u] = call[u]
      /\ fillRun[v] \in Runs
  BY <1>1, StageSteps DEF CallStages
<1>4. /\ fillStatus' \in [VMs -> FillStatuses] /\ fillStatus'[v] = "working"
      /\ \A u \in VMs : u # v => fillStatus'[u] = fillStatus[u]
  BY <1>1 DEF Typed, FillStatuses
<1>5. Typed'
  BY <1>1, <1>3, <1>4 DEF Typed, jobVars, agents, bounds
<1>6. RowOK(v)'
  BY <1>1, <1>2, <1>3 DEF RowOK
<1>7. ASSUME ~overtaken
      PROVE  KeepsOrder(v)
  <2>1. AgentOK(v) /\ CallOK(v) /\ GateHolds /\ (job.stage = "assigning" => QuietVM(v))
    BY <1>7, AtVM
  <2>2. job.stage # "assigning"
    BY <1>1, <2>1 DEF QuietVM
  <2>3. /\ fillRun[v] = r /\ runStatus[r] \in {"running"} \cup Ended
        /\ doing[v][r] = "none" /\ (fillStatus[v] = "pending" \/ Failing(v))
    BY <1>1, <2>1 DEF CallOK, Asks
  <2>4. \A s \in Runs : doing[v][s] = "none"
    BY <2>1, <2>3 DEF AgentOK
  <2>5. AgentOK(v)'
    BY <1>1, <1>4, <2>4 DEF AgentOK, agents
  <2>6. CallOK(v)'
    BY <1>1, <1>3, <1>4, <2>3 DEF CallOK, Asks, Ordered
  <2>7. \A u \in VMs : call'[u].stage = "counted" =>
          call[u].stage = "counted" /\ call'[u].run = call[u].run
    BY <1>3
  <2>8. \A s \in Runs :
          (OfRun(s, "working") \cup Counted(s))' \subseteq OfRun(s, "working") \cup Counted(s)
    BY <1>1, <1>4, <2>3, <2>7 DEF OfRun, Counted
  <2>9. GateHolds'
    BY <1>1, <2>1, <2>7, <2>8, GateFewer DEF bounds
  <2> QED
    BY <2>2, <2>3, <2>5, <2>6, <2>9 DEF KeepsOrder, Failing
<1> QED
  BY <1>1, <1>3, <1>4, <1>5, <1>6, <1>7, OneVM DEF Untouched, jobVars, agents, bounds

LEMMA ReplyLostStep ==
  ASSUME IInv, NEW v \in VMs, ReplyLost(v)
  PROVE  IInv'
<1>1. Typed /\ AnswerIdle(v) /\ UNCHANGED <<store, jobVars, agents, wrote, bounds>>
  BY AtVM DEF ReplyLost
<1>2. Typed'
  BY <1>1, AnswerSteps DEF Typed, store, jobVars, agents, bounds
<1> QED
  BY <1>1, <1>2, HandlerAnswers DEF store, jobVars, bounds

LEMMA DispatchStep ==
  ASSUME IInv, NEW v \in VMs, Dispatch(v)
  PROVE  IInv'
<1> DEFINE r == call[v].run
<1>1. Typed /\ JobOwnsRun /\ RowOK(v) /\ call[v].stage = "order" /\ waiting[v] /\ AnswerIdle(v)
      /\ UNCHANGED <<store, jobVars, vm, completed, wrote, bounds>>
  BY AtVM DEF Dispatch
<1>2. r \in Runs /\ fillRun[v] \in Runs
  BY <1>1, CallParts, NoCallIsOne DEF RowOK
<1>3. CASE UNCHANGED <<doing, current>>
  <2>1. Typed'
    BY <1>1, <1>3, AnswerSteps DEF Typed, store, jobVars, bounds
  <2> QED
    BY <1>1, <1>3, <2>1, HandlerAnswers DEF store, jobVars, agents, bounds
<1>4. CASE current[v] # r /\ r \notin completed[v] /\ Begins(v, r)
  <2>1. /\ call' \in [VMs -> Calls] /\ waiting' \in [VMs -> BOOLEAN] /\ call'[v] = NoCall
        /\ \A u \in VMs : u # v => call'[u] = call[u] /\ waiting'[u] = waiting[u]
    BY <1>1, AnswerSteps
  <2>2. /\ current' \in [VMs -> Runs \cup {NoRun}] /\ current'[v] = r
        /\ doing' \in [VMs -> [Runs -> AgentStages]] /\ doing'[v][r] = "writing"
        /\ \A s \in Runs : s # r => doing'[v][s] = doing[v][s]
        /\ \A u \in VMs : u # v => doing'[u] = doing[u] /\ current'[u] = current[u]
    BY <1>1, <1>2, <1>4 DEF Typed, Begins, AgentStages
  <2>3. Typed'
    BY <1>1, <2>1, <2>2 DEF Typed, store, jobVars, bounds
  <2>4. RowOK(v)'
    BY <1>1, <1>2, <2>1 DEF RowOK, store
  <2>5. ASSUME ~overtaken
        PROVE  KeepsOrder(v)
    <3>1. AgentOK(v) /\ CallOK(v) /\ GateHolds /\ (job.stage = "assigning" => QuietVM(v))
      BY <2>5, AtVM
    <3>2. job.stage # "assigning"
      BY <1>1, <3>1 DEF QuietVM
    <3>3. fillRun[v] = r
      BY <1>1, <3>1 DEF CallOK
    <3>4. \A s \in Runs : doing[v][s] = "none"
      BY <1>4, <3>1, <3>3 DEF AgentOK
    <3>5. fillStatus[v] = "working" \/ Failing(v)
      BY <1>1, <1>2, <1>4, <3>1, <3>4 DEF CallOK, Ordered
    <3>6. AgentOK(v)'
      BY <1>1, <1>2, <2>2, <3>1, <3>3, <3>4, <3>5 DEF AgentOK, Failing, store, bounds
    <3>7. CallOK(v)'
      BY <2>1, NoCallKeeps
    <3>8. \A u \in VMs : call'[u].stage = "counted" =>
            call[u].stage = "counted" /\ call'[u].run = call[u].run
      BY <2>1, NoCallIsOne
    <3>9. \A s \in Runs :
            (OfRun(s, "working") \cup Counted(s))' \subseteq OfRun(s, "working") \cup Counted(s)
      BY <1>1, <3>8 DEF OfRun, Counted, store
    <3>10. GateHolds'
      BY <1>1, <3>1, <3>8, <3>9, GateFewer DEF bounds
    <3> QED
      BY <1>1, <3>2, <3>6, <3>7, <3>10 DEF KeepsOrder, store
  <2> QED
    BY <1>1, <2>1, <2>2, <2>3, <2>4, <2>5, OneVM DEF Untouched, store, jobVars, bounds
<1> QED
  BY <1>3, <1>4 DEF Dispatch

-----------------------------------------------------------------------------
(* The agent's goroutine.                                                   *)

(* An agent at work for r is at work for nothing else, and whatever handler  *)
(* its VM has is past asking for the same run.                              *)
LEMMA AtWork ==
  ASSUME NEW v \in VMs, NEW r \in Runs, Typed, RowOK(v), AgentOK(v), CallOK(v),
         doing[v][r] # "none"
  PROVE  /\ fillRun[v] = r /\ current[v] = r
         /\ \A s \in Runs : s # r => doing[v][s] = "none"
         /\ ~Asks(v)
         /\ Ordered(v) => call[v].run = r
<1>1. /\ fillRun[v] = r /\ current[v] = r
      /\ \A s \in Runs : s # r => doing[v][s] = "none"
  BY DEF AgentOK
<1>2. ~Asks(v)
  BY <1>1 DEF CallOK, Asks
<1>3. Ordered(v) => call[v].run = r
  BY <1>1 DEF CallOK, Ordered
<1> QED
  BY <1>1, <1>2, <1>3

(* The agent of v takes a step: what is left to show. *)
LEMMA AgentMoves ==
  ASSUME IInv, NEW v \in VMs, NEW r \in Runs, Typed', doing[v][r] # "none",
         UNCHANGED <<runStatus, fillRun, job, disowned, overtaken, calls>>,
         \A u \in VMs : u # v => fillStatus'[u] = fillStatus[u] /\ Untouched(u),
         \A s \in Runs : wrote[s] \subseteq wrote'[s],
         overtaken \/ AgentOK(v)',
         overtaken \/ fillStatus'[v] = "working" \/ Failing(v)' \/ doing'[v][r] # "none"
           \/ r \in completed'[v],
         overtaken \/ (fillStatus[v] = "done" => fillStatus'[v] = "done"),
         overtaken \/ disowned \/ (fillStatus'[v] = "working" => fillStatus[v] = "working")
  PROVE  IInv'
<1>1. Typed /\ RowOK(v)
  BY AtVM
<1>2. RowOK(v)'
  BY <1>1, NoWorkIsNone DEF RowOK, calls
<1>3. ASSUME ~overtaken
      PROVE  KeepsOrder(v)
  <2>1. AgentOK(v) /\ CallOK(v) /\ GateHolds /\ (job.stage = "assigning" => QuietVM(v))
    BY <1>3, AtVM
  <2>2. job.stage # "assigning"
    BY <2>1, NoWorkIsNone DEF QuietVM
  <2>3. ~Asks(v) /\ (Ordered(v) => call[v].run = r)
    BY <1>1, <2>1, AtWork
  <2>4. (Asks(v)' <=> Asks(v)) /\ (Ordered(v)' <=> Ordered(v)) /\ call'[v] = call[v]
    BY DEF Asks, Ordered, calls
  <2>5. CallOK(v)'
    BY <1>3, <2>1, <2>3, <2>4 DEF CallOK
  <2>6. GateHolds'
    <3>1. \A u \in VMs : call'[u] = call[u]
      BY DEF calls
    <3>2. \A s \in Runs : disowned' \/
            (OfRun(s, "working") \cup Counted(s))' \subseteq OfRun(s, "working") \cup Counted(s)
      BY <1>3, <3>1 DEF OfRun, Counted
    <3> QED
      BY <2>1, <3>1, <3>2, GateFewer
  <2> QED
    BY <1>3, <2>2, <2>5, <2>6 DEF KeepsOrder
<1> QED
  BY <1>2, <1>3, OneVM DEF calls

LEMMA SampleStep ==
  ASSUME IInv, NEW v \in VMs, NEW r \in Runs, Sample(v, r)
  PROVE  IInv'
<1>1. Typed /\ RowOK(v) /\ doing[v][r] = "writing"
      /\ fillStatus' = [fillStatus EXCEPT ![v] = "working"]
      /\ UNCHANGED <<runStatus, fillRun, job, tries, cancelled, agents, calls, wrote, bounds>>
  BY AtVM DEF Sample, ReportFillProgress
<1>2. /\ fillStatus' \in [VMs -> FillStatuses] /\ fillStatus'[v] = "working"
      /\ \A u \in VMs : u # v => fillStatus'[u] = fillStatus[u]
  BY <1>1 DEF Typed, FillStatuses
<1>3. recent' \in [VMs -> BOOLEAN] /\ heard' \in [VMs -> BOOLEAN]
  BY <1>1, HeardSteps DEF Sample, ReportFillProgress
<1>4. Typed'
  BY <1>1, <1>2, <1>3 DEF Typed, agents, calls, bounds
<1>5. ASSUME ~overtaken
      PROVE  /\ AgentOK(v)'
             /\ fillStatus[v] # "done"
             /\ disowned \/ fillStatus[v] = "working"
  <2>1. AgentOK(v) /\ CallOK(v)
    BY <1>5, AtVM
  <2>2. /\ fillRun[v] = r /\ current[v] = r
        /\ \A s \in Runs : s # r => doing[v][s] = "none"
    BY <1>1, <2>1, AtWork
  <2>3. fillStatus[v] = "working" \/ Failing(v)
    BY <1>1, <2>1 DEF AgentOK
  <2>4. AgentOK(v)'
    BY <1>1, <1>2, <2>1, <2>2 DEF AgentOK, agents
  <2> QED
    BY <2>3, <2>4 DEF Failing
<1> QED
  BY <1>1, <1>2, <1>4, <1>5, AgentMoves DEF Untouched, agents, calls, bounds

LEMMA FinishWorkStep ==
  ASSUME IInv, NEW v \in VMs, NEW r \in Runs, FinishWork(v, r)
  PROVE  IInv'
<1>1. Typed /\ RowOK(v) /\ doing[v][r] = "writing"
      /\ UNCHANGED <<store, jobVars, vm, current, completed, calls, bounds>>
  BY AtVM DEF FinishWork
<1>2. PICK stage \in {"done", "error"} :
        /\ doing' = [doing EXCEPT ![v][r] = stage]
        /\ \/ stage = "done" /\ wrote' = [wrote EXCEPT ![r] = @ \cup {v}]
           \/ stage = "error" /\ UNCHANGED wrote
  BY DEF FinishWork
<1>3. /\ doing' \in [VMs -> [Runs -> AgentStages]] /\ doing'[v][r] = stage
      /\ \A s \in Runs : s # r => doing'[v][s] = doing[v][s]
      /\ \A u \in VMs : u # v => doing'[u] = doing[u]
  BY <1>1, <1>2 DEF Typed, AgentStages
<1>4. /\ wrote' \in [Runs -> SUBSET VMs] /\ \A s \in Runs : wrote[s] \subseteq wrote'[s]
      /\ stage = "done" => v \in wrote'[r]
  <2> DEFINE W == wrote[r] \cup {v}
  <2>1. W \in SUBSET VMs /\ v \in W /\ wrote[r] \subseteq W
    BY <1>1 DEF Typed
  <2>2. wrote' = [wrote EXCEPT ![r] = W] \/ (stage = "error" /\ wrote' = wrote)
    BY <1>2
  <2> HIDE DEF W
  <2> QED
    BY <1>1, <1>2, <2>1, <2>2 DEF Typed
<1>5. Typed'
  BY <1>1, <1>3, <1>4 DEF Typed, store, jobVars, calls, bounds
<1>6. ASSUME ~overtaken
      PROVE  AgentOK(v)'
  <2>1. AgentOK(v) /\ CallOK(v)
    BY <1>6, AtVM
  <2>2. /\ fillRun[v] = r /\ current[v] = r
        /\ \A s \in Runs : s # r => doing[v][s] = "none"
    BY <1>1, <2>1, AtWork
  <2>3. fillStatus[v] \in {"working", "failed"}
    BY <1>1, <2>1 DEF AgentOK, Failing
  <2>4. fillRun'[v] = r /\ current'[v] = r /\ fillStatus'[v] = fillStatus[v]
    BY <1>1, <2>2 DEF store
  <2> QED
    BY <1>3, <1>4, <2>2, <2>3, <2>4 DEF AgentOK
<1> QED
  BY <1>1, <1>2, <1>3, <1>4, <1>5, <1>6, AgentMoves
  DEF Untouched, store, jobVars, calls, bounds

LEMMA WorkOverSteps ==
  ASSUME Typed, NEW v \in VMs, NEW r \in Runs, WorkOver(v, r)
  PROVE  /\ doing' \in [VMs -> [Runs -> AgentStages]] /\ doing'[v][r] = "none"
         /\ completed' \in [VMs -> SUBSET Runs] /\ r \in completed'[v]
         /\ current' \in [VMs -> Runs \cup {NoRun}]
         /\ \A s \in Runs : s # r => doing'[v][s] = doing[v][s]
         /\ \A u \in VMs : u # v =>
              doing'[u] = doing[u] /\ completed'[u] = completed[u] /\ current'[u] = current[u]
BY DEF Typed, WorkOver, AgentStages

LEMMA TerminalReportStep ==
  ASSUME IInv, NEW v \in VMs, NEW r \in Runs, TerminalReport(v, r)
  PROVE  IInv'
<1> DEFINE status == IF doing[v][r] = "done" THEN "done" ELSE "failed"
<1>1. Typed /\ RowOK(v) /\ doing[v][r] \in {"done", "error"}
      /\ fillStatus' = [fillStatus EXCEPT ![v] = status]
      /\ UNCHANGED <<runStatus, fillRun, job, tries, cancelled, vm, calls, wrote, bounds>>
  BY AtVM DEF TerminalReport, ReportFillProgress
<1>2. /\ status \in {"done", "failed"}
      /\ (doing[v][r] = "done" <=> status = "done")
  OBVIOUS
<1> HIDE DEF status
<1>3. /\ fillStatus' \in [VMs -> FillStatuses] /\ fillStatus'[v] = status
      /\ \A u \in VMs : u # v => fillStatus'[u] = fillStatus[u]
  BY <1>1, <1>2 DEF Typed, FillStatuses
<1>4. recent' \in [VMs -> BOOLEAN] /\ heard' \in [VMs -> BOOLEAN]
  BY <1>1, HeardSteps DEF TerminalReport, ReportFillProgress
<1>5. /\ doing' \in [VMs -> [Runs -> AgentStages]]
      /\ completed' \in [VMs -> SUBSET Runs]
      /\ current' \in [VMs -> Runs \cup {NoRun}]
      /\ \/ doing'[v][r] = "none" /\ r \in completed'[v]
         \/ doing'[v][r] = doing[v][r] /\ current'[v] = current[v]
      /\ \A s \in Runs : s # r => doing'[v][s] = doing[v][s]
      /\ \A u \in VMs : u # v =>
           doing'[u] = doing[u] /\ completed'[u] = completed[u] /\ current'[u] = current[u]
  <2>1. CASE WorkOver(v, r)
    BY <1>1, <2>1, WorkOverSteps
  <2>2. CASE UNCHANGED <<doing, completed, current>>
    BY <1>1, <2>2 DEF Typed
  <2> QED
    BY <2>1, <2>2 DEF TerminalReport
<1>6. Typed'
  BY <1>1, <1>3, <1>4, <1>5 DEF Typed, calls, bounds
<1>7. ASSUME ~overtaken
      PROVE  AgentOK(v)' /\ (fillStatus[v] = "done" => status = "done")
  <2>1. AgentOK(v) /\ CallOK(v)
    BY <1>7, AtVM
  <2>2. /\ fillRun[v] = r /\ current[v] = r
        /\ \A s \in Runs : s # r => doing[v][s] = "none"
    BY <1>1, <2>1, AtWork
  <2>3. (doing[v][r] = "error" => fillStatus[v] # "done")
        /\ (doing[v][r] = "done" => v \in wrote[r])
    BY <2>1 DEF AgentOK
  <2>4. AgentOK(v)'
    BY <1>1, <1>2, <1>3, <1>5, <2>2, <2>3 DEF AgentOK
  <2> QED
    BY <1>1, <1>2, <2>3, <2>4
<1>8. doing'[v][r] # "none" \/ r \in completed'[v]
  BY <1>1, <1>5
<1>9. \A u \in VMs : u # v => fillStatus'[u] = fillStatus[u] /\ Untouched(u)
  BY <1>1, <1>3, <1>5 DEF Untouched, calls
<1> QED
  BY <1>1, <1>2, <1>3, <1>6, <1>7, <1>8, <1>9, AgentMoves DEF bounds

LEMMA ReportGivesUpStep ==
  ASSUME IInv, NEW v \in VMs, NEW r \in Runs, ReportGivesUp(v, r)
  PROVE  IInv'
<1>1. Typed /\ RowOK(v) /\ doing[v][r] \in {"done", "error"} /\ lost' = lost + 1
      /\ WorkOver(v, r)
      /\ UNCHANGED <<store, jobVars, vm, calls, wrote, disowned, overtaken, deaths, restarts>>
  BY AtVM DEF ReportGivesUp
<1>2. /\ doing' \in [VMs -> [Runs -> AgentStages]] /\ doing'[v][r] = "none"
      /\ completed' \in [VMs -> SUBSET Runs] /\ r \in completed'[v]
      /\ current' \in [VMs -> Runs \cup {NoRun}]
      /\ \A s \in Runs : s # r => doing'[v][s] = doing[v][s]
      /\ \A u \in VMs : u # v =>
           doing'[u] = doing[u] /\ completed'[u] = completed[u] /\ current'[u] = current[u]
  BY <1>1, WorkOverSteps
<1>3. Typed'
  BY <1>1, <1>2 DEF Typed, store, jobVars, calls
<1>4. ASSUME ~overtaken
      PROVE  AgentOK(v)'
  <2>1. AgentOK(v) /\ CallOK(v)
    BY <1>4, AtVM
  <2>2. \A s \in Runs : s # r => doing[v][s] = "none"
    BY <1>1, <2>1, AtWork
  <2>3. fillStatus[v] = "done" => v \in wrote[fillRun[v]]
    BY <2>1 DEF AgentOK
  <2> QED
    BY <1>1, <1>2, <2>2, <2>3 DEF AgentOK, store
<1> QED
  BY <1>1, <1>2, <1>3, <1>4, AgentMoves DEF Untouched, store, jobVars, calls

-----------------------------------------------------------------------------
(* The theorems.                                                            *)

LEMMA InitIInv == Init => IInv
<1> SUFFICES ASSUME Init PROVE IInv
  OBVIOUS
<1>1. Typed
  <2>1. /\ runStatus \in [Runs -> RunStates] /\ fillRun \in [VMs -> Runs \cup {NoRun}]
        /\ fillStatus \in [VMs -> FillStatuses] /\ vm \in [VMs -> VMStates]
        /\ tries \in [VMs -> 0 .. MaxBootAttempts]
    BY FillAssumption DEF Init, RunStates, FillStatuses, VMStates
  <2>2. job \in Jobs /\ doing \in [VMs -> [Runs -> AgentStages]] /\ call \in [VMs -> Calls]
    BY NoJobIsOne, NoWorkIsNone, NoCallIsOne DEF Init
  <2> QED
    BY <2>1, <2>2 DEF Init, Typed
<1>2. JobOwnsRun
  BY NoJobIsOne DEF Init, JobOwnsRun, Attended
<1>3. \A v \in VMs : RowOK(v)
  BY FillAssumption DEF Init, RowOK
<1>4. \A v \in VMs : AgentOK(v)
  BY NoWorkIsNone DEF Init, AgentOK
<1>5. \A v \in VMs : CallOK(v)
  BY NoCallIsOne DEF Init, CallOK, Asks, Ordered
<1>6. AssigningIsQuiet /\ TallyStands
  BY NoJobIsOne DEF Init, AssigningIsQuiet, TallyStands
<1>7. GateHolds
  <2>1. \A v \in VMs : call[v].stage # "counted" /\ fillStatus[v] = "none"
    BY NoCallIsOne DEF Init
  <2>2. \A r \in Runs : OfRun(r, "working") \cup Counted(r) = {}
    BY <2>1 DEF OfRun, Counted
  <2>3. 0 <= MaxParallel
    BY FillAssumption
  <2> QED
    BY <2>1, <2>2, <2>3, FS_EmptySet DEF GateHolds
<1> QED
  BY <1>1, <1>2, <1>3, <1>4, <1>5, <1>6, <1>7 DEF IInv

LEMMA StutterIInv ==
  ASSUME IInv, UNCHANGED vars
  PROVE  IInv'
<1>1. Typed' /\ JobOwnsRun'
  BY DEF IInv, Typed, JobOwnsRun, vars, store, jobVars, agents, calls, bounds
<1>2. JobGoesOn
  BY DEF JobGoesOn, Untouched, vars, store, jobVars, agents, calls, bounds
<1> QED
  BY <1>1, <1>2, JobGoesOnKeeps

LEMMA NextIInv == IInv /\ [Next]_vars => IInv'
<1> SUFFICES ASSUME IInv, [Next]_vars PROVE IInv'
  OBVIOUS
<1>1. CASE JobStep
  <2>1. CASE StartRun \/ OpenDriver \/ OpenDriverFails \/ FleetBooted \/ Poll \/ FinishFill
    BY <2>1, StartRunStep, OpenDriverStep, ClosingSteps, FleetBootedStep, PollStep
  <2>2. CASE KeepPolling \/ CancelFill \/ CancelUnfinishedFills \/ FinishRun \/ JobReturns
    BY <2>2, KeepPollingStep, ClosingSteps, CancelUnfinishedFillsStep, FinishRunStep,
       JobReturnsStep
  <2>3. CASE \E v \in VMs : AssignFill(v) \/ BootVM(v) \/ WatchdogWaits(v) \/ StopVM(v)
    BY <2>3, AssignFillStep, BootVMStep, WatchdogWaitsStep, StopVMStep
  <2> QED
    BY <1>1, <2>1, <2>2, <2>3 DEF JobStep
<1>2. CASE \E r \in Runs : StartFill(r)
  BY <1>2, StartFillStep
<1>3. CASE LimitFails \/ DeadlineFails
  BY <1>3, ClosingSteps DEF LimitFails
<1>4. CASE Restart
  BY <1>4, RestartStep
<1>5. CASE Cancel
  <2>1. PICK v \in VMs : TRUE
    BY FillAssumption
  <2> QED
    BY <1>5, <2>1, WorldSteps
<1>6. ASSUME NEW v \in VMs, WatchdogFires(v)
      PROVE  IInv'
  BY <1>6, WatchdogCyclesStep, WatchdogGivesUpStep DEF WatchdogFires
<1>7. ASSUME NEW v \in VMs, AgentStarts(v) \/ AgentDies(v) \/ HeartbeatAges(v)
      PROVE  IInv'
  BY <1>7, WorldSteps
<1>8. ASSUME NEW v \in VMs, CallStep(v) \/ Dispatch(v) \/ ReplyLost(v)
      PROVE  IInv'
  BY <1>8, AgentCallsStep, CheckOrderStep, CountWorkingStep, PromoteStep, DispatchStep,
     ReplyLostStep DEF CallStep
<1>9. ASSUME NEW v \in VMs, NEW r \in Runs,
             Sample(v, r) \/ WorkStep(v, r) \/ ReportGivesUp(v, r)
      PROVE  IInv'
  BY <1>9, SampleStep, FinishWorkStep, TerminalReportStep, ReportGivesUpStep DEF WorkStep
<1>10. CASE UNCHANGED vars
  BY <1>10, StutterIInv
<1> QED
  BY <1>1, <1>2, <1>3, <1>4, <1>5, <1>6, <1>7, <1>8, <1>9, <1>10 DEF Next

(* The row, the agent and the handler of every VM stay as close together as *)
(* IInv says, whoever of the job, the agents and the handlers takes a step. *)
THEOREM Inductive == Spec => []IInv
BY InitIInv, NextIInv, PTL DEF Spec

(* Every variable keeps its type for any number of VMs and runs: no VM is   *)
(* booted more often than maxBootAttempts allows (fill.go:203), and a job's *)
(* plan is one of the few ways a fill ends.                                 *)
THEOREM TypeCorrect == Spec => []TypeOK
<1>1. Plans \subseteq Seq(Steps)
  BY DEF Plans, Steps
<1>2. IInv => TypeOK
  BY <1>1 DEF IInv, Typed, TypeOK, Jobs, Calls, RunStates, Steps
<1> QED
  BY <1>2, Inductive, PTL

(* The gate staggers the writing itself: it counts rows, and an agent that  *)
(* writes for a run has a row that is counted (orchestrator.go, the working *)
(* VMs under o.mu), across restarts, dead agents and lost replies.          *)
THEOREM Staggered == Spec => []StaggerHolds
<1>1. ASSUME IInv, NEW r \in Runs, MaxParallel # 0, ~disowned, ~overtaken
      PROVE  Cardinality(Writers(r)) <= MaxParallel
  <2> DEFINE S == OfRun(r, "working") \cup Counted(r)
  <2>1. Cardinality(S) <= MaxParallel
    BY <1>1 DEF IInv, GateHolds
  <2>2. Writers(r) \subseteq S
    BY <1>1 DEF IInv, AgentOK, Failing, Writers, OfRun
  <2>3. S \subseteq VMs
    BY DEF OfRun, Counted
  <2> HIDE DEF S
  <2>4. IsFiniteSet(S) /\ Cardinality(S) \in Nat
    BY <2>3, VMsAreFinite
  <2>5. Cardinality(Writers(r)) <= Cardinality(S) /\ Cardinality(Writers(r)) \in Nat
    BY <2>2, <2>4, FS_Subset, FS_CardinalityType
  <2> QED
    BY <2>1, <2>4, <2>5, FillAssumption
<1>2. IInv => StaggerHolds
  BY <1>1 DEF StaggerHolds
<1> QED
  BY <1>2, Inductive, PTL

(* A fill that reads succeeded was carried out by every VM's agent, however *)
(* many reports were repeated or given up, agents died and controllers      *)
(* restarted on the way (fill.go, the tally of the poll loop).              *)
THEOREM Written == Spec => []SucceededMeansWritten
<1>1. IInv => SucceededMeansWritten
  BY DEF IInv, TallyStands, SucceededMeansWritten
<1> QED
  BY <1>1, Inductive, PTL

(* No agent writes for a fill that reads succeeded: the rows of such a run  *)
(* all read done, and an agent whose row reads done is through or reports.  *)
THEOREM Quiet == Spec => []SucceededMeansQuiet
<1>1. ASSUME IInv, NEW r \in Runs, runStatus[r] = "succeeded", ~overtaken
      PROVE  Writers(r) = {}
  <2>1. ASSUME NEW v \in VMs, doing[v][r] = "writing"
        PROVE  FALSE
    <3>1. AgentOK(v) /\ TallyStands
      BY <1>1 DEF IInv
    <3>2. fillRun[v] = r /\ fillStatus[v] \in {"working", "failed"}
      BY <2>1, <3>1 DEF AgentOK, Failing
    <3> QED
      BY <1>1, <3>1, <3>2 DEF TallyStands
  <2> QED
    BY <2>1 DEF Writers
<1>2. IInv => SucceededMeansQuiet
  BY <1>1 DEF SucceededMeansQuiet
<1> QED
  BY <1>2, Inductive, PTL
=============================================================================
