----------------------------- MODULE RunnerProofs -----------------------------
(***************************************************************************)
(* What TLAPS proves of Runner for every set of tasks and channels and     *)
(* every number of runs and revisions. Types, owned rows, final history    *)
(* and the earned trigger hold under every set of disturbances; the other  *)
(* theorems name those they exclude, each of which refutes them in TLC.    *)
(***************************************************************************)
EXTENDS Runner, TLAPS

\* The constants of the specification, without which nothing is typed.
USE RunnerAssumption

-------------------------------------------------------------------------------
(* Writing one field keeps the table's type. *)

\* The table of goroutines f became g by a write to the locals of i: no goroutine
\* changed owner, and no other one its stage.
OnlyLocals(f, g, i) ==
  \A k \in RunIds : g[k].task = f[k].task /\ (k # i => g[k].stage = f[k].stage)

\* The stage of a goroutine.
LEMMA PutStage ==
  \A f \in [RunIds -> Job], i \in RunIds, x \in Stages :
    LET g == [f EXCEPT ![i].stage = x] IN g \in [RunIds -> Job] /\ OnlyLocals(f, g, i)
  BY DEF Job, OnlyLocals

\* What the run saw.
LEMMA PutVerdict ==
  \A f \in [RunIds -> Job], i \in RunIds, x \in {"none", "met", "unmet", "error"} :
    LET g == [f EXCEPT ![i].verdict = x] IN g \in [RunIds -> Job] /\ OnlyLocals(f, g, i)
  BY DEF Job, OnlyLocals

\* Whether the alert repeats an earlier one.
LEMMA PutRepeat ==
  \A f \in [RunIds -> Job], i \in RunIds, x \in BOOLEAN :
    LET g == [f EXCEPT ![i].repeat = x] IN g \in [RunIds -> Job] /\ OnlyLocals(f, g, i)
  BY DEF Job, OnlyLocals

\* The channels looked up.
LEMMA PutTargets ==
  \A f \in [RunIds -> Job], i \in RunIds, x \in SUBSET Channels :
    LET g == [f EXCEPT ![i].targets = x] IN g \in [RunIds -> Job] /\ OnlyLocals(f, g, i)
  BY DEF Job, OnlyLocals

\* The channels that took the alert.
LEMMA PutReached ==
  \A f \in [RunIds -> Job], i \in RunIds, x \in SUBSET Channels :
    LET g == [f EXCEPT ![i].reached = x] IN g \in [RunIds -> Job] /\ OnlyLocals(f, g, i)
  BY DEF Job, OnlyLocals

\* The aggregate outcome.
LEMMA PutOutcome ==
  \A f \in [RunIds -> Job], i \in RunIds, x \in Outcomes :
    LET g == [f EXCEPT ![i].outcome = x] IN g \in [RunIds -> Job] /\ OnlyLocals(f, g, i)
  BY DEF Job, OnlyLocals

\* A row of table tasks.
LEMMA PutTask ==
  \A f \in [Tasks -> TaskRow], i \in Tasks :
    /\ \A x \in BOOLEAN : [f EXCEPT ![i].met = x] \in [Tasks -> TaskRow]
    /\ \A x \in Modes : [f EXCEPT ![i].mode = x] \in [Tasks -> TaskRow]
    /\ \A x \in BOOLEAN : [f EXCEPT ![i].exists = x] \in [Tasks -> TaskRow]
    /\ \A x \in 1..MaxRev : [f EXCEPT ![i].rev = x] \in [Tasks -> TaskRow]
  BY DEF TaskRow

\* A row of table runs.
LEMMA PutRow ==
  \A f \in RunRow :
    /\ \A x \in Statuses : [f EXCEPT !.status = x] \in RunRow
    /\ \A x \in BOOLEAN : [f EXCEPT !.met = x] \in RunRow
    /\ \A x \in BOOLEAN : [f EXCEPT !.notified = x] \in RunRow
    /\ \A x \in Outcomes : [f EXCEPT !.notification = x] \in RunRow
    /\ \A x \in SUBSET Channels : [f EXCEPT !.delivered = x] \in RunRow
    /\ \A x \in SUBSET Channels : [f EXCEPT !.undelivered = x] \in RunRow
  BY DEF RunRow

-------------------------------------------------------------------------------
(* Type correctness *)

\* The initial state of the process is well typed.
LEMMA InitTyped == Init => TypeOK
  BY DEF Init, TypeOK, TaskRow, RunRow, Entry, Job, Unborn, EmptyRow, RunIds, Modes,
         Outcomes, Statuses, Stages, Working, Ended

\* The names of the stages a goroutine moves to are stages.
LEMMA StageNames ==
  {"queued", "page", "failing", "judged", "loading", "sending", "recording", "arming",
   "rearming", "finishing", "done", "lost", "dead"} \subseteq Stages
  BY DEF Stages, Working, Ended

\* A goroutine that moves on keeps its task.
LEMMA OwnersKept ==
  ASSUME TypeOK, NEW r \in RunIds, job[r].stage # "unborn", OnlyLocals(job, job', r)
  PROVE  \A k \in RunIds : job'[k].stage # "unborn" => job'[k].task \in Tasks
  BY DEF TypeOK, OnlyLocals

\* The locals of a goroutine stay typed through the calls that change nothing else.
LEMMA LocalStepTyped ==
  ASSUME TypeOK, NEW r \in RunIds,
         \/ LockBrowser(r)
         \/ \E verdict \in {"met", "unmet", "error"} : Extract(r, verdict)
         \/ ReadArmed(r)
         \/ LoadChannels(r)
         \/ \E reached \in SUBSET Channels : Send(r, reached)
  PROVE  TypeOK'
<1> DEFINE Moved == /\ job' \in [RunIds -> Job]
                    /\ OnlyLocals(job, job', r)
<1>a. job \in [RunIds -> Job] /\ mutex \in 0..MaxRuns
  BY DEF TypeOK
<1>b. r \in 0..MaxRuns /\ 0 \in 0..MaxRuns
  BY DEF RunIds
<1>c. UNCHANGED <<server, task, channels, attached, row, lastId, entry, cronJobs>>
  BY DEF LockBrowser, Extract, ReadArmed, LoadChannels, Send
<1>d. mutex' \in 0..MaxRuns
  BY <1>a, <1>b DEF LockBrowser, Extract, ReadArmed, LoadChannels, Send
<1>e. job[r].stage # "unborn"
  BY DEF LockBrowser, Extract, ReadArmed, LoadChannels, Send, At
<1>1. ASSUME LockBrowser(r) PROVE Moved
  <2>1. job' = [job EXCEPT ![r].stage = "page"]
    BY <1>1 DEF LockBrowser
  <2>2. Moved
    BY <1>a, <2>1, PutStage, StageNames
  <2> QED BY <2>2
<1>2. ASSUME NEW verdict \in {"met", "unmet", "error"}, Extract(r, verdict)
      PROVE  Moved
  <2> DEFINE next == IF verdict = "error" THEN "failing" ELSE "judged"
             mid == [job EXCEPT ![r].verdict = verdict]
  <2>1. job' = [mid EXCEPT ![r].stage = next]
    BY <1>2 DEF Extract
  <2>2. mid \in [RunIds -> Job] /\ OnlyLocals(job, mid, r)
    BY <1>a, PutVerdict
  <2>3. next \in Stages
    BY StageNames
  <2> HIDE DEF mid, next
  <2>4. job' \in [RunIds -> Job] /\ OnlyLocals(mid, job', r)
    BY <2>1, <2>2, <2>3, PutStage
  <2> QED BY <2>2, <2>4 DEF OnlyLocals
<1>3. ASSUME ReadArmed(r) PROVE Moved
  <2>1. PICK seen : job' = [job EXCEPT
          ![r].repeat = job[r].verdict = "met" /\ seen.mode = "always" /\ seen.met,
          ![r].stage = NextStage(job[r].verdict = "met", seen)]
    BY <1>3 DEF ReadArmed
  <2> DEFINE again == job[r].verdict = "met" /\ seen.mode = "always" /\ seen.met
             next == NextStage(job[r].verdict = "met", seen)
             mid == [job EXCEPT ![r].repeat = again]
  <2>2. again \in BOOLEAN
    OBVIOUS
  <2>3. mid \in [RunIds -> Job] /\ OnlyLocals(job, mid, r)
    BY <1>a, <2>2, PutRepeat
  <2>4. next \in Stages
    BY StageNames DEF NextStage
  <2>5. job' = [mid EXCEPT ![r].stage = next]
    BY <2>1
  <2> HIDE DEF mid, next
  <2>6. job' \in [RunIds -> Job] /\ OnlyLocals(mid, job', r)
    BY <2>3, <2>4, <2>5, PutStage
  <2> QED BY <2>3, <2>6 DEF OnlyLocals
<1>4. ASSUME LoadChannels(r) PROVE Moved
  <2>1. ASSUME NEW outcome \in Outcomes, NEW next \in Stages,
               job' = [job EXCEPT ![r].outcome = outcome, ![r].stage = next]
        PROVE  Moved
    <3> DEFINE mid == [job EXCEPT ![r].outcome = outcome]
    <3>1. mid \in [RunIds -> Job] /\ OnlyLocals(job, mid, r)
      BY <1>a, PutOutcome
    <3>2. job' = [mid EXCEPT ![r].stage = next]
      BY <2>1
    <3> HIDE DEF mid
    <3>3. job' \in [RunIds -> Job] /\ OnlyLocals(mid, job', r)
      BY <3>1, <3>2, PutStage
    <3> QED BY <3>1, <3>3 DEF OnlyLocals
  <2>2. ASSUME job' = [job EXCEPT ![r].targets = attached[job[r].task], ![r].stage = "sending"]
        PROVE  Moved
    <3> DEFINE mid == [job EXCEPT ![r].targets = attached[job[r].task]]
    <3>1. attached[job[r].task] \in SUBSET Channels
      BY <1>e DEF TypeOK
    <3>2. mid \in [RunIds -> Job] /\ OnlyLocals(job, mid, r)
      BY <1>a, <3>1, PutTargets
    <3>3. job' = [mid EXCEPT ![r].stage = "sending"]
      BY <2>2
    <3> HIDE DEF mid
    <3>4. job' \in [RunIds -> Job] /\ OnlyLocals(mid, job', r)
      BY <3>2, <3>3, PutStage, StageNames
    <3> QED BY <3>2, <3>4 DEF OnlyLocals
  <2>3. {"disabled", "error"} \subseteq Outcomes
    BY DEF Outcomes
  <2> HIDE DEF Moved
  <2> QED BY <1>4, <2>1, <2>2, <2>3, StageNames DEF LoadChannels
<1>5. ASSUME NEW reached \in SUBSET Channels, Send(r, reached)
      PROVE  Moved
  <2> DEFINE outcome == Aggregate(job[r].targets, reached)
             mid == [job EXCEPT ![r].reached = reached]
             late == [mid EXCEPT ![r].outcome = outcome]
  <2>1. outcome \in Outcomes
    BY DEF Aggregate, Outcomes
  <2>2. mid \in [RunIds -> Job] /\ OnlyLocals(job, mid, r)
    BY <1>a, PutReached
  <2>3. job' = [late EXCEPT ![r].stage = "recording"]
    BY <1>5 DEF Send
  <2> HIDE DEF mid, outcome
  <2>4. late \in [RunIds -> Job] /\ OnlyLocals(mid, late, r)
    BY <2>1, <2>2, PutOutcome
  <2> HIDE DEF late
  <2>5. job' \in [RunIds -> Job] /\ OnlyLocals(late, job', r)
    BY <2>3, <2>4, PutStage, StageNames
  <2> QED BY <2>2, <2>4, <2>5 DEF OnlyLocals
<1> HIDE DEF Moved
<1>6. Moved
  BY <1>1, <1>2, <1>3, <1>4, <1>5
<1> USE DEF Moved
<1>7. \A k \in RunIds : job'[k].stage # "unborn" => job'[k].task \in Tasks
  BY <1>6, <1>e, OwnersKept
<1> QED BY <1>6, <1>7, <1>c, <1>d DEF TypeOK

\* An entry of the registry with its skip lock released.
LEMMA PutBusy ==
  \A e \in Entry : [e EXCEPT !.busy = 0] \in Entry
  BY DEF Entry

\* A goroutine that returns leaves a well-typed registry behind.
LEMMA ReturnTyped ==
  ASSUME TypeOK, NEW r \in RunIds, Return(r)
  PROVE  entry' \in [Tasks -> Entry] /\ cronJobs' \subseteq RunIds
<1>1. entry \in [Tasks -> Entry] /\ cronJobs \subseteq RunIds
  BY DEF TypeOK
<1>2. \A t \in Tasks : [entry[t] EXCEPT !.busy = 0] \in Entry
  BY <1>1, PutBusy
<1> QED BY <1>1, <1>2 DEF Return

\* CompleteRun writes a typed row, and the goroutine it ends keeps its task.
LEMMA CompleteTyped ==
  ASSUME TypeOK, NEW r \in RunIds, job[r].stage # "unborn",
         NEW finished \in RunRow, Complete(r, finished)
  PROVE  TypeOK'
<1>1. job \in [RunIds -> Job] /\ row \in [RunIds -> RunRow]
  BY DEF TypeOK
<1>2. row' \in [RunIds -> RunRow]
  BY <1>1 DEF Complete, Stored
<1>3. PICK next \in {"done", "lost"} : job' = [job EXCEPT ![r].stage = next]
  BY DEF Complete
<1>4. job' \in [RunIds -> Job] /\ OnlyLocals(job, job', r)
  BY <1>1, <1>3, PutStage, StageNames
<1>5. \A k \in RunIds : job'[k].stage # "unborn" => job'[k].task \in Tasks
  BY <1>4, OwnersKept
<1>6. entry' \in [Tasks -> Entry] /\ cronJobs' \subseteq RunIds
  BY ReturnTyped DEF Complete
<1>7. UNCHANGED <<server, task, channels, attached, lastId, mutex>>
  BY DEF Complete
<1> QED BY <1>2, <1>4, <1>5, <1>6, <1>7 DEF TypeOK

\* The two ends of a run.
LEMMA EndStepTyped ==
  ASSUME TypeOK, NEW r \in RunIds, FailRun(r) \/ FinishRun(r)
  PROVE  TypeOK'
<1>a. row[r] \in RunRow /\ job[r].stage # "unborn"
  BY DEF TypeOK, FailRun, FinishRun, At
<1>b. {"failed", "success"} \subseteq Statuses
  BY DEF Statuses
<1>1. ASSUME FailRun(r) PROVE TypeOK'
  <2>1. [row[r] EXCEPT !.status = "failed"] \in RunRow
    BY <1>a, <1>b, PutRow
  <2>2. Complete(r, [row[r] EXCEPT !.status = "failed"])
    BY <1>1 DEF FailRun
  <2> QED BY <1>a, <2>1, <2>2, CompleteTyped
<1>2. ASSUME FinishRun(r) PROVE TypeOK'
  <2> DEFINE seen == job[r].verdict = "met"
             sent == job[r].outcome = "sent"
             ended == [row[r] EXCEPT !.status = "success"]
             judged == [ended EXCEPT !.met = seen]
             told == [judged EXCEPT !.notified = sent]
             full == [told EXCEPT !.notification = job[r].outcome]
  <2>1. job[r].outcome \in Outcomes
    BY DEF TypeOK, Job
  <2>2. seen \in BOOLEAN /\ sent \in BOOLEAN
    OBVIOUS
  <2>3. Complete(r, full)
    BY <1>2 DEF FinishRun
  <2>4. ended \in RunRow
    BY <1>a, <1>b, PutRow
  <2> HIDE DEF seen, sent, ended
  <2>5. judged \in RunRow
    BY <2>2, <2>4, PutRow
  <2> HIDE DEF judged
  <2>6. told \in RunRow
    BY <2>2, <2>5, PutRow
  <2> HIDE DEF told
  <2>7. full \in RunRow
    BY <2>1, <2>6, PutRow
  <2> HIDE DEF full
  <2> QED BY <1>a, <2>3, <2>7, CompleteTyped
<1> QED BY <1>1, <1>2

\* The writes in the middle of a run: the breakdown and the armed state.
LEMMA WriteStepTyped ==
  ASSUME TypeOK, NEW r \in RunIds, RecordAttempts(r) \/ Arm(r) \/ Rearm(r)
  PROVE  TypeOK'
<1> DEFINE Moved == /\ job' \in [RunIds -> Job]
                    /\ OnlyLocals(job, job', r)
<1>a. /\ job \in [RunIds -> Job] /\ row \in [RunIds -> RunRow] /\ task \in [Tasks -> TaskRow]
      /\ job[r].stage # "unborn" /\ job[r].task \in Tasks
  BY DEF TypeOK, RecordAttempts, Arm, Rearm, At
<1>b. UNCHANGED <<server, channels, attached, lastId, entry, cronJobs, mutex>>
  BY DEF RecordAttempts, Arm, Rearm, SetConditionMet
<1>1. ASSUME NEW next \in Stages, job' = [job EXCEPT ![r].stage = next]
      PROVE  Moved
  BY <1>a, <1>1, PutStage
<1> HIDE DEF Moved
<1>2. ASSUME RecordAttempts(r)
      PROVE  Moved /\ row' \in [RunIds -> RunRow] /\ UNCHANGED task
  <2>1. AfterRecording(job[r].outcome) \in Stages
    BY StageNames DEF AfterRecording
  <2>2. Moved
    BY <1>1, <1>2, <2>1 DEF RecordAttempts
  <2> DEFINE got == job[r].reached
             missed == job[r].targets \ job[r].reached
             half == [row[r] EXCEPT !.delivered = got]
             full == [half EXCEPT !.undelivered = missed]
  <2>3. got \in SUBSET Channels /\ missed \in SUBSET Channels
    BY <1>a DEF Job
  <2>4. row' = row \/ row' = [row EXCEPT ![r] = full]
    BY <1>2 DEF RecordAttempts
  <2> HIDE DEF got, missed
  <2>5. half \in RunRow
    BY <1>a, <2>3, PutRow
  <2> HIDE DEF half
  <2>6. full \in RunRow
    BY <2>3, <2>5, PutRow
  <2> HIDE DEF full
  <2>7. row' \in [RunIds -> RunRow]
    BY <1>a, <2>4, <2>6
  <2> QED BY <1>2, <2>2, <2>7 DEF RecordAttempts
<1>3. ASSUME NEW met \in BOOLEAN, SetConditionMet(r, met)
      PROVE  Moved /\ task' \in [Tasks -> TaskRow] /\ UNCHANGED row
  <2> DEFINE t == job[r].task
             armed == IF task[t].exists THEN met ELSE task[t].met
  <2>1. armed \in BOOLEAN
    BY <1>a DEF TaskRow
  <2>2. task' = task \/ task' = [task EXCEPT ![t].met = armed]
    BY <1>3 DEF SetConditionMet
  <2>3. job' = [job EXCEPT ![r].stage = "finishing"]
    BY <1>3 DEF SetConditionMet
  <2>4. UNCHANGED row
    BY <1>3 DEF SetConditionMet
  <2> HIDE DEF armed
  <2>5. task' \in [Tasks -> TaskRow]
    BY <1>a, <2>1, <2>2, PutTask
  <2> QED BY <1>1, <2>3, <2>4, <2>5, StageNames
<1>4. Moved /\ row' \in [RunIds -> RunRow] /\ task' \in [Tasks -> TaskRow]
  BY <1>a, <1>2, <1>3 DEF Arm, Rearm
<1> USE DEF Moved
<1>5. \A k \in RunIds : job'[k].stage # "unborn" => job'[k].task \in Tasks
  BY <1>4, <1>a, OwnersKept
<1> QED BY <1>4, <1>5, <1>b DEF TypeOK

\* A new run gets the next id and a row of its own.
LEMMA StartTyped ==
  ASSUME TypeOK, NEW t \in Tasks, NEW source \in {"cron", "manual"}, StartRun(t, source)
  PROVE  TypeOK'
<1> DEFINE new == lastId + 1
           born == [Unborn EXCEPT !.stage = "queued", !.task = t, !.rev = entry[t].rev]
<1>a. /\ job \in [RunIds -> Job] /\ row \in [RunIds -> RunRow] /\ lastId \in 0..MaxRuns
      /\ entry \in [Tasks -> Entry] /\ cronJobs \subseteq RunIds
  BY DEF TypeOK
<1>1. new \in RunIds /\ new \in 0..MaxRuns /\ lastId' = new
  BY <1>a DEF StartRun, RunIds
<1>2. born \in Job /\ born.task = t
  <2>1. entry[t].rev \in 0..MaxRev
    BY <1>a DEF Entry
  <2> QED BY <2>1 DEF Job, Unborn, Stages, Working, Outcomes
<1>3. row' = [row EXCEPT ![new].status = "running"] /\ job' = [job EXCEPT ![new] = born]
  BY DEF StartRun
<1>4. \/ entry' = [entry EXCEPT ![t].busy = new] /\ cronJobs' = cronJobs \cup {new}
      \/ UNCHANGED <<entry, cronJobs>>
  BY DEF StartRun
<1>5. UNCHANGED <<server, task, channels, attached, mutex>>
  BY DEF StartRun
<1> HIDE DEF new, born
<1>6. row' \in [RunIds -> RunRow]
  <2>1. [row[new] EXCEPT !.status = "running"] \in RunRow
    BY <1>a, <1>1, PutRow DEF Statuses
  <2> QED BY <1>a, <1>1, <1>3, <2>1
<1>7. job' \in [RunIds -> Job]
  BY <1>a, <1>1, <1>2, <1>3
<1>8. \A k \in RunIds : job'[k].stage # "unborn" => job'[k].task \in Tasks
  BY <1>a, <1>1, <1>2, <1>3 DEF TypeOK
<1>9. entry' \in [Tasks -> Entry] /\ cronJobs' \subseteq RunIds
  BY <1>a, <1>1, <1>4 DEF Entry
<1> QED BY <1>1, <1>5, <1>6, <1>7, <1>8, <1>9 DEF TypeOK

\* The rows a deletion, a pruning or a sweep leaves behind are rows.
LEMMA DeletedRow == [EmptyRow EXCEPT !.status = "gone"] \in RunRow
  BY DEF EmptyRow, RunRow, Statuses, Outcomes

\* What the dashboard does to tasks, links, channels and rows keeps their types.
LEMMA DashboardTyped ==
  ASSUME TypeOK, Dashboard
  PROVE  TypeOK'
<1>a. /\ task \in [Tasks -> TaskRow] /\ entry \in [Tasks -> Entry]
      /\ attached \in [Tasks -> SUBSET Channels] /\ row \in [RunIds -> RunRow]
      /\ channels \subseteq Channels
  BY DEF TypeOK
<1>b. \A t \in Tasks : task[t].rev \in 1..MaxRev
  BY <1>a DEF TaskRow
<1>c. \A v \in 0..MaxRev : [rev |-> v, busy |-> 0] \in Entry
  BY DEF Entry
<1>1. ASSUME NEW t \in Tasks, EditSpec(t) PROVE TypeOK'
  <2> DEFINE next == task[t].rev + 1
             mid == [task EXCEPT ![t].rev = next]
  <2>1. task' = [mid EXCEPT ![t].met = FALSE]
    BY <1>1 DEF EditSpec
  <2>2. next \in 1..MaxRev
    BY <1>1, <1>b DEF EditSpec
  <2>3. UNCHANGED <<server, channels, attached, row, lastId, entry, cronJobs, job, mutex>>
    BY <1>1 DEF EditSpec
  <2> HIDE DEF next
  <2>4. mid \in [Tasks -> TaskRow]
    BY <1>a, <2>2, PutTask
  <2> HIDE DEF mid
  <2>5. task' \in [Tasks -> TaskRow]
    BY <2>1, <2>4, PutTask
  <2> QED BY <2>3, <2>5 DEF TypeOK
<1>2. ASSUME NEW t \in Tasks, NEW mode \in Modes, EditMode(t, mode) PROVE TypeOK'
  <2>1. task' = [task EXCEPT ![t].mode = mode]
    BY <1>2 DEF EditMode
  <2>2. task' \in [Tasks -> TaskRow]
    BY <1>a, <2>1, PutTask
  <2> QED BY <1>2, <2>2 DEF EditMode, TypeOK
<1>3. ASSUME NEW t \in Tasks, Reschedule(t) PROVE TypeOK'
  <2>1. entry' = [entry EXCEPT ![t] = [rev |-> task[t].rev, busy |-> 0]]
    BY <1>3 DEF Reschedule
  <2>2. task[t].rev \in 0..MaxRev
    BY <1>b
  <2>3. entry' \in [Tasks -> Entry]
    BY <1>a, <1>c, <2>1, <2>2
  <2> QED BY <1>3, <2>3 DEF Reschedule, TypeOK
<1>4. ASSUME NEW t \in Tasks, DeleteTask(t) PROVE TypeOK'
  <2> DEFINE mid == [task EXCEPT ![t].exists = FALSE]
  <2>1. task' = [mid EXCEPT ![t].met = FALSE]
    BY <1>4 DEF DeleteTask
  <2>2. mid \in [Tasks -> TaskRow]
    BY <1>a, PutTask
  <2> HIDE DEF mid
  <2>3. task' \in [Tasks -> TaskRow]
    BY <2>1, <2>2, PutTask
  <2>4. entry' \in [Tasks -> Entry]
    BY <1>4, <1>a, <1>c DEF DeleteTask
  <2>5. attached' \in [Tasks -> SUBSET Channels]
    BY <1>4, <1>a DEF DeleteTask
  <2>6. row' \in [RunIds -> RunRow]
    BY <1>4, <1>a, DeletedRow DEF DeleteTask
  <2>7. UNCHANGED <<server, channels, lastId, cronJobs, job, mutex>>
    BY <1>4 DEF DeleteTask
  <2> QED BY <2>3, <2>4, <2>5, <2>6, <2>7 DEF TypeOK
<1>5. ASSUME NEW t \in Tasks, NEW mode \in Modes, NEW links \in SUBSET Channels,
             CreateTask(t, mode, links)
      PROVE  TypeOK'
  <2> DEFINE next == task[t].rev + 1
             new == [exists |-> TRUE, met |-> FALSE, mode |-> mode, rev |-> next]
  <2>1. /\ task' = [task EXCEPT ![t] = new]
        /\ entry' = [entry EXCEPT ![t] = [rev |-> next, busy |-> 0]]
        /\ attached' = [attached EXCEPT ![t] = links]
    BY <1>5 DEF CreateTask
  <2>2. next \in 1..MaxRev /\ next \in 0..MaxRev
    BY <1>5, <1>b DEF CreateTask
  <2>3. UNCHANGED <<server, channels, row, lastId, cronJobs, job, mutex>>
    BY <1>5 DEF CreateTask
  <2> HIDE DEF next
  <2>4. new \in TaskRow
    BY <2>2 DEF TaskRow
  <2> HIDE DEF new
  <2>5. task' \in [Tasks -> TaskRow] /\ attached' \in [Tasks -> SUBSET Channels]
    BY <1>a, <2>1, <2>4
  <2>6. entry' \in [Tasks -> Entry]
    BY <1>a, <1>c, <2>1, <2>2
  <2> QED BY <2>3, <2>5, <2>6 DEF TypeOK
<1>6. ASSUME NEW t \in Tasks, NEW links \in SUBSET Channels, SetChannels(t, links)
      PROVE  TypeOK'
  <2>1. attached' \in [Tasks -> SUBSET Channels]
    BY <1>6, <1>a DEF SetChannels
  <2> QED BY <1>6, <2>1 DEF SetChannels, TypeOK
<1>7. ASSUME NEW c \in Channels, DeleteChannel(c) PROVE TypeOK'
  <2>1. attached' \in [Tasks -> SUBSET Channels] /\ channels' \subseteq Channels
    BY <1>7, <1>a DEF DeleteChannel
  <2> QED BY <1>7, <2>1 DEF DeleteChannel, TypeOK
<1> QED BY <1>1, <1>2, <1>3, <1>4, <1>5, <1>6, <1>7 DEF Dashboard

\* The goroutines that die or lose their row keep the rest of their locals.
LEMMA Restaged ==
  ASSUME TypeOK, NEW hit \in SUBSET RunIds, NEW stage \in Stages,
         job' = [r \in RunIds |-> IF r \in hit THEN [job[r] EXCEPT !.stage = stage] ELSE job[r]],
         \A r \in hit : job[r].stage # "unborn"
  PROVE  /\ job' \in [RunIds -> Job]
         /\ \A r \in RunIds : job'[r].stage # "unborn" => job'[r].task \in Tasks
<1>1. job \in [RunIds -> Job]
  BY DEF TypeOK
<1>2. \A j \in Job : [j EXCEPT !.stage = stage] \in Job /\ [j EXCEPT !.stage = stage].task = j.task
  BY DEF Job
<1>3. job' \in [RunIds -> Job]
  BY <1>1, <1>2
<1>4. \A r \in RunIds : job'[r].task = job[r].task
  BY <1>1, <1>2
<1> QED BY <1>1, <1>3, <1>4 DEF TypeOK

\* Every goroutine dies with the process; what is left is typed.
LEMMA ExitTyped ==
  ASSUME TypeOK, Exit, server' \in {"up", "draining", "stopped", "crashed"}
  PROVE  TypeOK'
<1> DEFINE hit == {r \in RunIds : Live(r)}
<1>1. job' = [r \in RunIds |-> IF r \in hit THEN [job[r] EXCEPT !.stage = "dead"] ELSE job[r]]
  BY DEF Exit
<1>2. \A r \in hit : job[r].stage # "unborn"
  BY DEF Live, Working
<1> HIDE DEF hit
<1>3. hit \in SUBSET RunIds
  BY DEF hit
<1>4. /\ job' \in [RunIds -> Job]
      /\ \A r \in RunIds : job'[r].stage # "unborn" => job'[r].task \in Tasks
  BY <1>1, <1>2, <1>3, Restaged, StageNames
<1>5. entry' \in [Tasks -> Entry] /\ cronJobs' \subseteq RunIds /\ mutex' \in 0..MaxRuns
  BY DEF Exit, Entry
<1> QED BY <1>4, <1>5 DEF Exit, TypeOK

\* A pruned table is a table.
LEMMA PrunedTyped ==
  \A old, rows : rows \in [RunIds -> RunRow] => Pruned(old, rows) \in [RunIds -> RunRow]
  BY DeletedRow DEF Pruned

\* Booting sweeps and prunes the rows and refills the registry.
LEMMA BootTyped ==
  ASSUME TypeOK, NEW old, Boot(old),
         \A r \in RunIds : row[r].status = "running" => job[r].stage # "unborn"
  PROVE  TypeOK'
<1>a. /\ task \in [Tasks -> TaskRow] /\ row \in [RunIds -> RunRow] /\ job \in [RunIds -> Job]
  BY DEF TypeOK
<1>1. entry' \in [Tasks -> Entry]
  <2>1. \A t \in Tasks : task[t].rev \in 0..MaxRev
    BY <1>a DEF TaskRow
  <2> QED BY <2>1 DEF Boot, Entry
<1>2. Swept \in [RunIds -> RunRow]
  <2>1. \A f \in RunRow : [f EXCEPT !.status = "failed"] \in RunRow
    BY PutRow DEF Statuses
  <2> QED BY <1>a, <2>1 DEF Swept
<1>3. row' \in [RunIds -> RunRow]
  BY <1>a, <1>2, PrunedTyped DEF Boot
<1> DEFINE hit == {r \in RunIds : row[r].status = "running"}
<1>4. Unswept = [r \in RunIds |-> IF r \in hit THEN [job[r] EXCEPT !.stage = "lost"] ELSE job[r]]
  BY DEF Unswept
<1>5. hit \in SUBSET RunIds /\ \A r \in hit : job[r].stage # "unborn"
  OBVIOUS
<1> HIDE DEF hit
<1>6. /\ job' \in [RunIds -> Job]
      /\ \A r \in RunIds : job'[r].stage # "unborn" => job'[r].task \in Tasks
  <2>1. CASE job' = job
    BY <2>1 DEF TypeOK
  <2>2. CASE job' = Unswept
    BY <2>2, <1>4, <1>5, Restaged, StageNames
  <2> QED BY <2>1, <2>2 DEF Boot
<1>7. UNCHANGED <<task, channels, attached, lastId, cronJobs, mutex>> /\ server' = "up"
  BY DEF Boot
<1> QED BY <1>1, <1>3, <1>6, <1>7 DEF TypeOK

-------------------------------------------------------------------------------
(* What is known of every row and the goroutine that owns it. *)

\* Ids are handed out in order: the ones not handed out yet have left no trace.
FreshIds ==
  \A r \in RunIds : r > lastId => row[r].status = "unused" /\ job[r] = Unborn

\* A goroutine at work has not finished its row, which may have been deleted.
LiveRowsOpen ==
  \A r \in RunIds : Live(r) => row[r].status \in {"running", "gone"}

\* A process that is down has no goroutines.
DownMeansDead ==
  ~Running => \A r \in RunIds : ~Live(r)

\* A row in progress was once started by some goroutine.
RowsBorn ==
  \A r \in RunIds : row[r].status = "running" => job[r].stage # "unborn"

\* Every row is accounted for: with TypeOK, the inductive invariant behind the
\* theorems on types, owners and history.
Accounted == FreshIds /\ LiveRowsOpen /\ DownMeansDead /\ RowsBorn /\ RunningHasOwner

\* One step of RunStep(r): it touches its own row and locals only, and either works
\* on, or ends with its row finished, or ends having failed to finish it.
Advances(r) ==
  /\ UNCHANGED <<server, lastId>>
  /\ Running /\ Live(r)
  /\ \A k \in RunIds \ {r} : job'[k] = job[k] /\ row'[k] = row[k]
  /\ \/ job'[r].stage \in Working /\ row'[r].status = row[r].status
     \/ job'[r].stage = "done" /\ row'[r].status \in {"success", "failed", "gone"}
     \/ job'[r].stage = "lost" /\ row'[r] = row[r]

\* A run's own steps advance it.
LEMMA RunAdvances ==
  ASSUME TypeOK, NEW r \in RunIds, RunStep(r)
  PROVE  Advances(r)
<1>a. job \in [RunIds -> Job] /\ row \in [RunIds -> RunRow]
  BY DEF TypeOK
<1>b. Running /\ Live(r)
  BY DEF RunStep, LockBrowser, Extract, FailRun, ReadArmed, LoadChannels, Send,
         RecordAttempts, Arm, Rearm, FinishRun, At, Live, Working
<1>c. UNCHANGED <<server, lastId>>
  BY DEF RunStep, LockBrowser, Extract, FailRun, ReadArmed, LoadChannels, Send,
         RecordAttempts, Arm, Rearm, FinishRun, Complete, SetConditionMet
<1>1. ASSUME LockBrowser(r) PROVE Advances(r)
  BY <1>a, <1>b, <1>1 DEF LockBrowser, Advances, Job, Working
<1>2. ASSUME NEW verdict \in {"met", "unmet", "error"}, Extract(r, verdict) PROVE Advances(r)
  BY <1>a, <1>b, <1>2 DEF Extract, Advances, Job, Working
<1>3. ASSUME ReadArmed(r) PROVE Advances(r)
  <2>1. PICK seen : job' = [job EXCEPT
          ![r].repeat = job[r].verdict = "met" /\ seen.mode = "always" /\ seen.met,
          ![r].stage = NextStage(job[r].verdict = "met", seen)]
    BY <1>3 DEF ReadArmed
  <2>2. NextStage(job[r].verdict = "met", seen) \in Working
    BY DEF NextStage, Working
  <2>3. UNCHANGED row
    BY <1>3 DEF ReadArmed
  <2> QED BY <1>a, <1>b, <1>c, <2>1, <2>2, <2>3 DEF Advances, Job
<1>4. ASSUME LoadChannels(r) PROVE Advances(r)
  BY <1>a, <1>b, <1>4 DEF LoadChannels, Advances, Job, Working
<1>5. ASSUME NEW reached \in SUBSET Channels, Send(r, reached) PROVE Advances(r)
  BY <1>a, <1>b, <1>5 DEF Send, Advances, Job, Working
<1>6. ASSUME RecordAttempts(r) PROVE Advances(r)
  <2>1. AfterRecording(job[r].outcome) \in Working
    BY DEF AfterRecording, Working
  <2>2. job' = [job EXCEPT ![r].stage = AfterRecording(job[r].outcome)]
    BY <1>6 DEF RecordAttempts
  <2>3. /\ \A k \in RunIds \ {r} : row'[k] = row[k]
        /\ row'[r].status = row[r].status
    BY <1>6, <1>a DEF RecordAttempts, RunRow
  <2> QED BY <1>a, <1>b, <1>c, <2>1, <2>2, <2>3 DEF Advances, Job
<1>7. ASSUME NEW met \in BOOLEAN, SetConditionMet(r, met) PROVE Advances(r)
  BY <1>a, <1>b, <1>7 DEF SetConditionMet, Advances, Job, Working
<1>8. ASSUME NEW finished, finished.status \in {"success", "failed"}, Complete(r, finished)
      PROVE  Advances(r)
  <2>1. /\ \A k \in RunIds \ {r} : row'[k] = row[k]
        /\ \/ row'[r] = Stored(r, finished) /\ job' = [job EXCEPT ![r].stage = "done"]
           \/ row'[r] = row[r] /\ job' = [job EXCEPT ![r].stage = "lost"]
    BY <1>8, <1>a DEF Complete
  <2>2. Stored(r, finished).status \in {"success", "failed", "gone"}
    BY <1>8 DEF Stored
  <2> QED BY <1>a, <1>b, <1>c, <2>1, <2>2 DEF Advances, Job
<1>9. ASSUME FinishRun(r) PROVE Advances(r)
  <2> DEFINE full == [row[r] EXCEPT !.status = "success",
                                    !.met = job[r].verdict = "met",
                                    !.notified = job[r].outcome = "sent",
                                    !.notification = job[r].outcome]
  <2>1. full.status = "success"
    BY <1>a DEF RunRow
  <2>2. Complete(r, full)
    BY <1>9 DEF FinishRun
  <2> HIDE DEF full
  <2> QED BY <2>1, <2>2, <1>8
<1>10. ASSUME FailRun(r) PROVE Advances(r)
  <2> DEFINE full == [row[r] EXCEPT !.status = "failed"]
  <2>1. full.status = "failed"
    BY <1>a DEF RunRow
  <2>2. Complete(r, full)
    BY <1>10 DEF FailRun
  <2> HIDE DEF full
  <2> QED BY <2>1, <2>2, <1>8
<1>11. Arm(r) \/ Rearm(r) => Advances(r)
  BY <1>7 DEF Arm, Rearm
<1> QED BY <1>1, <1>2, <1>3, <1>4, <1>5, <1>6, <1>9, <1>10, <1>11 DEF RunStep

\* What one step may do to a finished row (the action of HistoryIsFinal).
HistoryStep ==
  \A r \in RunIds : row[r].status \in {"success", "failed"} =>
    row'[r] = row[r] \/ row'[r].status = "gone"

\* A step of a run leaves every row accounted for and the finished ones alone.
LEMMA AdvanceAccounted ==
  ASSUME TypeOK, Accounted, NEW r \in RunIds, Advances(r)
  PROVE  Accounted' /\ HistoryStep
<1>a. lastId' = lastId /\ (Running' <=> Running) /\ Running /\ Live(r)
  BY DEF Advances, Running
<1>b. \A k \in RunIds : k # r => job'[k] = job[k] /\ row'[k] = row[k]
  BY DEF Advances
<1>c. job[r].stage \in Working /\ row[r].status \in {"running", "gone"}
  BY <1>a DEF Live, Accounted, LiveRowsOpen
<1>d. \/ job'[r].stage \in Working /\ row'[r].status = row[r].status
      \/ job'[r].stage = "done" /\ row'[r].status \in {"success", "failed", "gone"}
      \/ job'[r].stage = "lost" /\ row'[r] = row[r]
  BY DEF Advances
<1>e. "unborn" \notin Working /\ "done" \notin Working /\ "lost" \notin Working
  BY DEF Working
<1>1. FreshIds'
  <2>1. job[r] # Unborn
    BY <1>c, <1>e DEF Unborn
  <2>2. ~(r > lastId)
    BY <2>1 DEF Accounted, FreshIds
  <2> QED BY <1>a, <1>b, <2>2 DEF Accounted, FreshIds
<1>2. LiveRowsOpen'
  BY <1>b, <1>c, <1>d, <1>e DEF Accounted, LiveRowsOpen, Live
<1>3. DownMeansDead'
  BY <1>a DEF DownMeansDead
<1>4. RowsBorn'
  BY <1>b, <1>c, <1>d, <1>e DEF Accounted, RowsBorn
<1>5. RunningHasOwner'
  BY <1>a, <1>b, <1>d DEF Accounted, RunningHasOwner, Live
<1>6. HistoryStep
  BY <1>b, <1>c DEF HistoryStep
<1> QED BY <1>1, <1>2, <1>3, <1>4, <1>5, <1>6 DEF Accounted

\* A new run takes a fresh id and owns its row.
LEMMA StartAccounted ==
  ASSUME TypeOK, Accounted, NEW t \in Tasks, NEW source \in {"cron", "manual"},
         StartRun(t, source)
  PROVE  Accounted' /\ HistoryStep
<1> DEFINE new == lastId + 1
           born == [Unborn EXCEPT !.stage = "queued", !.task = t, !.rev = entry[t].rev]
<1>a. job \in [RunIds -> Job] /\ row \in [RunIds -> RunRow] /\ lastId \in 0..MaxRuns
  BY DEF TypeOK
<1>b. new \in RunIds /\ new > lastId /\ lastId' = new /\ server = "up" /\ server' = "up"
  BY <1>a DEF StartRun, RunIds
<1>c. row' = [row EXCEPT ![new].status = "running"] /\ job' = [job EXCEPT ![new] = born]
  BY DEF StartRun
<1>d. born.stage = "queued"
  BY DEF Unborn
<1> HIDE DEF born
<1>e. /\ row'[new].status = "running" /\ job'[new].stage = "queued"
      /\ \A k \in RunIds : k # new => row'[k] = row[k] /\ job'[k] = job[k]
  BY <1>a, <1>b, <1>c, <1>d DEF RunRow
<1>f. row[new].status = "unused"
  BY <1>b DEF Accounted, FreshIds
<1>g. \A k \in RunIds : k > lastId' => k > lastId /\ k # new
  BY <1>a, <1>b DEF RunIds
<1> HIDE DEF new
<1>1. FreshIds'
  BY <1>e, <1>g DEF Accounted, FreshIds
<1>2. LiveRowsOpen'
  BY <1>e DEF Accounted, LiveRowsOpen, Live
<1>3. DownMeansDead'
  BY <1>b DEF DownMeansDead, Running
<1>4. RowsBorn'
  BY <1>e DEF Accounted, RowsBorn
<1>5. RunningHasOwner'
  BY <1>b, <1>e DEF Accounted, RunningHasOwner, Running, Live, Working
<1>6. HistoryStep
  BY <1>e, <1>f DEF HistoryStep
<1> QED BY <1>1, <1>2, <1>3, <1>4, <1>5, <1>6 DEF Accounted

\* A step that starts and ends no run, and at most deletes rows.
Deletes ==
  /\ UNCHANGED <<lastId, job>>
  /\ Running /\ Running'
  /\ \A r \in RunIds : row'[r] = row[r] \/ (~(r > lastId) /\ row'[r].status = "gone")

\* Deleting rows leaves the others accounted for.
LEMMA DeletesAccounted ==
  ASSUME Accounted, Deletes
  PROVE  Accounted' /\ HistoryStep
<1>1. FreshIds'
  BY DEF Accounted, FreshIds, Deletes
<1>2. LiveRowsOpen'
  BY DEF Accounted, LiveRowsOpen, Live, Deletes
<1>3. DownMeansDead'
  BY DEF DownMeansDead, Deletes
<1>4. RowsBorn'
  BY DEF Accounted, RowsBorn, Deletes
<1>5. RunningHasOwner'
  BY DEF Accounted, RunningHasOwner, Live, Deletes
<1>6. HistoryStep
  BY DEF HistoryStep, Deletes
<1> QED BY <1>1, <1>2, <1>3, <1>4, <1>5, <1>6 DEF Accounted

\* No dashboard request does more than that to the rows.
LEMMA DashboardDeletes ==
  ASSUME TypeOK, Accounted, Dashboard
  PROVE  Deletes
<1>a. server = "up" /\ server' = "up" /\ UNCHANGED <<lastId, job>>
  BY DEF Dashboard, EditSpec, EditMode, Reschedule, DeleteTask, CreateTask, SetChannels,
         DeleteChannel
<1>b. Running /\ Running'
  BY <1>a DEF Running
<1>1. ASSUME NEW t \in Tasks, DeleteTask(t), NEW r \in RunIds
      PROVE  row'[r] = row[r] \/ (~(r > lastId) /\ row'[r].status = "gone")
  <2>1. row'[r] = IF job[r].task = t THEN [EmptyRow EXCEPT !.status = "gone"] ELSE row[r]
    BY <1>1 DEF DeleteTask
  <2>2. [EmptyRow EXCEPT !.status = "gone"].status = "gone"
    BY DEF EmptyRow
  <2>3. job[r].task = t => job[r] # Unborn
    BY DEF Unborn
  <2>4. job[r].task = t => ~(r > lastId)
    BY <2>3 DEF Accounted, FreshIds
  <2> QED BY <2>1, <2>2, <2>4
<1>2. row' = row \/ \E t \in Tasks : DeleteTask(t)
  BY DEF Dashboard, EditSpec, EditMode, Reschedule, CreateTask, SetChannels, DeleteChannel
<1> QED BY <1>a, <1>b, <1>1, <1>2 DEF Deletes

\* Pruning deletes the rows of runs that were started.
LEMMA PruneDeletes ==
  ASSUME TypeOK, NEW old \in 1..lastId, Prune(old)
  PROVE  Deletes
<1>1. server = "up" /\ server' = "up" /\ UNCHANGED <<lastId, job>>
  BY DEF Prune
<1>2. \A r \in RunIds : row'[r] = row[r] \/ (r <= old /\ row'[r].status = "gone")
  BY DEF Prune, Pruned, EmptyRow
<1>3. \A r \in RunIds : r <= old => ~(r > lastId)
  BY DEF TypeOK, RunIds
<1> QED BY <1>1, <1>2, <1>3 DEF Deletes, Running

\* A process that goes down takes every goroutine with it and touches no row.
LEMMA ExitAccounted ==
  ASSUME TypeOK, Accounted, Exit, server' \in {"stopped", "crashed"}
  PROVE  Accounted' /\ HistoryStep
<1>a. UNCHANGED <<row, lastId>> /\ ~Running'
  BY DEF Exit, Running
<1>b. \A r \in RunIds : /\ Live(r) => job'[r].stage = "dead"
                        /\ ~Live(r) => job'[r] = job[r]
  <2>1. \A r \in RunIds : Live(r) => job'[r] = [job[r] EXCEPT !.stage = "dead"]
    BY DEF Exit
  <2>2. \A r \in RunIds : [job[r] EXCEPT !.stage = "dead"].stage = "dead"
    BY DEF TypeOK, Job
  <2> QED BY <2>1, <2>2 DEF Exit
<1>c. \A r \in RunIds : ~Live(r)'
  BY <1>b DEF Live, Working
<1>1. FreshIds'
  <2>1. \A r \in RunIds : job[r] = Unborn => ~Live(r)
    BY DEF Live, Unborn, Working
  <2> QED BY <1>a, <1>b, <2>1 DEF Accounted, FreshIds
<1>2. LiveRowsOpen' /\ DownMeansDead' /\ RunningHasOwner'
  BY <1>a, <1>c DEF LiveRowsOpen, DownMeansDead, RunningHasOwner
<1>3. RowsBorn'
  BY <1>a, <1>b DEF Accounted, RowsBorn
<1>4. HistoryStep
  BY <1>a DEF HistoryStep
<1> QED BY <1>1, <1>2, <1>3, <1>4 DEF Accounted

\* After a boot no row is in progress, unless the sweep failed and gave it up.
LEMMA BootAccounted ==
  ASSUME TypeOK, Accounted, NEW old \in 0..lastId, Boot(old)
  PROVE  Accounted' /\ HistoryStep
<1>a. ~Running /\ Running' /\ lastId' = lastId
  BY DEF Boot, Running
<1>b. \A r \in RunIds : ~Live(r)
  BY <1>a DEF Accounted, DownMeansDead
<1>c. \A r \in RunIds : r <= old => ~(r > lastId)
  BY DEF TypeOK, RunIds
<1>d. \A r \in RunIds : /\ row[r].status # "running" => Swept[r] = row[r]
                        /\ row[r].status = "running" => Swept[r].status = "failed"
  BY DEF Swept, TypeOK, RunRow
<1>e. \A rows : \A r \in RunIds :
        Pruned(old, rows)[r] = rows[r] \/ (r <= old /\ Pruned(old, rows)[r].status = "gone")
  BY DEF Pruned, EmptyRow
<1>f. \A r \in RunIds :
        /\ row[r].status # "running" => Unswept[r] = job[r]
        /\ row[r].status = "running" => Unswept[r].stage = "lost"
  BY DEF Unswept, TypeOK, Job
<1>1. ASSUME row' = Pruned(old, Swept), job' = job
      PROVE  Accounted' /\ HistoryStep
  <2>1. \A r \in RunIds : row'[r].status # "running"
    BY <1>1, <1>d, <1>e
  <2>2. \A r \in RunIds : row[r].status # "running" =>
           row'[r] = row[r] \/ (~(r > lastId) /\ row'[r].status = "gone")
    BY <1>1, <1>c, <1>d, <1>e
  <2>3. FreshIds'
    BY <1>1, <1>a, <2>2 DEF Accounted, FreshIds
  <2>4. LiveRowsOpen' /\ DownMeansDead' /\ RowsBorn' /\ RunningHasOwner'
    BY <1>1, <1>a, <1>b, <2>1 DEF LiveRowsOpen, DownMeansDead, RowsBorn, RunningHasOwner, Live
  <2>5. HistoryStep
    BY <2>2 DEF HistoryStep
  <2> QED BY <2>3, <2>4, <2>5 DEF Accounted
<1>2. ASSUME row' = Pruned(old, row), job' = Unswept
      PROVE  Accounted' /\ HistoryStep
  <2>1. \A r \in RunIds : row'[r] = row[r] \/ (~(r > lastId) /\ row'[r].status = "gone")
    BY <1>2, <1>c, <1>e
  <2>2. \A r \in RunIds : job'[r] = job[r] \/ (row[r].status = "running" /\ job'[r].stage = "lost")
    BY <1>2, <1>f
  <2>3. FreshIds'
    BY <1>a, <2>1, <2>2 DEF Accounted, FreshIds
  <2>4. \A r \in RunIds : ~Live(r)'
    BY <1>b, <2>2 DEF Live, Working
  <2>5. LiveRowsOpen' /\ DownMeansDead'
    BY <2>4 DEF LiveRowsOpen, DownMeansDead
  <2>6. RowsBorn'
    BY <2>1, <2>2 DEF Accounted, RowsBorn
  <2>7. RunningHasOwner'
    BY <1>2, <1>f, <2>1 DEF RunningHasOwner
  <2>8. HistoryStep
    BY <2>1 DEF HistoryStep
  <2> QED BY <2>3, <2>5, <2>6, <2>7, <2>8 DEF Accounted
<1> QED BY <1>1, <1>2 DEF Boot

\* The inductive step: types and rows, and what became of the finished ones.
LEMMA RowsStep ==
  ASSUME TypeOK, Accounted, [Next]_vars
  PROVE  TypeOK' /\ Accounted' /\ HistoryStep
<1>1. ASSUME NEW t \in Tasks, NEW source \in {"cron", "manual"}, StartRun(t, source)
      PROVE  TypeOK' /\ Accounted' /\ HistoryStep
  BY <1>1, StartTyped, StartAccounted
<1>2. ASSUME NEW r \in RunIds, RunStep(r)
      PROVE  TypeOK' /\ Accounted' /\ HistoryStep
  <2>1. TypeOK'
    BY <1>2, LocalStepTyped, WriteStepTyped, EndStepTyped DEF RunStep
  <2> QED BY <1>2, <2>1, RunAdvances, AdvanceAccounted
<1>3. ASSUME Dashboard
      PROVE  TypeOK' /\ Accounted' /\ HistoryStep
  BY <1>3, DashboardTyped, DashboardDeletes, DeletesAccounted
<1>4. ASSUME NEW old \in 1..lastId, Prune(old)
      PROVE  TypeOK' /\ Accounted' /\ HistoryStep
  <2>1. row' \in [RunIds -> RunRow]
    BY <1>4, PrunedTyped DEF TypeOK, Prune
  <2>2. TypeOK'
    BY <1>4, <2>1 DEF TypeOK, Prune
  <2> QED BY <1>4, <2>2, PruneDeletes, DeletesAccounted
<1>5. ASSUME Crash \/ CloseDatabase
      PROVE  TypeOK' /\ Accounted' /\ HistoryStep
  <2>1. Exit /\ server' \in {"stopped", "crashed"}
    BY <1>5 DEF Crash, CloseDatabase
  <2> QED BY <2>1, ExitTyped, ExitAccounted
<1>6. ASSUME BeginShutdown
      PROVE  TypeOK' /\ Accounted' /\ HistoryStep
  <2>1. TypeOK'
    BY <1>6 DEF BeginShutdown, TypeOK
  <2>2. Deletes
    BY <1>6 DEF BeginShutdown, Deletes, Running
  <2> QED BY <2>1, <2>2, DeletesAccounted
<1>7. ASSUME NEW old \in 0..lastId, Boot(old)
      PROVE  TypeOK' /\ Accounted' /\ HistoryStep
  <2>1. TypeOK'
    BY <1>7, BootTyped DEF Accounted, RowsBorn
  <2> QED BY <1>7, <2>1, BootAccounted
<1>8. ASSUME UNCHANGED vars
      PROVE  TypeOK' /\ Accounted' /\ HistoryStep
  BY <1>8 DEF vars, TypeOK, Accounted, FreshIds, LiveRowsOpen, DownMeansDead, RowsBorn,
              RunningHasOwner, HistoryStep, Live, Running
<1> QED BY <1>1, <1>2, <1>3, <1>4, <1>5, <1>6, <1>7, <1>8 DEF Next, Process

\* The initial state has started nothing.
LEMMA RowsInit == Init => TypeOK /\ Accounted
<1> SUFFICES ASSUME Init PROVE Accounted
  BY InitTyped
<1>1. \A r \in RunIds : row[r].status = "unused" /\ job[r] = Unborn /\ job[r].stage = "unborn"
  BY DEF Init, EmptyRow, Unborn
<1> QED BY <1>1 DEF Init, Accounted, FreshIds, LiveRowsOpen, DownMeansDead, RowsBorn,
                    RunningHasOwner, Live, Working

\* Rows are accounted for in every reachable state.
THEOREM RowsAccounted == Spec => [](TypeOK /\ Accounted)
<1>1. TypeOK /\ Accounted /\ [Next]_vars => (TypeOK /\ Accounted)'
  BY RowsStep
<1> QED BY <1>1, RowsInit, PTL DEF Spec

\* Every table, lock and goroutine local keeps its type, whatever happens to the
\* task, the channels and the process while a run is in flight.
THEOREM TypeCorrect == Spec => []TypeOK
BY RowsAccounted, PTL

\* A row says 'running' only while a goroutine works on it, or after the write that
\* would have resolved it failed: SweepInterruptedRuns leaves no orphan behind.
THEOREM OwnedRows == Spec => []RunningHasOwner
<1>1. TypeOK /\ Accounted => RunningHasOwner
  BY DEF Accounted
<1> QED BY <1>1, RowsAccounted, PTL

\* A finished row is never rewritten, only deleted: CompleteRun runs once for a row,
\* and the sweep and the pruning of a boot spare it.
THEOREM FinalHistory == Spec => HistoryIsFinal
<1>1. TypeOK /\ Accounted /\ [Next]_vars =>
        [\A r \in RunIds : row[r].status \in {"success", "failed"} =>
           row'[r] = row[r] \/ row'[r].status = "gone"]_row
  BY RowsStep DEF HistoryStep
<1> QED BY <1>1, RowsAccounted, PTL DEF HistoryIsFinal, Spec

-------------------------------------------------------------------------------
(* The armed trigger *)

Silent == {"unborn", "queued", "page", "failing", "judged", "loading", "sending", "rearming"}

\* A goroutine that has dispatched nothing yet has no outcome, and one about to arm
\* the trigger has an outcome that earns it.
OutcomeByStage ==
  \A r \in RunIds :
    /\ job[r].stage \in Silent => job[r].outcome = "none"
    /\ job[r].stage = "arming" => job[r].outcome \in {"sent", "disabled"}

\* A run that earned its task the armed trigger.
Earned(r) == job[r].outcome \in {"sent", "disabled"}

\* What one step of run r does to the outcomes and the triggers.
Disposes(r) ==
  /\ \A k \in RunIds \ {r} : job'[k] = job[k]
  /\ job'[r].task = job[r].task
  /\ Earned(r) => job'[r].outcome = job[r].outcome
  /\ job'[r].stage \in Silent => job'[r].outcome = "none"
  /\ job'[r].stage = "arming" => job'[r].outcome \in {"sent", "disabled"}
  /\ \A t \in Tasks : task'[t].met => task[t].met \/ (Earned(r) /\ job[r].task = t)

\* A run's own steps earn before they arm.
LEMMA RunDisposes ==
  ASSUME TypeOK, OutcomeByStage, NEW r \in RunIds, RunStep(r)
  PROVE  Disposes(r)
<1>a. /\ job \in [RunIds -> Job] /\ task \in [Tasks -> TaskRow]
      /\ job[r].stage \in Silent => job[r].outcome = "none"
      /\ job[r].stage = "arming" => job[r].outcome \in {"sent", "disabled"}
  BY DEF TypeOK, OutcomeByStage
<1>b. {"queued", "page", "failing", "judged", "loading", "sending", "rearming"} \subseteq Silent
  BY DEF Silent
<1>c. {"arming", "recording", "finishing", "done", "lost"} \cap Silent = {}
  BY DEF Silent
<1>1. ASSUME LockBrowser(r) PROVE Disposes(r)
  BY <1>a, <1>b, <1>1 DEF LockBrowser, At, Disposes, Earned, Job
<1>2. ASSUME NEW verdict \in {"met", "unmet", "error"}, Extract(r, verdict) PROVE Disposes(r)
  BY <1>a, <1>b, <1>2 DEF Extract, At, Disposes, Earned, Job
<1>3. ASSUME ReadArmed(r) PROVE Disposes(r)
  <2>1. PICK seen : job' = [job EXCEPT
          ![r].repeat = job[r].verdict = "met" /\ seen.mode = "always" /\ seen.met,
          ![r].stage = NextStage(job[r].verdict = "met", seen)]
    BY <1>3 DEF ReadArmed
  <2>2. NextStage(job[r].verdict = "met", seen) # "arming"
    BY DEF NextStage
  <2>3. UNCHANGED task /\ job[r].outcome = "none"
    BY <1>3, <1>a, <1>b DEF ReadArmed, At
  <2> QED BY <1>a, <2>1, <2>2, <2>3 DEF Disposes, Earned, Job
<1>4. ASSUME LoadChannels(r) PROVE Disposes(r)
  <2>1. UNCHANGED task /\ job[r].outcome = "none"
    BY <1>4, <1>a, <1>b DEF LoadChannels, At
  <2>2. \/ job' = [job EXCEPT ![r].outcome = "disabled", ![r].stage = "arming"]
        \/ job' = [job EXCEPT ![r].targets = attached[job[r].task], ![r].stage = "sending"]
        \/ job' = [job EXCEPT ![r].outcome = "error", ![r].stage = "finishing"]
    BY <1>4 DEF LoadChannels
  <2> QED BY <1>a, <1>c, <2>1, <2>2 DEF Disposes, Earned, Job
<1>5. ASSUME NEW reached \in SUBSET Channels, Send(r, reached) PROVE Disposes(r)
  <2>1. UNCHANGED task /\ job[r].outcome = "none"
    BY <1>5, <1>a, <1>b DEF Send, At
  <2> QED BY <1>5, <1>a, <1>c, <2>1 DEF Send, Disposes, Earned, Job
<1>6. ASSUME RecordAttempts(r) PROVE Disposes(r)
  <2>1. job' = [job EXCEPT ![r].stage = AfterRecording(job[r].outcome)] /\ UNCHANGED task
    BY <1>6 DEF RecordAttempts
  <2>2. /\ AfterRecording(job[r].outcome) \notin Silent
        /\ AfterRecording(job[r].outcome) = "arming" => job[r].outcome = "sent"
    BY <1>c DEF AfterRecording
  <2> QED BY <1>a, <2>1, <2>2 DEF Disposes, Earned, Job
<1>7. ASSUME Arm(r) PROVE Disposes(r)
  <2>1. job' = [job EXCEPT ![r].stage = "finishing"] /\ Earned(r)
    BY <1>7, <1>a DEF Arm, SetConditionMet, At, Earned
  <2>2. \A t \in Tasks : t # job[r].task => task'[t] = task[t]
    BY <1>7, <1>a DEF Arm, SetConditionMet
  <2> QED BY <1>a, <1>c, <2>1, <2>2 DEF Disposes, Job
<1>8. ASSUME Rearm(r) PROVE Disposes(r)
  <2>1. job' = [job EXCEPT ![r].stage = "finishing"]
    BY <1>8 DEF Rearm, SetConditionMet
  <2>2. \A t \in Tasks : task'[t].met => task[t].met
    BY <1>8, <1>a DEF Rearm, SetConditionMet, TaskRow
  <2> QED BY <1>a, <1>c, <2>1, <2>2 DEF Disposes, Job, Earned
<1>9. ASSUME NEW finished, Complete(r, finished) PROVE Disposes(r)
  <2>1. /\ UNCHANGED task
        /\ \E next \in {"done", "lost"} : job' = [job EXCEPT ![r].stage = next]
    BY <1>9 DEF Complete
  <2> QED BY <1>a, <1>c, <2>1 DEF Disposes, Earned, Job
<1>10. FailRun(r) \/ FinishRun(r) => Disposes(r)
  BY <1>9 DEF FailRun, FinishRun
<1> QED BY <1>1, <1>2, <1>3, <1>4, <1>5, <1>6, <1>7, <1>8, <1>10 DEF RunStep

\* A disposing step keeps every armed trigger earned.
LEMMA DisposesEarned ==
  ASSUME OutcomeByStage, ArmedIsEarned, NEW r \in RunIds, Disposes(r)
  PROVE  OutcomeByStage' /\ ArmedIsEarned'
<1>1. OutcomeByStage'
  BY DEF OutcomeByStage, Disposes
<1>2. \A k \in RunIds : Earned(k) => job'[k].outcome = job[k].outcome /\ job'[k].task = job[k].task
  BY DEF Disposes
<1>3. \A t \in Tasks : task'[t].met => \E k \in RunIds : job[k].task = t /\ Earned(k)
  BY DEF Disposes, ArmedIsEarned, Earned
<1>4. ArmedIsEarned'
  BY <1>2, <1>3 DEF ArmedIsEarned, Earned
<1> QED BY <1>1, <1>4

\* A step that arms nothing, and disturbs goroutines only by ending them or by
\* starting one that has dispatched nothing.
Spares ==
  /\ \A k \in RunIds :
       \/ job'[k] = job[k]
       \/ /\ job'[k].stage \in {"dead", "lost"}
          /\ job'[k].outcome = job[k].outcome /\ job'[k].task = job[k].task
       \/ /\ ~Earned(k)
          /\ job'[k].stage = "queued" /\ job'[k].outcome = "none"
  /\ \A t \in Tasks : task'[t].met => task[t].met

\* Such a step keeps every armed trigger earned.
LEMMA SparesEarned ==
  ASSUME OutcomeByStage, ArmedIsEarned, Spares
  PROVE  OutcomeByStage' /\ ArmedIsEarned'
<1>1. OutcomeByStage'
  BY DEF OutcomeByStage, Spares, Silent
<1>2. \A k \in RunIds : Earned(k) => Earned(k)' /\ job'[k].task = job[k].task
  BY DEF Spares, Earned
<1>3. \A t \in Tasks : task'[t].met => \E k \in RunIds : job[k].task = t /\ Earned(k)
  BY DEF Spares, ArmedIsEarned, Earned
<1>4. ArmedIsEarned'
  BY <1>2, <1>3 DEF ArmedIsEarned, Earned
<1> QED BY <1>1, <1>4

\* A new run has dispatched nothing.
LEMMA StartSpares ==
  ASSUME TypeOK, Accounted, NEW t \in Tasks, NEW source \in {"cron", "manual"},
         StartRun(t, source)
  PROVE  Spares
<1>a. job \in [RunIds -> Job] /\ task \in [Tasks -> TaskRow] /\ lastId \in 0..MaxRuns
  BY DEF TypeOK
<1> DEFINE new == lastId + 1
           born == [Unborn EXCEPT !.stage = "queued", !.task = t, !.rev = entry[t].rev]
<1>1. UNCHANGED task /\ job' = [job EXCEPT ![new] = born]
  BY DEF StartRun
<1>2. new \in RunIds /\ new > lastId
  BY <1>a DEF StartRun, RunIds
<1> HIDE DEF new
<1>3. job[new] = Unborn
  BY <1>2 DEF Accounted, FreshIds
<1>4. Unborn.outcome = "none"
  BY DEF Unborn
<1>5. ~Earned(new)
  BY <1>3, <1>4 DEF Earned
<1>6. born.stage = "queued" /\ born.outcome = "none"
  BY DEF Unborn
<1> HIDE DEF born
<1> QED BY <1>a, <1>1, <1>2, <1>5, <1>6 DEF Spares

\* An edit may disarm a trigger; it arms none and touches no goroutine.
LEMMA DashboardSpares ==
  ASSUME TypeOK, Dashboard
  PROVE  Spares
<1>a. job \in [RunIds -> Job] /\ task \in [Tasks -> TaskRow] /\ lastId \in 0..MaxRuns
  BY DEF TypeOK
<1>1. UNCHANGED job
  BY DEF Dashboard, EditSpec, EditMode, Reschedule, DeleteTask, CreateTask,
              SetChannels, DeleteChannel
<1>2. \A t \in Tasks : task'[t].met => task[t].met
  <2>1. ASSUME NEW u \in Tasks, EditSpec(u) \/ DeleteTask(u)
        PROVE  \A t \in Tasks : task'[t].met => task[t].met
    BY <2>1, <1>a DEF EditSpec, DeleteTask, TaskRow
  <2>2. ASSUME NEW u \in Tasks, NEW mode \in Modes, EditMode(u, mode)
        PROVE  \A t \in Tasks : task'[t].met => task[t].met
    BY <2>2, <1>a DEF EditMode, TaskRow
  <2>3. ASSUME NEW u \in Tasks, NEW mode \in Modes, NEW links, CreateTask(u, mode, links)
        PROVE  \A t \in Tasks : task'[t].met => task[t].met
    BY <2>3, <1>a DEF CreateTask
  <2>4. UNCHANGED task => \A t \in Tasks : task'[t].met => task[t].met
    OBVIOUS
  <2> QED BY <2>1, <2>2, <2>3, <2>4 DEF Dashboard, Reschedule, SetChannels, DeleteChannel
<1> QED BY <1>1, <1>2 DEF Spares

\* The process going down, pruning or booting touches no trigger.
LEMMA ProcessSpares ==
  ASSUME TypeOK, Process
  PROVE  Spares
<1>a. job \in [RunIds -> Job] /\ task \in [Tasks -> TaskRow] /\ lastId \in 0..MaxRuns
  BY DEF TypeOK
<1>1. UNCHANGED task
  BY DEF Process, Prune, Crash, BeginShutdown, CloseDatabase, Boot, Exit
<1>2. ASSUME NEW k \in RunIds, NEW stage \in {"dead", "lost"},
             job'[k] = [job[k] EXCEPT !.stage = stage]
      PROVE  /\ job'[k].stage \in {"dead", "lost"}
             /\ job'[k].outcome = job[k].outcome /\ job'[k].task = job[k].task
  BY <1>a, <1>2 DEF Job
<1>3. \/ UNCHANGED job
      \/ \A k \in RunIds : \/ job'[k] = job[k]
                           \/ job'[k] = [job[k] EXCEPT !.stage = "dead"]
                           \/ job'[k] = [job[k] EXCEPT !.stage = "lost"]
  BY DEF Process, Prune, Crash, BeginShutdown, CloseDatabase, Boot, Exit, Unswept
<1> QED BY <1>1, <1>2, <1>3 DEF Spares

\* An outcome comes before the trigger it arms.
LEMMA EarnsFirst == Spec => [](OutcomeByStage /\ ArmedIsEarned)
<1> DEFINE Inv == OutcomeByStage /\ ArmedIsEarned
<1>1. Init => Inv
  <2> SUFFICES ASSUME Init PROVE Inv
    OBVIOUS
  <2>1. \A t \in Tasks : ~task[t].met
    BY DEF Init
  <2>2. \A r \in RunIds : job[r].stage = "unborn" /\ job[r].outcome = "none"
    BY DEF Init, Unborn
  <2> QED BY <2>1, <2>2 DEF OutcomeByStage, ArmedIsEarned
<1>2. TypeOK /\ Accounted /\ Inv /\ [Next]_vars => Inv'
  <2> SUFFICES ASSUME TypeOK, Accounted, OutcomeByStage, ArmedIsEarned, [Next]_vars PROVE Inv'
    OBVIOUS
  <2>1. ASSUME NEW r \in RunIds, RunStep(r) PROVE Inv'
    BY <2>1, RunDisposes, DisposesEarned
  <2>2. CASE UNCHANGED vars
    BY <2>2 DEF vars, OutcomeByStage, ArmedIsEarned
  <2>3. CASE Spares
    BY <2>3, SparesEarned
  <2> QED BY <2>1, <2>2, <2>3, StartSpares, DashboardSpares, ProcessSpares DEF Next
<1> QED BY <1>1, <1>2, RowsAccounted, PTL DEF Spec

\* Whatever fails, overlaps or is edited meanwhile, a trigger is armed, and so holds
\* the task's next alert back, only after some run of the task got an alert through
\* or found no channel to alert: MarkTaskNotified follows a sent or disabled dispatch.
THEOREM EarnedArming == Spec => []ArmedIsEarned
BY EarnsFirst, PTL

-------------------------------------------------------------------------------
(* The clean stop *)

\* No goroutine gave its row up.
NoneLost == \A r \in RunIds : job[r].stage # "lost"

\* While the process drains, every goroutine at work is one the scheduler waits for.
CronOnly == server = "draining" => \A r \in RunIds : Live(r) => r \in cronJobs

\* A run stays in the scheduler's wait group until it ends, and ends with its row
\* resolved when no statement fails.
LEMMA RunStaysAwaited ==
  ASSUME TypeOK, "fault" \notin Disturbances, NEW r \in RunIds, RunStep(r)
  PROVE  /\ job'[r].stage # "lost"
         /\ Live(r)' => cronJobs' = cronJobs
         /\ cronJobs \ {r} \subseteq cronJobs'
<1>a. job \in [RunIds -> Job]
  BY DEF TypeOK
<1>1. ASSUME NEW finished, Complete(r, finished)
      PROVE  job'[r].stage = "done" /\ cronJobs' = cronJobs \ {r}
  <2>1. job' = [job EXCEPT ![r].stage = "done"]
    BY <1>1 DEF Complete, DbMayFail
  <2>2. cronJobs' = cronJobs \ {r}
    BY <1>1 DEF Complete, Return
  <2> QED BY <1>a, <2>1, <2>2 DEF Job
<1>2. FailRun(r) \/ FinishRun(r) => job'[r].stage = "done" /\ cronJobs' = cronJobs \ {r}
  BY <1>1 DEF FailRun, FinishRun
<1>3. ~(FailRun(r) \/ FinishRun(r)) => UNCHANGED cronJobs
  BY DEF RunStep, LockBrowser, Extract, ReadArmed, LoadChannels, Send, RecordAttempts,
         Arm, Rearm, SetConditionMet
<1>4. ASSUME ~(FailRun(r) \/ FinishRun(r)) PROVE job'[r].stage # "lost"
  <2>1. ASSUME ReadArmed(r) PROVE job'[r].stage # "lost"
    <3>1. PICK seen : job' = [job EXCEPT
            ![r].repeat = job[r].verdict = "met" /\ seen.mode = "always" /\ seen.met,
            ![r].stage = NextStage(job[r].verdict = "met", seen)]
      BY <2>1 DEF ReadArmed
    <3>2. NextStage(job[r].verdict = "met", seen) # "lost"
      BY DEF NextStage
    <3> QED BY <1>a, <3>1, <3>2 DEF Job
  <2>2. ASSUME NEW verdict, Extract(r, verdict) PROVE job'[r].stage # "lost"
    BY <1>a, <2>2 DEF Extract, Job
  <2>3. ASSUME NEW reached, Send(r, reached) PROVE job'[r].stage # "lost"
    BY <1>a, <2>3 DEF Send, Job
  <2>4. LockBrowser(r) \/ LoadChannels(r) => job'[r].stage # "lost"
    BY <1>a DEF LockBrowser, LoadChannels, Job
  <2>5. Arm(r) \/ Rearm(r) => job'[r].stage # "lost"
    BY <1>a DEF Arm, Rearm, SetConditionMet, Job
  <2>6. RecordAttempts(r) => job'[r].stage # "lost"
    BY <1>a DEF RecordAttempts, AfterRecording, Job
  <2> QED BY <1>4, <2>1, <2>2, <2>3, <2>4, <2>5, <2>6 DEF RunStep
<1>5. job'[r].stage = "done" => ~Live(r)'
  BY DEF Live, Working
<1> QED BY <1>2, <1>3, <1>4, <1>5

\* While nothing is lost and every run in flight is cron's, a stop drains them all.
LEMMA DrainsCleanly ==
  ASSUME "stop" \notin Disturbances, "fault" \notin Disturbances
  PROVE  Spec => [](NoneLost /\ CronOnly /\ StopsCleanly)
<1> DEFINE Inv == NoneLost /\ CronOnly /\ StopsCleanly
<1>1. Init => Inv
  BY DEF Init, NoneLost, CronOnly, StopsCleanly, Unborn
<1>2. TypeOK /\ Accounted /\ Inv /\ [Next]_vars => Inv'
  <2> SUFFICES ASSUME TypeOK, Accounted, NoneLost, CronOnly, StopsCleanly, [Next]_vars
               PROVE  Inv'
    OBVIOUS
  <2>a. job \in [RunIds -> Job]
    BY DEF TypeOK
  <2>1. ASSUME NEW r \in RunIds, RunStep(r) PROVE Inv'
    <3>1. Advances(r)
      BY <2>1, RunAdvances
    <3>2. NoneLost'
      BY <2>1, <3>1, RunStaysAwaited DEF NoneLost, Advances
    <3>3. CronOnly'
      BY <2>1, <3>1, RunStaysAwaited DEF CronOnly, Advances, Live
    <3>4. StopsCleanly'
      BY <3>1 DEF Advances, Running, StopsCleanly
    <3> QED BY <3>2, <3>3, <3>4
  <2>2. ASSUME NEW t \in Tasks, NEW source \in {"cron", "manual"}, StartRun(t, source)
        PROVE  Inv'
    <3>1. server' = "up"
      BY <2>2 DEF StartRun
    <3>2. NoneLost'
      <4> DEFINE new == lastId + 1
                 born == [Unborn EXCEPT !.stage = "queued", !.task = t, !.rev = entry[t].rev]
      <4>1. job' = [job EXCEPT ![new] = born]
        BY <2>2 DEF StartRun
      <4>2. born.stage = "queued"
        BY DEF Unborn
      <4> HIDE DEF new, born
      <4> QED BY <2>a, <4>1, <4>2 DEF NoneLost
    <3> QED BY <3>1, <3>2 DEF CronOnly, StopsCleanly
  <2>3. ASSUME Dashboard \/ \E old \in 1..lastId : Prune(old) PROVE Inv'
    <3>1. server' = "up" /\ UNCHANGED job
      BY <2>3 DEF Dashboard, EditSpec, EditMode, Reschedule, DeleteTask, CreateTask,
                  SetChannels, DeleteChannel, Prune
    <3> QED BY <3>1 DEF NoneLost, CronOnly, StopsCleanly
  <2>4. ASSUME Crash \/ CloseDatabase PROVE Inv'
    <3>1. \A r \in RunIds : job'[r] = job[r] \/ job'[r] = [job[r] EXCEPT !.stage = "dead"]
      BY <2>4 DEF Crash, CloseDatabase, Exit
    <3>2. NoneLost'
      BY <2>a, <3>1 DEF NoneLost, Job
    <3>3. server' \in {"stopped", "crashed"} /\ UNCHANGED row
      BY <2>4 DEF Crash, CloseDatabase, Exit
    <3>4. ASSUME CloseDatabase, NEW r \in RunIds PROVE row[r].status # "running"
      <4>1. ~Live(r)
        BY <3>4 DEF CloseDatabase, Drained, CronOnly
      <4>2. Running
        BY <3>4 DEF CloseDatabase, Running
      <4> QED BY <4>1, <4>2 DEF Accounted, RunningHasOwner, NoneLost
    <3>5. server' = "stopped" => CloseDatabase
      BY <2>4 DEF Crash
    <3> QED BY <3>2, <3>3, <3>4, <3>5 DEF CronOnly, StopsCleanly
  <2>5. ASSUME BeginShutdown PROVE Inv'
    BY <2>5 DEF BeginShutdown, NoneLost, CronOnly, StopsCleanly, Live
  <2>6. ASSUME NEW old \in 0..lastId, Boot(old) PROVE Inv'
    BY <2>6 DEF Boot, DbMayFail, NoneLost, CronOnly, StopsCleanly
  <2>7. CASE UNCHANGED vars
    BY <2>7 DEF vars, NoneLost, CronOnly, StopsCleanly, Live
  <2> QED BY <2>1, <2>2, <2>3, <2>4, <2>5, <2>6, <2>7 DEF Next, Process
<1> QED BY <1>1, <1>2, RowsAccounted, PTL DEF Spec

\* If no statement fails and the process is only stopped while every run in flight is
\* cron's, a stop leaves no row in progress: Registry.Stop waits for them all before
\* the database is closed. (With a detached "run now" in flight it is false.)
THEOREM CleanStop ==
  ASSUME "stop" \notin Disturbances, "fault" \notin Disturbances
  PROVE  Spec => []StopsCleanly
BY DrainsCleanly, PTL

-------------------------------------------------------------------------------
(* The edge trigger *)

\* Nothing but the deletion of a channel happens to a task while it runs.
Undisturbed == Disturbances \subseteq {"channel"}

\* A run that has yet to leave its mark on the trigger, if it will leave one.
Acting(r) == Live(r) /\ job[r].stage # "finishing"

\* The runs of the definition a task has now.
Of(r, t) == job[r].task = t /\ job[r].rev = task[t].rev

\* A run in flight is its task's last one, and of the definition the task has.
LiveIsLatest ==
  \A r \in RunIds : Live(r) =>
    /\ \A k \in RunIds : job[k].task = job[r].task => k <= r
    /\ task[job[r].task].exists
    /\ job[r].rev = task[job[r].task].rev

\* Revisions are handed out in order.
NoLaterDefinition ==
  \A t \in Tasks, k \in RunIds : job[k].task = t => job[k].rev <= task[t].rev

\* What the goroutine of a run knows at each stage, of a trigger that is armed or not.
Knows(j, armed) ==
  /\ j.stage \in Silent => j.reached = {}
  /\ j.stage \in {"queued", "page"} => j.verdict = "none"
  /\ j.stage = "failing" => j.verdict = "error"
  /\ j.stage = "judged" => j.verdict \in {"met", "unmet"}
  /\ j.stage = "rearming" => j.verdict = "unmet"
  /\ j.stage \in {"loading", "sending", "recording", "arming"} =>
       j.verdict = "met" /\ j.repeat = armed
  /\ j.stage = "recording" => j.outcome = IF j.reached # {} THEN "sent" ELSE "error"

LocalsKnown == \A r \in RunIds : Live(r) => Knows(job[r], task[job[r].task].met)

\* An armed trigger: some run got its alert through, or had nobody to tell, and none
\* since has seen the condition false.
Told(t) ==
  \E r \in RunIds :
    /\ Of(r, t) /\ ~Acting(r)
    /\ Earned(r)
    /\ \A k \in RunIds : r < k /\ Of(k, t) /\ ~Acting(k) => job[k].verdict # "unmet"

\* A disarmed one: every alert was followed by a run that saw the condition false.
Cleared(t) ==
  \A r \in RunIds : Of(r, t) /\ ~Acting(r) /\ Alerted(r) =>
    \E k \in RunIds : r < k /\ Of(k, t) /\ ~Acting(k) /\ job[k].verdict = "unmet"

TriggerTrue ==
  \A t \in Tasks : task[t].exists => IF task[t].met THEN Told(t) ELSE Cleared(t)

\* What excuses a run that owed nothing although it saw the condition true.
Excused(s) ==
  \E r \in RunIds :
    /\ r < s
    /\ SameDefinition(r, s)
    /\ job[r].outcome \in {"sent", "disabled"}
    /\ \A k \in RunIds :
         r < k /\ k < s /\ SameDefinition(k, s) => job[k].verdict # "unmet"

SilentExcused ==
  \A s \in RunIds :
    job[s].stage \in {"finishing", "done"} /\ job[s].verdict = "met" /\ job[s].outcome = "none"
      => Excused(s)

TriggerInv ==
  /\ LiveIsLatest /\ NoLaterDefinition /\ LocalsKnown
  /\ TriggerTrue /\ SilentExcused /\ AlertOncePerFlip

-------------------------------------------------------------------------------
(* One step of a run, as the trigger and the history see it. *)

\* It leaves everybody else alone, its definition and every other trigger too.
Alone(r) ==
  /\ \A k \in RunIds \ {r} : job'[k] = job[k]
  /\ job'[r].task = job[r].task /\ job'[r].rev = job[r].rev
  /\ \A t \in Tasks : /\ task'[t].exists = task[t].exists
                      /\ task'[t].rev = task[t].rev
                      /\ t # job[r].task => task'[t].met = task[t].met

\* It does not leave its mark yet,
GoesOn(r) ==
  /\ Acting(r) /\ Acting(r)'
  /\ task'[job[r].task].met = task[job[r].task].met
\* finds that its alert is not owed,
Spared(r) ==
  /\ Acting(r) /\ job'[r].stage = "finishing"
  /\ task[job[r].task].met /\ task'[job[r].task].met
  /\ job'[r].verdict = "met" /\ job'[r].outcome = "none" /\ job'[r].reached = {}
\* finds the condition false,
Clears(r) ==
  /\ Acting(r) /\ job'[r].stage = "finishing"
  /\ ~task'[job[r].task].met
  /\ job'[r].verdict = "unmet" /\ job'[r].outcome = "none" /\ job'[r].reached = {}
\* has told,
Tells(r) ==
  /\ Acting(r) /\ job'[r].stage = "finishing"
  /\ task'[job[r].task].met
  /\ job'[r].verdict = "met" /\ job'[r].outcome \in {"sent", "disabled"}
  /\ job'[r].reached = job[r].reached /\ job'[r].repeat = job[r].repeat
\* could not tell, or could not judge,
Misses(r) ==
  /\ Acting(r) /\ job'[r].stage \in {"finishing", "done"}
  /\ task'[job[r].task].met = task[job[r].task].met
  /\ job'[r].reached = {} /\ job'[r].verdict # "unmet"
  /\ ~(job'[r].verdict = "met" /\ job'[r].outcome = "none")
\* or has only its row to write.
Ends(r) ==
  /\ job[r].stage = "finishing" /\ job'[r].stage = "done"
  /\ task'[job[r].task].met = task[job[r].task].met
  /\ job'[r].verdict = job[r].verdict /\ job'[r].outcome = job[r].outcome
  /\ job'[r].reached = job[r].reached /\ job'[r].repeat = job[r].repeat

\* An alert is sent only while the trigger is disarmed, or again.
AlertsWhenOwed(r) ==
  Alerted(r)' /\ ~job'[r].repeat =>
    \/ Alerted(r) /\ ~job[r].repeat
    \/ Acting(r) /\ ~task[job[r].task].met /\ job'[r].verdict = "met"

Turn(r) ==
  /\ Live(r) /\ Alone(r) /\ AlertsWhenOwed(r)
  /\ GoesOn(r) \/ Spared(r) \/ Clears(r) \/ Tells(r) \/ Misses(r) \/ Ends(r)
  /\ Live(r)' => Knows(job'[r], task'[job[r].task].met)

\* Every step of a run is one of these.
LEMMA RunTurns ==
  ASSUME Undisturbed, TypeOK, OutcomeByStage, LocalsKnown, LiveIsLatest,
         NEW r \in RunIds, RunStep(r)
  PROVE  Turn(r)
<1> DEFINE own == job[r].task
<1>a. /\ job \in [RunIds -> Job] /\ task \in [Tasks -> TaskRow]
      /\ job[r].stage \in Silent => job[r].outcome = "none"
      /\ job[r].stage = "arming" => job[r].outcome \in {"sent", "disabled"}
  BY DEF TypeOK, OutcomeByStage
<1>b. Live(r) /\ own \in Tasks
  BY DEF RunStep, LockBrowser, Extract, FailRun, ReadArmed, LoadChannels, Send, RecordAttempts,
         Arm, Rearm, FinishRun, At, Live, Working, TypeOK
<1>c. Knows(job[r], task[own].met) /\ task[own].exists
  BY <1>b DEF LocalsKnown, LiveIsLatest
<1>d. ~DbMayFail
  BY DEF DbMayFail, Undisturbed
<1> HIDE DEF own
<1>1. ASSUME LockBrowser(r) PROVE Turn(r)
  <2>1. job' = [job EXCEPT ![r].stage = "page"] /\ UNCHANGED task /\ job[r].stage = "queued"
    BY <1>1 DEF LockBrowser, At
  <2> QED BY <1>a, <1>b, <1>c, <2>1 DEF Turn, Alone, GoesOn, Acting, Live, Working, AlertsWhenOwed,
       Alerted, Knows, Silent, Job, own
<1>2. ASSUME NEW verdict \in {"met", "unmet", "error"}, Extract(r, verdict) PROVE Turn(r)
  <2>1. /\ job' = [job EXCEPT ![r].verdict = verdict,
                              ![r].stage = IF verdict = "error" THEN "failing" ELSE "judged"]
        /\ UNCHANGED task /\ job[r].stage = "page"
    BY <1>2 DEF Extract, At
  <2> QED BY <1>a, <1>b, <1>c, <2>1 DEF Turn, Alone, GoesOn, Acting, Live, Working, AlertsWhenOwed,
       Alerted, Knows, Silent, Job, own
<1>3. ASSUME ReadArmed(r) PROVE Turn(r)
  <2> DEFINE met == job[r].verdict = "met"
             seen == Persisted(own)
             next == NextStage(met, seen)
  <2>1. /\ job' = [job EXCEPT ![r].repeat = met /\ seen.mode = "always" /\ seen.met,
                              ![r].stage = next]
        /\ UNCHANGED task /\ job[r].stage = "judged"
    BY <1>3, <1>d DEF ReadArmed, At, own
  <2>2. seen.met = task[own].met
    BY <1>c DEF Persisted
  <2> HIDE DEF seen
  <2>3. CASE met /\ (seen.mode = "always" \/ ~seen.met)
    BY <1>a, <1>b, <1>c, <2>1, <2>2, <2>3 DEF NextStage, Turn, Alone, GoesOn, Acting, Live, Working,
       AlertsWhenOwed, Alerted, Knows, Silent, Job, own, TaskRow
  <2>4. CASE ~met /\ seen.met
    BY <1>a, <1>b, <1>c, <2>1, <2>2, <2>4 DEF NextStage, Turn, Alone, GoesOn, Acting, Live, Working,
       AlertsWhenOwed, Alerted, Knows, Silent, Job, own, TaskRow
  <2>5. CASE met /\ seen.met /\ seen.mode # "always"
    BY <1>a, <1>b, <1>c, <2>1, <2>2, <2>5 DEF NextStage, Turn, Alone, Spared, Acting, Live, Working,
       AlertsWhenOwed, Alerted, Knows, Silent, Job, own, TaskRow
  <2>6. CASE ~met /\ ~seen.met
    BY <1>a, <1>b, <1>c, <2>1, <2>2, <2>6 DEF NextStage, Turn, Alone, Clears, Acting, Live, Working,
       AlertsWhenOwed, Alerted, Knows, Silent, Job, own, TaskRow
  <2> QED BY <2>3, <2>4, <2>5, <2>6
<1>4. ASSUME LoadChannels(r) PROVE Turn(r)
  <2>1. UNCHANGED task /\ job[r].stage = "loading"
    BY <1>4 DEF LoadChannels, At
  <2>2. \/ job' = [job EXCEPT ![r].outcome = "disabled", ![r].stage = "arming"]
        \/ job' = [job EXCEPT ![r].targets = attached[own], ![r].stage = "sending"]
    BY <1>4, <1>d DEF LoadChannels, own
  <2> QED BY <1>a, <1>b, <1>c, <2>1, <2>2 DEF Turn, Alone, GoesOn, Acting, Live, Working,
       AlertsWhenOwed, Alerted, Knows, Silent, Job, own
<1>5. ASSUME NEW reached \in SUBSET Channels, Send(r, reached) PROVE Turn(r)
  <2>1. /\ UNCHANGED task /\ job[r].stage = "sending"
        /\ job' = [job EXCEPT ![r].reached = reached,
                              ![r].outcome = IF reached # {} THEN "sent" ELSE "error",
                              ![r].stage = "recording"]
    BY <1>5 DEF Send, At, Aggregate
  <2> QED BY <1>a, <1>b, <1>c, <2>1 DEF Turn, Alone, GoesOn, Acting, Live, Working,
       AlertsWhenOwed, Alerted, Knows, Silent, Job, own
<1>6. ASSUME RecordAttempts(r) PROVE Turn(r)
  <2>1. /\ UNCHANGED task /\ job[r].stage = "recording"
        /\ job' = [job EXCEPT ![r].stage = IF job[r].outcome = "sent" THEN "arming" ELSE "finishing"]
    BY <1>6 DEF RecordAttempts, At, AfterRecording
  <2>2. CASE job[r].outcome = "sent"
    BY <1>a, <1>b, <1>c, <2>1, <2>2 DEF Turn, Alone, GoesOn, Acting, Live, Working,
       AlertsWhenOwed, Alerted, Knows, Silent, Job, own
  <2>3. CASE job[r].outcome # "sent"
    BY <1>a, <1>b, <1>c, <2>1, <2>3 DEF Turn, Alone, Misses, Acting, Live, Working,
       AlertsWhenOwed, Alerted, Knows, Silent, Job, own
  <2> QED BY <2>2, <2>3
<1>7. ASSUME Arm(r) PROVE Turn(r)
  <2>1. /\ job' = [job EXCEPT ![r].stage = "finishing"] /\ job[r].stage = "arming"
        /\ task' = [task EXCEPT ![own].met = TRUE]
    BY <1>7, <1>c, <1>d DEF Arm, SetConditionMet, At, own
  <2>2. /\ task'[own].met
        /\ \A u \in Tasks : /\ task'[u].exists = task[u].exists
                            /\ task'[u].rev = task[u].rev
                            /\ u # own => task'[u].met = task[u].met
    BY <1>a, <1>b, <2>1 DEF TaskRow
  <2>3. Alone(r)
    <3>1. /\ \A k \in RunIds \ {r} : job'[k] = job[k]
          /\ job'[r].task = job[r].task /\ job'[r].rev = job[r].rev
      BY <1>a, <2>1 DEF Job
    <3> QED BY <2>2, <3>1 DEF Alone, own
  <2>4. Tells(r) /\ AlertsWhenOwed(r)
    BY <1>a, <1>b, <1>c, <2>1, <2>2 DEF Tells, Acting, Live, Working, AlertsWhenOwed, Alerted, Knows, Job, own
  <2>5. Knows(job'[r], task'[own].met)
    BY <1>a, <2>1 DEF Knows, Silent, Job
  <2> QED BY <1>b, <2>3, <2>4, <2>5 DEF Turn, own
<1>8. ASSUME Rearm(r) PROVE Turn(r)
  <2>1. /\ job' = [job EXCEPT ![r].stage = "finishing"] /\ job[r].stage = "rearming"
        /\ task' = [task EXCEPT ![own].met = FALSE]
    BY <1>8, <1>c, <1>d DEF Rearm, SetConditionMet, At, own
  <2>2. /\ ~task'[own].met
        /\ \A u \in Tasks : /\ task'[u].exists = task[u].exists
                            /\ task'[u].rev = task[u].rev
                            /\ u # own => task'[u].met = task[u].met
    BY <1>a, <1>b, <2>1 DEF TaskRow
  <2>3. Alone(r)
    <3>1. /\ \A k \in RunIds \ {r} : job'[k] = job[k]
          /\ job'[r].task = job[r].task /\ job'[r].rev = job[r].rev
      BY <1>a, <2>1 DEF Job
    <3> QED BY <2>2, <3>1 DEF Alone, own
  <2>4. Clears(r) /\ AlertsWhenOwed(r)
    BY <1>a, <1>b, <1>c, <2>1, <2>2 DEF Clears, Acting, Live, Working, AlertsWhenOwed, Alerted,
       Knows, Silent, Job, own
  <2>5. Knows(job'[r], task'[own].met)
    BY <1>a, <2>1 DEF Knows, Silent, Job
  <2> QED BY <1>b, <2>3, <2>4, <2>5 DEF Turn, own
<1>9. ASSUME NEW finished, Complete(r, finished), job[r].stage \in {"failing", "finishing"}
      PROVE  Turn(r)
  <2>1. job' = [job EXCEPT ![r].stage = "done"] /\ UNCHANGED task
    BY <1>9, <1>d DEF Complete
  <2>2. Alone(r) /\ AlertsWhenOwed(r) /\ ~Live(r)'
    BY <1>a, <2>1 DEF Alone, AlertsWhenOwed, Alerted, Live, Working, Job
  <2>3. CASE job[r].stage = "failing"
    <3>1. Misses(r)
      BY <1>a, <1>b, <1>c, <2>1, <2>3 DEF Misses, Acting, Live, Working, Knows, Silent, Job, own
    <3> QED BY <1>b, <2>2, <3>1 DEF Turn
  <2>4. CASE job[r].stage = "finishing"
    <3>1. Ends(r)
      BY <1>a, <1>b, <1>c, <2>1, <2>4 DEF Ends, Job, own
    <3> QED BY <1>b, <2>2, <3>1 DEF Turn
  <2> QED BY <1>9, <2>3, <2>4
<1>10. FailRun(r) \/ FinishRun(r) => Turn(r)
  BY <1>9 DEF FailRun, FinishRun, At
<1> QED BY <1>1, <1>2, <1>3, <1>4, <1>5, <1>6, <1>7, <1>8, <1>10 DEF RunStep

\* A step of a run keeps the trigger and the history in step.
LEMMA TurnKeeps ==
  ASSUME TypeOK, OutcomeByStage, LiveIsLatest, NoLaterDefinition, LocalsKnown, TriggerTrue,
         SilentExcused, AlertOncePerFlip, NEW r \in RunIds, Turn(r)
  PROVE  /\ LiveIsLatest' /\ NoLaterDefinition' /\ LocalsKnown'
         /\ TriggerTrue' /\ SilentExcused' /\ AlertOncePerFlip'
<1> DEFINE own == job[r].task
<1>a. own \in Tasks /\ RunIds \subseteq Nat
  BY DEF TypeOK, Turn, Live, Working, RunIds
<1>b. /\ \A k \in RunIds : job[k].task = own => k <= r
      /\ task[own].exists /\ Of(r, own)
  BY DEF LiveIsLatest, Turn, Of
<1>c. \A k \in RunIds \ {r} : job[k].task = own => ~Live(k) /\ k < r
  BY <1>a, <1>b DEF LiveIsLatest
<1>d. /\ Alone(r) /\ Live(r)
      /\ job'[r].stage \in {"finishing", "done"} \/ Acting(r)'
  BY DEF Turn, GoesOn, Spared, Clears, Tells, Misses, Ends
<1>e. \A k \in RunIds \ {r} :
        /\ job'[k] = job[k]
        /\ Live(k)' <=> Live(k)
        /\ Acting(k)' <=> Acting(k)
        /\ Alerted(k)' <=> Alerted(k)
        /\ Earned(k)' <=> Earned(k)
  BY <1>d DEF Alone, Live, Acting, Alerted, Earned
<1>f. /\ \A k \in RunIds : job'[k].task = job[k].task /\ job'[k].rev = job[k].rev
      /\ \A k, s \in RunIds : SameDefinition(k, s)' <=> SameDefinition(k, s)
      /\ \A k \in RunIds, t \in Tasks : Of(k, t)' <=> Of(k, t)
  BY <1>d DEF Alone, SameDefinition, Of
<1>g. \A t \in Tasks : task'[t].exists = task[t].exists /\ task'[t].rev = task[t].rev
  BY <1>d DEF Alone
<1>h. \A t \in Tasks \ {own} : task'[t].met = task[t].met
  BY <1>d DEF Alone
<1> HIDE DEF own
<1>1. LiveIsLatest'
  <2> SUFFICES ASSUME NEW s \in RunIds, Live(s)'
               PROVE  /\ \A k \in RunIds : job'[k].task = job'[s].task => k <= s
                      /\ task'[job'[s].task].exists
                      /\ job'[s].rev = task'[job'[s].task].rev
    BY DEF LiveIsLatest
  <2>1. Live(s)
    BY <1>d, <1>e
  <2>2. job[s].task \in Tasks
    BY <2>1 DEF TypeOK, Live, Working
  <2> QED BY <2>1, <2>2, <1>f, <1>g DEF LiveIsLatest
<1>2. NoLaterDefinition'
  BY <1>f, <1>g DEF NoLaterDefinition
<1>3. LocalsKnown'
  <2> SUFFICES ASSUME NEW s \in RunIds, Live(s)'
               PROVE  Knows(job'[s], task'[job'[s].task].met)
    BY DEF LocalsKnown
  <2>1. CASE s = r
    BY <2>1, <1>f DEF Turn
  <2>2. CASE s # r
    <3>1. Live(s) /\ job[s].task # own /\ job[s].task \in Tasks
      BY <2>2, <1>c, <1>e DEF TypeOK, Live, Working
    <3> QED BY <2>2, <3>1, <1>e, <1>f, <1>h DEF LocalsKnown
  <2> QED BY <2>1, <2>2
<1>4. TriggerTrue'
  <2> SUFFICES ASSUME NEW t \in Tasks, task'[t].exists
               PROVE  IF task'[t].met THEN Told(t)' ELSE Cleared(t)'
    BY DEF TriggerTrue
  <2>1. IF task[t].met THEN Told(t) ELSE Cleared(t)
    BY <1>g DEF TriggerTrue
  <2>2. ASSUME \A k \in RunIds : Of(k, t) =>
                 /\ Acting(k)' <=> Acting(k)
                 /\ Alerted(k)' <=> Alerted(k)
                 /\ Earned(k)' <=> Earned(k)
                 /\ job'[k].verdict = job[k].verdict
        PROVE  (Told(t)' <=> Told(t)) /\ (Cleared(t)' <=> Cleared(t))
    BY <2>2, <1>f DEF Told, Cleared
  <2>3. CASE t # own
    <3>1. \A k \in RunIds : Of(k, t) => k # r
      BY <2>3 DEF Of, own
    <3> QED BY <2>1, <2>2, <2>3, <3>1, <1>e, <1>h
  <2>4. CASE t = own /\ GoesOn(r)
    <3>1. task'[t].met = task[t].met /\ Acting(r) /\ Acting(r)'
      BY <2>4 DEF GoesOn, own
    <3> QED BY <2>1, <3>1, <1>e, <1>f DEF Told, Cleared
  <2>5. CASE t = own /\ Spared(r)
    <3>1. task[t].met /\ task'[t].met /\ Acting(r) /\ job'[r].verdict = "met"
      BY <2>5 DEF Spared, own
    <3> QED BY <2>1, <3>1, <1>e, <1>f DEF Told
  <2>6. CASE t = own /\ Clears(r)
    <3>1. ~task'[t].met /\ ~Acting(r)' /\ job'[r].verdict = "unmet" /\ ~Alerted(r)'
      BY <2>6 DEF Clears, own, Acting, Alerted
    <3>2. Of(r, t)'
      BY <2>6, <1>b, <1>f
    <3>3. \A k \in RunIds : Of(k, t)' /\ Alerted(k)' => k < r
      BY <2>6, <3>1, <1>c, <1>f DEF Of
    <3> QED BY <3>1, <3>2, <3>3 DEF Cleared
  <2>7. CASE t = own /\ Tells(r)
    <3>1. task'[t].met /\ ~Acting(r)' /\ Earned(r)'
      BY <2>7 DEF Tells, own, Acting, Earned
    <3>2. Of(r, t)' /\ \A k \in RunIds : Of(k, t)' => ~(r < k)
      BY <2>7, <1>a, <1>b, <1>f DEF Of
    <3> QED BY <3>1, <3>2 DEF Told
  <2>8. CASE t = own /\ Misses(r)
    <3>1. task'[t].met = task[t].met /\ Acting(r) /\ job'[r].verdict # "unmet" /\ ~Alerted(r)'
      BY <2>8 DEF Misses, own, Alerted
    <3> QED BY <2>1, <3>1, <1>e, <1>f DEF Told, Cleared
  <2>9. CASE t = own /\ Ends(r)
    <3>1. /\ task'[t].met = task[t].met /\ ~Acting(r) /\ ~Acting(r)'
          /\ job'[r].verdict = job[r].verdict
          /\ Alerted(r)' <=> Alerted(r)
          /\ Earned(r)' <=> Earned(r)
      BY <2>9 DEF Ends, own, Acting, Alerted, Earned, Live, Working
    <3> QED BY <2>1, <2>2, <3>1, <1>e
  <2> QED BY <2>3, <2>4, <2>5, <2>6, <2>7, <2>8, <2>9 DEF Turn
<1>5. SilentExcused'
  <2> SUFFICES ASSUME NEW s \in RunIds, job'[s].stage \in {"finishing", "done"},
                      job'[s].verdict = "met", job'[s].outcome = "none"
               PROVE  Excused(s)'
    BY DEF SilentExcused
  <2>1. ASSUME NEW q \in RunIds, q < s, q # r, SameDefinition(q, s),
               job[q].outcome \in {"sent", "disabled"},
               \A k \in RunIds : q < k /\ k < s /\ SameDefinition(k, s) => job'[k].verdict # "unmet"
        PROVE  Excused(s)'
    BY <2>1, <1>e, <1>f DEF Excused
  <2>2. CASE s # r
    <3>1. Excused(s)
      BY <2>2, <1>e DEF SilentExcused
    <3>2. PICK q \in RunIds : /\ q < s /\ SameDefinition(q, s)
                              /\ job[q].outcome \in {"sent", "disabled"}
                              /\ \A k \in RunIds :
                                   q < k /\ k < s /\ SameDefinition(k, s) => job[k].verdict # "unmet"
      BY <3>1 DEF Excused
    <3>3. ~(r < s /\ SameDefinition(r, s))
      BY <2>2, <1>a, <1>c DEF SameDefinition, own
    <3> QED BY <2>1, <3>2, <3>3, <1>e
  <2>3. CASE s = r /\ Spared(r)
    <3>1. Told(own) /\ Acting(r)
      BY <2>3, <1>a, <1>b DEF Spared, TriggerTrue, own
    <3>2. PICK q \in RunIds : /\ Of(q, own) /\ ~Acting(q) /\ Earned(q)
                              /\ \A k \in RunIds : q < k /\ Of(k, own) /\ ~Acting(k) =>
                                                     job[k].verdict # "unmet"
      BY <3>1 DEF Told
    <3>3. q # r /\ q < r /\ SameDefinition(q, r) /\ job[q].outcome \in {"sent", "disabled"}
      BY <3>1, <3>2, <1>b, <1>c DEF Of, SameDefinition, Earned
    <3>4. ASSUME NEW k \in RunIds, q < k, k < r, SameDefinition(k, r)
          PROVE  job'[k].verdict # "unmet"
      <4>1. k # r
        BY <3>4, <1>a
      <4>2. Of(k, own) /\ ~Acting(k)
        BY <3>4, <4>1, <1>b, <1>c DEF Of, SameDefinition, Acting, own
      <4> QED BY <3>2, <3>4, <4>1, <4>2, <1>e
    <3> QED BY <2>1, <2>3, <3>3, <3>4
  <2>4. CASE s = r /\ Ends(r)
    <3>1. Excused(r)
      BY <2>4 DEF SilentExcused, Ends
    <3>2. PICK q \in RunIds : /\ q < r /\ SameDefinition(q, r)
                              /\ job[q].outcome \in {"sent", "disabled"}
                              /\ \A k \in RunIds :
                                   q < k /\ k < r /\ SameDefinition(k, r) => job[k].verdict # "unmet"
      BY <3>1 DEF Excused
    <3>3. q # r /\ \A k \in RunIds : k < r => k # r
      BY <3>2, <1>a
    <3> QED BY <2>1, <2>4, <3>2, <3>3, <1>e
  <2>5. s = r => Spared(r) \/ Ends(r)
    BY DEF Turn, GoesOn, Clears, Tells, Misses, Acting, Live, Working
  <2> QED BY <2>2, <2>3, <2>4, <2>5
<1>6. AlertOncePerFlip'
  <2> SUFFICES ASSUME NEW q \in RunIds, NEW s \in RunIds,
                      q < s, SameDefinition(q, s), Alerted(q)', Alerted(s)', ~job'[s].repeat
               PROVE  \E k \in RunIds : q <= k /\ k < s /\ SameDefinition(k, s)
                                        /\ job'[k].verdict = "unmet"
    BY <1>f DEF AlertOncePerFlip
  <2>1. q # r
    BY <1>a, <1>b, <1>f DEF SameDefinition, own
  <2>2. Alerted(q)
    BY <2>1, <1>e
  <2>3. ASSUME Alerted(s), ~job[s].repeat
        PROVE  \E k \in RunIds : q <= k /\ k < s /\ SameDefinition(k, s)
                                 /\ job'[k].verdict = "unmet"
    <3>1. PICK k \in RunIds : q <= k /\ k < s /\ SameDefinition(k, s) /\ job[k].verdict = "unmet"
      BY <2>2, <2>3 DEF AlertOncePerFlip
    <3>2. k # r
      BY <3>1, <1>a, <1>b DEF SameDefinition, own
    <3> QED BY <3>1, <3>2, <1>e
  <2>4. CASE s # r
    BY <2>3, <2>4, <1>e
  <2>5. CASE s = r /\ ~(Alerted(r) /\ ~job[r].repeat)
    <3>1. Acting(r) /\ ~task[own].met /\ job'[r].verdict = "met"
      BY <2>5 DEF Turn, AlertsWhenOwed, own
    <3>2. Cleared(own)
      BY <3>1, <1>a, <1>b DEF TriggerTrue
    <3>3. Of(q, own) /\ ~Acting(q)
      BY <2>1, <2>5, <1>b, <1>c DEF Of, SameDefinition, Acting, own
    <3>4. PICK k \in RunIds : q < k /\ Of(k, own) /\ ~Acting(k) /\ job[k].verdict = "unmet"
      BY <2>2, <3>2, <3>3 DEF Cleared
    <3>5. k # r
      BY <3>1, <3>4
    <3>6. k < r /\ SameDefinition(k, r)
      BY <3>4, <3>5, <1>b, <1>c DEF Of, SameDefinition
    <3> QED BY <2>5, <3>4, <3>5, <3>6, <1>a, <1>e
  <2> QED BY <2>3, <2>4, <2>5
<1> QED BY <1>1, <1>2, <1>3, <1>4, <1>5, <1>6

-------------------------------------------------------------------------------
(* The other steps *)

\* No run moves, and no definition changes under a run in flight.
Quiet ==
  /\ UNCHANGED job
  /\ \A t \in Tasks :
       \/ /\ task'[t].exists = task[t].exists
          /\ task'[t].rev = task[t].rev
          /\ task'[t].met = task[t].met
       \/ Idle(t) /\ ~task'[t].exists /\ task'[t].rev = task[t].rev
       \/ Idle(t) /\ task'[t].rev = task[t].rev + 1 /\ ~task'[t].met

\* A definition nobody has run yet has a trigger that is rightly disarmed.
LEMMA QuietKeeps ==
  ASSUME TypeOK, LiveIsLatest, NoLaterDefinition, LocalsKnown, TriggerTrue,
         SilentExcused, AlertOncePerFlip, Quiet
  PROVE  /\ LiveIsLatest' /\ NoLaterDefinition' /\ LocalsKnown'
         /\ TriggerTrue' /\ SilentExcused' /\ AlertOncePerFlip'
<1>a. UNCHANGED job
  BY DEF Quiet
<1>b. /\ \A k \in RunIds : job[k].rev \in Nat
      /\ \A t \in Tasks : task[t].rev \in Nat
  BY DEF TypeOK, Job, TaskRow
<1>c. ASSUME NEW r \in RunIds, Live(r)
      PROVE  /\ job[r].task \in Tasks
             /\ ~Idle(job[r].task)
  BY <1>c DEF TypeOK, Live, Working, Idle, LiveRuns
<1>d. ASSUME NEW r \in RunIds, Live(r)
      PROVE  LET t == job[r].task IN /\ task'[t].exists = task[t].exists
                                     /\ task'[t].rev = task[t].rev
                                     /\ task'[t].met = task[t].met
  BY <1>c, <1>d DEF Quiet
<1>1. LiveIsLatest'
  BY <1>a, <1>d DEF LiveIsLatest, Live
<1>2. NoLaterDefinition'
  BY <1>a, <1>b DEF NoLaterDefinition, Quiet
<1>3. LocalsKnown'
  BY <1>a, <1>d DEF LocalsKnown, Live
<1>4. TriggerTrue'
  <2> SUFFICES ASSUME NEW t \in Tasks, task'[t].exists
               PROVE  IF task'[t].met THEN Told(t)' ELSE Cleared(t)'
    BY DEF TriggerTrue
  <2>1. CASE /\ task'[t].exists = task[t].exists
             /\ task'[t].rev = task[t].rev
             /\ task'[t].met = task[t].met
    <3>1. \A k \in RunIds : /\ Of(k, t)' <=> Of(k, t)
                            /\ Acting(k)' <=> Acting(k)
                            /\ Earned(k)' <=> Earned(k)
                            /\ Alerted(k)' <=> Alerted(k)
      BY <1>a, <2>1 DEF Of, Acting, Live, Earned, Alerted
    <3> QED BY <1>a, <2>1, <3>1 DEF TriggerTrue, Told, Cleared
  <2>2. CASE task'[t].rev = task[t].rev + 1 /\ ~task'[t].met
    <3>1. \A k \in RunIds : ~Of(k, t)'
      BY <1>a, <1>b, <2>2 DEF Of, NoLaterDefinition
    <3> QED BY <2>2, <3>1 DEF Cleared
  <2> QED BY <2>1, <2>2 DEF Quiet
<1>5. SilentExcused'
  BY <1>a DEF SilentExcused, Excused, SameDefinition
<1>6. AlertOncePerFlip'
  BY <1>a DEF AlertOncePerFlip, SameDefinition, Alerted
<1> QED BY <1>1, <1>2, <1>3, <1>4, <1>5, <1>6

\* The dashboard changes or deletes a definition only while it is idle.
LEMMA DashboardQuiet ==
  ASSUME Undisturbed, TypeOK, Dashboard
  PROVE  Quiet
<1>a. task \in [Tasks -> TaskRow]
  BY DEF TypeOK
<1>1. UNCHANGED job
  BY DEF Dashboard, EditSpec, EditMode, Reschedule, DeleteTask, CreateTask,
              SetChannels, DeleteChannel
<1>2. ASSUME NEW u \in Tasks, EditSpec(u) PROVE Quiet
  <2>1. Idle(u) /\ task' = [task EXCEPT ![u].rev = @ + 1, ![u].met = FALSE]
    BY <1>2 DEF EditSpec, May, Undisturbed
  <2> QED BY <1>a, <1>1, <2>1 DEF Quiet, TaskRow
<1>3. ASSUME NEW u \in Tasks, NEW mode \in Modes, EditMode(u, mode) PROVE Quiet
  <2>1. task' = [task EXCEPT ![u].mode = mode]
    BY <1>3 DEF EditMode
  <2> QED BY <1>a, <1>1, <2>1 DEF Quiet, TaskRow
<1>4. ASSUME NEW u \in Tasks, DeleteTask(u) PROVE Quiet
  <2>1. Idle(u) /\ task' = [task EXCEPT ![u].exists = FALSE, ![u].met = FALSE]
    BY <1>4 DEF DeleteTask, May, Undisturbed
  <2> QED BY <1>a, <1>1, <2>1 DEF Quiet, TaskRow
<1>5. ASSUME NEW u \in Tasks, NEW mode \in Modes, NEW links, CreateTask(u, mode, links) PROVE Quiet
  <2>1. Idle(u) /\ task' = [task EXCEPT ![u] = [exists |-> TRUE, met |-> FALSE, mode |-> mode,
                                                 rev |-> @.rev + 1]]
    BY <1>5 DEF CreateTask, May, Undisturbed
  <2> QED BY <1>a, <1>1, <2>1 DEF Quiet, TaskRow
<1>6. UNCHANGED task => Quiet
  BY <1>1 DEF Quiet
<1> QED BY <1>2, <1>3, <1>4, <1>5, <1>6 DEF Dashboard, Reschedule, SetChannels, DeleteChannel

\* The process stops or dies only under runs it waits for, or under none.
LEMMA ProcessQuiet ==
  ASSUME Undisturbed, TypeOK, CronOnly, Process
  PROVE  Quiet
<1>a. job \in [RunIds -> Job]
  BY DEF TypeOK
<1>1. UNCHANGED task
  BY DEF Process, Prune, Crash, BeginShutdown, CloseDatabase, Boot, Exit
<1>2. UNCHANGED job => Quiet
  BY <1>1 DEF Quiet
<1>3. ASSUME Exit, \A r \in RunIds : ~Live(r) PROVE UNCHANGED job
  BY <1>a, <1>3 DEF Exit
<1>4. ASSUME Crash PROVE Quiet
  <2>1. \A t \in Tasks : Idle(t)
    BY <1>4 DEF Crash, May, Undisturbed
  <2>2. \A r \in RunIds : ~Live(r)
    BY <2>1 DEF TypeOK, Live, Working, Idle, LiveRuns
  <2> QED BY <1>2, <1>3, <1>4, <2>2 DEF Crash
<1>5. ASSUME CloseDatabase PROVE Quiet
  <2>1. \A r \in RunIds : ~Live(r)
    BY <1>5 DEF CloseDatabase, Drained, CronOnly
  <2> QED BY <1>2, <1>3, <1>5, <2>1 DEF CloseDatabase
<1>6. ASSUME NEW old, Boot(old) \/ Prune(old) \/ BeginShutdown PROVE Quiet
  <2>1. UNCHANGED job
    BY <1>6 DEF Boot, Prune, BeginShutdown, DbMayFail, Undisturbed
  <2> QED BY <2>1, <1>2
<1> QED BY <1>4, <1>5, <1>6 DEF Process

\* A new run is its task's last, and has yet to leave a mark.
LEMMA StartKeeps ==
  ASSUME Undisturbed, TypeOK, Accounted, LiveIsLatest, NoLaterDefinition, LocalsKnown,
         TriggerTrue, SilentExcused, AlertOncePerFlip,
         NEW t \in Tasks, NEW source \in {"cron", "manual"}, StartRun(t, source)
  PROVE  /\ LiveIsLatest' /\ NoLaterDefinition' /\ LocalsKnown'
         /\ TriggerTrue' /\ SilentExcused' /\ AlertOncePerFlip'
<1>a. job \in [RunIds -> Job] /\ lastId \in 0..MaxRuns /\ RunIds \subseteq Nat
  BY DEF TypeOK, RunIds
<1> PICK new \in RunIds : new = lastId + 1
  BY <1>a DEF StartRun, RunIds
<1> PICK born : born = [Unborn EXCEPT !.stage = "queued", !.task = t, !.rev = entry[t].rev]
  OBVIOUS
<1>b. UNCHANGED task /\ job' = [job EXCEPT ![new] = born]
  BY DEF StartRun
<1>c. new \in RunIds /\ new > lastId
  BY <1>a
<1>d. /\ Idle(t) /\ task[t].exists /\ entry[t].rev = task[t].rev
  BY DEF StartRun, May, Undisturbed
<1>e. /\ born.stage = "queued" /\ born.task = t /\ born.rev = task[t].rev
      /\ born.verdict = "none" /\ born.reached = {} /\ born.outcome = "none"
  BY <1>d DEF Unborn
<1>f. \A k \in RunIds : k >= new => job[k] = Unborn
  BY <1>a DEF Accounted, FreshIds
<1>g. \A k \in RunIds : k >= new => job[k].task \notin Tasks /\ ~Live(k)
  BY <1>f DEF Unborn, Live, Working
<1>h. /\ job'[new] = born
      /\ \A k \in RunIds \ {new} : job'[k] = job[k]
  BY <1>a, <1>b, <1>c
<1>i. Live(new)' /\ Acting(new)' /\ ~Alerted(new)'
  BY <1>e, <1>h DEF Live, Working, Acting, Alerted
<1>j. \A k \in RunIds \ {new} :
        /\ Live(k)' <=> Live(k)
        /\ Acting(k)' <=> Acting(k)
        /\ Alerted(k)' <=> Alerted(k)
        /\ Earned(k)' <=> Earned(k)
        /\ \A u \in Tasks : Of(k, u)' <=> Of(k, u)
  BY <1>b, <1>h DEF Live, Acting, Alerted, Earned, Of
<1>k. \A k \in RunIds : job[k].task \in Tasks => k < new
  BY <1>a, <1>c, <1>g
<1>1. LiveIsLatest'
  <2> SUFFICES ASSUME NEW s \in RunIds, Live(s)'
               PROVE  /\ \A k \in RunIds : job'[k].task = job'[s].task => k <= s
                      /\ task[job'[s].task].exists
                      /\ job'[s].rev = task[job'[s].task].rev
    BY <1>b DEF LiveIsLatest
  <2>1. CASE s = new
    <3>1. \A k \in RunIds : job'[k].task = t => k <= new
      BY <1>a, <1>c, <1>h, <1>k
    <3> QED BY <2>1, <3>1, <1>d, <1>e, <1>h
  <2>2. CASE s # new
    <3>1. Live(s) /\ job[s].task \in Tasks /\ job[s].task # t
      BY <2>2, <1>d, <1>j DEF TypeOK, Live, Working, Idle, LiveRuns
    <3>2. \A k \in RunIds : job'[k].task = job[s].task => k # new /\ job[k].task = job[s].task
      BY <3>1, <1>e, <1>h
    <3>3. job'[s] = job[s]
      BY <2>2, <1>h
    <3> QED BY <3>1, <3>2, <3>3 DEF LiveIsLatest
  <2> QED BY <2>1, <2>2
<1>2. NoLaterDefinition'
  <2>1. task[t].rev \in Nat
    BY DEF TypeOK, TaskRow
  <2> QED BY <2>1, <1>b, <1>e, <1>h DEF NoLaterDefinition
<1>3. LocalsKnown'
  <2>1. \A armed : Knows(born, armed)
    BY <1>e DEF Knows
  <2> QED BY <2>1, <1>b, <1>h, <1>j DEF LocalsKnown
<1>4. TriggerTrue'
  <2> SUFFICES ASSUME NEW u \in Tasks, task[u].exists
               PROVE  IF task[u].met THEN Told(u)' ELSE Cleared(u)'
    BY <1>b DEF TriggerTrue
  <2>1. IF task[u].met THEN Told(u) ELSE Cleared(u)
    BY DEF TriggerTrue
  <2>2. ~Of(new, u)
    BY <1>c, <1>k, <1>a DEF Of
  <2> QED BY <2>1, <2>2, <1>h, <1>i, <1>j DEF Told, Cleared
<1>5. SilentExcused'
  <2> SUFFICES ASSUME NEW s \in RunIds, job'[s].stage \in {"finishing", "done"},
                      job'[s].verdict = "met", job'[s].outcome = "none"
               PROVE  Excused(s)'
    BY DEF SilentExcused
  <2>1. s # new
    BY <1>e, <1>h
  <2>2. job[s].task \in Tasks
    BY <2>1, <1>h DEF TypeOK
  <2>3. s < new
    BY <2>2, <1>k
  <2>4. \A k \in RunIds : k < s => k # new
    BY <2>3, <1>a, <1>c
  <2>5. Excused(s)
    BY <2>1, <1>h DEF SilentExcused
  <2>6. \A k \in RunIds : k < s => (SameDefinition(k, s)' <=> SameDefinition(k, s))
    BY <2>1, <2>4, <1>h DEF SameDefinition
  <2> QED BY <2>4, <2>5, <2>6, <1>h DEF Excused
<1>6. AlertOncePerFlip'
  <2> SUFFICES ASSUME NEW q \in RunIds, NEW s \in RunIds,
                      q < s, SameDefinition(q, s)', Alerted(q)', Alerted(s)', ~job'[s].repeat
               PROVE  \E k \in RunIds : q <= k /\ k < s /\ SameDefinition(k, s)'
                                        /\ job'[k].verdict = "unmet"
    BY DEF AlertOncePerFlip
  <2>1. q # new /\ s # new
    BY <1>i
  <2>3. s < new
    <3>1. Alerted(s)
      BY <2>1, <1>j
    <3>2. job[s] # Unborn
      BY <3>1 DEF Alerted, Unborn
    <3> QED BY <3>2, <1>a, <1>c, <1>f
  <2>4. PICK k \in RunIds : q <= k /\ k < s /\ SameDefinition(k, s) /\ job[k].verdict = "unmet"
    BY <2>1, <1>h, <1>j DEF AlertOncePerFlip, SameDefinition
  <2>5. k # new
    BY <2>3, <2>4, <1>a, <1>c
  <2> QED BY <2>1, <2>4, <2>5, <1>h DEF SameDefinition
<1> QED BY <1>1, <1>2, <1>3, <1>4, <1>5, <1>6

\* At boot every trigger is disarmed and no run has said anything.
LEMMA TriggerInit == Init => TriggerInv
<1> SUFFICES ASSUME Init PROVE TriggerInv
  OBVIOUS
<1>1. /\ \A r \in RunIds : job[r] = Unborn
      /\ \A t \in Tasks : ~task[t].met
  BY DEF Init
<1>2. /\ \A r \in RunIds : ~Live(r) /\ ~Alerted(r)
      /\ \A r \in RunIds : job[r].stage = "unborn" /\ job[r].task = NoTask
  BY <1>1 DEF Live, Working, Alerted, Unborn
<1> QED BY <1>1, <1>2 DEF RunnerAssumption, TriggerInv, LiveIsLatest, NoLaterDefinition, LocalsKnown,
     TriggerTrue, Cleared, SilentExcused, AlertOncePerFlip

\* No step takes the trigger and the history apart.
LEMMA TriggerStep ==
  ASSUME Undisturbed, TypeOK, Accounted, OutcomeByStage, CronOnly, TriggerInv, [Next]_vars
  PROVE  TriggerInv'
<1>1. ASSUME NEW r \in RunIds, RunStep(r) PROVE TriggerInv'
  BY <1>1, RunTurns, TurnKeeps DEF TriggerInv
<1>2. ASSUME NEW t \in Tasks, NEW source \in {"cron", "manual"}, StartRun(t, source)
      PROVE  TriggerInv'
  BY <1>2, StartKeeps DEF TriggerInv
<1>3. CASE Dashboard \/ Process
  BY <1>3, DashboardQuiet, ProcessQuiet, QuietKeeps DEF TriggerInv
<1>4. CASE UNCHANGED vars
  <2>1. Quiet
    BY <1>4 DEF vars, Quiet
  <2> QED BY <2>1, QuietKeeps DEF TriggerInv
<1> QED BY <1>1, <1>2, <1>3, <1>4 DEF Next

\* The trigger agrees with the history of its task while nothing but the deletion of
\* a channel happens under a run.
LEMMA TriggerAgrees ==
  ASSUME Undisturbed
  PROVE  Spec => []TriggerInv
<1>1. Spec => [](NoneLost /\ CronOnly /\ StopsCleanly)
  BY DrainsCleanly DEF Undisturbed
<1>2. TypeOK /\ Accounted /\ OutcomeByStage /\ CronOnly /\ TriggerInv /\ [Next]_vars => TriggerInv'
  BY TriggerStep
<1> QED BY <1>1, <1>2, TriggerInit, RowsAccounted, EarnsFirst, PTL DEF Spec

\* README, "Notifications are edge-triggered": while runs of a task do not overlap,
\* are not edited, crashed or shut down under, and every statement succeeds, an alert
\* is never repeated before a run in between has seen the condition false (the armed
\* state read from the database), unless the mode is "always". Each of the five other
\* disturbances alone refutes it, and FlipsNotSwallowed too.
THEOREM OneAlertPerFlip ==
  ASSUME Undisturbed
  PROVE  Spec => []AlertOncePerFlip
<1>1. TriggerInv => AlertOncePerFlip
  BY DEF TriggerInv
<1> QED BY <1>1, TriggerAgrees, PTL

\* The same runs never swallow a flip: one that saw the condition true and sent
\* nothing follows an alert got through (or owed to nobody) with no run seeing the
\* condition false in between; a failed dispatch is retried, an edit re-arms.
THEOREM FlipsNotSwallowed ==
  ASSUME Undisturbed
  PROVE  Spec => []NoSwallowedFlip
<1>1. TriggerInv => NoSwallowedFlip
  BY DEF TriggerInv, SilentExcused, Excused, NoSwallowedFlip
<1> QED BY <1>1, TriggerAgrees, PTL

-------------------------------------------------------------------------------
(* The breakdown of an alert *)

Blank(w) == w.delivered = {} /\ w.undelivered = {}

\* The recorded attempts w are those of an alert with this outcome.
Agrees(outcome, w) ==
  /\ (outcome = "sent") = (w.delivered # {})
  /\ outcome = "error" => w.undelivered # {}
  /\ outcome \in {"none", "disabled"} => w.undelivered = {}

\* A row and the goroutine that owns it: nothing is recorded before the attempts are,
\* and from then on the row says what the goroutine knows.
Fits(j, w) ==
  /\ w.status = "unused" => Blank(w)
  /\ w.status = "running" /\ j.stage \in Silent \cup {"recording"} => Blank(w)
  /\ w.status = "running" /\ j.stage \in {"arming", "finishing"} => Agrees(j.outcome, w)
  /\ w.status = "success" => /\ w.notified = (w.notification = "sent")
                             /\ Agrees(w.notification, w)

\* An alert under way has somebody to reach, and they exist: the rows of its
\* attempts are accepted.
Aims(j, existing) ==
  /\ j.stage \in {"sending", "recording"} => j.targets # {} /\ j.targets \subseteq existing
  /\ j.stage = "recording" => /\ j.reached \subseteq j.targets
                              /\ j.outcome = IF j.reached # {} THEN "sent" ELSE "error"

BreakdownInv ==
  /\ \A t \in Tasks : attached[t] \subseteq channels
  /\ \A r \in RunIds : Fits(job[r], row[r]) /\ Aims(job[r], channels)

\* A run's own step keeps its row in step with its goroutine.
LEMMA RunFits ==
  ASSUME "fault" \notin Disturbances, TypeOK, Accounted, OutcomeByStage, BreakdownInv,
         NEW r \in RunIds, RunStep(r)
  PROVE  Fits(job'[r], row'[r]) /\ Aims(job'[r], channels)
<1> DEFINE own == job[r].task
<1>a. /\ job \in [RunIds -> Job] /\ row \in [RunIds -> RunRow]
      /\ job[r].stage \in Silent => job[r].outcome = "none"
      /\ Fits(job[r], row[r]) /\ Aims(job[r], channels)
  BY DEF TypeOK, OutcomeByStage, BreakdownInv
<1>b. Live(r)
  BY DEF RunStep, LockBrowser, Extract, FailRun, ReadArmed, LoadChannels, Send, RecordAttempts,
         Arm, Rearm, FinishRun, At, Live, Working
<1>c. row[r].status \in {"running", "gone"} /\ attached[own] \subseteq channels
  BY <1>b DEF Accounted, LiveRowsOpen, BreakdownInv, TypeOK, Live, Working
<1>d. ~DbMayFail
  BY DEF DbMayFail
<1> HIDE DEF own
<1>1. ASSUME LockBrowser(r) PROVE Fits(job'[r], row'[r]) /\ Aims(job'[r], channels)
  <2>1. /\ job' = [job EXCEPT ![r].stage = "page"] /\ UNCHANGED row /\ job[r].stage = "queued"
    BY <1>1 DEF LockBrowser, At
  <2> QED BY <1>a, <1>c, <2>1 DEF Fits, Aims, Silent, Job
<1>2. ASSUME NEW verdict \in {"met", "unmet", "error"}, Extract(r, verdict)
      PROVE  Fits(job'[r], row'[r]) /\ Aims(job'[r], channels)
  <2>1. /\ job' = [job EXCEPT ![r].verdict = verdict,
                              ![r].stage = IF verdict = "error" THEN "failing" ELSE "judged"]
        /\ UNCHANGED row /\ job[r].stage = "page"
    BY <1>2 DEF Extract, At
  <2> QED BY <1>a, <1>c, <2>1 DEF Fits, Aims, Silent, Job
<1>3. ASSUME ReadArmed(r) PROVE Fits(job'[r], row'[r]) /\ Aims(job'[r], channels)
  <2>1. /\ UNCHANGED row /\ job[r].stage = "judged"
        /\ \E seen : job' = [job EXCEPT
             ![r].repeat = job[r].verdict = "met" /\ seen.mode = "always" /\ seen.met,
             ![r].stage = NextStage(job[r].verdict = "met", seen)]
    BY <1>3 DEF ReadArmed, At
  <2>2. PICK next \in {"loading", "rearming", "finishing"} :
          job'[r].stage = next /\ job'[r].outcome = job[r].outcome
    BY <1>a, <2>1 DEF NextStage, Job
  <2>3. Blank(row[r]) \/ row[r].status = "gone"
    BY <1>a, <1>c, <2>1 DEF Fits, Silent
  <2>4. job[r].outcome = "none"
    BY <1>a, <2>1 DEF Silent
  <2> QED BY <1>c, <2>1, <2>2, <2>3, <2>4 DEF Fits, Aims, Silent, Blank, Agrees
<1>4. ASSUME LoadChannels(r) PROVE Fits(job'[r], row'[r]) /\ Aims(job'[r], channels)
  <2>1. UNCHANGED row /\ job[r].stage = "loading"
    BY <1>4 DEF LoadChannels, At
  <2>2. Blank(row[r]) \/ row[r].status = "gone"
    BY <1>a, <1>c, <2>1 DEF Fits, Silent
  <2>3. CASE job' = [job EXCEPT ![r].outcome = "disabled", ![r].stage = "arming"]
    <3>1. job'[r].outcome = "disabled" /\ job'[r].stage = "arming"
      BY <1>a, <2>3 DEF Job
    <3> QED BY <1>c, <2>1, <2>2, <3>1 DEF Fits, Aims, Silent, Blank, Agrees
  <2>4. CASE attached[own] # {} /\ job' = [job EXCEPT ![r].targets = attached[own],
                                                      ![r].stage = "sending"]
    <3>1. job'[r].targets = attached[own] /\ job'[r].stage = "sending"
      BY <1>a, <2>4 DEF Job
    <3> QED BY <1>c, <2>1, <2>2, <2>4, <3>1 DEF Fits, Aims, Silent, Blank
  <2> QED BY <1>4, <1>d, <2>3, <2>4 DEF LoadChannels, own
<1>5. ASSUME NEW reached \in SUBSET Channels, Send(r, reached)
      PROVE  Fits(job'[r], row'[r]) /\ Aims(job'[r], channels)
  <2>1. /\ UNCHANGED row /\ job[r].stage = "sending" /\ reached \subseteq job[r].targets
        /\ job' = [job EXCEPT ![r].reached = reached,
                              ![r].outcome = IF reached # {} THEN "sent" ELSE "error",
                              ![r].stage = "recording"]
    BY <1>5 DEF Send, At, Aggregate
  <2>2. /\ job'[r].reached = reached /\ job'[r].targets = job[r].targets
        /\ job'[r].outcome = IF reached # {} THEN "sent" ELSE "error"
        /\ job'[r].stage = "recording"
    BY <1>a, <2>1 DEF Job
  <2> QED BY <1>a, <1>c, <2>1, <2>2 DEF Fits, Aims, Silent
<1>6. ASSUME RecordAttempts(r) PROVE Fits(job'[r], row'[r]) /\ Aims(job'[r], channels)
  <2>1. /\ job[r].stage = "recording"
        /\ job' = [job EXCEPT ![r].stage = IF job[r].outcome = "sent" THEN "arming" ELSE "finishing"]
    BY <1>6 DEF RecordAttempts, At, AfterRecording
  <2>2. /\ job'[r].stage \in {"arming", "finishing"}
        /\ job'[r].outcome = job[r].outcome
    BY <1>a, <2>1 DEF Job
  <2>3. Aims(job'[r], channels)
    BY <2>2 DEF Aims
  <2>4. CASE row[r].status = "gone"
    <3>1. row'[r] = row[r]
      BY <1>6, <2>4 DEF RecordAttempts, AttemptsAccepted
    <3> QED BY <2>2, <2>3, <2>4, <3>1 DEF Fits
  <2>5. CASE row[r].status = "running"
    <3>1. AttemptsAccepted(r)
      BY <1>a, <2>1, <2>5 DEF AttemptsAccepted, Aims
    <3>2. row' = [row EXCEPT ![r].delivered = job[r].reached,
                             ![r].undelivered = job[r].targets \ job[r].reached]
      BY <1>6, <1>d, <3>1 DEF RecordAttempts
    <3>3. /\ row'[r].status = "running"
          /\ row'[r].delivered = job[r].reached
          /\ row'[r].undelivered = job[r].targets \ job[r].reached
      BY <1>a, <2>5, <3>2 DEF RunRow
    <3>4. Agrees(job[r].outcome, row'[r])
      BY <1>a, <2>1, <3>3 DEF Agrees, Aims
    <3> QED BY <2>2, <2>3, <3>3, <3>4 DEF Fits, Silent
  <2> QED BY <1>c, <2>4, <2>5
<1>7. ASSUME Arm(r) \/ Rearm(r) PROVE Fits(job'[r], row'[r]) /\ Aims(job'[r], channels)
  <2>1. /\ UNCHANGED row /\ job' = [job EXCEPT ![r].stage = "finishing"]
        /\ job[r].stage \in {"arming", "rearming"}
    BY <1>7 DEF Arm, Rearm, SetConditionMet, At
  <2>2. job'[r].stage = "finishing" /\ job'[r].outcome = job[r].outcome
    BY <1>a, <2>1 DEF Job
  <2>3. row[r].status = "running" => Agrees(job[r].outcome, row[r])
    BY <1>a, <2>1 DEF Fits, Agrees, Blank, Silent
  <2> QED BY <1>c, <2>1, <2>2, <2>3 DEF Fits, Aims, Silent
<1>8. ASSUME NEW finished, Complete(r, finished), finished.status # "unused",
             finished.status # "running", Fits(job[r], row[r]),
             row[r].status = "running" /\ finished.status = "success" =>
               /\ finished.notified = (finished.notification = "sent")
               /\ Agrees(finished.notification, finished)
      PROVE  Fits(job'[r], row'[r]) /\ Aims(job'[r], channels)
  <2>1. job' = [job EXCEPT ![r].stage = "done"] /\ row' = [row EXCEPT ![r] = Stored(r, finished)]
    BY <1>8, <1>d DEF Complete
  <2>2. job'[r].stage = "done" /\ row'[r] = Stored(r, finished)
    BY <1>a, <2>1 DEF Job
  <2> QED BY <1>8, <1>c, <2>2 DEF Stored, Fits, Aims, Silent
<1>9. ASSUME FailRun(r) PROVE Fits(job'[r], row'[r]) /\ Aims(job'[r], channels)
  <2> DEFINE finished == [row[r] EXCEPT !.status = "failed"]
  <2>1. finished.status = "failed"
    BY <1>a DEF RunRow
  <2>2. Complete(r, finished)
    BY <1>9 DEF FailRun
  <2> HIDE DEF finished
  <2> QED BY <1>a, <1>8, <2>1, <2>2
<1>10. ASSUME FinishRun(r) PROVE Fits(job'[r], row'[r]) /\ Aims(job'[r], channels)
  <2> DEFINE finished == [row[r] EXCEPT !.status = "success",
                                        !.met = job[r].verdict = "met",
                                        !.notified = job[r].outcome = "sent",
                                        !.notification = job[r].outcome]
  <2>1. /\ finished.status = "success"
        /\ finished.notified = (job[r].outcome = "sent")
        /\ finished.notification = job[r].outcome
        /\ finished.delivered = row[r].delivered /\ finished.undelivered = row[r].undelivered
    BY <1>a DEF RunRow
  <2>2. Complete(r, finished) /\ job[r].stage = "finishing"
    BY <1>10 DEF FinishRun, At
  <2> HIDE DEF finished
  <2>3. row[r].status = "running" => Agrees(finished.notification, finished)
    BY <1>a, <2>1, <2>2 DEF Fits, Agrees
  <2> QED BY <1>a, <1>8, <2>1, <2>2, <2>3
<1> QED BY <1>1, <1>2, <1>3, <1>4, <1>5, <1>6, <1>7, <1>9, <1>10 DEF RunStep

\* A step that starts no run leaves its row, or deletes it, or fails it from outside;
\* the goroutine goes on or dies.
Leaves(r) ==
  /\ row'[r] = row[r] \/ row'[r].status \in {"gone", "failed"}
  /\ job'[r] = job[r] \/ job'[r].stage = "dead"

\* No channel of an alert under way goes.
LEMMA LeavesFits ==
  ASSUME BreakdownInv, \A r \in RunIds : Leaves(r),
         \A t \in Tasks : attached'[t] \subseteq channels',
         UNCHANGED channels \/ \A r \in RunIds : ~Live(r)
  PROVE  BreakdownInv'
<1> SUFFICES ASSUME NEW r \in RunIds
             PROVE  Fits(job'[r], row'[r]) /\ Aims(job'[r], channels')
  BY DEF BreakdownInv
<1>1. Fits(job'[r], row'[r])
  BY DEF BreakdownInv, Leaves, Fits, Silent
<1>2. Aims(job'[r], channels')
  BY DEF BreakdownInv, Leaves, Aims, Live, Working
<1> QED BY <1>1, <1>2

\* The dashboard only deletes rows, and a channel only under no run.
LEMMA DashboardLeaves ==
  ASSUME "channel" \notin Disturbances, TypeOK, BreakdownInv, Dashboard
  PROVE  /\ \A r \in RunIds : Leaves(r)
         /\ \A t \in Tasks : attached'[t] \subseteq channels'
         /\ UNCHANGED channels \/ \A r \in RunIds : ~Live(r)
<1>a. /\ row \in [RunIds -> RunRow] /\ attached \in [Tasks -> SUBSET Channels]
      /\ \A t \in Tasks : attached[t] \subseteq channels
  BY DEF TypeOK, BreakdownInv
<1>1. UNCHANGED job
  BY DEF Dashboard, EditSpec, EditMode, Reschedule, DeleteTask, CreateTask,
              SetChannels, DeleteChannel
<1>2. \A r \in RunIds : row'[r] = row[r] \/ row'[r].status \in {"gone", "failed"}
  <2>1. ASSUME NEW t \in Tasks, DeleteTask(t)
        PROVE  \A r \in RunIds : row'[r] = row[r] \/ row'[r].status \in {"gone", "failed"}
    BY <2>1 DEF DeleteTask, EmptyRow
  <2>2. UNCHANGED row \/ \E t \in Tasks : DeleteTask(t)
    BY DEF Dashboard, EditSpec, EditMode, Reschedule, CreateTask, SetChannels, DeleteChannel
  <2> QED BY <2>1, <2>2
<1>3. ASSUME NEW t \in Tasks, NEW links, links \subseteq channels,
             attached' = [attached EXCEPT ![t] = links], UNCHANGED channels
      PROVE  \A u \in Tasks : attached'[u] \subseteq channels'
  BY <1>a, <1>3
<1>4. ASSUME NEW c \in Channels, DeleteChannel(c)
      PROVE  /\ \A u \in Tasks : attached'[u] \subseteq channels'
             /\ \A r \in RunIds : ~Live(r)
  <2>1. \A u \in Tasks : attached'[u] \subseteq channels'
    BY <1>a, <1>4 DEF DeleteChannel
  <2>2. \A u \in Tasks : Idle(u)
    BY <1>4 DEF DeleteChannel, May
  <2> QED BY <2>1, <2>2 DEF TypeOK, Live, Working, Idle, LiveRuns
<1>5. ASSUME NEW t \in Tasks,
             \/ EditSpec(t) \/ Reschedule(t) \/ DeleteTask(t)
             \/ \E mode \in Modes : EditMode(t, mode)
             \/ \E mode \in Modes, links \in SUBSET Channels : CreateTask(t, mode, links)
             \/ \E links \in SUBSET Channels : SetChannels(t, links)
      PROVE  UNCHANGED channels /\ \A u \in Tasks : attached'[u] \subseteq channels'
  <2>1. UNCHANGED channels
    BY <1>5 DEF EditSpec, EditMode, Reschedule, DeleteTask, CreateTask, SetChannels
  <2>2. \/ UNCHANGED attached
        \/ \E links : links \subseteq channels /\ attached' = [attached EXCEPT ![t] = links]
    BY <1>5 DEF EditSpec, EditMode, Reschedule, DeleteTask, CreateTask, SetChannels
  <2> QED BY <1>3, <1>a, <2>1, <2>2
<1> QED BY <1>1, <1>2, <1>4, <1>5 DEF Dashboard, Leaves

\* The process only kills goroutines, and deletes or fails rows.
LEMMA ProcessLeaves ==
  ASSUME "fault" \notin Disturbances, TypeOK, BreakdownInv, Process
  PROVE  /\ \A r \in RunIds : Leaves(r)
         /\ UNCHANGED <<channels, attached>>
<1>a. job \in [RunIds -> Job] /\ row \in [RunIds -> RunRow]
  BY DEF TypeOK
<1>1. UNCHANGED <<channels, attached>>
  BY DEF Process, Prune, Crash, BeginShutdown, CloseDatabase, Boot, Exit
<1>2. ASSUME NEW r \in RunIds PROVE job'[r] = job[r] \/ job'[r].stage = "dead"
  <2>1. \/ UNCHANGED job
        \/ job'[r] = job[r]
        \/ job'[r] = [job[r] EXCEPT !.stage = "dead"]
    BY DEF Process, Prune, Crash, BeginShutdown, CloseDatabase, Boot, Exit, DbMayFail
  <2> QED BY <1>a, <2>1 DEF Job
<1>3. ASSUME NEW r \in RunIds PROVE row'[r] = row[r] \/ row'[r].status \in {"gone", "failed"}
  <2>1. \/ UNCHANGED row
        \/ \E old : row' = Pruned(old, row)
        \/ \E old : row' = Pruned(old, Swept)
    BY DEF Process, Prune, Crash, BeginShutdown, CloseDatabase, Boot, Exit, DbMayFail
  <2>2. Swept[r] = row[r] \/ Swept[r].status = "failed"
    BY <1>a DEF Swept, RunRow
  <2> QED BY <1>a, <2>1, <2>2 DEF Pruned, EmptyRow
<1> QED BY <1>1, <1>2, <1>3 DEF Leaves

\* What a finished row says of its alert is what its per-channel breakdown shows, with
\* runs overlapping, edits, crashes and shutdowns under a run, as long as every statement
\* succeeds and no channel is deleted while an alert is on its way to it (the foreign
\* key would reject the whole breakdown).
THEOREM BreakdownTold ==
  ASSUME "fault" \notin Disturbances, "channel" \notin Disturbances
  PROVE  Spec => []BreakdownMatches
<1>1. Init => BreakdownInv
  <2> SUFFICES ASSUME Init PROVE BreakdownInv
    OBVIOUS
  <2>1. /\ \A r \in RunIds : row[r] = EmptyRow /\ job[r] = Unborn
        /\ \A t \in Tasks : attached[t] \subseteq channels
    BY DEF Init
  <2> QED BY <2>1 DEF BreakdownInv, Fits, Aims, Blank, EmptyRow, Unborn
<1>2. TypeOK /\ Accounted /\ OutcomeByStage /\ BreakdownInv /\ [Next]_vars => BreakdownInv'
  <2> SUFFICES ASSUME TypeOK, Accounted, OutcomeByStage, BreakdownInv, [Next]_vars
               PROVE  BreakdownInv'
    OBVIOUS
  <2>1. ASSUME NEW r \in RunIds, RunStep(r) PROVE BreakdownInv'
    <3>1. UNCHANGED <<channels, attached>>
      BY <2>1 DEF RunStep, LockBrowser, Extract, FailRun, ReadArmed, LoadChannels, Send,
                  RecordAttempts, Arm, Rearm, FinishRun, Complete, SetConditionMet
    <3>2. \A k \in RunIds \ {r} : job'[k] = job[k] /\ row'[k] = row[k]
      BY <2>1, RunAdvances DEF Advances
    <3>3. Fits(job'[r], row'[r]) /\ Aims(job'[r], channels)
      BY <2>1, RunFits
    <3> QED BY <3>1, <3>2, <3>3 DEF BreakdownInv
  <2>2. ASSUME NEW t \in Tasks, NEW source \in {"cron", "manual"}, StartRun(t, source)
        PROVE  BreakdownInv'
    <3>a. /\ job \in [RunIds -> Job] /\ row \in [RunIds -> RunRow] /\ lastId \in 0..MaxRuns
      BY DEF TypeOK
    <3> PICK new \in RunIds : new = lastId + 1
      BY <2>2, <3>a DEF StartRun, RunIds
    <3>b. new > lastId
      BY <3>a
    <3>1. /\ UNCHANGED <<channels, attached>>
          /\ row' = [row EXCEPT ![new].status = "running"]
          /\ job' = [job EXCEPT ![new] = [Unborn EXCEPT !.stage = "queued", !.task = t,
                                                         !.rev = entry[t].rev]]
      BY <2>2 DEF StartRun
    <3>2. \A k \in RunIds \ {new} : job'[k] = job[k] /\ row'[k] = row[k]
      BY <3>a, <3>1
    <3>3. row[new].status = "unused"
      BY <3>b DEF Accounted, FreshIds
    <3>4. Blank(row'[new]) /\ row'[new].status = "running" /\ job'[new].stage = "queued"
      BY <3>a, <3>1, <3>3 DEF BreakdownInv, Fits, Blank, RunRow, Unborn
    <3>5. Fits(job'[new], row'[new]) /\ Aims(job'[new], channels)
      BY <3>4 DEF Fits, Aims
    <3> QED BY <3>1, <3>2, <3>5 DEF BreakdownInv
  <2>3. CASE Dashboard
    BY <2>3, DashboardLeaves, LeavesFits
  <2>4. CASE Process
    <3>1. \A t \in Tasks : attached'[t] \subseteq channels'
      BY <2>4, ProcessLeaves DEF BreakdownInv
    <3> QED BY <2>4, <3>1, ProcessLeaves, LeavesFits
  <2>5. CASE UNCHANGED vars
    BY <2>5 DEF vars, BreakdownInv
  <2> QED BY <2>1, <2>2, <2>3, <2>4, <2>5 DEF Next
<1>3. BreakdownInv => BreakdownMatches
  BY DEF BreakdownInv, BreakdownMatches, Fits, Agrees
<1> QED BY <1>1, <1>2, <1>3, RowsAccounted, EarnsFirst, PTL DEF Spec
===============================================================================
