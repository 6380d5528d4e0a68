-------------------------------- MODULE Runner --------------------------------
(***************************************************************************)
(* One run of a task, from the trigger to the finished row, as             *)
(* runner.RunTask executes it: the edge trigger, the rows it reads and     *)
(* writes, and everything that can happen between two of its steps.        *)
(*                                                                         *)
(* A step is one visit to the database, to the browser mutex or to the     *)
(* network: SQLite runs on one connection (store.Open), so each statement  *)
(* or transaction is atomic and nothing larger is. Cron runs, "run now"    *)
(* requests, dashboard edits, crashes and restarts interleave with them.   *)
(*                                                                         *)
(* Disturbances says what may happen to a task while one of its runs is in *)
(* flight; while none is, everything below may happen in every model:      *)
(*   "overlap"  another run of the task starts (run now, or a cron entry   *)
(*              whose replacement brought a fresh skip lock)               *)
(*   "edit"     the task's definition is edited, or the task deleted       *)
(*   "channel"  a notification channel is deleted                          *)
(*   "crash"    the process dies                                           *)
(*   "stop"     the process is shut down under a detached "run now"        *)
(*   "fault"    any database statement fails                               *)
(***************************************************************************)
EXTENDS Naturals, FiniteSets

CONSTANTS
  Tasks,         \* task ids
  NoTask,        \* the owner of a run id not used yet
  Channels,      \* notification channel ids
  MaxRuns,       \* bound on the ids handed out by runs.id
  MaxRev,        \* bound on the revisions of one task's definition
  Disturbances   \* see above

ASSUME RunnerAssumption ==
  /\ NoTask \notin Tasks
  /\ MaxRuns \in Nat
  /\ MaxRev \in Nat \ {0}

VARIABLES
  server,    \* the process: up, draining (shutting down), stopped, crashed
  task,      \* table tasks
  channels,  \* table channels: the ids that exist
  attached,  \* table task_channels: the enabled channels of each task
  row,       \* tables runs and notification_attempts
  lastId,    \* the AUTOINCREMENT high-water mark of runs.id
  entry,     \* scheduler.Registry: the live definition and its skip lock
  cronJobs,  \* the runs cron started and Registry.Stop would wait for
  job,       \* the RunTask goroutines; one that ended keeps its locals
  mutex      \* browser.Pool.mu: the run holding it, 0 if free

vars == <<server, task, channels, attached, row, lastId, entry, cronJobs,
          job, mutex>>

RunIds == 1..MaxRuns
Modes == {"transition", "always"}
Outcomes == {"none", "sent", "error", "disabled"}
Statuses == {"unused", "running", "success", "failed", "gone"}

\* Where a goroutine stands; each stage names the call it is about to make. A run
\* is "lost" when the last write that would have resolved its row has failed.
Working == {"queued", "page", "failing", "judged", "loading", "sending",
            "recording", "arming", "rearming", "finishing"}
Ended == {"done", "lost", "dead"}
Stages == {"unborn"} \cup Working \cup Ended

TaskRow == [exists: BOOLEAN, met: BOOLEAN, mode: Modes, rev: 1..MaxRev]
RunRow == [status: Statuses, met: BOOLEAN, notified: BOOLEAN,
           notification: Outcomes,
           delivered: SUBSET Channels, undelivered: SUBSET Channels]
Entry == [rev: 0..MaxRev, busy: 0..MaxRuns]
Job == [stage: Stages, task: Tasks \cup {NoTask}, rev: 0..MaxRev,
        verdict: {"none", "met", "unmet", "error"},
        repeat: BOOLEAN,  \* an alert is owed only because the mode is "always"
        targets: SUBSET Channels,  \* the channels the alert is sent to
        reached: SUBSET Channels,  \* those that took it
        outcome: Outcomes]

Unborn == [stage |-> "unborn", task |-> NoTask, rev |-> 0, verdict |-> "none",
           repeat |-> FALSE, targets |-> {}, reached |-> {}, outcome |-> "none"]
EmptyRow == [status |-> "unused", met |-> FALSE, notified |-> FALSE,
             notification |-> "none", delivered |-> {}, undelivered |-> {}]

-------------------------------------------------------------------------------
(* Who is in flight, and what may happen meanwhile. *)

Live(r) == job[r].stage \in Working
LiveRuns(t) == {r \in RunIds : Live(r) /\ job[r].task = t}
Idle(t) == LiveRuns(t) = {}
Running == server \in {"up", "draining"}

May(disturbance, t) == disturbance \in Disturbances \/ Idle(t)
DbMayFail == "fault" \in Disturbances

At(r, stage) == Running /\ job[r].stage = stage

-------------------------------------------------------------------------------
(* The life of one run: RunTask. *)

\* SkipIfStillRunning wraps each AddFunc job with a lock of its own, so a cron
\* tick is skipped only behind a run of the same entry.
SkipLocked(t) == entry[t].busy # 0

\* The goroutine returns: a cron job leaves its skip lock, if its entry still is
\* the live one, and the scheduler's wait group.
Return(r) ==
  /\ entry' = [t \in Tasks |-> IF entry[t].busy = r THEN [entry[t] EXCEPT !.busy = 0]
                                                   ELSE entry[t]]
  /\ cronJobs' = cronJobs \ {r}

\* A cron tick or POST /tasks/{id}/run: the registry's definition is captured
\* and the run row inserted before any work. The insert fails on the foreign
\* key, leaving no trace, once the task row is gone.
StartRun(t, source) ==
  /\ lastId < MaxRuns
  /\ entry[t].rev # 0
  /\ task[t].exists
  /\ May("overlap", t)
  /\ "edit" \in Disturbances \/ entry[t].rev = task[t].rev
  /\ server = "up"
  /\ source = "cron" => ~SkipLocked(t)
  /\ lastId' = lastId + 1
  /\ job' = [job EXCEPT ![lastId + 1] =
               [Unborn EXCEPT !.stage = "queued", !.task = t,
                              !.rev = entry[t].rev]]
  /\ row' = [row EXCEPT ![lastId + 1].status = "running"]
  /\ IF source = "cron"
     THEN /\ entry' = [entry EXCEPT ![t].busy = lastId + 1]
          /\ cronJobs' = cronJobs \cup {lastId + 1}
     ELSE UNCHANGED <<entry, cronJobs>>
  /\ UNCHANGED <<server, task, channels, attached, mutex>>

\* Pool.WithPage and Pool.WithoutPage both take the pool mutex first.
LockBrowser(r) ==
  /\ At(r, "queued")
  /\ mutex = 0
  /\ mutex' = r
  /\ job' = [job EXCEPT ![r].stage = "page"]
  /\ UNCHANGED <<server, task, channels, attached, row, lastId, entry, cronJobs>>

\* Mutant: the error path returns without releasing the mutex.
ExtractKeepingMutex(r, verdict) ==
  /\ At(r, "page")
  /\ mutex' = IF verdict = "error" THEN mutex ELSE 0
  /\ job' = [job EXCEPT ![r].verdict = verdict,
                        ![r].stage = IF verdict = "error" THEN "failing" ELSE "judged"]
  /\ UNCHANGED <<server, task, channels, attached, row, lastId, entry, cronJobs>>

\* The body returns, or withDeadline gives up on it; either way the mutex is
\* released. A browser error, a timeout and a failing extraction are one error.
Extract(r, verdict) ==
  /\ At(r, "page")
  /\ mutex' = 0
  /\ job' = [job EXCEPT ![r].verdict = verdict,
                        ![r].stage = IF verdict = "error" THEN "failing" ELSE "judged"]
  /\ UNCHANGED <<server, task, channels, attached, row, lastId, entry, cronJobs>>

\* CompleteRun updates by id, so it silently misses a row deleted meanwhile.
Stored(r, finished) == IF row[r].status = "gone" THEN row[r] ELSE finished

\* complete() logs a failed write and carries on: the row stays 'running'.
Complete(r, finished) ==
  /\ \/ /\ row' = [row EXCEPT ![r] = Stored(r, finished)]
        /\ job' = [job EXCEPT ![r].stage = "done"]
     \/ /\ DbMayFail
        /\ job' = [job EXCEPT ![r].stage = "lost"]
        /\ UNCHANGED row
  /\ Return(r)
  /\ UNCHANGED <<server, task, channels, attached, lastId, mutex>>

\* The error path leaves the armed state alone: an error is not evidence that
\* the condition cleared.
FailRun(r) ==
  /\ At(r, "failing")
  /\ Complete(r, [row[r] EXCEPT !.status = "failed"])

\* wasMet and the notify mode come from the database, not from the definition.
\* A missing task and a failing read both fall back to the zero values.
Persisted(t) == IF task[t].exists THEN [met |-> task[t].met, mode |-> task[t].mode]
                                  ELSE [met |-> FALSE, mode |-> "transition"]

\* Mutant: the armed state is not consulted.
LevelTriggered(met, seen) ==
  CASE met -> "loading"
    [] ~met /\ seen.met -> "rearming"
    [] OTHER -> "finishing"

NextStage(met, seen) ==
  CASE met /\ (seen.mode = "always" \/ ~seen.met) -> "loading"
    [] ~met /\ seen.met -> "rearming"
    [] OTHER -> "finishing"

ReadArmed(r) ==
  /\ At(r, "judged")
  /\ \E seen \in {Persisted(job[r].task)} \cup
                 (IF DbMayFail THEN {[met |-> FALSE, mode |-> "transition"]} ELSE {}) :
       LET met == job[r].verdict = "met" IN
       job' = [job EXCEPT ![r].repeat = met /\ seen.mode = "always" /\ seen.met,
                          ![r].stage = NextStage(met, seen)]
  /\ UNCHANGED <<server, task, channels, attached, row, lastId, entry, cronJobs, mutex>>

\* DispatchTask looks the channels up afresh. None attached is "disabled": there
\* is nothing owed, and no attempt to record. A failing lookup is an "error",
\* never "disabled", which would arm the trigger and swallow the alert.
LoadChannels(r) ==
  /\ At(r, "loading")
  /\ \/ /\ attached[job[r].task] = {}
        /\ job' = [job EXCEPT ![r].outcome = "disabled", ![r].stage = "arming"]
     \/ /\ attached[job[r].task] # {}
        /\ job' = [job EXCEPT ![r].targets = attached[job[r].task], ![r].stage = "sending"]
     \/ /\ DbMayFail
        /\ job' = [job EXCEPT ![r].outcome = "error", ![r].stage = "finishing"]
  /\ UNCHANGED <<server, task, channels, attached, row, lastId, entry, cronJobs, mutex>>

\* Mutant: every channel must take the message.
AllMustDeliver(targets, reached) == IF reached = targets THEN "sent" ELSE "error"

\* aggregate: one delivery is enough to count as sent.
Aggregate(targets, reached) == IF reached # {} THEN "sent" ELSE "error"

\* The parallel sends of DispatchTask, waited for together: "reached" are the
\* channels that took the message.
Send(r, reached) ==
  /\ At(r, "sending")
  /\ reached \subseteq job[r].targets
  /\ job' = [job EXCEPT
       ![r].reached = reached,
       ![r].outcome = Aggregate(job[r].targets, reached),
       ![r].stage = "recording"]
  /\ UNCHANGED <<server, task, channels, attached, row, lastId, entry, cronJobs, mutex>>

\* One transaction for the breakdown: a channel or a run row deleted since the
\* send fails the foreign key and takes every attempt with it.
AttemptsAccepted(r) == row[r].status # "gone" /\ job[r].targets \subseteq channels

\* Mutant: the trigger is armed whatever became of the alert.
ArmRegardless(outcome) == "arming"

\* The sent branch and the disabled branch arm the trigger; the error branch
\* leaves it disarmed so that the next run retries.
AfterRecording(outcome) == IF outcome = "sent" THEN "arming" ELSE "finishing"

RecordAttempts(r) ==
  /\ At(r, "recording")
  /\ \/ /\ AttemptsAccepted(r)
        /\ row' = [row EXCEPT ![r].delivered = job[r].reached,
                             ![r].undelivered = job[r].targets \ job[r].reached]
     \/ /\ ~AttemptsAccepted(r) \/ DbMayFail
        /\ UNCHANGED row
  /\ job' = [job EXCEPT ![r].stage = AfterRecording(job[r].outcome)]
  /\ UNCHANGED <<server, task, channels, attached, lastId, entry, cronJobs, mutex>>

\* SetTaskConditionMet and MarkTaskNotified update by id.
SetConditionMet(r, met) ==
  /\ \/ task' = [task EXCEPT ![job[r].task].met = IF task[job[r].task].exists THEN met ELSE @]
     \/ DbMayFail /\ UNCHANGED task
  /\ job' = [job EXCEPT ![r].stage = "finishing"]
  /\ UNCHANGED <<server, channels, attached, row, lastId, entry, cronJobs, mutex>>

Arm(r) == At(r, "arming") /\ SetConditionMet(r, TRUE)
Rearm(r) == At(r, "rearming") /\ SetConditionMet(r, FALSE)

FinishRun(r) ==
  /\ At(r, "finishing")
  /\ Complete(r, [row[r] EXCEPT
                    !.status = "success",
                    !.met = job[r].verdict = "met",
                    !.notified = job[r].outcome = "sent",
                    !.notification = job[r].outcome])

RunStep(r) ==
  \/ LockBrowser(r)
  \/ \E verdict \in {"met", "unmet", "error"} : Extract(r, verdict)
  \/ FailRun(r)
  \/ ReadArmed(r)
  \/ LoadChannels(r)
  \/ \E reached \in SUBSET Channels : Send(r, reached)
  \/ RecordAttempts(r)
  \/ Arm(r)
  \/ Rearm(r)
  \/ FinishRun(r)

-------------------------------------------------------------------------------
(* The dashboard: task and channel handlers. *)

\* UpdateTask with a spec in the patch resets condition_met in the same UPDATE.
EditSpec(t) ==
  /\ server = "up"
  /\ task[t].exists
  /\ task[t].rev < MaxRev
  /\ May("edit", t)
  /\ task' = [task EXCEPT ![t].rev = @ + 1, ![t].met = FALSE]
  /\ UNCHANGED <<server, channels, attached, row, lastId, entry, cronJobs, job, mutex>>

\* UpdateTask with only a notify mode leaves condition_met as it is.
EditMode(t, mode) ==
  /\ server = "up"
  /\ task[t].exists
  /\ task[t].mode # mode
  /\ task' = [task EXCEPT ![t].mode = mode]
  /\ UNCHANGED <<server, channels, attached, row, lastId, entry, cronJobs, job, mutex>>

\* The second half of HandleUpdateTask: the row just written replaces the live
\* entry, whose fresh cron job comes with a fresh skip lock. Turning a task off
\* and on again replaces the entry the same way.
Reschedule(t) ==
  /\ server = "up"
  /\ task[t].exists
  /\ entry' = [entry EXCEPT ![t] = [rev |-> task[t].rev, busy |-> 0]]
  /\ UNCHANGED <<server, task, channels, attached, row, lastId, cronJobs, job, mutex>>

\* HandleDeleteTask unregisters, then deletes; the run history and the channel
\* links go with the row, through ON DELETE CASCADE.
DeleteTask(t) ==
  /\ server = "up"
  /\ task[t].exists
  /\ May("edit", t)
  /\ entry' = [entry EXCEPT ![t] = [rev |-> 0, busy |-> 0]]
  /\ task' = [task EXCEPT ![t].exists = FALSE, ![t].met = FALSE]
  /\ attached' = [attached EXCEPT ![t] = {}]
  /\ row' = [r \in RunIds |-> IF job[r].task = t
                              THEN [EmptyRow EXCEPT !.status = "gone"] ELSE row[r]]
  /\ UNCHANGED <<server, channels, lastId, cronJobs, job, mutex>>

\* HandleCreateTask inserts the row and its links in one transaction and
\* registers it. Ids are not reused while the task exists.
CreateTask(t, mode, links) ==
  /\ server = "up"
  /\ ~task[t].exists
  /\ task[t].rev < MaxRev
  /\ May("edit", t)
  /\ links \subseteq channels
  /\ task' = [task EXCEPT ![t] = [exists |-> TRUE, met |-> FALSE, mode |-> mode,
                                  rev |-> @.rev + 1]]
  /\ attached' = [attached EXCEPT ![t] = links]
  /\ entry' = [entry EXCEPT ![t] = [rev |-> task[t].rev + 1, busy |-> 0]]
  /\ UNCHANGED <<server, channels, row, lastId, cronJobs, job, mutex>>

\* The channels a task's alert would go to change: the task's links are
\* replaced, or one of its channels is switched on or off.
SetChannels(t, links) ==
  /\ server = "up"
  /\ task[t].exists
  /\ links \subseteq channels
  /\ attached' = [attached EXCEPT ![t] = links]
  /\ UNCHANGED <<server, task, channels, row, lastId, entry, cronJobs, job, mutex>>

\* Links go with the channel; recorded attempts stay, with a null channel id.
DeleteChannel(c) ==
  /\ server = "up"
  /\ c \in channels
  /\ \A t \in Tasks : May("channel", t)
  /\ channels' = channels \ {c}
  /\ attached' = [t \in Tasks |-> attached[t] \ {c}]
  /\ UNCHANGED <<server, task, row, lastId, entry, cronJobs, job, mutex>>

Dashboard ==
  \/ \E t \in Tasks :
       \/ EditSpec(t)
       \/ \E mode \in Modes : EditMode(t, mode)
       \/ Reschedule(t)
       \/ DeleteTask(t)
       \/ \E mode \in Modes, links \in SUBSET Channels : CreateTask(t, mode, links)
       \/ \E links \in SUBSET Channels : SetChannels(t, links)
  \/ \E c \in Channels : DeleteChannel(c)

-------------------------------------------------------------------------------
(* The process: retention, crash, shutdown, boot. *)

\* PruneOldRuns deletes by start time, so it takes a prefix of the ids. A run in
\* flight is never older than the retention period.
Pruned(old, rows) ==
  [r \in RunIds |-> IF r <= old /\ rows[r].status # "unused"
                    THEN [EmptyRow EXCEPT !.status = "gone"] ELSE rows[r]]

Prune(old) ==
  /\ server = "up"
  /\ \A r \in 1..old : ~Live(r)
  /\ row' = Pruned(old, row)
  /\ UNCHANGED <<server, task, channels, attached, lastId, entry, cronJobs, job, mutex>>

\* Every goroutine dies with the process, and so does what memory held.
Exit ==
  /\ job' = [r \in RunIds |-> IF Live(r) THEN [job[r] EXCEPT !.stage = "dead"] ELSE job[r]]
  /\ entry' = [t \in Tasks |-> [rev |-> 0, busy |-> 0]]
  /\ cronJobs' = {}
  /\ mutex' = 0
  /\ UNCHANGED <<task, channels, attached, row, lastId>>

Crash ==
  /\ Running
  /\ \A t \in Tasks : May("crash", t)
  /\ server' = "crashed"
  /\ Exit

\* The HTTP server is closed and the scheduler told to stop: nothing new starts.
BeginShutdown ==
  /\ server = "up"
  /\ "stop" \in Disturbances \/ \A r \in RunIds : Live(r) => r \in cronJobs
  /\ server' = "draining"
  /\ UNCHANGED <<task, channels, attached, row, lastId, entry, cronJobs, job, mutex>>

\* Registry.Stop waits for the jobs cron started, then the database is closed
\* and the process exits. RunTask goroutines of "run now" are not cron's.
DrainedAtOnce == TRUE  \* mutant: cron.Stop() without waiting for its jobs
Drained == cronJobs = {}

CloseDatabase ==
  /\ server = "draining"
  /\ Drained
  /\ server' = "stopped"
  /\ Exit

\* Mutants: a status the schema's readers do not know; no sweep; no WHERE clause.
SweptAsInterrupted == [r \in RunIds |-> IF row[r].status = "running"
                                        THEN [row[r] EXCEPT !.status = "interrupted"]
                                        ELSE row[r]]
NotSwept == row
SweptWholesale == [r \in RunIds |-> IF row[r].status \in {"unused", "gone"}
                                    THEN row[r] ELSE [row[r] EXCEPT !.status = "failed"]]

\* SweepInterruptedRuns: every row still 'running' becomes 'failed'.
Swept == [r \in RunIds |-> IF row[r].status = "running"
                           THEN [row[r] EXCEPT !.status = "failed"] ELSE row[r]]

Unswept == [r \in RunIds |-> IF row[r].status = "running"
                             THEN [job[r] EXCEPT !.stage = "lost"] ELSE job[r]]

\* Boot sweeps, prunes and registers every stored task before anything fires.
\* A sweep that fails is logged and the boot goes on.
Boot(old) ==
  /\ server \in {"stopped", "crashed"}
  /\ \/ row' = Pruned(old, Swept) /\ UNCHANGED job
     \/ DbMayFail /\ row' = Pruned(old, row) /\ job' = Unswept
  /\ entry' = [t \in Tasks |-> [rev |-> IF task[t].exists THEN task[t].rev ELSE 0,
                                busy |-> 0]]
  /\ server' = "up"
  /\ UNCHANGED <<task, channels, attached, lastId, cronJobs, mutex>>

Process ==
  \/ \E old \in 1..lastId : Prune(old)
  \/ Crash
  \/ BeginShutdown
  \/ CloseDatabase
  \/ \E old \in 0..lastId : Boot(old)

-------------------------------------------------------------------------------

Init ==
  /\ server = "up"
  /\ task = [t \in Tasks |-> [exists |-> TRUE, met |-> FALSE,
                              mode |-> "transition", rev |-> 1]]
  /\ channels = Channels
  /\ attached \in [Tasks -> SUBSET Channels]
  /\ row = [r \in RunIds |-> EmptyRow]
  /\ lastId = 0
  /\ entry = [t \in Tasks |-> [rev |-> 1, busy |-> 0]]
  /\ cronJobs = {}
  /\ job = [r \in RunIds |-> Unborn]
  /\ mutex = 0

Next ==
  \/ \E t \in Tasks, source \in {"cron", "manual"} : StartRun(t, source)
  \/ \E r \in RunIds : RunStep(r)
  \/ Dashboard
  \/ Process

\* Goroutines keep running; a Go mutex hands itself to a waiter that has been
\* starved, so a queued run gets the browser if it is free again and again;
\* the container restarts the process. Nothing obliges an operator to act.
Fairness ==
  /\ \A r \in RunIds : WF_vars(RunStep(r)) /\ SF_vars(LockBrowser(r))
  /\ WF_vars(CloseDatabase)
  /\ WF_vars(\E old \in 0..lastId : Boot(old))

Spec == Init /\ [][Next]_vars
FairSpec == Spec /\ Fairness

-------------------------------------------------------------------------------
(* Properties *)

\* Every table, lock and goroutine local keeps its type.
TypeOK ==
  /\ server \in {"up", "draining", "stopped", "crashed"}
  /\ task \in [Tasks -> TaskRow]
  /\ channels \subseteq Channels
  /\ attached \in [Tasks -> SUBSET Channels]
  /\ row \in [RunIds -> RunRow]
  /\ lastId \in 0..MaxRuns
  /\ entry \in [Tasks -> Entry]
  /\ cronJobs \subseteq RunIds
  /\ job \in [RunIds -> Job]
  /\ mutex \in 0..MaxRuns
  /\ \A r \in RunIds : job[r].stage # "unborn" => job[r].task \in Tasks

Alerted(r) == job[r].reached # {}

SameDefinition(r, s) == job[r].task = job[s].task /\ job[r].rev = job[s].rev

\* README, "Notifications are edge-triggered": after an alert, a task alerts again
\* only once a run in between has seen its condition false (or its definition has
\* changed), unless its mode is "always" and the trigger says it was told.
AlertOncePerFlip ==
  \A r, s \in RunIds :
    /\ r < s
    /\ SameDefinition(r, s)
    /\ Alerted(r)
    /\ Alerted(s)
    /\ ~job[s].repeat
    => \E k \in RunIds : r <= k /\ k < s /\ SameDefinition(k, s) /\ job[k].verdict = "unmet"

\* The other half of the edge trigger: a finished run that saw the condition
\* true and owed nothing is excused by an earlier run of the same definition that
\* alerted (or had no channel to alert), with no finished run seeing it false in
\* between. Editing the definition re-arms; an all-channels failure is retried.
NoSwallowedFlip ==
  \A s \in RunIds :
    job[s].stage = "done" /\ job[s].verdict = "met" /\ job[s].outcome = "none" =>
      \E r \in RunIds :
        /\ r < s
        /\ SameDefinition(r, s)
        /\ job[r].outcome \in {"sent", "disabled"}
        /\ \A k \in RunIds :
             r < k /\ k < s /\ SameDefinition(k, s) => job[k].verdict # "unmet"

\* What a finished row claims about its alert is what its per-channel breakdown
\* shows: sent with a delivered attempt, an error with failed attempts only, and
\* no attempts at all when nothing was sent (the order recordAttempts, complete).
BreakdownMatches ==
  \A r \in RunIds : row[r].status = "success" =>
    /\ row[r].notified = (row[r].notification = "sent")
    /\ row[r].notified = (row[r].delivered # {})
    /\ row[r].notification = "error" => row[r].undelivered # {}
    /\ row[r].notification \in {"none", "disabled"} => row[r].undelivered = {}

\* A clean stop waits for the runs in flight: no row is left 'running' for the
\* next boot to call interrupted (Application.Shutdown).
StopsCleanly ==
  server = "stopped" => \A r \in RunIds : row[r].status # "running"

\* While the process is up, a row that says 'running' has a goroutine working on
\* it, or is one whose last write failed: the boot sweep leaves none behind.
RunningHasOwner ==
  Running => \A r \in RunIds : row[r].status = "running" => Live(r) \/ job[r].stage = "lost"

\* Whatever goes wrong, a trigger is armed (and so holds its next alert back) only
\* if some run of the task got an alert through or found no channel to alert.
ArmedIsEarned ==
  \A t \in Tasks : task[t].met =>
    \E r \in RunIds : job[r].task = t /\ job[r].outcome \in {"sent", "disabled"}

\* A finished row is history: no later run, edit, sweep or boot rewrites it;
\* it can only be deleted.
HistoryIsFinal ==
  [][\A r \in RunIds : row[r].status \in {"success", "failed"} =>
       row'[r] = row[r] \/ row'[r].status = "gone"]_row

\* No run stays in progress forever: every started run's row is resolved, by the
\* run itself or by the sweep after a crash, unless the write that resolves it
\* failed.
EveryRunResolved ==
  \A r \in RunIds :
    row[r].status = "running" ~> row[r].status # "running" \/ job[r].stage = "lost"
===============================================================================
