# Breckr: a TLA+ verification of the monitor

Breckr watches web pages. A *task* says which page to open, what to extract and which
condition over the extracted values is worth an alert. A cron scheduler runs each task
against a headless browser; a run that finds the condition true for the first time
notifies the task's channels. A dashboard edits tasks and follows the runs live.

This directory holds TLA+ models of that program, the TLC configurations that check them
and TLAPS proofs of the most important theorems. All paths below are relative to `src/`
unless they name a file of this directory; `server/` means `server/internal/` there.

## 1. Inventory

| part | source | state it keeps | operations | talks to |
|---|---|---|---|---|
| Runner | `runner/runner.go` | the locals of each `RunTask` goroutine | `RunTask`, `recordAttempts`, `complete` | stores, browser pool, dispatcher, bus |
| Task store | `store/task_store.go` | table `tasks`, among it the armed state `condition_met` | create, update (re-arms on a new spec), delete, `SetTaskConditionMet`, `MarkTaskNotified` | SQLite, one connection |
| Run store | `store/run_store.go` | table `runs` | start, complete, sweep, prune, list | SQLite |
| Channel store | `store/channel_store.go` | `channels`, `task_channels`, `notification_attempts` | create, update, delete, set links, record attempts | SQLite, cipher |
| Dispatcher | `notifier/dispatcher.go` | none | `DispatchTask`: look up, send in parallel, aggregate | channel store, transports |
| Transports | `notifier/*.go` | none | one HTTP or SMTP call each | the network |
| Scheduler registry | `scheduler/registry.go` | live definitions, cron entries, their skip locks | register, reschedule, unregister, toggle, trigger, stop | cron, task store |
| Browser pool | `browser/browser.go`, `page.go` | one mutex, the connection of the operation | `WithPage`, `WithoutPage`, `Ping`, deadline | Chrome |
| Health monitor | `app/health_monitor.go` | the last published status | probe every interval | browser pool, bus |
| Event bus | `events/bus.go` | subscribers, a pending set and a wake-up channel each | publish, subscribe, unsubscribe | everything that publishes |
| Events handler | `api/events_handler.go` | one websocket | send frames, answer pings, notice a closed peer | bus |
| Task handlers | `api/task_handler.go` | none | create, update, toggle, delete, run now, dry run | stores, registry, runner, bus |
| Channel handlers | `api/channel_handler.go` | none | create, update with masked credentials, delete, test | channel store, transports |
| Application | `app/app.go`, `server/main.go` | the wiring | boot (sweep, prune, register), retention job, shutdown | everything |
| Executor | `executor/executor.go`, `spec.go`, `schedule.go` | none of its own; reads the last successful result | decode and validate a definition, extract, judge, render, schedule to cron and back | pages, run store |
| Cipher | `crypto/cipher.go` | the key file | seal and open a configuration | channel store |
| Auth | `auth/`, `middleware/`, `api/auth_handler.go` | failures per caller, in memory | log in, session check | handlers |
| Dashboard | `client/src/` | query cache, one socket | fetch, mutate, follow events, reconnect | HTTP and websocket API |

How they interact. A cron tick and `POST /tasks/{id}/run` both end in `Runner.RunTask`
with the definition the registry held at that moment. The run inserts its row, queues for
the one browser, extracts, reads the armed state, possibly notifies, records the
per-channel breakdown, arms or re-arms the trigger and completes its row: seven separate
database visits with a browser session and a network round trip between them. All
statements go through one SQLite connection, so each is atomic and no two overlap;
nothing larger is. Meanwhile the dashboard's handlers edit, toggle and delete what the
run is about, and the process may be stopped or killed. Every write publishes the names
of the slices it touched on the bus; each dashboard has a sender goroutine that coalesces
them.

What is hard here:

* the edge trigger is read early and written late by each run, by task id;
* two rows that describe one alert (breakdown and run) are written in two transactions;
* a run may be lost with the process at any point, and boot must put that right;
* `run now` is detached from the request, from the skip lock and from the shutdown;
* the bus must never make a publisher wait, nor forget a change, with a channel of one;
* a deadline wins against a goroutine that goes on working in the background;
* registry and database are two copies of one definition, updated in two steps;
* a socket that closes looks the same for a restart and an expired session, and what changed
  while it was closed is announced to nobody;
* what the channel form shows is not what is stored, and a save has to tell an untouched
  mask from a new credential;
* `changed` compares with a result recorded under an older definition;
* the login throttle is asked and told in two critical sections.

What makes each part correct: a flip alerts once and is never swallowed (runner); rows
say what happened and are resolved (runner, run store); a breakdown agrees with its row
(channel store); the live entry is the stored definition (registry); the mutex is
released on every path and no connection outlives its operation (pool); everyone
subscribed is told (bus); a page left open shows what was published to it, or asks to sign in
(dashboard); the cron expression fires when the schedule says (schedules); a credential is
never shown and never lost to its own mask (channels); nothing that can never fire is let
in, and `changed` means changed (conditions); a caller is let in when it was told it would
be (login).

## 2. Modules and plan

Written:

| module | what it is |
|---|---|
| `Runner` | one run from trigger to finished row, with the task, run and channel tables, the registry entry, the browser mutex, retention, crash, shutdown and boot |
| `MCRunner` + 6 `.cfg` | the instances TLC checks |
| `RunnerProofs` | theorems about `Runner` |
| `ChangeSignal` | what the bus promises: the abstract specification |
| `EventBus` | the bus, its sender goroutines and the websocket handlers that read them |
| `MCEventBus` + 1 `.cfg` | the instance TLC checks |
| `EventBusProofs` | theorems about `EventBus`, among them that it refines `ChangeSignal` |
| `Registry` | the registry's map and cron's entries against the task table, under concurrent create, update, toggle and delete handlers |
| `MCRegistry` + 2 `.cfg` | the instances TLC checks |
| `RegistryProofs` | theorems about `Registry` |
| `BrowserPool` | the pool's three operations, each a caller with a deadline and a body that may outlive it |
| `MCBrowserPool` + 2 `.cfg` | the instances TLC checks |
| `BrowserPoolProofs` | theorems about `BrowserPool` |
| `Schedule` | `ToCron`, `FromCron`, what cron makes of an expression and what a schedule says: pure operators |
| `TaskForm` | one stored expression and the form that edits it, over `Schedule` |
| `MCTaskForm` + 1 `.cfg` | the instance TLC checks |
| `TaskFormProofs` | theorems about both |
| `Channels` | the channel rows with the key they are sealed with, the forms they are edited in and the handlers between them |
| `MCChannels` + 2 `.cfg` | the instances TLC checks |
| `ChannelsProofs` | theorems about `Channels` |
| `Conditions` | a definition from draft to judgement: decoding, validation, extraction from a page that changes, the last result |
| `MCConditions` + 3 `.cfg` | the pages and drafts, and the instances TLC checks |
| `ConditionsProofs` | theorems about `Conditions` |
| `Dashboard` | one open page: sockets, queries, session, and the server under them |
| `MCDashboard` + 2 `.cfg` | the instances TLC checks |
| `Login` | the throttle, asked and told by logins that overlap |
| `MCLogin` + 1 `.cfg` | the instance TLC checks |
| `SessionProofs` | theorems about `Login` and `Dashboard`, the two ends of a session |

The modules meet where the code does. `EventBus` implements `ChangeSignal`, and the server
side of a socket in `Dashboard`, once it is subscribed, is that signal's promise: a set of what was published and not
handed over (`ImplementsSignal` and `ServerSideIsSignal` are the two halves). The body of `BrowserPool` is what `Runner` calls an extraction, and `Conditions` says
what that extraction yields. `TaskForm` is built over `Schedule`, and its saves are the edits of
`Registry` and `Runner`. Each pair shares one abstraction and nothing else, so that each can be
checked to the bounds it needs.

Every state invariant the runs check but one is proved; the exception, `NeverBlocks`, is an
`ENABLED` formula. What is left for further work: the filters and pages of the run history as
pure operators. What is checked and cannot be proved here is named in the section of its module.

## 3. Runner

### State and actions

`task`, `channels`, `attached` and `row` are the tables (`row` joins a run with its
attempts: `delivered` and `undelivered` are its channels by outcome). `entry` is the
registry's map with the run that holds each cron entry's skip lock; `cronJobs` is what
`Registry.Stop` waits for. `job[r]` are the locals of the goroutine of run `r`, which
outlive it so that properties can speak about what it did. `mutex` is the pool's.

Each stage of a goroutine names the call it is about to make:

    queued -> page -> judged -> loading -> sending -> recording -> arming -> finishing -> done
                  \-> failing -> done    \-> rearming -> finishing

`StartRun` is the row insert, `LockBrowser` and `Extract` the browser session, `ReadArmed`
the read of `condition_met`, `LoadChannels`/`Send`/`RecordAttempts` the alert, `Arm` and
`Rearm` the write of `condition_met`, `FinishRun` and `FailRun` the completion of the row.
Beside them run the handlers (`EditSpec`, `EditMode`, `Reschedule`, `DeleteTask`,
`CreateTask`, `SetChannels`, `DeleteChannel`) and the process (`Prune`, `Crash`,
`BeginShutdown`, `CloseDatabase`, `Boot`).

Abstracted: extracted values are a verdict (met, unmet, error); a definition is its
revision number; the parallel sends are waited for together, so they are one step with
any set of channels reached; time is only the order of steps, so retention deletes any
prefix of the run ids that is not in flight.

`Disturbances` is the set of things that may happen to a task *while one of its runs is
in flight*: `overlap`, `edit`, `channel`, `crash`, `stop`, `fault`. Outside of runs all
but `fault` may always happen. This separates what the design guarantees by itself from what it
guarantees only as long as a run is left alone, and lets each known race be shown alone.

### Runs

| run | expects | shows |
|---|---|---|
| `runner_quiet` | pass | with no disturbance: `AlertOncePerFlip`, `NoSwallowedFlip`, `BreakdownMatches`, `StopsCleanly` |
| `runner_disturbed` | pass | with all six: `TypeOK`, `RunningHasOwner`, `ArmedIsEarned`, `HistoryIsFinal`, `EveryRunResolved` |
| `runner_overlap` | violation | two runs of a task both alert on one flip |

Three more instances are kept for reading, each with a counterexample TLC finds in seconds:
`MCRunnerEdit.cfg` (a run of the old definition swallows the first alert of the new one),
`MCRunnerChannel.cfg` (a deleted channel takes the whole breakdown with it) and `MCRunnerStop.cfg` (a stop
leaves a detached run's row in progress).

Bounds. `MaxRuns = 3` in the quiet run: alert, run in between, second alert is the
shortest history `AlertOncePerFlip` and `NoSwallowedFlip` can be violated by, and with two
revisions the trigger crosses an edit. Two channels are the fewest with a partial
delivery. With disturbances two runs are enough for two to race and for one to be lost
and swept while another lives. One task: tasks share only the browser mutex and the
channels, and a second task's effect on either (a held mutex, a deleted channel) is
produced by another run or handler of the first. `MaxRev` bounds edits; two revisions are
"old" and "new". `RunnerProofs` removes these bounds for what it proves. Symmetry is
used for the channels only, in a run without temporal properties. Deadlock is checked in
all of them: some handler is always possible while the server is up and boot when it is down.

Fairness (`FairSpec`, used by `EveryRunResolved`). Weak fairness of each goroutine's
next step: Go schedules runnable goroutines, the browser body is bounded by the deadline
of `withDeadline`, transports by their timeouts. Strong fairness of `LockBrowser`: a Go
mutex hands itself to a waiter starved for a millisecond. Weak fairness of `Boot`: the
compose file restarts the container. `CloseDatabase`: `Shutdown` waits for cron without
a deadline. Handlers, ticks, crashes and stops are not fair.

### Proofs

`RunnerAssumption` says only that the bounds are naturals (at least one revision) and that the owner of
an unused id is no task. For all values of the constants and **every** set of
disturbances, unless stated otherwise:

* `TypeCorrect`: `Spec => []TypeOK`, by one lemma per action; the `Put...` lemmas say
  that writing one field of a record keeps its table's type.
* `OwnedRows`: `RunningHasOwner`. It is not inductive: a start must not reuse an id, a row
  must not be in progress for an unborn run, and while the process is down no goroutine
  may live. `RowsInv` conjoins these (`FreshIds`, `LiveRowsOpen`, `DownMeansDead`,
  `RowsBorn`, `Accounted`) with `TypeOK`.
* `FinalHistory`: the action property `HistoryIsFinal`, from the same invariant: it is
  `LiveRowsOpen`, that a live run's row is not finished yet, that makes `FinishRun` safe.
* `EarnedArming`: `ArmedIsEarned`. Its strengthening `OutcomeByStage` ties a goroutine's
  outcome to its stage, so that whoever reaches `arming` has delivered or had nobody to
  deliver to.
* `CleanStop`: `StopsCleanly`, if `stop` and `fault` are not among the disturbances. The
  invariant adds that no write was lost and that while the server drains every live run
  is one that cron waits for.
* `OneAlertPerFlip` and `FlipsNotSwallowed`: `AlertOncePerFlip` and `NoSwallowedFlip`, if nothing but
  the deletion of channels happens to a task in the middle of a run (`Undisturbed`). Neither is
  inductive. They follow from what the trigger *means*: an armed one has been `Told` (some run
  of this definition got its alert through, and none since saw the condition false), a
  disarmed one is `Cleared` (every alert was followed by a run that saw it false). A run
  between its verdict and its write would break that, so the runs in question are
  those that are past their write (`~Acting`), and what one still under way knows is in
  `LocalsKnown`. `TriggerInv` conjoins `TriggerTrue` with these, with `LiveIsLatest` (a live run is the
  last of its task and of its current definition: where overlap and edits are excluded) and with
  what excuses a silent run (`SilentExcused`).
  The proof has two halves. `RunTurns` and `Quiet` say what each step is to the trigger: a
  run's own step leaves it, clears it, is told, is spared or misses, and any other step moves no run.
  The `...Keeps` lemmas then preserve `TriggerInv` from those descriptions alone.
* `BreakdownTold`: `BreakdownMatches`, if no statement fails and no channel is deleted under a run;
  overlap, edits, crashes and stops are allowed. `BreakdownInv` ties a row to the stage of its
  goroutine (`Fits`): it has no breakdown before `recording`, and from then on what the
  goroutine knows; and the channels a run is about to record exist (`Aims`), so that the
  transaction is accepted.

No larger set of disturbances would do: TLC finds `AlertOncePerFlip` and `NoSwallowedFlip` violated
under each of `overlap`, `edit`, `crash`, `stop` and `fault` alone, `BreakdownMatches` under `fault`
and under `channel` alone, `StopsCleanly` under `stop` and under `fault` alone.

TLC checked `TriggerInv` under `channel` on three runs and `BreakdownInv` under the other four on two, with
one channel, before they were proved. Only model-checked: `EveryRunResolved` (liveness).

## 4. Event bus

### State and actions

`Publish` takes the snapshot of the subscribers under `Bus.mu`; `Merge` and `Wake` are the
two halves of `subscriber.publish` for one of them, in any order of subscribers, as a Go
map iterates. `WakeUp`, `Drain`, `Deliver`, `End` are the sender goroutine: take the token,
swap the pending set for an event, hand it over, notice `done`. `Subscribe`, `Ping`,
`Written`, `Disconnect`, `Unregister`, `Stop` are the websocket handler. The wake-up channel
is a Boolean, since its capacity is one; the outgoing channel is unbuffered, so `Deliver` is
one step of sender and reader together. Publishing is unrolled to the critical
sections, so publishers, senders and readers interleave wherever the code lets them.

`ChangeSignal` is the promise: who is a member when something changes is owed it and, if
it stays, told of it. The refinement reads what a dashboard is owed off three places: its
pending set, the event being handed over, and the names on their way in a publisher that
has not visited it yet. A change is counted (`changes`, in the code's terms `published`), so an
event that names what nobody published is no step of the signal.

### Runs

| run | expects | shows |
|---|---|---|
| `bus` | pass | `TypeOK`, `NoLostWakeup`, `NeverBlocks`, `SenderEnds` and `SignalsChange` (the refinement, liveness included) |

Bounds. Two publishers at once and three publishes give a publisher that finds the token
already there, a sender that drains between merge and wake-up, a dashboard that leaves
between snapshot and visit, and names that arrive before, while and after an event is
handed over. One dashboard: subscribers share nothing but the snapshot, and the theorems
below hold for any number. `CHECK_DEADLOCK FALSE`: once the dashboard has left and the
bounded publishes are used up the model stops.

Fairness. Goroutines run (`WF` of `PublisherStep`, `SenderStep`); every websocket write ends by
`EventsWriteTimeout` (`WF` of `Written`); the deferred unsubscribe runs. `Deliver` is strongly
fair because the handler's `select` chooses at random among ready cases, so pings cannot
keep it from an event forever. Nobody has to publish, subscribe or leave.

### Proofs

For any sets of subscriptions, publishers and resources and any bound on publishes:

* `NoWakeupLost`: `NoLostWakeup`. Inductive with `TypeOK`, `Untouched` (a subscription not made yet
  has left no trace) and `OneAtATime` (a publisher notifies one subscriber at a time,
  which is why taking the notified one off loses nobody else's wake-up).
* `BusTypeCorrect`: `TypeOK`, with "a sender sends exactly while it holds an event".
* `ImplementsSignal`: `Spec => Signal!Spec`, the safety part of the refinement. `Membership`
  (who listens is in the bus; only who has left is stopped) makes a publish reach
  everyone it must. `Publish` maps to `Change`, `Deliver` to `Tell`, `Subscribe` to `Join`, a
  disconnect or a failed write to `Leave`, everything else to a stutter.

Only model-checked: `NeverBlocks` (it is an `ENABLED` formula), `SenderEnds` and the liveness
part of `SignalsChange`.

## 5. Registry

### State and actions

`row` is the task table: whether a row exists, its revision, whether it is enabled, and
the two things that keep it from being scheduled (a spec that does not decode, an
expression cron refuses). `entries` is `Registry.entries`, an absent entry having revision
0 and `armed` standing for "entryID is not 0". `cron` counts, per task and revision, the
entries of `cron.Cron` that fire it: the code holds only the last id, so an entry the map
forgot would go on firing, and only a count can show it.

Each handler is a goroutine whose phase names the call it is about to make:

    create: inserting -> reading -> registering
    update: writing (-> flagging) -> reading -> registering
    toggle: toggling -> persisting
    delete: unregistering -> deleting

A database statement is one step (one SQLite connection), a critical section of
`Registry.mu` is one step; between them other handlers run. Every statement may fail, and
what the code then does differs: an update answers 500 and leaves the old entry, the row
of a toggle stays behind its entry, a deletion leaves a row without an entry. `Exit` is
the process's end at any moment, `Boot` what `ScheduleAll` makes of the table.

`disturbed` is a history variable, of no effect on the rest: the tasks on which, since
boot, two handlers met or one was cut short after it had changed something. It states
the condition under which `Followed` may be asked.

### Runs

| run | expects | shows |
|---|---|---|
| `registry_follow` | pass | `TypeOK`, `OneCronEntry` and `Followed` with every failure and restart |

`MCRegistryToggle.cfg` has the counterexample to `ToggleOwnsBoth`: two concurrent toggles leave row
and entry disagreeing, though nothing failed.

Bounds. One task: the registry treats each alone, under one mutex. Two handlers are the
fewest that race. Three revisions: one registered, one written and not yet registered,
one more from the other handler. The initial table holds any row, so undecodable specs and
refused expressions, disabled or not, are among the starts. No fairness is needed: nothing
here is a liveness property. Deadlock is checked: a handler, `Boot` or `Exit` can always step.

### Proofs

For any sets of tasks and handlers and any number of revisions, with and without failures:

* `OneEntryPerTask`: `OneCronEntry`, under every interleaving. With `EntriesSound` (what is
  not in the map is not armed) it is inductive: `RegisterRearms` and `ToggleRearms` show it for the
  critical sections whatever row a handler brings along, stale or not.
* `RegistryFollows`: `Followed`. `Tracked` says for each undisturbed task that at most one
  handler is at work on it, that with none the entry is exactly what `Register` makes of
  the row (`Synced`), and what holds midway (`Midway`, one conjunct per phase). The one that
  matters: `Register` returns early for a row without a spec and leaves the old entry, which
  is right only because such a row cannot have one (`Registrable`).
* `RegistryTypeCorrect`: `TypeOK`; that `cron` counts never go negative needs `OneCronEntry`.

## 6. Browser pool

### State and actions

An operation is one call of `WithPage`, `WithoutPage` or `CheckReachable` (`kind`). It is two
goroutines, `caller[o]` and `body[o]`, each at a stage named for what it is about to do:

    caller: idle -> waiting -> racing (-> late) -> closing -> unlocking -> returned
    body:   dialling -> storing -> starting -> opening -> working -> tearing -> sending -> ended
                                            \-> asking (probe) ------------>/

`Lock` takes `Pool.mu` and starts the body, so the time spent queueing is not part of the
deadline. `Receive`, `TakeDeadline` and `Recheck` are the two `select`s of `withDeadline`; `Close` and
`Unlock` are the deferred calls in the order they run. `socket` is what the body dialled,
`stored` whether the operation's `connection` knows of it, which is all that `conn.close` can
close. A body is never stopped: it fails at its next CDP call, because the socket is
closed or the context done, or it hangs. Pages and values are abstracted to "ok" or an
error; which calls a page makes is not told apart, and a missing browser context is no
error. `inTime` is a history variable: the body had sent before the context was done.

### Runs

| run | expects | shows |
|---|---|---|
| `pool` | pass | `TypeOK`, `OneAtWork`, `RealResultWins`, `EveryCallReturns` |

`MCBrowserPoolLate.cfg` has the counterexample to `OneSocket`: a socket stored after the disconnect
is never closed.

Bounds. Two operations are the fewest whose bodies can meet, one of them past its
deadline; a third adds only a waiter. Each is called once, in either order and as any of
the three kinds, which is why the runs say `CHECK_DEADLOCK FALSE`.

Fairness. The caller's steps and the timer are weakly fair, `Lock` strongly (a Go mutex
hands itself to a waiter starved for a millisecond). Nothing is assumed of a body or of
the browser, so `EveryCallReturns` includes the browser that answers nothing, ever.

### Proofs

For any number of operations:

* `OneBodyAtWork`: `OneAtWork`. Its invariant says who holds the mutex (`MutexHeld`), that a socket a
  body works over is one its connection knows (`SocketKnown`), that behind a caller that has
  cleaned up the context is done and no known socket is open (`CleanedUp`). What
  `MCBrowserPoolLate.cfg` shows is exactly the case `SocketKnown` leaves out, a socket not stored yet; the
  theorem says that such a body nevertheless starts no session.
* `ResultsWin`: `RealResultWins`, from `DeadlineInv`, which ties an answer to what was sent.
* `PoolTypeCorrect`: `TypeOK`, with "an operation has an answer exactly from `closing` on".

Only model-checked: `EveryCallReturns` (liveness).

## 7. Schedules and the task form

The dashboard never sees a cron string: the server derives a schedule from the stored
expression (`FromCron`), the form spreads it over flat fields, and every save, of the name
as much as of the schedule, sends the whole schedule back to be translated (`ToCron`). If the
two directions disagree anywhere, renaming a task reschedules it.

### State and actions

`Schedule` holds the translation. A field of an expression is a record: the spelling that
`FromCron` tells apart (`form`: star, plain number, step, list of weekdays, other text) with its
number, and the set of values cron expands it to with its star bit (`at`, `any`). `Firing(e)` is
when cron fires, with the rule that two restricted day fields are joined by "or";
`Meaning(s)` is when a reader of the schedule expects it to. Both are read off their own
side, so that their agreement says something. Leading and trailing blanks and the
wording of refusals are left out. The parser is the library's: `Firing`, `DaysOf` and the spellings
that `FromCron` has no case for are marked external.

`TaskForm` adds `stored` (the row's expression) and `form` (`ScheduleFields`, `Null` while closed).
`Open` is `toFormState` over what the server derived; `handleFrequency`, `toggleWeekday` and `Typing` are
the builder's controls, each only while it is on screen; `Save` is `handleSubmit` with
`ResolveCron` behind it (a refusal leaves everything as it was, and is no step); `ByHand` is an
update with `cron_expr`, at any moment, so a form may be older than the row. What was typed
is a number or nothing: `parseInt` of a blank is `NaN`, which JSON makes `null`. A form opened from a stale
list is one opened just before the row changed, and a save is one step: Cancel is disabled
while it is in flight, and what is typed meanwhile is not part of what was sent. `edits`, `typed`,
`opened` and `submitted` are history.

### Runs

| run | expects | shows |
|---|---|---|
| `task_form` | pass | `TypeOK`, `ShownIsStored`, `SavedIsShown`, `Reopens`, `FlipsKeep`, `UntouchedSaves` |

Bounds. Seventeen expressions: each of the five shapes and the two unstepped spellings, a
list of all seven weekdays, both day fields restricted, "?" as a day, ranges, a month
restriction, six fields, a step wider than its field and a minute past 59. Two edits are
enough to switch and type, or to switch and switch back; the proofs are for any number.
The numbers typed are just past the bounds (0, 24, 60), the ones inside come from the expressions.

`FlipsKeep` is about intervals from 1 to 23 because the code clamps on purpose: 45 minutes,
looked at in hours, comes back as 23. `UntouchedSaves` excepts one case, in which the code does
not do what `types.go:286` says ("comes back as custom and survives an edit untouched"): `*/90 * * * *` is
accepted by the parser and by the API, opens as "every 90 minutes", and the untouched
form is then refused until the interval is changed. Nothing waits for anything here, so
there is no liveness property.

### Proofs

For every expression the parser accepts, every number, any number of edits:

* `EveryShape` says what `FromCron` makes of an expression, by the spelling of its fields.
  `ShownAsStored` compares `Meaning` and `Firing` in each of those cases, `RoundTrip` takes each
  structured schedule through `ToCron` and back, `Spread` takes it through the form's fields.
* `FormInv`, inductive, is `TypeOK`, `SavedIsShown`, `Reopens`, `FlipsKeep` and `Untouched` (an unedited form is
  still the spread of what it was opened on), from which `Spread` and `ShownAsStored` give
  `ShownIsStored` and `UntouchedSaves`. All six properties are theorems.

## 8. Channels

A channel's credential goes to the server once and never comes back: the form shows a mask, and
what the form sends for a field nobody touched has to stand for what is stored.

### State and actions

`rows` is the table with, for each row, its configuration and the key it is `sealed` with; a row
sealed with another key than the server's is `Broken`. A configuration is two fields, the
credential and the other required one (`SecretField`, `PlainField` say which of the two a
transport has). A value is blank, a mask (`Dots` or, for a URL, `UrlDots`), `Dropped` when the
request leaves the field out, or something typed. `form` and `req` are each editor's open form and
save under way, `merged` what the handler has made of the row it read, `typed` (in form and request)
and `overtaken` are history.

`openNew`, `openEditor`, `setSecret`, `setPlain`, `setName`, `closeEditor` and `handleSubmit` are `ChannelsPage`;
`handleSubmit` sends what the form sends (`toConfig`) or, for a caller of the API, all that was shown
(`asShown`). `HandleCreateChannel` is one step, since nothing it decides depends on what it reads but for
the unique name, which the insert itself refuses. `HandleUpdateChannel` is two, `ReadForUpdate` (with the
merge and its validation) and `WriteUpdate`, because other handlers run between its statements.
`Restart` may come up with any key: `LoadOrCreateKey` makes a new one when the file is gone.

Abstracted: the enabled flag, timestamps, optional fields (clearing one in the form has no
effect, since a blank is not sent), email's list of recipients, a webhook's headers, and the
choice of another type in a new form, which empties it and so is a form opened anew.

### Runs

| run | expects | shows |
|---|---|---|
| `channels` | pass | `StoredValidates`, `SecretsWriteOnly`, `KeepsUntouched`, `RepairedWhole` |
| `channel_mask` | violation | a Slack URL sent back as it was shown replaces the stored one by its own mask |

Bounds. Two editors are the fewest that overtake each other, two credentials the fewest of which
one can be lost, two keys the fewest of which one can. One channel: rows meet only in the unique
name, which refuses and changes nothing. The transports are one with a credential and one
without a control for it; Telegram and email behave alike, and Slack and Discord are the
subject of `channel_mask`. `ChannelsProofs` is for all five. Credentials and editors are
symmetric. Nothing here is a liveness property, and a step is always possible.

`KeepsUntouched` excepts a save that another save of the same channel overtook between its read and
its write: it writes what it merged before, and nothing promises more than the last writer.

### Proofs

For any number of channels, editors, names, values and keys, and all transports:
`ChannelsTypeOK`, `ChannelsStoredValidates`, `ChannelsSecretsWriteOnly`. The inductive invariant `IInv` adds
`CarriedValidates` to the three: what a handler carries between its two statements was
validated for the type of the row it is about to write, and a row's type never changes under an
id, because ids are not reused (`issued`). That is why a write that was overtaken, or that follows
a restart, cannot store what does not validate.

`ChannelsKeepsUntouched` and `ChannelsRepairedWhole` are `KeepsUntouched` and `RepairedWhole` for the
transports whose mask begins with its bullets (`Bulleted`); Slack and Discord each refute both, which is
what `channel_mask` is about. `KInv` says what has to be known on the way to the write: what an
untouched form holds is blank or bullets (`FormsKnow`), what a request carries is that or was typed
(`RequestsKnow`), a stored webhook has no credential (`WebhooksBlank`), and what a handler merged
is the stored credential of the row as it stands (`CarriedFresh`) unless it was overtaken
(`OvertakenCarry`). It was checked on the `channels` run first.

## 9. Conditions

### State and actions

The first half is pure: `Decode` (with the shape from before conditions were a list), `ValidateSpec`
with its parts, `Normal`, the operators over a few texts and the numbers in them. "1.0" is there
because it parses as a number and is not how one is printed, "$2" because a number has to be
picked out of it, "NaN" because it parses.

The second half is a run: `Execute` (navigate), then per condition `Wait` and `Extract`, then
`EvaluateConditions`, then `Record` (the row of a success carries the result) or, at any point, `Fail`.
`previousValue` looks a condition up by its `Key` in the last successful result; `TestDraft` runs a draft
with nothing to compare with and leaves no row. `Save` replaces the definition at any
moment and `PageChanges` changes what a selector matches, between two extractions too. `sinceLast`
and `sinceStart` are history: what changed since the last successful run, and the one under way,
started.

Abstracted: one attribute per element, counts of 0 and 1, the navigation's own bound, the raw
text next to a value. One run at a time: runs that overlap are the subject of `Runner`.

### Runs

| run | expects | shows |
|---|---|---|
| `conditions` | pass | `TypeOK`, `NeverDead`, `ChangeIsExact`, `MessageRenders` |

`ChangeIsExact` is two promises: `changed` is met only if what the condition reads did change since
the last successful run of this page started (`ChangeIsReal`), and it is met whenever that run read
something else from the same place, wherever in its list it did so (`ChangeIsSeen`). Failed runs,
tests of drafts, reordering, duplicates and a result of the older shape are all in the run.

Bounds. Two selectors and lists of up to two conditions are the fewest that can be reordered, wait
for one another or share a key. Twelve drafts: five that are sound, chosen so that edits
between them reorder, drop, add and re-test conditions, and seven that each break one rule. Of
the texts each is there for one comparison. A definition is always stored and a run, a page
change or a save is always possible, so deadlock is checked. No liveness: that a run
ends is `EveryRunResolved` of `Runner`.

Two more instances show what lies outside these bounds. `MCConditionsDead.cfg`: a threshold of
"1.0" for `eq` on a number is let in and can never be met, because `eq` compares with the number as
it is printed. `MCConditionsEdit.cfg`: a task moved to another page keeps its keys, so `changed` is met
for a page that has always shown what it shows. `ChangeIsReal` therefore speaks of a last run of the same
page.

### Proofs

`ContentsAssumption` says what a client's JSON decodes to (`Wire`) and what a page has, and no more: any
texts, any operator and kind, valid or not, lists and messages of any length. For any pages,
selectors, specs and `MaxConditions`:

* `ConditionsTypeCorrect`: `TypeOK`. Normalising what validates gives what validates and is normal
  (`NormalStored`), so that a definition may be stored, run, and stored again.
* `MessageAlwaysRenders`: `MessageRenders`. An index was validated against the list it came with, and the
  run carries that list with it, whatever is saved meanwhile.
* `ChangeAlwaysExact`: `ChangeIsExact`. It is not inductive: nothing in it says where the compared values
  come from. `RunFresh` says that a value of a run under way is what its page yields now, unless its
  element changed since the run started; `LastFresh` the same of the last successful run's row, and
  that a key there is the key of what was read. `Record` turns the first into the second. If
  `changed` is met, the two values differ, so one of them is not what the page yields now and its
  element changed (`JudgedChange`). That several conditions may share a key does no harm: an
  extraction depends on what is read alone (`ExtractionReads`), and the last of them is one of them
  (`Highest`).

`RunFresh` and `LastFresh` were checked on the `conditions` run, and with two pages, before they were
proved. What a condition can be met by is a matter of the operators alone:

* `OnlyThresholdsDead`: what may be let in and never met, exactly. Operators are allowed by kind
  (`KindOperators`), and for every kind but the numeric ones each of them is met by some reading. A
  numeric condition is dead if and only if it asks for less than the lowest number or more than
  the highest, compares by order with a threshold that is no number ("NaN"), or is an `eq` that is
  not spelled as a number is printed (`Reached`).
* `NoneDead`: `NeverDead`, if no spec that validates has such a threshold. The hypothesis is on what clients
  send; the drafts of the `conditions` run meet it and "1.0" of `MCConditionsDead.cfg` does not. It is
  needed: the server lets those thresholds in. Nothing is below the lowest count, in the code too; a
  `number` may be negative there and has no highest, so for that kind the two ends are those of the
  three numerals the texts are reduced to.

## 10. Dashboard

### State and actions

One page behind the login. `sockets` are all the browser has for it, each on its way from
`connecting` through `accepted`, `open` and `closing`; `gone` is one that was accepted and lost
before the browser reported it open. `subscribed` are those the bus knows, and `pending` is what it has
yet to hand to each, as `ChangeSignal` promises. `socket` is the one `useMonitorEvents` knows; `status` counts its
status requests, `retry` is its timer. `data`, `fetch` and `loaded` are a query per resource: the version
shown, the request, and whether it was ever answered. A resource is a version number, and
`written` is what was written and is still to be published. The server is `up` while it takes requests
and `alive` while its process runs.

`onopen`, `onmessage`, `onclose`, `fetchStatus`, `scheduleReconnect`, `Retry`, `reconnectNow` and `invalidate` are the hook's
functions of these names; `Refresh`, `Focus`, `Serve`, `Answer`, `FetchFails` the queries; `notifyUnauthorized`,
`Unauthorized`, `SignIn`, `Expire` the session. The server and the network take these steps:

* `Accept` answers the handshake (`events_handler.go:47`), which lets the browser open the socket; `Subscribe` is
  the handler's next step (line 64). `onopen`, its resync and the answers to that may come between the two.
* `Write` is a handler or a run that writes, `Publish` its call of the bus, to the sockets subscribed by then.
  `Unannounced` is one that never gets there: `HandleDeleteTask` unregisters and answers 500 when the deletion
  fails (`task_handler.go:391`), `HandleCreateTask` publishes tasks although `health` counts them (line 223).
* `Stop` refuses requests and leaves the sockets open (`main.go:76`): `http.Server.Shutdown` does not wait for
  hijacked connections. Requests the server had received may still be answered. The runs that `Registry.Stop`
  waits for write and publish to the open sockets; then `Exit` ends the process and every
  connection, whatever was still to be published. `Exit` of a server that is up is a crash. `Boot` may change what is shown
  (the sweep) while nobody is subscribed.
* `FetchFails` is a request that failed together with its one retry: refused by a server that is not up,
  or, with the server up and the socket open, lost, timed out or answered with an error (`base.ts:95`). A handshake and
  a status request can be lost in the same way. `Drop` is a connection lost at any point.

A reconnect on sight while a status request is in flight ends in two sockets; the hook then
knows the later one, and forgets it when either closes.

Abstracted: attempt counts and delays (the timer fires), the body of the anonymous health
answer, signing out by hand, and sockets left open after an unmount, which only refetch. Two
writes of a resource before the first is published are published once.
TanStack Query is modelled from how the hooks use it: an invalidated query is fetched again, but
the request of one that has nothing to show yet is not cancelled for it; an error keeps what
is shown; focus refetches.

### What a page is promised

`owed` (history) is what changed after the query's first answer and the socket's first open. A change
before that is announced to nobody who owes a resync: the first open does not invalidate
(`useMonitorEvents.ts:74`), and an invalidation during the first fetch does not restart it. Such a page is stale
until the resource changes again or the tab gets the focus.

Of what is owed the code loses some all the same, and `missed` (history) holds it until the resource
is next read for the page. There are three ways, each in the action that does it:

* `Publish` while a socket of the page is open and none that is open is subscribed (`TooEarly`). The subscription does not know
  of it and the resync was asked for before it. `MCDashboardWindow.cfg` has no trouble at all in it and TLC
  finds `NothingMissed` violated in seven states: accepted, opened, answered, written, published.
* `Unannounced`: a change that is never published.
* `FetchFails` with the server up: the signal was used up by a request that failed.

Such a page shows old data with its socket open and nothing under way, until the resource changes
again, the socket is lost or the tab gets the focus. What the properties say is that there
is no fourth way: a stop with sockets open, a crash, lost connections and handshakes, sockets in excess, late answers
and the sweep of a boot lose nothing.

### Runs

| run | expects | shows |
|---|---|---|
| `dashboard` | pass | `NeverStuck`, `EventuallyShown`, `ExpiredSignsOut` |

`NeverStuck` has the safety kernel of `EventuallyShown` in it: at any moment what is owed, not missed and not shown
was asked for after it changed, is still to be published, is pending for a socket that is open
and subscribed, or will be covered by the resync of a connection that is under way, as it is
after every stop (`NothingForgotten`). `EventuallyShown` is stated resource by resource, so that one that is missed excuses
no other.

Bounds. One resource that needs a session and changes twice: the second change meets the first
still unpublished, pending, or being fetched. Three troubles (a lost connection or request, a handler that
fails, a stop, a crash, an expiry, a refresh) reach each triple, such as a stop whose drain publishes to an open socket, a
second loss during the first reconnect, and an expiry. Two sockets or status requests at once are as many as a user
who looks once produces; `reconnectNow` is bounded by that (`MaxSockets`). Resources meet in what one event
names and in the resync only, and `PageNeverStuck` is proved for any number of them; `NeverStuck` was also
checked with two, one of them answered without a session (`Public`), one change of each and two
troubles (5.2 million states, two minutes), where the liveness takes too long.

Fairness. The browser runs handlers and timers that are due and notices a connection that is lost
(`WF` of each socket's step, `fetchStatus`, `Retry`), the handler of a socket goes on to subscribe it
(`Subscribe`), a request is answered or fails (`WF` per resource; axios has a timeout), a writer
publishes or fails (`WriterStep`), the runs a stop waits for end (`Exit` once it is not up;
their deadlines are `BrowserPool`'s) and the container is restarted (`docker-compose.yml:29`). Nobody has to look at the
tab, refresh it or sign in again, and nothing has to change or to crash.

### Proofs

In `SessionProofs`, for any resources, changes, troubles and number of sockets:

* `PageNeverStuck`: `NeverStuck`, with `missed` in it as above. `PageInv` adds what it rests on. No answer is older than what is shown or newer
  than the tables, so one that arrives late cannot put back what was shown
  (`AnswersInOrder`); without it `NothingForgotten` is not inductive. A page that is not shown has no socket,
  request or timer, and nothing is owed to it (`NothingUnmounted`), so a sign-in starts from one
  socket. A process that has ended takes no request and has no connection (`NobodyServes`), which is why the sweep
  of a boot, announced to nobody, always finds another connection under way; and a page without
  an open socket always has one under way, which is why a publication to no subscriber
  is either made up for or too early. `Chains`
  counts slots: `SlotLeft`, `SlotTaken` and `SlotsKept` say what a step does to the count, and `SlotToTake` that a
  hook that may connect has a slot to connect in.
* `ServerSideIsSignal`: what `Dashboard` takes for granted of the server is what `EventBus` was proved to give.
  Every step, seen from one socket, is one of `ChangeSignal`'s: the subscription joins at `Subscribe` and owes nothing, is owed
  exactly what is published, is told all of it, or leaves; only a connection is subscribed, and it leaves nothing to
  the next in its slot (`NothingLeft`). It says nothing of what is published between `Accept` and
  `Subscribe`, as neither does `EventBus`, whose readers exist from the subscription on. It is stated socket by
  socket, and without the signal's counters: the end of the process ends all sockets in one step.

`PageInv`, `NothingLeft` and `SignalStep` were checked on the `dashboard` instance before they were proved. Only
model-checked: `EventuallyShown` and `ExpiredSignsOut`, which are liveness.

## 11. Login

### State and actions

`failures` is `Throttle.failures`, as sets of times: the clock is read under the lock and only moves
on. A caller with none is not in the map. `attempt` is what `HandleLogin` is doing between asking
(`LetIn`, `Refuse`) and telling (`Wrong`, `Right`; `Unreadable` tells nothing): two critical sections, so
attempts overlap. `RecordFailure` prunes its own caller's entry, evicts the oldest when the map is full
and appends. `told` and `overlapped` are history: the moment a refused caller was told to come
back, and the callers two of whose attempts were in flight together.

Abstracted: the pause after a failure, the cookie, how a request is mapped to a caller. A
password is configured; without one nothing of this is reached.

### Runs

| run | expects | shows |
|---|---|---|
| `login` | pass | `RetryAfterHonest`, `LiveFailuresKept` |

Bounds. Three callers for a map of two, so that entries are evicted; two attempts at once; a limit
of two and a window of four ticks, so that one failure of a caller may have aged out while
another counts. Eight readings of the clock are two windows.

`RetryAfterHonest` excepts callers whose attempts overlapped. All of those are let in below the
limit and may together record more failures than the limit; then one failure ageing
out, which is what Retry-After announces, does not make room for another attempt.

### Proofs

In `SessionProofs`, for any finite set of callers, any attempts, limit, window, size of the map and clock:

* `LoginTypeOK`: the map never holds more than `MaxKeys` callers. `LessIsFine` and `OneMoreIsFine` count it.
* `LoginRetryAfterHonest`. `LoginInv` says of a caller that never overlapped that at most one attempt of
  its is in flight, let in below the limit and told nothing since (`OneByOne`), so that its
  history never passes the limit; and that what it was told is when one of its failures ages
  out, unless it is below the limit already (`ToldWhy`).
* `LoginLiveFailuresKept`: the victim has the oldest last failure, so if that still counts every
  entry has one that counts.

## 12. Where code and documentation disagree

Two are listed runs, whose counterexamples TLC prints; the others are reproduced by the `.cfg`
named, with `tlc -config <cfg> <module>`.

* `README.md:194` promises one alert per flip. `run now` is not under the cron entry's skip lock, and a
  replaced entry brings a fresh one, so two runs can both read the disarmed trigger
  (run `runner_overlap`).
* `api/channel_handler.go:211` says a blank or masked field falls back to what is stored. Only what begins
  with the bullets is taken for a mask, and the mask of a Slack or Discord URL begins with its
  scheme: an untouched form stores the mask (run `channel_mask`). For the same reason headers of a
  webhook that a caller of the API sends back as shown are stored as shown, since only
  strings are looked at; headers are not modelled.
* `store/task_store.go:165` says an edit re-arms so that nothing swallows the first alert of the new
  definition. A run of the old one still in flight arms the trigger afterwards
  (`MCRunnerEdit.cfg`).
* `runner/runner.go:189` says the order of the writes keeps the row from claiming a breakdown that
  was never stored. The error of the first write is only logged (`MCRunnerChannel.cfg`).
* `app/app.go:215` says shutdown waits for in-flight runs. It waits for those cron started
  (`MCRunnerStop.cfg`).
* `api/task_handler.go:290` says `SetEnabled` owns both the cron entry and the row. It writes the
  row after it has released the mutex, so two toggles can end with an armed task whose row
  is disabled, or the reverse, until the next edit or boot (`MCRegistryToggle.cfg`).
* `browser/browser.go:52` says the socket is closed at the deadline so that the next run cannot
  pile a second session onto the browser. A dial that succeeds just before the deadline is
  stored after `conn.close` has run, and its socket stays open (`MCBrowserPoolLate.cfg`).
* `types/constants.go:132` says the pairing of operators and kinds is enforced so that no condition can
  never fire, and line 146 that a numeric threshold is finite. `eq` with "1.0" never fires, and
  "NaN" and "Inf" parse (`MCConditionsDead.cfg`).
* `executor/executor.go:45` says the worst an edit can cost is one skipped alert, and `README.md:161` adds
  that it is never a spurious one. A key does not have the URL in it (`MCConditionsEdit.cfg`).
* `config/index.ts:41` says freshness comes from the event socket as the server reports changes, and
  `hooks/useMonitorEvents.ts:31` that a page has something to catch up with when it reconnects. A
  change published between the answer to a socket's handshake and its subscription reaches nobody
  (`MCDashboardWindow.cfg`); so does one of a handler that fails before it publishes, and a refetch that fails is not
  repeated.
* `types/types.go:286` and `schedule.go:24` say an expression without a control survives an edit untouched. A
  step wider than the builder's interval does not come back as custom, and its untouched
  form is refused (the exception in `UntouchedSaves`).

## 13. Not modelled

Page rendering and selectors (the browser decides them), how a message is worded and cut, the
transports beyond delivered or not, the cipher and the signature of a cookie, the run
history's filters and pages (one statement each), migrations, configuration, routing,
utilities, test sends, the task form beyond its schedule, and the dashboard's rendering.
Of the health monitor only what it publishes is modelled: that it compares with its own last
probe, so that a failure between two probes is seen by a dashboard's own fetch and
announced to none, has no property here. `PROJECT.json` lists every part with its status, the
lines each definition stands for, the hazards of the code and which property covers which.
