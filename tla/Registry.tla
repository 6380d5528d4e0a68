-------------------------------- MODULE Registry --------------------------------
(***************************************************************************)
(* scheduler.Registry against the task table: the live definitions and the *)
(* cron entries, the stored rows they are meant to follow, and the request *)
(* handlers that change both in separate steps.                            *)
(*                                                                         *)
(* A step of a handler is one database statement or one critical section   *)
(* of Registry.mu. Handlers run concurrently, any statement may fail, and  *)
(* the process may die; a boot rebuilds the registry from the rows.        *)
(***************************************************************************)
EXTENDS Naturals

CONSTANTS
  Tasks,     \* task ids
  Handlers,  \* request goroutines
  MaxRev,    \* bound on the revisions of one task's row
  Faults     \* may a database statement fail

ASSUME RegistryAssumption ==
  /\ MaxRev \in Nat \ {0}
  /\ Faults \in BOOLEAN

VARIABLES
  server,    \* is the process up
  row,       \* table tasks
  entries,   \* Registry.entries: rev 0 is "not in the map", armed is "entryID is not 0"
  cron,      \* how many entries of cron.Cron fire which revision of which task
  handler,   \* the request goroutines and their locals
  disturbed  \* tasks on which, since boot, two handlers met or a handler was cut
             \* short by a failing statement after it had changed something

vars == <<server, row, entries, cron, handler, disturbed>>

Revs == 1..MaxRev

\* spec: it decodes; cron: its expression parses. Only a row from elsewhere lacks
\* one of them, since both are validated before they are written.
Row == [exists: BOOLEAN, rev: Revs, enabled: BOOLEAN, spec: BOOLEAN, cron: BOOLEAN]
Entry == [rev: 0..MaxRev, armed: BOOLEAN, parses: BOOLEAN]
Patches == {"none", "spec", "cron", "other"}
Switches == {"keep", "on", "off"}

\* Each phase names the call the handler is about to make.
Phases == {"inserting", "reading", "registering", "writing", "flagging",
           "toggling", "persisting", "unregistering", "deleting"}
Request == [phase: Phases, task: Tasks, patch: Patches, switch: Switches, seen: Row]
Idle == [phase |-> "idle"]
NoRow == [exists |-> FALSE, rev |-> 1, enabled |-> FALSE, spec |-> FALSE, cron |-> FALSE]

Absent == [rev |-> 0, armed |-> FALSE, parses |-> FALSE]
Compiled(stored) == [rev |-> stored.rev, armed |-> stored.enabled, parses |-> stored.cron]
InMap(t) == entries[t].rev # 0
Busy(h, t) == handler[h] # Idle /\ handler[h].task = t
Alone(t) == \A h \in Handlers : ~Busy(h, t)

-------------------------------------------------------------------------------
(* The registry's critical sections *)

\* Mutant: "entryID is not 0" is not asked.
RemovedUnarmed(t) ==
  [cron EXCEPT ![t] = [v \in Revs |->
     IF v = entries[t].rev THEN cron[t][v] - 1 ELSE cron[t][v]]]

\* cron.Remove of the entry a task has, if it has one.
Removed(t) ==
  [cron EXCEPT ![t] = [v \in Revs |->
     IF entries[t].armed /\ v = entries[t].rev THEN cron[t][v] - 1 ELSE cron[t][v]]]

\* cron.AddFunc
Added(jobs, t, rev) == [jobs EXCEPT ![t][rev] = @ + 1]

\* Mutant: the old entry is not removed first.
RegisterOnTop(t, stored) ==
  IF ~stored.spec
  THEN UNCHANGED <<entries, cron>>
  ELSE IF stored.enabled /\ ~stored.cron
  THEN /\ entries' = [entries EXCEPT ![t] = Absent]
       /\ cron' = cron
  ELSE /\ entries' = [entries EXCEPT ![t] = Compiled(stored)]
       /\ cron' = IF stored.enabled THEN Added(cron, t, stored.rev) ELSE cron

\* Register, and Reschedule, which is the same: the old entry goes before the new
\* one is compiled, so an expression cron refuses leaves the task with none.
Register(t, stored) ==
  IF ~stored.spec
  THEN UNCHANGED <<entries, cron>>
  ELSE IF stored.enabled /\ ~stored.cron
  THEN /\ entries' = [entries EXCEPT ![t] = Absent]
       /\ cron' = Removed(t)
  ELSE /\ entries' = [entries EXCEPT ![t] = Compiled(stored)]
       /\ cron' = IF stored.enabled THEN Added(Removed(t), t, stored.rev) ELSE Removed(t)

\* SetEnabled up to its unlock. The expression of a disabled entry was never parsed.
Refused(t, on) == ~InMap(t) \/ (on /\ ~entries[t].armed /\ ~entries[t].parses)

Toggle(t, on) ==
  \/ /\ on /\ ~entries[t].armed
     /\ entries' = [entries EXCEPT ![t].armed = TRUE]
     /\ cron' = Added(cron, t, entries[t].rev)
  \/ /\ ~on /\ entries[t].armed
     /\ entries' = [entries EXCEPT ![t].armed = FALSE]
     /\ cron' = Removed(t)
  \/ /\ on = entries[t].armed
     /\ UNCHANGED <<entries, cron>>

-------------------------------------------------------------------------------
(* The request handlers *)

Goto(h, phase) == handler' = [handler EXCEPT ![h].phase = phase]
Finish(h) == handler' = [handler EXCEPT ![h] = Idle]
In(h, phase) == server = "up" /\ handler[h].phase = phase
Disturb(t) == disturbed' = disturbed \cup {t}

\* A request arrives and finds its task, or none on a create, with GetTask; without
\* that it is answered 404, 409 or 500. Another may be at work on the same task.
Begin(h, t, phase, patch, switch) ==
  /\ In(h, "idle")
  /\ handler' = [handler EXCEPT ![h] = [phase |-> phase, task |-> t, patch |-> patch,
                                       switch |-> switch, seen |-> NoRow]]
  /\ IF Alone(t) THEN UNCHANGED disturbed ELSE Disturb(t)
  /\ UNCHANGED <<server, row, entries, cron>>

HandleCreateTask(h, t, switch) ==
  ~row[t].exists /\ Begin(h, t, "inserting", "none", switch)

\* A request that patches nothing but "enabled" leaves it all to SetEnabled.
HandleUpdateTask(h, t, patch, switch) ==
  /\ row[t].exists
  /\ \/ patch # "none" /\ Begin(h, t, "writing", patch, switch)
     \/ patch = "none" /\ switch # "keep" /\ Begin(h, t, "toggling", patch, switch)

HandleDeleteTask(h, t) ==
  row[t].exists /\ Begin(h, t, "unregistering", "none", "keep")

\* CreateTask: the insert. A row that appeared meanwhile is a constraint failure.
Insert(h) ==
  LET t == handler[h].task IN
  /\ In(h, "inserting")
  /\ \/ /\ ~row[t].exists
        /\ row[t].rev < MaxRev
        /\ row' = [row EXCEPT ![t] = [exists |-> TRUE, rev |-> @.rev + 1,
                                      enabled |-> handler[h].switch # "off",
                                      spec |-> TRUE, cron |-> TRUE]]
        /\ Goto(h, "reading")
        /\ UNCHANGED disturbed
     \/ (row[t].exists \/ Faults) /\ Finish(h) /\ UNCHANGED <<row, disturbed>>
  /\ UNCHANGED <<server, entries, cron>>

\* UpdateTask: the patch, in one statement; no row is no error.
Patched(stored, patch) ==
  [stored EXCEPT !.rev = @ + 1, !.spec = @ \/ patch = "spec", !.cron = @ \/ patch = "cron"]

Write(h) ==
  LET t == handler[h].task IN
  /\ In(h, "writing")
  /\ row[t].rev < MaxRev
  /\ \/ /\ row' = IF row[t].exists
                  THEN [row EXCEPT ![t] = Patched(@, handler[h].patch)] ELSE row
        /\ Goto(h, IF handler[h].switch = "keep" THEN "reading" ELSE "flagging")
        /\ UNCHANGED disturbed
     \/ Faults /\ Finish(h) /\ UNCHANGED <<row, disturbed>>
     \/ /\ Faults /\ row[t].exists  \* written, but not read back
        /\ row' = [row EXCEPT ![t] = Patched(@, handler[h].patch)]
        /\ Finish(h)
        /\ Disturb(t)
  /\ UNCHANGED <<server, entries, cron>>

\* SetTaskEnabled; its error is logged and the handler goes on. Before the row is
\* read back that is consistent; after the entry was toggled it is not.
Flagged(h) ==
  LET t == handler[h].task IN
  IF row[t].exists THEN [row EXCEPT ![t].enabled = handler[h].switch = "on"] ELSE row

\* Mutant: the row is registered first and flagged afterwards.
FlagAfterRegister(h) ==
  /\ In(h, "flagging")
  /\ Register(handler[h].task, row[handler[h].task])
  /\ row' = Flagged(h)
  /\ Finish(h)
  /\ UNCHANGED <<server, disturbed>>

FlagBeforeRegister(h) ==
  /\ In(h, "flagging")
  /\ row' = Flagged(h) \/ (Faults /\ UNCHANGED row)
  /\ Goto(h, "reading")
  /\ UNCHANGED <<server, entries, cron, disturbed>>

FlagAfterToggle(h) ==
  /\ In(h, "persisting")
  /\ \/ row' = Flagged(h) /\ UNCHANGED disturbed
     \/ Faults /\ Disturb(handler[h].task) /\ UNCHANGED row
  /\ Finish(h)
  /\ UNCHANGED <<server, entries, cron>>

\* The row as just written is what gets registered.
ReadBack(h) ==
  LET t == handler[h].task IN
  /\ In(h, "reading")
  /\ \/ /\ row[t].exists
        /\ handler' = [handler EXCEPT ![h].phase = "registering", ![h].seen = row[t]]
        /\ UNCHANGED disturbed
     \/ ~row[t].exists /\ Finish(h) /\ UNCHANGED disturbed
     \/ Faults /\ Finish(h) /\ Disturb(t)
  /\ UNCHANGED <<server, row, entries, cron>>

RegisterSeen(h) ==
  /\ In(h, "registering")
  /\ Register(handler[h].task, handler[h].seen)
  /\ Finish(h)
  /\ UNCHANGED <<server, row, disturbed>>

\* SetEnabled, first half. 409 for a task the registry does not have, and for one
\* whose expression cron refuses.
SetEnabled(h) ==
  LET t == handler[h].task
      on == handler[h].switch = "on"
  IN
  /\ In(h, "toggling")
  /\ \/ /\ ~Refused(t, on)
        /\ Toggle(t, on)
        /\ Goto(h, "persisting")
     \/ /\ Refused(t, on)
        /\ Finish(h)
        /\ UNCHANGED <<entries, cron>>
  /\ UNCHANGED <<server, row, disturbed>>

Unregister(h) ==
  LET t == handler[h].task IN
  /\ In(h, "unregistering")
  /\ entries' = [entries EXCEPT ![t] = Absent]
  /\ cron' = Removed(t)
  /\ Goto(h, "deleting")
  /\ UNCHANGED <<server, row, disturbed>>

\* A delete that fails leaves the row without its entry.
Delete(h) ==
  LET t == handler[h].task IN
  /\ In(h, "deleting")
  /\ \/ row' = [row EXCEPT ![t].exists = FALSE] /\ UNCHANGED disturbed
     \/ Faults /\ Disturb(t) /\ UNCHANGED row
  /\ Finish(h)
  /\ UNCHANGED <<server, entries, cron>>

HandlerStep(h) ==
  \/ Insert(h)
  \/ Write(h)
  \/ FlagBeforeRegister(h)
  \/ FlagAfterToggle(h)
  \/ ReadBack(h)
  \/ RegisterSeen(h)
  \/ SetEnabled(h)
  \/ Unregister(h)
  \/ Delete(h)

-------------------------------------------------------------------------------
(* The process *)

\* ScheduleAll skips a row with no usable spec and goes on. A disabled task is
\* kept in the map, for "run now", without a cron entry.
Schedulable(stored) == stored.exists /\ stored.spec /\ (stored.enabled => stored.cron)

\* Boot registers every stored task before the HTTP server listens.
Boot ==
  /\ server = "down"
  /\ server' = "up"
  /\ entries' = [t \in Tasks |->
       IF Schedulable(row[t]) THEN Compiled(row[t]) ELSE Absent]
  /\ cron' = [t \in Tasks |-> [v \in Revs |->
       IF Schedulable(row[t]) /\ row[t].enabled /\ v = row[t].rev THEN 1 ELSE 0]]
  /\ disturbed' = {}
  /\ UNCHANGED <<row, handler>>

\* The process dies, with its handlers and everything in memory.
Exit ==
  /\ server = "up"
  /\ server' = "down"
  /\ entries' = [t \in Tasks |-> Absent]
  /\ cron' = [t \in Tasks |-> [v \in Revs |-> 0]]
  /\ handler' = [h \in Handlers |-> Idle]
  /\ UNCHANGED <<row, disturbed>>

Init ==
  /\ server = "down"
  /\ row \in [Tasks -> {r \in Row : r.rev = 1}]
  /\ entries = [t \in Tasks |-> Absent]
  /\ cron = [t \in Tasks |-> [v \in Revs |-> 0]]
  /\ handler = [h \in Handlers |-> Idle]
  /\ disturbed = {}

Next ==
  \/ \E h \in Handlers, t \in Tasks :
       \/ \E switch \in Switches : HandleCreateTask(h, t, switch)
       \/ \E patch \in Patches, switch \in Switches : HandleUpdateTask(h, t, patch, switch)
       \/ HandleDeleteTask(h, t)
  \/ \E h \in Handlers : HandlerStep(h)
  \/ Boot
  \/ Exit

Spec == Init /\ [][Next]_vars

-------------------------------------------------------------------------------
(* Properties *)

\* The table, the map, the scheduler and the handlers keep their types.
TypeOK ==
  /\ server \in {"up", "down"}
  /\ row \in [Tasks -> Row]
  /\ entries \in [Tasks -> Entry]
  /\ cron \in [Tasks -> [Revs -> Nat]]
  /\ handler \in [Handlers -> Request \cup {Idle}]
  /\ disturbed \subseteq Tasks

\* However handlers interleave, a task's entry in the map has exactly one cron entry
\* of its own revision if it is armed, and cron has no other for the task: nothing
\* fires twice per tick, and nothing fires that "unregister" can no longer reach.
OneCronEntry ==
  \A t \in Tasks, v \in Revs :
    cron[t][v] = IF entries[t].armed /\ entries[t].rev = v THEN 1 ELSE 0

\* The registry agrees with the table on a task: it holds the stored revision, armed
\* if the row is enabled, or nothing for a row it cannot run.
InSync(t) ==
  /\ InMap(t) <=> row[t].exists /\ row[t].spec /\ (row[t].enabled => row[t].cron)
  /\ InMap(t) => entries[t].rev = row[t].rev /\ entries[t].armed = row[t].enabled

\* "Editing the schedule re-arms the cron entry live": handlers that had a task to
\* themselves and were not cut short leave the registry as the row says, whatever
\* happened to the task before the last boot.
Followed ==
  server = "up" => \A t \in Tasks : Alone(t) /\ t \notin disturbed => InSync(t)

\* SetEnabled "owns both the cron entry and the row": with nobody at work on a task
\* the two agree on whether it is enabled.
ToggleOwnsBoth ==
  \A t \in Tasks :
    server = "up" /\ Alone(t) /\ InMap(t) /\ row[t].exists =>
      entries[t].armed = row[t].enabled
===============================================================================
