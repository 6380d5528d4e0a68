---------------------------- MODULE RegistryProofs ----------------------------
(***************************************************************************)
(* What TLAPS proves of Registry for any number of tasks, of concurrent    *)
(* handlers and of revisions: one cron entry per armed task under every    *)
(* interleaving, and a registry that follows the table wherever a handler  *)
(* had the task to itself.                                                 *)
(***************************************************************************)
EXTENDS Registry, TLAPS

\* The constants of the specification, without which no revision is typed.
USE RegistryAssumption

-------------------------------------------------------------------------------
(* The inductive invariant *)

\* Outside the map there is nothing; no handler lives while the process is down.
EntriesSound ==
  /\ \A t \in Tasks : InMap(t) \/ entries[t] = Absent
  /\ server = "down" => \A h \in Handlers : handler[h] = Idle

\* The entry is exactly what Register would make of the row.
Synced(t) ==
  entries[t] = IF Schedulable(row[t]) THEN Compiled(row[t]) ELSE Absent

\* A row about to be registered: Register leaves a row without a spec alone, which
\* is right only because such a row has no entry.
Registrable(t) == row[t].exists /\ (InMap(t) => row[t].spec)

\* What holds of a handler's task at each of its phases, if it is on its own.
Midway(h, t) ==
  /\ handler[h].phase = "inserting" => Synced(t) /\ ~row[t].exists
  /\ handler[h].phase = "writing" => Synced(t) /\ row[t].exists
  /\ handler[h].phase \in {"flagging", "reading", "registering"} => Registrable(t)
  /\ handler[h].phase = "registering" => handler[h].seen = row[t]
  /\ handler[h].phase = "toggling" => Synced(t) /\ row[t].exists
  /\ handler[h].phase = "persisting" =>
       /\ row[t].exists /\ row[t].spec /\ InMap(t)
       /\ entries[t].rev = row[t].rev /\ entries[t].parses = row[t].cron
       /\ entries[t].armed = (handler[h].switch = "on")
       /\ entries[t].armed => row[t].cron
  /\ handler[h].phase = "unregistering" => Synced(t)
  /\ handler[h].phase = "deleting" => entries[t] = Absent

Solo(t) == \A h, k \in Handlers : Busy(h, t) /\ Busy(k, t) => h = k

Tracked(t) ==
  /\ Solo(t)
  /\ Alone(t) => Synced(t)
  /\ \A h \in Handlers : Busy(h, t) => Midway(h, t)

FollowInv == server = "up" => \A t \in Tasks \ disturbed : Tracked(t)

RegistryInv == TypeOK /\ EntriesSound /\ OneCronEntry /\ FollowInv

-------------------------------------------------------------------------------
(* The registry's critical sections *)

\* Removing a task's cron entry leaves it none, and the others theirs.
LEMMA RemovedCounts ==
  ASSUME TypeOK, EntriesSound, OneCronEntry, NEW t \in Tasks
  PROVE  /\ Removed(t) \in [Tasks -> [Revs -> Nat]]
         /\ \A u \in Tasks, v \in Revs : Removed(t)[u][v] = IF u = t THEN 0 ELSE cron[u][v]
<1>1. \A v \in Revs :
        (IF entries[t].armed /\ v = entries[t].rev THEN cron[t][v] - 1 ELSE cron[t][v]) = 0
  BY DEF OneCronEntry
<1>2. Removed(t) = [cron EXCEPT ![t] = [v \in Revs |-> 0]]
  BY <1>1 DEF Removed
<1> QED BY <1>2 DEF TypeOK

\* Adding one to a task without any.
LEMMA AddedCounts ==
  ASSUME NEW jobs \in [Tasks -> [Revs -> Nat]], NEW t \in Tasks, NEW rev \in Revs,
         \A v \in Revs : jobs[t][v] = 0
  PROVE  /\ Added(jobs, t, rev) \in [Tasks -> [Revs -> Nat]]
         /\ \A u \in Tasks, v \in Revs :
              Added(jobs, t, rev)[u][v] =
                IF u = t THEN (IF v = rev THEN 1 ELSE 0) ELSE jobs[u][v]
  BY DEF Added

\* What the three critical sections have in common: the entry of one task changes,
\* soundly, and cron with it.
Rearmed(t) ==
  /\ entries' \in [Tasks -> Entry]
  /\ cron' \in [Tasks -> [Revs -> Nat]]
  /\ \A u \in Tasks \ {t} : entries'[u] = entries[u]
  /\ entries'[t].rev # 0 \/ entries'[t] = Absent
  /\ OneCronEntry'

\* Register, whatever row it is handed.
LEMMA RegisterRearms ==
  ASSUME TypeOK, EntriesSound, OneCronEntry, NEW t \in Tasks, NEW stored \in Row,
         Register(t, stored)
  PROVE  Rearmed(t)
<1>1. /\ Removed(t) \in [Tasks -> [Revs -> Nat]]
      /\ \A u \in Tasks, v \in Revs : Removed(t)[u][v] = IF u = t THEN 0 ELSE cron[u][v]
  BY RemovedCounts
<1>2. Absent \in Entry /\ Compiled(stored) \in Entry /\ stored.rev \in Revs
  BY DEF Absent, Compiled, Entry, Row, Revs
<1>3. CASE ~stored.spec
  BY <1>3 DEF Register, Rearmed, TypeOK, OneCronEntry, EntriesSound, InMap
<1>4. CASE stored.spec /\ stored.enabled /\ ~stored.cron
  <2>1. entries' = [entries EXCEPT ![t] = Absent] /\ cron' = Removed(t)
    BY <1>4 DEF Register
  <2>2. entries' \in [Tasks -> Entry] /\ entries'[t] = Absent
        /\ \A u \in Tasks \ {t} : entries'[u] = entries[u]
    BY <1>2, <2>1 DEF TypeOK
  <2>3. OneCronEntry'
    BY <1>1, <2>1, <2>2 DEF OneCronEntry, Absent
  <2> QED BY <1>1, <2>1, <2>2, <2>3 DEF Rearmed, Absent
<1>5. CASE stored.spec /\ ~(stored.enabled /\ ~stored.cron)
  <2>1. entries' = [entries EXCEPT ![t] = Compiled(stored)]
    BY <1>5 DEF Register
  <2>2. entries' \in [Tasks -> Entry] /\ entries'[t] = Compiled(stored)
        /\ \A u \in Tasks \ {t} : entries'[u] = entries[u]
    BY <1>2, <2>1 DEF TypeOK
  <2>3. CASE stored.enabled
    <3>1. cron' = Added(Removed(t), t, stored.rev)
      BY <1>5, <2>3 DEF Register
    <3>2. /\ cron' \in [Tasks -> [Revs -> Nat]]
          /\ \A u \in Tasks, v \in Revs :
               cron'[u][v] = IF u = t THEN (IF v = stored.rev THEN 1 ELSE 0) ELSE cron[u][v]
      BY <1>1, <1>2, <3>1, AddedCounts
    <3>3. OneCronEntry'
      BY <3>2, <2>2, <2>3 DEF OneCronEntry, Compiled
    <3> QED BY <1>2, <2>2, <3>2, <3>3 DEF Rearmed, Compiled, Revs
  <2>4. CASE ~stored.enabled
    <3>1. cron' = Removed(t)
      BY <1>5, <2>4 DEF Register
    <3>2. OneCronEntry'
      BY <1>1, <3>1, <2>2, <2>4 DEF OneCronEntry, Compiled
    <3> QED BY <1>1, <1>2, <2>2, <3>1, <3>2 DEF Rearmed, Compiled, Revs
  <2> QED BY <2>3, <2>4
<1> QED BY <1>3, <1>4, <1>5

\* SetEnabled, up to its unlock.
LEMMA ToggleRearms ==
  ASSUME TypeOK, EntriesSound, OneCronEntry, NEW t \in Tasks, InMap(t),
         NEW on \in BOOLEAN, Toggle(t, on)
  PROVE  Rearmed(t)
<1>1. entries[t] \in Entry /\ entries[t].rev \in Revs
  BY DEF TypeOK, Entry, InMap, Revs
<1>2. ASSUME on, ~entries[t].armed,
             entries' = [entries EXCEPT ![t].armed = TRUE],
             cron' = Added(cron, t, entries[t].rev)
      PROVE Rearmed(t)
  <2>1. \A v \in Revs : cron[t][v] = 0
    BY <1>2 DEF OneCronEntry
  <2>2. /\ cron' \in [Tasks -> [Revs -> Nat]]
        /\ \A u \in Tasks, v \in Revs :
             cron'[u][v] = IF u = t THEN (IF v = entries[t].rev THEN 1 ELSE 0) ELSE cron[u][v]
    BY <1>1, <1>2, <2>1, AddedCounts DEF TypeOK
  <2>3. /\ entries' \in [Tasks -> Entry]
        /\ entries'[t].armed /\ entries'[t].rev = entries[t].rev
        /\ \A u \in Tasks \ {t} : entries'[u] = entries[u]
    BY <1>2 DEF TypeOK, Entry
  <2>4. OneCronEntry'
    BY <2>2, <2>3 DEF OneCronEntry
  <2> QED BY <1>1, <2>2, <2>3, <2>4 DEF Rearmed, Revs
<1>3. ASSUME ~on, entries' = [entries EXCEPT ![t].armed = FALSE], cron' = Removed(t)
      PROVE Rearmed(t)
  <2>1. /\ cron' \in [Tasks -> [Revs -> Nat]]
        /\ \A u \in Tasks, v \in Revs : cron'[u][v] = IF u = t THEN 0 ELSE cron[u][v]
    BY <1>3, RemovedCounts
  <2>2. /\ entries' \in [Tasks -> Entry]
        /\ ~entries'[t].armed /\ entries'[t].rev = entries[t].rev
        /\ \A u \in Tasks \ {t} : entries'[u] = entries[u]
    BY <1>3 DEF TypeOK, Entry
  <2>3. OneCronEntry'
    BY <2>1, <2>2 DEF OneCronEntry
  <2> QED BY <1>1, <2>1, <2>2, <2>3 DEF Rearmed, Revs
<1>4. ASSUME UNCHANGED <<entries, cron>> PROVE Rearmed(t)
  BY <1>4 DEF Rearmed, TypeOK, OneCronEntry, EntriesSound, InMap
<1> QED BY <1>2, <1>3, <1>4 DEF Toggle

-------------------------------------------------------------------------------
(* One handler's step *)

\* A step of h disturbs no other handler and no task but t.
LocalTo(h, t) ==
  /\ \A u \in Tasks \ {t} : row'[u] = row[u] /\ entries'[u] = entries[u]
  /\ \A k \in Handlers \ {h} : handler'[k] = handler[k]
  /\ \A u \in Tasks \ {t} : ~Busy(h, u) /\ ~Busy(h, u)'
  /\ disturbed \subseteq disturbed'

\* Other tasks do not notice.
LEMMA OthersTracked ==
  ASSUME NEW h \in Handlers, NEW t \in Tasks, LocalTo(h, t),
         NEW u \in Tasks \ {t}, Tracked(u)
  PROVE  Tracked(u)'
<1>1. row'[u] = row[u] /\ entries'[u] = entries[u]
  BY DEF LocalTo
<1>2. \A k \in Handlers : Busy(k, u)' <=> Busy(k, u)
  BY DEF LocalTo, Busy
<1>3. \A k \in Handlers : Busy(k, u) => handler'[k] = handler[k]
  BY DEF LocalTo
<1>4. Synced(u)' <=> Synced(u)
  BY <1>1 DEF Synced
<1>5. \A k \in Handlers : Busy(k, u) /\ Midway(k, u) => Midway(k, u)'
  BY <1>1, <1>3, <1>4 DEF Midway, Registrable, InMap
<1> QED BY <1>2, <1>4, <1>5 DEF Tracked, Solo, Alone

\* The handler's own task: it is on its way, or it is through and in step.
LEMMA OwnTracked ==
  ASSUME NEW h \in Handlers, NEW t \in Tasks, LocalTo(h, t), Tracked(t), Busy(h, t),
         \/ handler'[h] = Idle /\ Synced(t)'
         \/ Busy(h, t)' /\ Midway(h, t)'
  PROVE  Tracked(t)'
<1>1. \A k \in Handlers \ {h} : ~Busy(k, t) /\ ~Busy(k, t)'
  BY DEF LocalTo, Tracked, Solo, Busy
<1>2. CASE handler'[h] = Idle /\ Synced(t)'
  BY <1>1, <1>2 DEF Tracked, Solo, Alone, Busy
<1>3. CASE Busy(h, t)' /\ Midway(h, t)'
  BY <1>1, <1>3 DEF Tracked, Solo, Alone
<1> QED BY <1>2, <1>3

\* Together: a handler's step keeps every undisturbed task tracked.
LEMMA HandlerFollows ==
  ASSUME FollowInv, server = "up", NEW h \in Handlers, NEW t \in Tasks,
         LocalTo(h, t), Busy(h, t),
         t \notin disturbed' /\ Tracked(t) =>
           \/ handler'[h] = Idle /\ Synced(t)'
           \/ Busy(h, t)' /\ Midway(h, t)'
  PROVE  FollowInv'
<1>1. ASSUME NEW u \in Tasks \ disturbed' PROVE Tracked(u)'
  <2>1. Tracked(u)
    BY DEF FollowInv, LocalTo
  <2>2. CASE u # t
    BY <2>1, <2>2, OthersTracked
  <2>3. CASE u = t
    BY <2>1, <2>3, <1>1, OwnTracked
  <2> QED BY <2>2, <2>3
<1> QED BY <1>1 DEF FollowInv

\* A handler in some phase is at work on its task.
LEMMA AtWork ==
  ASSUME TypeOK, NEW h \in Handlers, NEW phase \in Phases, In(h, phase)
  PROVE  /\ handler[h] \in Request
         /\ handler[h].task \in Tasks
         /\ Busy(h, handler[h].task)
         /\ server = "up"
  BY DEF TypeOK, In, Request, Idle, Phases, Busy

\* Going on, or finishing, concerns no other handler.
LEMMA Moves ==
  ASSUME TypeOK, NEW h \in Handlers, NEW t \in Tasks, Busy(h, t), NEW phase \in Phases,
         Goto(h, phase)
  PROVE  /\ handler' \in [Handlers -> Request \cup {Idle}]
         /\ handler'[h] = [handler[h] EXCEPT !.phase = phase]
         /\ handler'[h].phase = phase
         /\ Busy(h, t)'
         /\ \A k \in Handlers \ {h} : handler'[k] = handler[k]
         /\ \A u \in Tasks \ {t} : ~Busy(h, u) /\ ~Busy(h, u)'
<1>1. handler[h] \in Request /\ handler[h].task = t
  BY DEF TypeOK, Busy
<1>2. handler' = [handler EXCEPT ![h] = [handler[h] EXCEPT !.phase = phase]]
  BY DEF Goto
<1>3. [handler[h] EXCEPT !.phase = phase] \in Request
  BY <1>1 DEF Request
<1>4. handler'[h] = [handler[h] EXCEPT !.phase = phase]
  BY <1>2 DEF TypeOK
<1>5. handler'[h].task = t /\ handler'[h].phase = phase
  BY <1>1, <1>4 DEF Request
<1>6. handler'[h] # Idle
  BY <1>5 DEF Idle, Phases
<1> QED BY <1>1, <1>2, <1>3, <1>4, <1>5, <1>6 DEF TypeOK, Busy

LEMMA Finishes ==
  ASSUME TypeOK, NEW h \in Handlers, NEW t \in Tasks, Busy(h, t), Finish(h)
  PROVE  /\ handler' \in [Handlers -> Request \cup {Idle}]
         /\ handler'[h] = Idle
         /\ \A k \in Handlers \ {h} : handler'[k] = handler[k]
         /\ \A u \in Tasks \ {t} : ~Busy(h, u) /\ ~Busy(h, u)'
  BY DEF Finish, TypeOK, Busy

\* What every handler's step has in common keeps the invariant.
LEMMA HandlerKeeps ==
  ASSUME RegistryInv, NEW h \in Handlers, NEW t \in Tasks,
         server = "up", server' = server, LocalTo(h, t), Busy(h, t),
         row' \in [Tasks -> Row],
         handler' \in [Handlers -> Request \cup {Idle}],
         disturbed' \subseteq Tasks,
         UNCHANGED <<entries, cron>> \/ Rearmed(t),
         t \notin disturbed' /\ Tracked(t) =>
           \/ handler'[h] = Idle /\ Synced(t)'
           \/ Busy(h, t)' /\ Midway(h, t)'
  PROVE  RegistryInv'
<1>1. FollowInv'
  BY HandlerFollows DEF RegistryInv
<1>2. CASE UNCHANGED <<entries, cron>>
  <2>1. TypeOK'
    BY <1>2 DEF RegistryInv, TypeOK
  <2>2. EntriesSound' /\ OneCronEntry'
    BY <1>2 DEF RegistryInv, EntriesSound, OneCronEntry, InMap
  <2> QED BY <1>1, <2>1, <2>2 DEF RegistryInv
<1>3. CASE Rearmed(t)
  <2>1. TypeOK'
    BY <1>3 DEF RegistryInv, TypeOK, Rearmed
  <2>2. EntriesSound' /\ OneCronEntry'
    BY <1>3 DEF RegistryInv, EntriesSound, InMap, Rearmed, Absent
  <2> QED BY <1>1, <2>1, <2>2 DEF RegistryInv
<1> QED BY <1>2, <1>3

\* A row's revision is bounded, and so is a patched row's.
LEMMA PatchedRow ==
  ASSUME NEW stored \in Row, stored.rev < MaxRev, NEW patch
  PROVE  /\ Patched(stored, patch) \in Row
         /\ Patched(stored, patch).exists = stored.exists
         /\ stored.spec => Patched(stored, patch).spec
<1>1. stored.rev + 1 \in Revs
  BY DEF Row, Revs
<1>2. \A f \in Row : \A x \in Revs : [f EXCEPT !.rev = x] \in Row
  BY DEF Row
<1>3. \A f \in Row : \A x \in BOOLEAN : [f EXCEPT !.spec = x] \in Row
  BY DEF Row
<1>4. \A f \in Row : \A x \in BOOLEAN : [f EXCEPT !.cron = x] \in Row
  BY DEF Row
<1>5. /\ (stored.spec \/ patch = "spec") \in BOOLEAN
      /\ (stored.cron \/ patch = "cron") \in BOOLEAN
  OBVIOUS
<1> DEFINE one == [stored EXCEPT !.rev = stored.rev + 1]
           two == [one EXCEPT !.spec = stored.spec \/ patch = "spec"]
<1>6. one \in Row
  BY <1>1, <1>2
<1>7. two \in Row
  BY <1>3, <1>5, <1>6, Zenon
<1>8. Patched(stored, patch) \in Row
  BY <1>4, <1>5, <1>7, Zenon DEF Patched
<1> QED BY <1>8 DEF Patched, Row

LEMMA FlaggedRow ==
  ASSUME NEW stored \in Row, NEW x \in BOOLEAN
  PROVE  LET new == [stored EXCEPT !.enabled = x] IN
         /\ new \in Row
         /\ new.enabled = x
         /\ new.exists = stored.exists /\ new.rev = stored.rev
         /\ new.spec = stored.spec /\ new.cron = stored.cron
  BY DEF Row

\* A handler that answers leaves its task in step, unless the task is disturbed.
LEMMA FinishKeeps ==
  ASSUME RegistryInv, NEW h \in Handlers, NEW t \in Tasks, Busy(h, t), Finish(h),
         server = "up", server' = server,
         row' \in [Tasks -> Row], \A u \in Tasks \ {t} : row'[u] = row[u],
         disturbed \subseteq disturbed', disturbed' \subseteq Tasks,
         UNCHANGED <<entries, cron>> \/ Rearmed(t),
         t \notin disturbed' /\ Tracked(t) => Synced(t)'
  PROVE  RegistryInv'
<1>1. /\ handler' \in [Handlers -> Request \cup {Idle}]
      /\ handler'[h] = Idle
      /\ \A k \in Handlers \ {h} : handler'[k] = handler[k]
      /\ \A u \in Tasks \ {t} : ~Busy(h, u) /\ ~Busy(h, u)'
  BY Finishes DEF RegistryInv
<1>2. LocalTo(h, t)
  BY <1>1 DEF LocalTo, Rearmed
<1> QED BY <1>1, <1>2, HandlerKeeps

\* A handler that goes on leaves its task as its next phase expects it.
LEMMA GotoKeeps ==
  ASSUME RegistryInv, NEW h \in Handlers, NEW t \in Tasks, Busy(h, t),
         NEW phase \in Phases, Goto(h, phase),
         server = "up", server' = server,
         row' \in [Tasks -> Row], \A u \in Tasks \ {t} : row'[u] = row[u],
         disturbed \subseteq disturbed', disturbed' \subseteq Tasks,
         UNCHANGED <<entries, cron>> \/ Rearmed(t),
         t \notin disturbed' /\ Tracked(t) => Midway(h, t)'
  PROVE  RegistryInv'
<1>1. /\ handler' \in [Handlers -> Request \cup {Idle}]
      /\ Busy(h, t)'
      /\ \A k \in Handlers \ {h} : handler'[k] = handler[k]
      /\ \A u \in Tasks \ {t} : ~Busy(h, u) /\ ~Busy(h, u)'
  BY Moves DEF RegistryInv
<1>2. LocalTo(h, t)
  BY <1>1 DEF LocalTo, Rearmed
<1> QED BY <1>1, <1>2, HandlerKeeps

\* What a handler in some phase may rely on.
LEMMA AtPhase ==
  ASSUME RegistryInv, NEW h \in Handlers, NEW t \in Tasks, t = handler[h].task,
         NEW phase \in Phases, In(h, phase)
  PROVE  /\ handler[h] \in Request
         /\ Busy(h, t)
         /\ server = "up"
         /\ handler[h].phase = phase
         /\ Tracked(t) => Midway(h, t)
         /\ TypeOK
  BY AtWork DEF RegistryInv, In, Tracked

\* CreateTask.
LEMMA InsertKeeps ==
  ASSUME RegistryInv, NEW h \in Handlers, NEW t \in Tasks, t = handler[h].task, Insert(h)
  PROVE  RegistryInv'
<1>0. In(h, "inserting") /\ UNCHANGED <<server, entries, cron, disturbed>>
  BY DEF Insert
<1>a. /\ handler[h] \in Request /\ Busy(h, t) /\ server = "up" /\ TypeOK
      /\ handler[h].phase = "inserting" /\ (Tracked(t) => Midway(h, t))
  BY <1>0, AtPhase DEF Phases
<1>1. ASSUME ~row[t].exists, row[t].rev < MaxRev,
             row' = [row EXCEPT ![t] = [exists |-> TRUE, rev |-> row[t].rev + 1,
                                        enabled |-> handler[h].switch # "off",
                                        spec |-> TRUE, cron |-> TRUE]],
             Goto(h, "reading")
      PROVE RegistryInv'
  <2>1. row' \in [Tasks -> Row] /\ row'[t].exists /\ row'[t].spec
        /\ \A u \in Tasks \ {t} : row'[u] = row[u]
    BY <1>a, <1>1 DEF TypeOK, Row, Revs
  <2>2. handler'[h].phase = "reading"
    BY <1>a, <1>1, Moves DEF Phases
  <2>3. Midway(h, t)'
    BY <2>1, <2>2 DEF Midway, Registrable
  <2> QED BY <1>0, <1>a, <1>1, <2>1, <2>3, GotoKeeps DEF TypeOK, Phases
<1>2. ASSUME Finish(h), UNCHANGED row PROVE RegistryInv'
  <2>1. Tracked(t) => Synced(t)'
    BY <1>0, <1>2, <1>a DEF Midway, Synced
  <2> QED BY <1>0, <1>2, <1>a, <2>1, FinishKeeps DEF TypeOK
<1> QED BY <1>1, <1>2 DEF Insert

\* UpdateTask: the registry still holds the old revision.
LEMMA WriteKeeps ==
  ASSUME RegistryInv, NEW h \in Handlers, NEW t \in Tasks, t = handler[h].task, Write(h)
  PROVE  RegistryInv'
<1>0. In(h, "writing") /\ UNCHANGED <<server, entries, cron>>
  BY DEF Write
<1>a. /\ handler[h] \in Request /\ Busy(h, t) /\ server = "up" /\ TypeOK
      /\ handler[h].phase = "writing" /\ (Tracked(t) => Midway(h, t))
  BY <1>0, AtPhase DEF Phases
<1>1. ASSUME row[t].rev < MaxRev,
             row' = IF row[t].exists
                    THEN [row EXCEPT ![t] = Patched(row[t], handler[h].patch)] ELSE row
      PROVE  /\ row' \in [Tasks -> Row]
             /\ \A u \in Tasks \ {t} : row'[u] = row[u]
             /\ row'[t].exists = row[t].exists
             /\ row[t].spec => row'[t].spec
  <2>1. row[t] \in Row
    BY <1>a DEF TypeOK
  <2>2. /\ Patched(row[t], handler[h].patch) \in Row
        /\ Patched(row[t], handler[h].patch).exists = row[t].exists
        /\ row[t].spec => Patched(row[t], handler[h].patch).spec
    BY <1>1, <2>1, PatchedRow
  <2> QED BY <1>1, <1>a, <2>2 DEF TypeOK
<1>2. ASSUME NEW phase \in {"reading", "flagging"}, Goto(h, phase), UNCHANGED disturbed,
             row[t].rev < MaxRev,
             row' = IF row[t].exists
                    THEN [row EXCEPT ![t] = Patched(row[t], handler[h].patch)] ELSE row
      PROVE RegistryInv'
  <2>1. handler'[h].phase = phase
    BY <1>a, <1>2, Moves DEF Phases
  <2>2. Tracked(t) => row[t].exists /\ (InMap(t) => row[t].spec)
    BY <1>a DEF Midway, Synced, Schedulable, InMap, Absent
  <2>3. Tracked(t) => Midway(h, t)'
    BY <1>0, <1>1, <1>2, <2>1, <2>2 DEF Midway, Registrable, InMap
  <2> QED BY <1>0, <1>a, <1>1, <1>2, <2>3, GotoKeeps DEF TypeOK, Phases
<1>3. ASSUME Finish(h), UNCHANGED <<row, disturbed>> PROVE RegistryInv'
  <2>1. Tracked(t) => Synced(t)'
    BY <1>0, <1>3, <1>a DEF Midway, Synced
  <2> QED BY <1>0, <1>3, <1>a, <2>1, FinishKeeps DEF TypeOK
<1>4. ASSUME Finish(h), Disturb(t), row[t].exists, row[t].rev < MaxRev,
             row' = [row EXCEPT ![t] = Patched(row[t], handler[h].patch)]
      PROVE RegistryInv'
  <2>1. t \in disturbed' /\ disturbed' \subseteq Tasks /\ disturbed \subseteq disturbed'
    BY <1>4, <1>a DEF Disturb, TypeOK
  <2> QED BY <1>0, <1>1, <1>4, <1>a, <2>1, FinishKeeps
<1> QED BY <1>2, <1>3, <1>4 DEF Write

\* SetTaskEnabled before the row is read back.
LEMMA FlagKeeps ==
  ASSUME RegistryInv, NEW h \in Handlers, NEW t \in Tasks, t = handler[h].task, FlagBeforeRegister(h)
  PROVE  RegistryInv'
<1>0. In(h, "flagging") /\ UNCHANGED <<server, entries, cron, disturbed>>
  BY DEF FlagBeforeRegister
<1>a. /\ handler[h] \in Request /\ Busy(h, t) /\ server = "up" /\ TypeOK
      /\ handler[h].phase = "flagging" /\ (Tracked(t) => Midway(h, t))
  BY <1>0, AtPhase DEF Phases
<1>1. Goto(h, "reading") /\ (row' = Flagged(h) \/ row' = row)
  BY DEF FlagBeforeRegister
<1>2. /\ row' \in [Tasks -> Row]
      /\ \A u \in Tasks \ {t} : row'[u] = row[u]
      /\ row'[t].exists = row[t].exists /\ row'[t].spec = row[t].spec
  <2>1. PICK x \in BOOLEAN : x = (handler[h].switch = "on")
    OBVIOUS
  <2>2. row[t] \in Row
    BY <1>a DEF TypeOK
  <2>3. CASE row' = row
    BY <2>3, <1>a DEF TypeOK
  <2>4. CASE row' = [row EXCEPT ![t] = [row[t] EXCEPT !.enabled = x]]
    BY <2>2, <2>4, FlaggedRow, <1>a DEF TypeOK
  <2>5. Flagged(h) = row \/ Flagged(h) = [row EXCEPT ![t] = [row[t] EXCEPT !.enabled = x]]
    BY <2>1 DEF Flagged
  <2> QED BY <1>1, <2>3, <2>4, <2>5
<1>3. handler'[h].phase = "reading"
  BY <1>a, <1>1, Moves DEF Phases
<1>4. Tracked(t) => Midway(h, t)'
  BY <1>0, <1>a, <1>2, <1>3 DEF Midway, Registrable, InMap
<1> QED BY <1>0, <1>a, <1>1, <1>2, <1>4, GotoKeeps DEF TypeOK, Phases

\* The row is read back: from here on the handler knows what to register.
LEMMA ReadBackKeeps ==
  ASSUME RegistryInv, NEW h \in Handlers, NEW t \in Tasks, t = handler[h].task, ReadBack(h)
  PROVE  RegistryInv'
<1>0. In(h, "reading") /\ UNCHANGED <<server, row, entries, cron>>
  BY DEF ReadBack
<1>a. /\ handler[h] \in Request /\ Busy(h, t) /\ server = "up" /\ TypeOK
      /\ handler[h].phase = "reading" /\ (Tracked(t) => Midway(h, t))
  BY <1>0, AtPhase DEF Phases
<1>1. ASSUME row[t].exists, UNCHANGED disturbed,
             handler' = [handler EXCEPT ![h].phase = "registering", ![h].seen = row[t]]
      PROVE RegistryInv'
  <2>1. row[t] \in Row
    BY <1>a DEF TypeOK
  <2>2. handler' = [handler EXCEPT ![h] = [handler[h] EXCEPT !.phase = "registering",
                                                             !.seen = row[t]]]
    BY <1>1, <1>a DEF TypeOK
  <2>3. /\ [handler[h] EXCEPT !.phase = "registering", !.seen = row[t]] \in Request
        /\ handler'[h] = [handler[h] EXCEPT !.phase = "registering", !.seen = row[t]]
    BY <2>1, <2>2, <1>a DEF Request, Phases, TypeOK
  <2>4. /\ handler'[h].phase = "registering" /\ handler'[h].seen = row[t]
        /\ handler'[h].task = t /\ handler'[h] # Idle
    BY <2>3, <1>a DEF Request, Idle
  <2>5. LocalTo(h, t) /\ Busy(h, t)'
    BY <1>0, <1>1, <1>a, <2>2, <2>4 DEF LocalTo, Busy, TypeOK
  <2>6. Tracked(t) => Midway(h, t)'
    BY <1>0, <1>a, <2>4 DEF Midway, Registrable, InMap
  <2> QED BY <1>0, <1>1, <1>a, <2>2, <2>3, <2>5, <2>6, HandlerKeeps DEF TypeOK
<1>2. ASSUME Finish(h), UNCHANGED disturbed, ~row[t].exists PROVE RegistryInv'
  <2>1. ~Tracked(t)
    BY <1>2, <1>a DEF Midway, Registrable
  <2> QED BY <1>0, <1>2, <1>a, <2>1, FinishKeeps DEF TypeOK
<1>3. ASSUME Finish(h), Disturb(t) PROVE RegistryInv'
  <2>1. t \in disturbed' /\ disturbed' \subseteq Tasks /\ disturbed \subseteq disturbed'
    BY <1>3, <1>a DEF Disturb, TypeOK
  <2> QED BY <1>0, <1>3, <1>a, <2>1, FinishKeeps DEF TypeOK
<1> QED BY <1>1, <1>2, <1>3 DEF ReadBack

\* Register: the entry becomes what the row says.
LEMMA RegisterKeeps ==
  ASSUME RegistryInv, NEW h \in Handlers, NEW t \in Tasks, t = handler[h].task, RegisterSeen(h)
  PROVE  RegistryInv'
<1>0. In(h, "registering") /\ UNCHANGED <<server, row, disturbed>>
  BY DEF RegisterSeen
<1>a. /\ handler[h] \in Request /\ Busy(h, t) /\ server = "up" /\ TypeOK
      /\ handler[h].phase = "registering" /\ (Tracked(t) => Midway(h, t))
  BY <1>0, AtPhase DEF Phases
<1>1. Register(t, handler[h].seen) /\ Finish(h)
  BY DEF RegisterSeen
<1>2. PICK stored \in Row : stored = handler[h].seen
  BY <1>a DEF Request
<1>3. Rearmed(t)
  BY <1>1, <1>2, RegisterRearms DEF RegistryInv
<1>4. Tracked(t) => Synced(t)'
  <2> SUFFICES ASSUME Tracked(t) PROVE Synced(t)'
    OBVIOUS
  <2>1. stored = row[t] /\ row[t].exists /\ (InMap(t) => row[t].spec)
    BY <1>2, <1>a DEF Midway, Registrable
  <2>2. entries[t] = Absent \/ InMap(t)
    BY <1>a DEF TypeOK, RegistryInv, EntriesSound, InMap, Absent, Entry
  <2> QED BY <1>0, <1>1, <1>2, <1>a, <2>1, <2>2
          DEF Register, Synced, Schedulable, Compiled, TypeOK
<1> QED BY <1>0, <1>1, <1>3, <1>4, <1>a, FinishKeeps DEF TypeOK
\* SetEnabled: the entry is toggled, or the request refused.
LEMMA SetEnabledKeeps ==
  ASSUME RegistryInv, NEW h \in Handlers, NEW t \in Tasks, t = handler[h].task, SetEnabled(h)
  PROVE  RegistryInv'
<1>0. In(h, "toggling") /\ UNCHANGED <<server, row, disturbed>>
  BY DEF SetEnabled
<1>a. /\ handler[h] \in Request /\ Busy(h, t) /\ server = "up" /\ TypeOK
      /\ handler[h].phase = "toggling" /\ (Tracked(t) => Midway(h, t))
  BY <1>0, AtPhase DEF Phases
<1>1. PICK on \in BOOLEAN : on = (handler[h].switch = "on")
  OBVIOUS
<1>2. \/ ~Refused(t, on) /\ Toggle(t, on) /\ Goto(h, "persisting")
      \/ Finish(h) /\ UNCHANGED <<entries, cron>>
  BY <1>1 DEF SetEnabled
<1>3. ASSUME ~Refused(t, on), Toggle(t, on), Goto(h, "persisting") PROVE RegistryInv'
  <2>1. InMap(t) /\ (on => entries[t].armed \/ entries[t].parses)
    BY <1>3 DEF Refused
  <2>2. Rearmed(t)
    BY <1>3, <2>1, ToggleRearms DEF RegistryInv
  <2>3. /\ entries'[t].armed = on /\ entries'[t].rev = entries[t].rev
        /\ entries'[t].parses = entries[t].parses
    <3>1. entries \in [Tasks -> Entry] /\ entries[t] \in Entry
      BY <1>a DEF TypeOK
    <3>2. ASSUME NEW x \in BOOLEAN, entries' = [entries EXCEPT ![t].armed = x]
          PROVE  /\ entries'[t].armed = x /\ entries'[t].rev = entries[t].rev
                 /\ entries'[t].parses = entries[t].parses
      BY <3>1, <3>2 DEF Entry
    <3>3. CASE entries' = entries /\ on = entries[t].armed
      BY <3>3, Zenon
    <3>4. CASE entries' = [entries EXCEPT ![t].armed = TRUE] /\ on = TRUE
      BY <3>2, <3>4
    <3>5. CASE entries' = [entries EXCEPT ![t].armed = FALSE] /\ on = FALSE
      BY <3>2, <3>5
    <3> QED BY <1>3, <3>3, <3>4, <3>5 DEF Toggle
  <2>4. handler'[h].phase = "persisting" /\ handler'[h].switch = handler[h].switch
    BY <1>a, <1>3, Moves DEF Phases, Request
  <2>5. ASSUME Tracked(t) PROVE Midway(h, t)'
    <3>1. Synced(t) /\ row[t].exists
      BY <2>5, <1>a DEF Midway
    <3>2. /\ row[t].spec /\ entries[t].rev = row[t].rev /\ entries[t].parses = row[t].cron
          /\ entries[t].armed = row[t].enabled /\ (row[t].enabled => row[t].cron)
      <4>1. Schedulable(row[t])
        BY <2>1, <3>1 DEF Synced, InMap, Absent
      <4>2. entries[t] = Compiled(row[t])
        BY <3>1, <4>1 DEF Synced
      <4>3. row[t].spec /\ (row[t].enabled => row[t].cron)
        BY <4>1 DEF Schedulable
      <4>4. /\ entries[t].rev = row[t].rev /\ entries[t].parses = row[t].cron
            /\ entries[t].armed = row[t].enabled
        BY <1>a, <4>2 DEF Compiled, TypeOK, Row
      <4> QED BY <4>3, <4>4
    <3>3. on => row[t].cron
      BY <2>1, <3>2
    <3>4. row[t].rev # 0
      BY <2>1, <3>2 DEF InMap
    <3> QED BY <1>0, <1>1, <2>3, <2>4, <3>1, <3>2, <3>3, <3>4 DEF Midway, InMap
  <2> QED BY <1>0, <1>a, <1>3, <2>2, <2>5, GotoKeeps DEF TypeOK, Phases
<1>4. ASSUME Finish(h), UNCHANGED <<entries, cron>> PROVE RegistryInv'
  <2>1. Tracked(t) => Synced(t)'
    BY <1>0, <1>4, <1>a DEF Midway, Synced
  <2> QED BY <1>0, <1>4, <1>a, <2>1, FinishKeeps DEF TypeOK
<1> QED BY <1>2, <1>3, <1>4

\* The toggle persisted: the row catches up with the entry.
LEMMA PersistKeeps ==
  ASSUME RegistryInv, NEW h \in Handlers, NEW t \in Tasks, t = handler[h].task, FlagAfterToggle(h)
  PROVE  RegistryInv'
<1>0. In(h, "persisting") /\ Finish(h) /\ UNCHANGED <<server, entries, cron>>
  BY DEF FlagAfterToggle
<1>a. /\ handler[h] \in Request /\ Busy(h, t) /\ server = "up" /\ TypeOK
      /\ handler[h].phase = "persisting" /\ (Tracked(t) => Midway(h, t))
  BY <1>0, AtPhase DEF Phases
<1>1. ASSUME Disturb(t), UNCHANGED row PROVE RegistryInv'
  <2>1. t \in disturbed' /\ disturbed' \subseteq Tasks /\ disturbed \subseteq disturbed'
    BY <1>1, <1>a DEF Disturb, TypeOK
  <2> QED BY <1>0, <1>1, <1>a, <2>1, FinishKeeps DEF TypeOK
<1>2. ASSUME row' = Flagged(h), UNCHANGED disturbed PROVE RegistryInv'
  <2>1. PICK x \in BOOLEAN : x = (handler[h].switch = "on")
    OBVIOUS
  <2>2. row[t] \in Row
    BY <1>a DEF TypeOK
  <2>3. Flagged(h) = IF row[t].exists
                     THEN [row EXCEPT ![t] = [row[t] EXCEPT !.enabled = x]] ELSE row
    BY <2>1 DEF Flagged
  <2>4. row' \in [Tasks -> Row] /\ \A u \in Tasks \ {t} : row'[u] = row[u]
    BY <1>2, <1>a, <2>2, <2>3, FlaggedRow DEF TypeOK
  <2>5. ASSUME Tracked(t) PROVE Synced(t)'
    <3>1. /\ row[t].exists /\ row[t].spec /\ InMap(t)
          /\ entries[t].rev = row[t].rev /\ entries[t].parses = row[t].cron
          /\ entries[t].armed = x
          /\ entries[t].armed => row[t].cron
      BY <1>a, <2>1, <2>5 DEF Midway
    <3>2. row'[t] = [row[t] EXCEPT !.enabled = x]
      BY <1>2, <1>a, <2>3, <3>1 DEF TypeOK
    <3>3. /\ row'[t].exists /\ row'[t].spec /\ row'[t].enabled = x
          /\ row'[t].rev = row[t].rev /\ row'[t].cron = row[t].cron
      BY <2>2, <3>1, <3>2, FlaggedRow
    <3>4. entries[t] = [rev |-> row[t].rev, armed |-> x, parses |-> row[t].cron]
      BY <1>a, <3>1 DEF TypeOK, Entry
    <3> QED BY <1>0, <3>1, <3>3, <3>4 DEF Synced, Schedulable, Compiled
  <2> QED BY <1>0, <1>2, <1>a, <2>4, <2>5, FinishKeeps DEF TypeOK
<1> QED BY <1>1, <1>2 DEF FlagAfterToggle

\* Unregister.
LEMMA UnregisterKeeps ==
  ASSUME RegistryInv, NEW h \in Handlers, NEW t \in Tasks, t = handler[h].task, Unregister(h)
  PROVE  RegistryInv'
<1>0. In(h, "unregistering") /\ UNCHANGED <<server, row, disturbed>>
  BY DEF Unregister
<1>a. /\ handler[h] \in Request /\ Busy(h, t) /\ server = "up" /\ TypeOK
      /\ handler[h].phase = "unregistering" /\ (Tracked(t) => Midway(h, t))
  BY <1>0, AtPhase DEF Phases
<1>1. Goto(h, "deleting") /\ cron' = Removed(t) /\ entries' = [entries EXCEPT ![t] = Absent]
  BY DEF Unregister
<1>2. /\ entries' \in [Tasks -> Entry] /\ entries'[t] = Absent
      /\ \A u \in Tasks \ {t} : entries'[u] = entries[u]
  BY <1>1, <1>a DEF TypeOK, Absent, Entry
<1>3. OneCronEntry'
  BY <1>1, <1>2, RemovedCounts DEF RegistryInv, OneCronEntry, Absent
<1>4. Rearmed(t)
  BY <1>1, <1>2, <1>3, RemovedCounts DEF RegistryInv, Rearmed
<1>5. handler'[h].phase = "deleting"
  BY <1>a, <1>1, Moves DEF Phases
<1>6. Midway(h, t)'
  BY <1>2, <1>5 DEF Midway
<1> QED BY <1>0, <1>a, <1>1, <1>4, <1>6, GotoKeeps DEF TypeOK, Phases

\* DeleteTask: no row, no entry.
LEMMA DeleteKeeps ==
  ASSUME RegistryInv, NEW h \in Handlers, NEW t \in Tasks, t = handler[h].task, Delete(h)
  PROVE  RegistryInv'
<1>0. In(h, "deleting") /\ Finish(h) /\ UNCHANGED <<server, entries, cron>>
  BY DEF Delete
<1>a. /\ handler[h] \in Request /\ Busy(h, t) /\ server = "up" /\ TypeOK
      /\ handler[h].phase = "deleting" /\ (Tracked(t) => Midway(h, t))
  BY <1>0, AtPhase DEF Phases
<1>1. ASSUME row' = [row EXCEPT ![t].exists = FALSE], UNCHANGED disturbed PROVE RegistryInv'
  <2>1. /\ row' \in [Tasks -> Row] /\ ~row'[t].exists
        /\ \A u \in Tasks \ {t} : row'[u] = row[u]
    BY <1>1, <1>a DEF TypeOK, Row
  <2>2. Tracked(t) => Synced(t)'
    BY <1>0, <1>a, <2>1 DEF Midway, Synced, Schedulable
  <2> QED BY <1>0, <1>1, <1>a, <2>1, <2>2, FinishKeeps DEF TypeOK
<1>2. ASSUME Disturb(t), UNCHANGED row PROVE RegistryInv'
  <2>1. t \in disturbed' /\ disturbed' \subseteq Tasks /\ disturbed \subseteq disturbed'
    BY <1>2, <1>a DEF Disturb, TypeOK
  <2> QED BY <1>0, <1>2, <1>a, <2>1, FinishKeeps DEF TypeOK
<1> QED BY <1>1, <1>2 DEF Delete

\* Every handler's step, on the task it is at work on.
LEMMA StepKeeps ==
  ASSUME RegistryInv, NEW h \in Handlers, HandlerStep(h)
  PROVE  RegistryInv'
<1>1. \E phase \in Phases : In(h, phase)
  BY DEF HandlerStep, Insert, Write, FlagBeforeRegister, FlagAfterToggle, ReadBack,
         RegisterSeen, SetEnabled, Unregister, Delete, Phases
<1>2. PICK t \in Tasks : t = handler[h].task
  BY <1>1, AtWork DEF RegistryInv
<1> QED
  BY <1>2, InsertKeeps, WriteKeeps, FlagKeeps, PersistKeeps, ReadBackKeeps, RegisterKeeps,
     SetEnabledKeeps, UnregisterKeeps, DeleteKeeps DEF HandlerStep
-------------------------------------------------------------------------------
(* Requests, the process, and the theorems *)

\* What the three kinds of request may assume of the row they found.
LEMMA BeginKeeps ==
  ASSUME RegistryInv, NEW h \in Handlers, NEW t \in Tasks, NEW patch \in Patches,
         NEW switch \in Switches, NEW phase \in Phases, Begin(h, t, phase, patch, switch),
         \/ phase = "inserting" /\ ~row[t].exists
         \/ phase \in {"writing", "toggling"} /\ row[t].exists
         \/ phase = "unregistering"
  PROVE  RegistryInv'
<1> DEFINE request == [phase |-> phase, task |-> t, patch |-> patch, switch |-> switch,
                       seen |-> NoRow]
<1>1. /\ server = "up" /\ handler[h].phase = "idle" /\ TypeOK
      /\ UNCHANGED <<server, row, entries, cron>>
      /\ handler' = [handler EXCEPT ![h] = request]
      /\ disturbed' = IF Alone(t) THEN disturbed ELSE disturbed \cup {t}
  BY DEF Begin, In, Disturb, RegistryInv
<1>2. request \in Request /\ request.task = t /\ request.phase = phase /\ request # Idle
  <2>1. NoRow \in Row
    BY DEF NoRow, Row, Revs
  <2> QED BY <2>1 DEF Request, Idle
<1>3. handler[h] = Idle
  BY <1>1 DEF TypeOK, Request, Idle, Phases
<1> HIDE DEF request
<1>4. /\ handler' \in [Handlers -> Request \cup {Idle}] /\ handler'[h] = request
      /\ \A k \in Handlers \ {h} : handler'[k] = handler[k]
  BY <1>1, <1>2 DEF TypeOK
<1>5. TypeOK'
  BY <1>1, <1>4 DEF TypeOK
<1>6. EntriesSound' /\ OneCronEntry'
  BY <1>1 DEF RegistryInv, EntriesSound, OneCronEntry, InMap
<1>7. \A u \in Tasks \ {t} : ~Busy(h, u) /\ ~Busy(h, u)'
  BY <1>2, <1>3, <1>4 DEF Busy
<1>8. LocalTo(h, t)
  BY <1>1, <1>4, <1>7 DEF LocalTo
<1>9. ASSUME NEW u \in Tasks \ disturbed' PROVE Tracked(u)'
  <2>1. Tracked(u)
    BY <1>1 DEF RegistryInv, FollowInv
  <2>2. CASE u # t
    BY <1>8, <2>1, <2>2, OthersTracked
  <2>3. CASE u = t
    <3>1. Alone(t)
      BY <1>1, <1>9, <2>3
    <3>2. Synced(t)'
      BY <1>1, <2>1, <2>3, <3>1 DEF Tracked, Synced
    <3>3. Busy(h, t)' /\ \A k \in Handlers \ {h} : ~Busy(k, t)'
      BY <1>2, <1>4, <3>1 DEF Busy, Alone
    <3>4. handler'[h].phase = phase
      BY <1>2, <1>4
    <3>5. Midway(h, t)'
      BY <1>1, <3>2, <3>4 DEF Midway
    <3> QED BY <2>3, <3>3, <3>5 DEF Tracked, Solo, Alone
  <2> QED BY <2>2, <2>3
<1>10. FollowInv'
  BY <1>9 DEF FollowInv
<1> QED BY <1>5, <1>6, <1>10 DEF RegistryInv

\* Boot: every task alone, every entry what its row makes of it.
LEMMA BootKeeps ==
  ASSUME RegistryInv, Boot
  PROVE  RegistryInv'
<1>1. /\ TypeOK /\ server = "down" /\ server' = "up" /\ disturbed' = {}
      /\ row' = row /\ handler' = handler /\ \A h \in Handlers : handler[h] = Idle
  BY DEF Boot, RegistryInv, EntriesSound
<1>2. entries' = [t \in Tasks |-> IF Schedulable(row[t]) THEN Compiled(row[t]) ELSE Absent]
  BY DEF Boot
<1>3. cron' = [t \in Tasks |-> [v \in Revs |->
         IF Schedulable(row[t]) /\ row[t].enabled /\ v = row[t].rev THEN 1 ELSE 0]]
  BY DEF Boot
<1>4. ASSUME NEW t \in Tasks
      PROVE  /\ entries'[t] \in Entry
             /\ entries'[t].rev # 0 \/ entries'[t] = Absent
             /\ \A v \in Revs : cron'[t][v] = IF entries'[t].armed /\ entries'[t].rev = v THEN 1 ELSE 0
  <2>1. row[t] \in Row
    BY <1>1 DEF TypeOK
  <2>2. CASE Schedulable(row[t])
    <3>1. entries'[t] = Compiled(row[t])
      BY <1>2, <2>2
    <3>2. /\ entries'[t] \in Entry /\ entries'[t].rev = row[t].rev /\ row[t].rev # 0
          /\ entries'[t].armed <=> row[t].enabled
      BY <2>1, <3>1 DEF Compiled, Row, Entry, Revs
    <3> QED BY <1>3, <2>2, <3>2
  <2>3. CASE ~Schedulable(row[t])
    <3>1. entries'[t] = Absent
      BY <1>2, <2>3
    <3> QED BY <1>3, <2>3, <3>1 DEF Absent, Entry
  <2> QED BY <2>2, <2>3
<1>5. TypeOK'
  <2>1. entries' \in [Tasks -> Entry]
    BY <1>2, <1>4
  <2>2. cron' \in [Tasks -> [Revs -> Nat]]
    BY <1>3
  <2> QED BY <1>1, <2>1, <2>2 DEF TypeOK
<1>6. EntriesSound' /\ OneCronEntry'
  BY <1>1, <1>4 DEF EntriesSound, InMap, OneCronEntry
<1>7. \A t \in Tasks : Tracked(t)'
  <2>1. \A t \in Tasks : Synced(t)'
    BY <1>1, <1>2 DEF Synced
  <2>2. \A h \in Handlers, t \in Tasks : ~Busy(h, t)'
    BY <1>1 DEF Busy
  <2> QED BY <2>1, <2>2 DEF Tracked, Solo
<1> QED BY <1>5, <1>6, <1>7 DEF RegistryInv, FollowInv

\* Exit: nothing left in memory.
LEMMA ExitKeeps ==
  ASSUME RegistryInv, Exit
  PROVE  RegistryInv'
<1>1. /\ TypeOK /\ server' = "down" /\ disturbed' = disturbed /\ row' = row
      /\ entries' = [t \in Tasks |-> Absent]
      /\ cron' = [t \in Tasks |-> [v \in Revs |-> 0]]
      /\ handler' = [h \in Handlers |-> Idle]
  BY DEF Exit, RegistryInv
<1>2. Absent \in Entry /\ ~Absent.armed
  BY DEF Absent, Entry
<1>3. TypeOK'
  BY <1>1, <1>2 DEF TypeOK
<1>4. EntriesSound' /\ OneCronEntry' /\ FollowInv'
  BY <1>1, <1>2 DEF EntriesSound, OneCronEntry, FollowInv
<1> QED BY <1>3, <1>4 DEF RegistryInv

LEMMA InitKeeps == Init => RegistryInv
<1> SUFFICES ASSUME Init PROVE RegistryInv
  OBVIOUS
<1>1. Absent \in Entry /\ ~Absent.armed
  BY DEF Absent, Entry
<1>2. TypeOK
  BY <1>1 DEF Init, TypeOK
<1>3. EntriesSound /\ OneCronEntry /\ FollowInv
  BY <1>1 DEF Init, EntriesSound, OneCronEntry, FollowInv
<1> QED BY <1>2, <1>3 DEF RegistryInv

\* Any step at all.
LEMMA NextKeeps == RegistryInv /\ [Next]_vars => RegistryInv'
<1> SUFFICES ASSUME RegistryInv, [Next]_vars PROVE RegistryInv'
  OBVIOUS
<1>1. ASSUME NEW h \in Handlers, NEW t \in Tasks, NEW switch \in Switches,
             HandleCreateTask(h, t, switch)
      PROVE  RegistryInv'
  BY <1>1, BeginKeeps DEF HandleCreateTask, Phases, Patches
<1>2. ASSUME NEW h \in Handlers, NEW t \in Tasks, NEW patch \in Patches,
             NEW switch \in Switches, HandleUpdateTask(h, t, patch, switch)
      PROVE  RegistryInv'
  BY <1>2, BeginKeeps DEF HandleUpdateTask, Phases
<1>3. ASSUME NEW h \in Handlers, NEW t \in Tasks, HandleDeleteTask(h, t)
      PROVE  RegistryInv'
  BY <1>3, BeginKeeps DEF HandleDeleteTask, Phases, Patches, Switches
<1>4. ASSUME NEW h \in Handlers, HandlerStep(h) PROVE RegistryInv'
  BY <1>4, StepKeeps
<1>5. CASE Boot
  BY <1>5, BootKeeps
<1>6. CASE Exit
  BY <1>6, ExitKeeps
<1>7. CASE UNCHANGED vars
  BY <1>7 DEF vars, RegistryInv, TypeOK, EntriesSound, OneCronEntry, FollowInv, Tracked,
              Solo, Alone, Busy, Synced, Midway, Registrable, InMap
<1> QED BY <1>1, <1>2, <1>3, <1>4, <1>5, <1>6, <1>7 DEF Next

LEMMA RegistrySound == Spec => []RegistryInv
BY InitKeeps, NextKeeps, PTL DEF Spec

\* The table, the map, the scheduler and the handlers keep their types.
THEOREM RegistryTypeCorrect == Spec => []TypeOK
<1>1. RegistryInv => TypeOK
  BY DEF RegistryInv
<1> QED BY <1>1, RegistrySound, PTL

\* However many handlers register, toggle and unregister at once, a task has exactly the
\* one cron entry its definition says: Registry's critical sections keep the two maps
\* together, and no fault of the database can part them.
THEOREM OneEntryPerTask == Spec => []OneCronEntry
<1>1. RegistryInv => OneCronEntry
  BY DEF RegistryInv
<1> QED BY <1>1, RegistrySound, PTL

\* For any number of tasks and handlers, a task no two handlers met on and no failure cut
\* short since boot is scheduled as its row says, whenever no handler is at work on it.
THEOREM RegistryFollows == Spec => []Followed
<1>1. ASSUME RegistryInv, server = "up", NEW t \in Tasks, Alone(t), t \notin disturbed
      PROVE  InSync(t)
  <2>1. Synced(t) /\ row[t] \in Row
    BY <1>1 DEF RegistryInv, FollowInv, Tracked, TypeOK
  <2>2. CASE Schedulable(row[t])
    <3>1. entries[t] = Compiled(row[t])
      BY <2>1, <2>2 DEF Synced
    <3>2. entries[t].rev = row[t].rev /\ entries[t].armed = row[t].enabled
      BY <2>1, <3>1 DEF Compiled, Row
    <3>3. InMap(t)
      BY <2>1, <3>2 DEF InMap, Row, Revs
    <3> QED BY <2>2, <3>2, <3>3 DEF InSync, Schedulable
  <2>3. CASE ~Schedulable(row[t])
    <3>1. ~InMap(t)
      BY <2>1, <2>3 DEF Synced, InMap, Absent
    <3> QED BY <2>3, <3>1 DEF InSync, Schedulable
  <2> QED BY <2>2, <2>3
<1>2. RegistryInv => Followed
  BY <1>1 DEF Followed
<1> QED BY <1>2, RegistrySound, PTL
===============================================================================
