-------------------------------- MODULE TaskForm --------------------------------
(***************************************************************************)
(* The schedule of one stored task and the form a dashboard edits it with. *)
(*                                                                         *)
(* The form is opened from what the server derives of the stored           *)
(* expression, spread over flat fields that keep what was typed whichever  *)
(* frequency is selected; a save sends the whole schedule, changed or not, *)
(* and the server translates and stores it.                                *)
(***************************************************************************)
EXTENDS Schedule

CONSTANTS
  Cron,      \* what may be stored, if the parser accepts it, or typed
  Numbers,   \* what may be typed into a number box, beside nothing
  Times,     \* what may be picked as a time of day: an hour and a minute
  Clicked,   \* the days of the week whose buttons are clicked
  MaxEdits   \* bound on the edits of one form

ASSUME FormAssumption ==
  /\ Numbers \subseteq Int
  /\ Times \subseteq Hours \X Minutes
  /\ Clicked \subseteq Weekdays
  /\ MaxEdits \in Nat
  /\ Null \notin Int

VARIABLES
  stored,     \* tasks.cron_expr
  form,       \* the fields of the open form
  edits,      \* edits since it was opened
  typed,      \* history: did they change more than the frequency
  opened,     \* history: the expression the form was opened on, if it is open
  submitted   \* history: the schedule `stored` was saved from, if it came from the form

vars == <<stored, form, edits, typed, opened, submitted>>

IsOpen == form # Null  \* a closed form has no fields

Fields(texts) ==
  [frequency : Frequencies,
   interval : Int \cup {Null},
   minuteOfHour : Int \cup {Null},
   time : (Hours \X Minutes) \cup {<<Null, Null>>},
   weekdays : (SUBSET Weekdays) \ {{}},
   monthDay : Int \cup {Null},
   customCron : texts]

-------------------------------------------------------------------------------
(* The form *)

\* Every field gets a value, not just those this frequency uses.
toScheduleFields(s) ==
  LET base == [frequency |-> s.every, interval |-> 15, minuteOfHour |-> 0, time |-> <<9, 0>>,
               weekdays |-> {1}, monthDay |-> 1, customCron |-> Unwritten]
      at == <<s.hour, s.minute>>
  IN CASE s.every = "minutes" -> [base EXCEPT !.interval = s.interval]
       [] s.every = "hours" ->
            [base EXCEPT !.interval = s.interval, !.minuteOfHour = s.minute]
       [] s.every = "day" -> [base EXCEPT !.time = at]
       [] s.every = "week" -> [base EXCEPT !.time = at, !.weekdays = s.weekdays]
       [] s.every = "month" -> [base EXCEPT !.time = at, !.monthDay = s.day]
       [] s.every = "custom" -> [base EXCEPT !.customCron = s.cron]

\* Out-of-range numbers are passed through: the server has the bounds.
toSchedule(f) ==
  CASE f.frequency = "minutes" -> EveryMinutes(f.interval)
    [] f.frequency = "hours" -> EveryHours(f.interval, f.minuteOfHour)
    [] f.frequency = "day" -> Daily(f.time[1], f.time[2])
    [] f.frequency = "week" -> Weekly(f.weekdays, f.time[1], f.time[2])
    [] f.frequency = "month" -> Monthly(f.monthDay, f.time[1], f.time[2])
    [] f.frequency = "custom" -> Custom(f.customCron)

Open ==
  /\ ~IsOpen
  /\ form' = toScheduleFields(FromCron(stored))
  /\ opened' = stored
  /\ edits' = 0
  /\ typed' = FALSE
  /\ UNCHANGED <<stored, submitted>>

Edit(f) ==
  /\ IsOpen
  /\ edits < MaxEdits
  /\ form' = f
  /\ edits' = edits + 1
  /\ UNCHANGED <<stored, opened, submitted>>

\* One box serves both intervals, and hours stop at 23.
Clamped(interval, every) ==
  CASE interval = Null \/ interval < 1 -> 1
    [] interval > MaxInterval(every) -> MaxInterval(every)
    [] OTHER -> interval

\* Mutant: a switch starts the interval afresh.
freshFrequency(next) ==
  /\ Edit([form EXCEPT !.frequency = next, !.interval = 15])
  /\ UNCHANGED typed

handleFrequency(next) ==
  /\ Edit([form EXCEPT !.frequency = next,
                       !.interval = IF next \in {"minutes", "hours"}
                                    THEN Clamped(@, next)
                                    ELSE @])
  /\ UNCHANGED typed

\* The only way out of the last day is to pick another one first.
toggleWeekday(day) ==
  /\ IsOpen
  /\ form.frequency = "week"
  /\ form.weekdays # {day}
  /\ Edit([form EXCEPT !.weekdays = (@ \ {day}) \cup ({day} \ @)])
  /\ typed' = TRUE

\* The control of a field is on screen for the frequencies that use it.
Shown(field) ==
  form.frequency \in CASE field = "interval" -> {"minutes", "hours"}
                       [] field = "minuteOfHour" -> {"hours"}
                       [] field = "time" -> {"day", "week", "month"}
                       [] field = "monthDay" -> {"month"}
                       [] field = "customCron" -> {"custom"}

Type(field, values) ==
  /\ IsOpen
  /\ Shown(field)
  /\ \E value \in values : Edit([form EXCEPT ![field] = value])
  /\ typed' = TRUE

Typing ==
  \/ \E field \in {"interval", "minuteOfHour", "monthDay"} : Type(field, Numbers \cup {Null})
  \/ Type("time", Times \cup {<<Null, Null>>})
  \/ Type("customCron", Cron \cup {Unwritten})

Close ==
  /\ form' = Null
  /\ opened' = Null
  /\ edits' = 0
  /\ typed' = FALSE

Cancel ==
  /\ IsOpen
  /\ Close
  /\ UNCHANGED <<stored, submitted>>

-------------------------------------------------------------------------------
(* The server *)

\* A refused schedule leaves the form open under the complaint, and the row as it was.
Save ==
  /\ IsOpen
  /\ LET s == toSchedule(form)
     IN /\ Accepts(s)
        /\ stored' = ToCron(s)
        /\ submitted' = s
  /\ Close

\* A caller who drives the API by hand sends the expression itself, form or no form.
ByHand(e) ==
  /\ ValidateCronExpr(e)
  /\ stored' = e
  /\ submitted' = Blank
  /\ UNCHANGED <<form, edits, typed, opened>>

-------------------------------------------------------------------------------
(* The specification *)

Init ==
  /\ stored \in {e \in Cron : ValidateCronExpr(e)}
  /\ form = Null
  /\ edits = 0
  /\ typed = FALSE
  /\ opened = Null
  /\ submitted = Blank

Next ==
  \/ Open
  \/ \E next \in Frequencies : handleFrequency(next)
  \/ \E day \in Clicked : toggleWeekday(day)
  \/ Typing
  \/ Save
  \/ Cancel
  \/ \E e \in Cron : ByHand(e)

Spec == Init /\ [][Next]_vars

-------------------------------------------------------------------------------
(* Properties *)

\* The row keeps an expression the scheduler accepts, whatever is typed, and the form a
\* day of the week to fire on.
TypeOK ==
  /\ ValidateCronExpr(stored)
  /\ edits \in 0 .. MaxEdits
  /\ typed \in BOOLEAN
  /\ submitted.every \in Frequencies
  /\ IsOpen => ValidateCronExpr(opened) /\ form \in Fields(Cron \cup {opened, Unwritten})

\* "Every stored row has to open in the form": what the form shows fires exactly when the
\* expression does, so that saving an edit of the name does not quietly reschedule a task.
ShownIsStored ==
  IsOpen /\ edits = 0 => Meaning(toSchedule(form)) = Firing(opened)

\* A task saved from the form fires when the form said it would.
SavedIsShown ==
  submitted # Blank => Firing(stored) = Meaning(submitted)

\* "FromCron undoes ToCron exactly": a structured schedule opens as it was saved.
Reopens ==
  submitted.every # "custom" => FromCron(stored) = submitted

\* "Flipping through the frequencies to compare them does not wipe what was already
\* typed". One box holds minutes and hours, so this is of intervals that are both.
FlipsKeep ==
  IsOpen /\ ~typed =>
    LET shown == toScheduleFields(FromCron(opened))
    IN shown.interval \in 1 .. 23 => form = [shown EXCEPT !.frequency = form.frequency]

\* An untouched form can be saved, but for the one case the derivation lets through: a
\* step wider than the builder's interval.
UntouchedSaves ==
  IsOpen /\ edits = 0 =>
    Accepts(toSchedule(form)) \/ form.interval > MaxInterval(form.frequency)
===============================================================================
