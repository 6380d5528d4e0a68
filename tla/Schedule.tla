-------------------------------- MODULE Schedule --------------------------------
(***************************************************************************)
(* The two directions between a form's schedule and a cron expression      *)
(* (executor.ToCron and FromCron), with what cron makes of an expression   *)
(* and what a reader makes of a schedule, which have to be the same.       *)
(*                                                                         *)
(* A field of an expression keeps the spelling FromCron tells apart and    *)
(* the values cron expands it to; an expression with a seconds field or    *)
(* written as a descriptor is any that has not five fields.                *)
(***************************************************************************)
EXTENDS Integers

CONSTANT Null  \* a number left out

Minutes == 0 .. 59
Hours == 0 .. 23
MonthDays == 1 .. 31
Months == 1 .. 12
Weekdays == 0 .. 6

Multiples(n, values) == {v \in values : v % n = 0}

-------------------------------------------------------------------------------
(* Cron expressions, as the parser reads them *)

Star(values) == [form |-> "star", n |-> 0, at |-> values, any |-> TRUE]
Plain(n) == [form |-> "plain", n |-> n, at |-> {n}, any |-> FALSE]
Step(n, values) == [form |-> "step", n |-> n, at |-> Multiples(n, values), any |-> n = 1]

\* A list of weekdays and ranges of them, such as 1-2,5.
Listed(days) == [form |-> "days", n |-> 0, at |-> days, any |-> FALSE]

\* Ranges, lists, names and steps the builder has no control for; "?" is one of them and
\* stands for any day.
Text(values, any) == [form |-> "text", n |-> 0, at |-> values, any |-> any]

EveryDay == Star(MonthDays)
EveryWeekday == Star(Weekdays)

Texts(values) == [form : {"text"}, n : {0}, at : SUBSET values, any : BOOLEAN]

\* What a blank box holds, which is no expression.
Unwritten == [fields |-> 0]

IsStep(field, values) == field.n \in Nat \ {0} /\ field = Step(field.n, values)
IsClock(field, values) ==
  \/ field \in {Star(values)} \cup {Plain(n) : n \in values} \cup Texts(values)
  \/ IsStep(field, values)

\* What the parser accepts. A step may be larger than any value there is.
ValidateCronExpr(e) ==
  /\ e.fields \in {1, 5, 6}  \* a descriptor, the usual five, or seconds before them
  /\ IsClock(e.minute, Minutes)
  /\ IsClock(e.hour, Hours)
  /\ e.dom \in {EveryDay} \cup {Plain(n) : n \in MonthDays} \cup Texts(MonthDays)
  /\ e.month \in {Star(Months)} \cup Texts(Months)
  /\ e.dow \in {EveryWeekday} \cup {Listed(s) : s \in (SUBSET Weekdays) \ {{}}} \cup Texts(Weekdays)

Five(minute, hour, dom, dow) ==
  [fields |-> 5, minute |-> minute, hour |-> hour, dom |-> dom,
   month |-> Star(Months), dow |-> dow]

\* A day fires if both its fields say so, or either if both restrict it.
DaysOf(e) ==
  {day \in MonthDays \X Weekdays :
     IF e.dom.any \/ e.dow.any
     THEN day[1] \in e.dom.at /\ day[2] \in e.dow.at
     ELSE day[1] \in e.dom.at \/ day[2] \in e.dow.at}

Firing(e) ==
  [fields |-> e.fields, minutes |-> e.minute.at, hours |-> e.hour.at,
   months |-> e.month.at, days |-> DaysOf(e)]

-------------------------------------------------------------------------------
(* Schedules, as the form exchanges them *)

Frequencies == {"minutes", "hours", "day", "week", "month", "custom"}

Blank ==
  [every |-> "custom", interval |-> Null, minute |-> Null, hour |-> Null,
   day |-> Null, weekdays |-> {}, cron |-> Unwritten]

EveryMinutes(interval) == [Blank EXCEPT !.every = "minutes", !.interval = interval]
EveryHours(interval, minute) ==
  [Blank EXCEPT !.every = "hours", !.interval = interval, !.minute = minute]
Daily(hour, minute) == [Blank EXCEPT !.every = "day", !.hour = hour, !.minute = minute]
Weekly(weekdays, hour, minute) ==
  [Blank EXCEPT !.every = "week", !.weekdays = weekdays, !.hour = hour, !.minute = minute]
Monthly(day, hour, minute) ==
  [Blank EXCEPT !.every = "month", !.day = day, !.hour = hour, !.minute = minute]
Custom(e) == [Blank EXCEPT !.cron = e]

MaxInterval(every) == IF every = "hours" THEN 23 ELSE 59

\* Mutant: zero is taken for a number left out.
requireTruthy(value, low, high) == value \in low .. high /\ value # 0
requireInt(value, low, high) == value \in low .. high

\* Mutant: what is typed as an expression is stored unparsed.
acceptsText(cron) == cron # Unwritten
acceptsCron(cron) == ValidateCronExpr(cron)

\* The range checks of ToCron, for the fields the frequency uses.
Accepts(s) ==
  /\ s.every \in {"minutes", "hours"} => requireInt(s.interval, 1, MaxInterval(s.every))
  /\ s.every \in {"day", "week", "month"} => requireInt(s.hour, 0, 23)
  /\ s.every \in {"hours", "day", "week", "month"} => requireInt(s.minute, 0, 59)
  /\ s.every = "week" => s.weekdays # {} /\ s.weekdays \subseteq Weekdays
  /\ s.every = "month" => requireInt(s.day, 1, 31)
  /\ s.every = "custom" => acceptsCron(s.cron)

\* Mutant: hour and minute change places.
Swapped(s, dom, dow) == Five(Plain(s.hour), Plain(s.minute), dom, dow)
At(s, dom, dow) == Five(Plain(s.minute), Plain(s.hour), dom, dow)

\* Of a schedule that is accepted.
ToCron(s) ==
  CASE s.every = "minutes" ->
         Five(Step(s.interval, Minutes), Star(Hours), EveryDay, EveryWeekday)
    [] s.every = "hours" ->
         Five(Plain(s.minute), Step(s.interval, Hours), EveryDay, EveryWeekday)
    [] s.every = "day" -> At(s, EveryDay, EveryWeekday)
    [] s.every = "week" -> At(s, EveryDay, Listed(s.weekdays))
    [] s.every = "month" -> At(s, Plain(s.day), EveryWeekday)
    [] s.every = "custom" -> s.cron

\* Mutant: the month field is not looked at.
AnyMonth(e) == e.fields = 5

\* Every structured shape has five fields and runs in every month.
Structured(e) == e.fields = 5 /\ e.month.form = "star"

\* Both day fields free: at every so many minutes or hours, or at one time of day.
FromDaily(e) ==
  IF e.hour.form = "star" /\ e.minute.form = "star" THEN EveryMinutes(1)
  ELSE IF e.hour.form = "star" /\ e.minute.form = "step" THEN EveryMinutes(e.minute.n)
  ELSE IF e.minute.form # "plain" THEN Custom(e)
  ELSE CASE e.hour.form = "star" -> EveryHours(1, e.minute.n)
         [] e.hour.form = "step" -> EveryHours(e.hour.n, e.minute.n)
         [] e.hour.form = "plain" -> Daily(e.hour.n, e.minute.n)
         [] e.hour.form = "text" -> Custom(e)

\* Mutant: lists of weekdays stay custom.
MonthlyOnly(e) ==
  IF e.minute.form = "plain" /\ e.hour.form = "plain" /\ e.dow.form = "star" /\ e.dom.form = "plain"
  THEN Monthly(e.dom.n, e.hour.n, e.minute.n)
  ELSE Custom(e)

\* A restricted day field: at one time of day, and only one of the fields.
FromDays(e) ==
  IF e.minute.form # "plain" \/ e.hour.form # "plain" THEN Custom(e)
  ELSE IF e.dom.form = "star" /\ e.dow.form = "days"
       THEN Weekly(e.dow.at, e.hour.n, e.minute.n)
  ELSE IF e.dow.form = "star" /\ e.dom.form = "plain"
       THEN Monthly(e.dom.n, e.hour.n, e.minute.n)
  ELSE Custom(e)

FromCron(e) ==
  IF ~Structured(e) THEN Custom(e)
  ELSE IF e.dom.form = "star" /\ e.dow.form = "star" THEN FromDaily(e)
  ELSE FromDays(e)

-------------------------------------------------------------------------------
(* What a schedule says to who reads it *)

Meaning(s) ==
  IF s.every = "custom" THEN Firing(s.cron)
  ELSE [fields |-> 5,
        minutes |-> IF s.every = "minutes" THEN Multiples(s.interval, Minutes) ELSE {s.minute},
        hours |->
          CASE s.every = "minutes" -> Hours
            [] s.every = "hours" -> Multiples(s.interval, Hours)
            [] OTHER -> {s.hour},
        months |-> Months,
        days |->
          (IF s.every = "month" THEN {s.day} ELSE MonthDays) \X
          (IF s.every = "week" THEN s.weekdays ELSE Weekdays)]

===============================================================================
