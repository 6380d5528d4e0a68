------------------------------- MODULE MCTaskForm -------------------------------
(* TaskForm with the expressions and inputs of its configuration.             *)
EXTENDS TaskForm

Hourly == Star(Hours)
Nine == Plain(9)
Zero == Plain(0)

\* Every shape the builder has, their unstepped and ranged spellings, and what it has
\* no control for; the last two are steps wider than their field and a minute that is none.
MCCron ==
  {Five(Star(Minutes), Hourly, EveryDay, EveryWeekday),
   Five(Step(7, Minutes), Hourly, EveryDay, EveryWeekday),
   Five(Plain(30), Hourly, EveryDay, EveryWeekday),
   Five(Plain(30), Step(2, Hours), EveryDay, EveryWeekday),
   Five(Plain(5), Nine, EveryDay, EveryWeekday),
   Five(Zero, Nine, EveryDay, Listed(1 .. 5)),
   Five(Zero, Nine, EveryDay, Listed(Weekdays)),
   Five(Zero, Nine, Plain(31), EveryWeekday),
   Five(Zero, Nine, Plain(1), Listed({1})),
   Five(Zero, Nine, Text({1, 3, 5}, FALSE), EveryWeekday),
   Five(Zero, Nine, Text(MonthDays, TRUE), Listed({1})),
   Five(Zero, Nine, EveryDay, Text({1}, FALSE)),
   Five(Zero, Text(9 .. 17, FALSE), EveryDay, EveryWeekday),
   [Five(Zero, Nine, Plain(1), EveryWeekday) EXCEPT !.month = Text({6}, FALSE)],
   [Five(Zero, Nine, EveryDay, EveryWeekday) EXCEPT !.fields = 6],
   Five(Step(90, Minutes), Hourly, EveryDay, EveryWeekday),
   Five(Plain(75), Nine, EveryDay, EveryWeekday)}

MCNumbers == {0, 24, 60}
MCTimes == {<<23, 5>>}
===============================================================================
