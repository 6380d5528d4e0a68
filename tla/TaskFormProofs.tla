----------------------------- MODULE TaskFormProofs -----------------------------
(***************************************************************************)
(* What TLAPS proves of Schedule and TaskForm: for every expression the    *)
(* parser accepts and every number that can be typed, the form and the     *)
(* row say the same. TLC checks it on a few dozen of them.                 *)
(***************************************************************************)
EXTENDS TaskForm, TLAPS

USE FormAssumption

-------------------------------------------------------------------------------
(* The translation *)

LEMMA DaysBoth ==
  ASSUME NEW A \in SUBSET MonthDays, NEW B \in SUBSET Weekdays
  PROVE  {day \in MonthDays \X Weekdays : day[1] \in A /\ day[2] \in B} = A \X B
OBVIOUS

LEMMA EveryOne ==
  ASSUME NEW values \in SUBSET Nat
  PROVE  Multiples(1, values) = values
<1>1. \A v \in values : v \in Nat /\ v % 1 = 0
  OBVIOUS
<1> QED
  BY <1>1 DEF Multiples

\* What each structured schedule says.
LEMMA MeaningOfMinutes ==
  ASSUME NEW i
  PROVE  Meaning(EveryMinutes(i)) =
           [fields |-> 5, minutes |-> Multiples(i, Minutes), hours |-> Hours,
            months |-> Months, days |-> MonthDays \X Weekdays]
<1>1. /\ EveryMinutes(i).every = "minutes"
      /\ EveryMinutes(i).interval = i
  BY DEF Blank, EveryMinutes
<1> QED
  BY <1>1 DEF Meaning

LEMMA MeaningOfHours ==
  ASSUME NEW i, NEW m
  PROVE  Meaning(EveryHours(i, m)) =
           [fields |-> 5, minutes |-> {m}, hours |-> Multiples(i, Hours),
            months |-> Months, days |-> MonthDays \X Weekdays]
<1>1. /\ EveryHours(i, m).every = "hours"
      /\ EveryHours(i, m).interval = i
      /\ EveryHours(i, m).minute = m
  BY DEF Blank, EveryHours
<1> QED
  BY <1>1 DEF Meaning

LEMMA MeaningOfDay ==
  ASSUME NEW h, NEW m
  PROVE  Meaning(Daily(h, m)) =
           [fields |-> 5, minutes |-> {m}, hours |-> {h},
            months |-> Months, days |-> MonthDays \X Weekdays]
<1>1. /\ Daily(h, m).every = "day"
      /\ Daily(h, m).hour = h
      /\ Daily(h, m).minute = m
  BY DEF Blank, Daily
<1> QED
  BY <1>1 DEF Meaning

LEMMA MeaningOfWeek ==
  ASSUME NEW w, NEW h, NEW m
  PROVE  Meaning(Weekly(w, h, m)) =
           [fields |-> 5, minutes |-> {m}, hours |-> {h},
            months |-> Months, days |-> MonthDays \X w]
<1>1. /\ Weekly(w, h, m).every = "week"
      /\ Weekly(w, h, m).weekdays = w
      /\ Weekly(w, h, m).hour = h
      /\ Weekly(w, h, m).minute = m
  BY DEF Blank, Weekly
<1> QED
  BY <1>1 DEF Meaning

LEMMA MeaningOfMonth ==
  ASSUME NEW d, NEW h, NEW m
  PROVE  Meaning(Monthly(d, h, m)) =
           [fields |-> 5, minutes |-> {m}, hours |-> {h},
            months |-> Months, days |-> {d} \X Weekdays]
<1>1. /\ Monthly(d, h, m).every = "month"
      /\ Monthly(d, h, m).day = d
      /\ Monthly(d, h, m).hour = h
      /\ Monthly(d, h, m).minute = m
  BY DEF Blank, Monthly
<1> QED
  BY <1>1 DEF Meaning

\* What a structured expression looks like field by field: the five shapes FromCron
\* recognises and the unstepped spellings of an interval of one.
Shape(e) ==
  \/ FromCron(e) = Custom(e)
  \/ /\ e.fields = 5 /\ e.month = Star(Months) /\ e.dom = EveryDay /\ e.dow = EveryWeekday
     /\ \/ /\ e.minute = Star(Minutes) /\ e.hour = Star(Hours)
           /\ FromCron(e) = EveryMinutes(1)
        \/ /\ e.hour = Star(Hours)
           /\ \E n \in Nat \ {0} : e.minute = Step(n, Minutes) /\ FromCron(e) = EveryMinutes(n)
        \/ \E m \in Minutes :
             /\ e.minute = Plain(m)
             /\ \/ e.hour = Star(Hours) /\ FromCron(e) = EveryHours(1, m)
                \/ \E n \in Nat \ {0} : e.hour = Step(n, Hours) /\ FromCron(e) = EveryHours(n, m)
                \/ \E h \in Hours : e.hour = Plain(h) /\ FromCron(e) = Daily(h, m)
  \/ /\ e.fields = 5 /\ e.month = Star(Months)
     /\ \E m \in Minutes, h \in Hours :
          /\ e.minute = Plain(m) /\ e.hour = Plain(h)
          /\ \/ /\ e.dom = EveryDay
                /\ \E w \in (SUBSET Weekdays) \ {{}} : e.dow = Listed(w) /\ FromCron(e) = Weekly(w, h, m)
             \/ /\ e.dow = EveryWeekday
                /\ \E d \in MonthDays : e.dom = Plain(d) /\ FromCron(e) = Monthly(d, h, m)

\* The form of a field tells which constructor it came from.
LEMMA ClockForms ==
  ASSUME NEW field, NEW values \in SUBSET Nat, IsClock(field, values)
  PROVE  /\ field.form \in {"star", "plain", "step", "text"}
         /\ field.form = "star" => field = Star(values)
         /\ field.form = "plain" => field.n \in values /\ field = Plain(field.n)
         /\ field.form = "step" => field.n \in Nat \ {0} /\ field = Step(field.n, values)
<1>1. CASE field = Star(values)
  BY <1>1 DEF Star
<1>2. ASSUME NEW n \in values, field = Plain(n)
      PROVE  field.form = "plain" /\ field.n \in values /\ field = Plain(field.n)
  BY <1>2 DEF Plain
<1>3. CASE field \in Texts(values)
  BY <1>3 DEF Texts
<1>4. CASE IsStep(field, values)
  <2>1. field = Step(field.n, values) /\ field.n \in Nat \ {0}
    BY <1>4 DEF IsStep
  <2>2. field.form = "step"
    BY <2>1 DEF Step
  <2> QED
    BY <2>1, <2>2
<1> QED
  BY <1>1, <1>2, <1>3, <1>4 DEF IsClock

LEMMA DayForms ==
  ASSUME NEW e, ValidateCronExpr(e)
  PROVE  /\ e.dom.form = "star" => e.dom = EveryDay
         /\ e.dom.form = "plain" => e.dom.n \in MonthDays /\ e.dom = Plain(e.dom.n)
         /\ e.dow.form = "star" => e.dow = EveryWeekday
         /\ e.dow.form = "days" => e.dow.at \in (SUBSET Weekdays) \ {{}} /\ e.dow = Listed(e.dow.at)
         /\ e.month.form = "star" => e.month = Star(Months)
<1>1. /\ e.dom.form = "star" => e.dom = EveryDay
      /\ e.dom.form = "plain" => e.dom.n \in MonthDays /\ e.dom = Plain(e.dom.n)
  <2>1. CASE e.dom = EveryDay
    BY <2>1 DEF EveryDay, Star
  <2>2. ASSUME NEW n \in MonthDays, e.dom = Plain(n)
        PROVE  e.dom.form = "plain" /\ e.dom.n = n
    BY <2>2 DEF Plain
  <2>3. CASE e.dom \in Texts(MonthDays)
    BY <2>3 DEF Texts
  <2> QED
    BY <2>1, <2>2, <2>3 DEF ValidateCronExpr
<1>2. /\ e.dow.form = "star" => e.dow = EveryWeekday
      /\ e.dow.form = "days" => e.dow.at \in (SUBSET Weekdays) \ {{}} /\ e.dow = Listed(e.dow.at)
  <2>1. CASE e.dow = EveryWeekday
    BY <2>1 DEF EveryWeekday, Star
  <2>2. ASSUME NEW w \in (SUBSET Weekdays) \ {{}}, e.dow = Listed(w)
        PROVE  e.dow.form = "days" /\ e.dow.at = w
    BY <2>2 DEF Listed
  <2>3. CASE e.dow \in Texts(Weekdays)
    BY <2>3 DEF Texts
  <2> QED
    BY <2>1, <2>2, <2>3 DEF ValidateCronExpr
<1>3. e.month.form = "star" => e.month = Star(Months)
  BY DEF ValidateCronExpr, Texts
<1> QED
  BY <1>1, <1>2, <1>3

LEMMA EveryShape ==
  ASSUME NEW e, ValidateCronExpr(e)
  PROVE  Shape(e)
<1>1. /\ e.minute.form \in {"star", "plain", "step", "text"}
      /\ e.minute.form = "star" => e.minute = Star(Minutes)
      /\ e.minute.form = "plain" => e.minute.n \in Minutes /\ e.minute = Plain(e.minute.n)
      /\ e.minute.form = "step" => e.minute.n \in Nat \ {0} /\ e.minute = Step(e.minute.n, Minutes)
  BY ClockForms, Minutes \in SUBSET Nat DEF ValidateCronExpr, Minutes
<1>2. /\ e.hour.form \in {"star", "plain", "step", "text"}
      /\ e.hour.form = "star" => e.hour = Star(Hours)
      /\ e.hour.form = "plain" => e.hour.n \in Hours /\ e.hour = Plain(e.hour.n)
      /\ e.hour.form = "step" => e.hour.n \in Nat \ {0} /\ e.hour = Step(e.hour.n, Hours)
  BY ClockForms, Hours \in SUBSET Nat DEF ValidateCronExpr, Hours
<1>4. CASE ~Structured(e)
  BY <1>4 DEF Shape, FromCron
<1>5. CASE Structured(e) /\ e.dom.form = "star" /\ e.dow.form = "star"
  <2>1. FromCron(e) = FromDaily(e)
    BY <1>5 DEF FromCron
  <2>2. e.fields = 5 /\ e.month = Star(Months) /\ e.dom = EveryDay /\ e.dow = EveryWeekday
    BY <1>5, DayForms DEF Structured
  <2> QED
    BY <1>1, <1>2, <2>1, <2>2 DEF FromDaily, Shape
<1>6. CASE Structured(e) /\ ~(e.dom.form = "star" /\ e.dow.form = "star")
  <2>1. FromCron(e) = FromDays(e)
    BY <1>6 DEF FromCron
  <2>2. e.fields = 5 /\ e.month = Star(Months)
    BY <1>6, DayForms DEF Structured
  <2> QED
    BY <1>1, <1>2, <2>1, <2>2, DayForms DEF FromDays, Shape
<1> QED
  BY <1>4, <1>5, <1>6

\* What the form shows of an expression fires exactly when the expression does.
LEMMA ShownAsStored ==
  ASSUME NEW e, ValidateCronExpr(e)
  PROVE  Meaning(FromCron(e)) = Firing(e)
<1>1. CASE FromCron(e) = Custom(e)
  BY <1>1 DEF Meaning, Custom, Blank
<1>2. Multiples(1, Minutes) = Minutes /\ Multiples(1, Hours) = Hours
  BY EveryOne, Minutes \in SUBSET Nat, Hours \in SUBSET Nat DEF Minutes, Hours
<1>3. ASSUME e.dom = EveryDay, e.dow = EveryWeekday
      PROVE  DaysOf(e) = MonthDays \X Weekdays
  BY <1>3, DaysBoth DEF DaysOf, EveryDay, EveryWeekday, Star
<1>4. ASSUME NEW w \in SUBSET Weekdays, e.dom = EveryDay, e.dow = Listed(w)
      PROVE  DaysOf(e) = MonthDays \X w
  BY <1>4, DaysBoth DEF DaysOf, EveryDay, Star, Listed
<1>5. ASSUME NEW d \in MonthDays, e.dom = Plain(d), e.dow = EveryWeekday
      PROVE  DaysOf(e) = {d} \X Weekdays
  BY <1>5, DaysBoth DEF DaysOf, EveryWeekday, Star, Plain
<1>6. ASSUME e.fields = 5, e.month = Star(Months)
      PROVE  Firing(e) = [fields |-> 5, minutes |-> e.minute.at, hours |-> e.hour.at,
                          months |-> Months, days |-> DaysOf(e)]
  BY <1>6 DEF Firing, Star
<1>7. CASE e.fields = 5 /\ e.month = Star(Months) /\ e.dom = EveryDay /\ e.dow = EveryWeekday
  <2>1. DaysOf(e) = MonthDays \X Weekdays
    BY <1>3, <1>7
  <2>2. CASE e.minute = Star(Minutes) /\ e.hour = Star(Hours) /\ FromCron(e) = EveryMinutes(1)
    <3>1. e.minute.at = Multiples(1, Minutes) /\ e.hour.at = Hours
      BY <1>2, <2>2 DEF Star
    <3>2. Firing(e) = [fields |-> 5, minutes |-> Multiples(1, Minutes), hours |-> Hours,
              months |-> Months, days |-> MonthDays \X Weekdays]
      BY <1>6, <1>7, <2>1, <3>1
    <3>3. Meaning(FromCron(e)) = [fields |-> 5, minutes |-> Multiples(1, Minutes), hours |-> Hours,
              months |-> Months, days |-> MonthDays \X Weekdays]
      BY <2>2, MeaningOfMinutes
    <3> QED
      BY <3>2, <3>3
  <2>3. ASSUME NEW n \in Nat \ {0}, e.hour = Star(Hours), e.minute = Step(n, Minutes),
               FromCron(e) = EveryMinutes(n)
        PROVE  Meaning(FromCron(e)) = Firing(e)
    <3>1. e.minute.at = Multiples(n, Minutes) /\ e.hour.at = Hours
      BY <2>3 DEF Star, Step
    <3>2. Firing(e) = [fields |-> 5, minutes |-> Multiples(n, Minutes), hours |-> Hours,
              months |-> Months, days |-> MonthDays \X Weekdays]
      BY <1>6, <1>7, <2>1, <3>1
    <3>3. Meaning(FromCron(e)) = [fields |-> 5, minutes |-> Multiples(n, Minutes), hours |-> Hours,
              months |-> Months, days |-> MonthDays \X Weekdays]
      BY <2>3, MeaningOfMinutes
    <3> QED
      BY <3>2, <3>3
  <2>4. ASSUME NEW m \in Minutes, e.minute = Plain(m), e.hour = Star(Hours),
               FromCron(e) = EveryHours(1, m)
        PROVE  Meaning(FromCron(e)) = Firing(e)
    <3>1. e.minute.at = {m} /\ e.hour.at = Multiples(1, Hours)
      BY <1>2, <2>4 DEF Star, Plain
    <3>2. Firing(e) = [fields |-> 5, minutes |-> {m}, hours |-> Multiples(1, Hours),
              months |-> Months, days |-> MonthDays \X Weekdays]
      BY <1>6, <1>7, <2>1, <3>1
    <3>3. Meaning(FromCron(e)) = [fields |-> 5, minutes |-> {m}, hours |-> Multiples(1, Hours),
              months |-> Months, days |-> MonthDays \X Weekdays]
      BY <2>4, MeaningOfHours
    <3> QED
      BY <3>2, <3>3
  <2>5. ASSUME NEW m \in Minutes, NEW n \in Nat \ {0}, e.minute = Plain(m), e.hour = Step(n, Hours),
               FromCron(e) = EveryHours(n, m)
        PROVE  Meaning(FromCron(e)) = Firing(e)
    <3>1. e.minute.at = {m} /\ e.hour.at = Multiples(n, Hours)
      BY <2>5 DEF Step, Plain
    <3>2. Firing(e) = [fields |-> 5, minutes |-> {m}, hours |-> Multiples(n, Hours),
              months |-> Months, days |-> MonthDays \X Weekdays]
      BY <1>6, <1>7, <2>1, <3>1
    <3>3. Meaning(FromCron(e)) = [fields |-> 5, minutes |-> {m}, hours |-> Multiples(n, Hours),
              months |-> Months, days |-> MonthDays \X Weekdays]
      BY <2>5, MeaningOfHours
    <3> QED
      BY <3>2, <3>3
  <2>6. ASSUME NEW m \in Minutes, NEW h \in Hours, e.minute = Plain(m), e.hour = Plain(h),
               FromCron(e) = Daily(h, m)
        PROVE  Meaning(FromCron(e)) = Firing(e)
    <3>1. e.minute.at = {m} /\ e.hour.at = {h}
      BY <2>6 DEF Plain
    <3>2. Firing(e) = [fields |-> 5, minutes |-> {m}, hours |-> {h},
              months |-> Months, days |-> MonthDays \X Weekdays]
      BY <1>6, <1>7, <2>1, <3>1
    <3>3. Meaning(FromCron(e)) = [fields |-> 5, minutes |-> {m}, hours |-> {h},
              months |-> Months, days |-> MonthDays \X Weekdays]
      BY <2>6, MeaningOfDay
    <3> QED
      BY <3>2, <3>3
  <2>7. \/ FromCron(e) = Custom(e)
        \/ e.minute = Star(Minutes) /\ e.hour = Star(Hours) /\ FromCron(e) = EveryMinutes(1)
        \/ /\ e.hour = Star(Hours)
           /\ \E n \in Nat \ {0} : e.minute = Step(n, Minutes) /\ FromCron(e) = EveryMinutes(n)
        \/ \E m \in Minutes :
             /\ e.minute = Plain(m)
             /\ \/ e.hour = Star(Hours) /\ FromCron(e) = EveryHours(1, m)
                \/ \E n \in Nat \ {0} : e.hour = Step(n, Hours) /\ FromCron(e) = EveryHours(n, m)
                \/ \E h \in Hours : e.hour = Plain(h) /\ FromCron(e) = Daily(h, m)
    <3>1. EveryDay.form = "star" /\ EveryWeekday.form = "star"
      BY DEF EveryDay, EveryWeekday, Star
    <3>2. \A w : Listed(w).form = "days"
      BY DEF Listed
    <3>3. \A d : Plain(d).form = "plain"
      BY DEF Plain
    <3> QED
      BY <1>7, <3>1, <3>2, <3>3, EveryShape DEF Shape
  <2> QED
    BY <1>1, <2>2, <2>3, <2>4, <2>5, <2>6, <2>7
<1>8. ASSUME NEW m \in Minutes, NEW h \in Hours, NEW w \in SUBSET Weekdays,
             e.fields = 5, e.month = Star(Months), e.minute = Plain(m), e.hour = Plain(h),
             e.dom = EveryDay, e.dow = Listed(w), FromCron(e) = Weekly(w, h, m)
      PROVE  Meaning(FromCron(e)) = Firing(e)
  <2>1. e.minute.at = {m} /\ e.hour.at = {h}
    BY <1>8 DEF Plain
  <2>2. Firing(e) = [fields |-> 5, minutes |-> {m}, hours |-> {h},
            months |-> Months, days |-> MonthDays \X w]
    BY <1>4, <1>6, <1>8, <2>1
  <2>3. Meaning(FromCron(e)) = [fields |-> 5, minutes |-> {m}, hours |-> {h},
            months |-> Months, days |-> MonthDays \X w]
    BY <1>8, MeaningOfWeek
  <2> QED
    BY <2>2, <2>3
<1>9. ASSUME NEW m \in Minutes, NEW h \in Hours, NEW d \in MonthDays,
             e.fields = 5, e.month = Star(Months), e.minute = Plain(m), e.hour = Plain(h),
             e.dom = Plain(d), e.dow = EveryWeekday, FromCron(e) = Monthly(d, h, m)
      PROVE  Meaning(FromCron(e)) = Firing(e)
  <2>1. e.minute.at = {m} /\ e.hour.at = {h}
    BY <1>9 DEF Plain
  <2>2. Firing(e) = [fields |-> 5, minutes |-> {m}, hours |-> {h},
            months |-> Months, days |-> {d} \X Weekdays]
    BY <1>5, <1>6, <1>9, <2>1
  <2>3. Meaning(FromCron(e)) = [fields |-> 5, minutes |-> {m}, hours |-> {h},
            months |-> Months, days |-> {d} \X Weekdays]
    BY <1>9, MeaningOfMonth
  <2> QED
    BY <2>2, <2>3
<1> QED
  BY <1>1, <1>7, <1>8, <1>9, EveryShape DEF Shape

\* Fields as they are written, and that the parser takes them.
LEMMA Written ==
  /\ \A values : Star(values).form = "star" /\ IsClock(Star(values), values)
  /\ \A n : Plain(n).form = "plain" /\ Plain(n).n = n
  /\ \A values : \A n \in values : IsClock(Plain(n), values)
  /\ \A n, values : Step(n, values).form = "step" /\ Step(n, values).n = n
  /\ \A n \in Nat \ {0} : \A values : IsClock(Step(n, values), values)
  /\ \A w : Listed(w).form = "days" /\ Listed(w).at = w
  /\ EveryDay.form = "star" /\ EveryWeekday.form = "star" /\ Star(Months).form = "star"
BY DEF Star, Plain, Step, Listed, IsClock, IsStep, EveryDay, EveryWeekday

LEMMA FieldsOfFive ==
  ASSUME NEW minute, NEW hour, NEW dom, NEW dow
  PROVE  LET e == Five(minute, hour, dom, dow)
         IN /\ e.fields = 5 /\ e.month = Star(Months)
            /\ e.minute = minute /\ e.hour = hour /\ e.dom = dom /\ e.dow = dow
BY DEF Five

\* FromCron undoes ToCron, and ToCron writes nothing the parser refuses.
LEMMA RoundTrip ==
  ASSUME NEW s, Accepts(s),
         \/ \E i : s = EveryMinutes(i)
         \/ \E i, m : s = EveryHours(i, m)
         \/ \E h, m : s = Daily(h, m)
         \/ \E w, h, m : s = Weekly(w, h, m)
         \/ \E d, h, m : s = Monthly(d, h, m)
  PROVE  ValidateCronExpr(ToCron(s)) /\ FromCron(ToCron(s)) = s
<1>1. ASSUME NEW i, s = EveryMinutes(i)
      PROVE  ValidateCronExpr(ToCron(s)) /\ FromCron(ToCron(s)) = s
  <2>1. s.every = "minutes" /\ s.interval = i
    BY <1>1 DEF EveryMinutes, Blank
  <2>2. i \in Nat \ {0}
    BY <2>1 DEF Accepts, requireInt, MaxInterval, Minutes, Hours, MonthDays
  <2>3. ToCron(s) = Five(Step(i, Minutes), Star(Hours), EveryDay, EveryWeekday)
    BY <2>1 DEF ToCron, At
  <2> DEFINE e == Five(Step(i, Minutes), Star(Hours), EveryDay, EveryWeekday)
  <2>4. /\ e.fields = 5 /\ e.month = Star(Months) /\ e.minute = Step(i, Minutes)
        /\ e.hour = Star(Hours) /\ e.dom = EveryDay /\ e.dow = EveryWeekday
    BY FieldsOfFive
  <2>5. ValidateCronExpr(e)
    BY <2>2, <2>4, Written DEF ValidateCronExpr
  <2>6. FromCron(e) = EveryMinutes(i)
    BY <2>4, Written DEF FromCron, FromDaily, Structured
  <2> QED
    BY <1>1, <2>3, <2>5, <2>6
<1>2. ASSUME NEW i, NEW m, s = EveryHours(i, m)
      PROVE  ValidateCronExpr(ToCron(s)) /\ FromCron(ToCron(s)) = s
  <2>1. s.every = "hours" /\ s.interval = i /\ s.minute = m
    BY <1>2 DEF EveryHours, Blank
  <2>2. i \in Nat \ {0} /\ m \in Minutes
    BY <2>1 DEF Accepts, requireInt, MaxInterval, Minutes, Hours, MonthDays
  <2>3. ToCron(s) = Five(Plain(m), Step(i, Hours), EveryDay, EveryWeekday)
    BY <2>1 DEF ToCron, At
  <2> DEFINE e == Five(Plain(m), Step(i, Hours), EveryDay, EveryWeekday)
  <2>4. /\ e.fields = 5 /\ e.month = Star(Months) /\ e.minute = Plain(m)
        /\ e.hour = Step(i, Hours) /\ e.dom = EveryDay /\ e.dow = EveryWeekday
    BY FieldsOfFive
  <2>5. ValidateCronExpr(e)
    BY <2>2, <2>4, Written DEF ValidateCronExpr
  <2>6. FromCron(e) = EveryHours(i, m)
    BY <2>4, Written DEF FromCron, FromDaily, Structured
  <2> QED
    BY <1>2, <2>3, <2>5, <2>6
<1>3. ASSUME NEW h, NEW m, s = Daily(h, m)
      PROVE  ValidateCronExpr(ToCron(s)) /\ FromCron(ToCron(s)) = s
  <2>1. s.every = "day" /\ s.hour = h /\ s.minute = m
    BY <1>3 DEF Daily, Blank
  <2>2. h \in Hours /\ m \in Minutes
    BY <2>1 DEF Accepts, requireInt, MaxInterval, Minutes, Hours, MonthDays
  <2>3. ToCron(s) = Five(Plain(m), Plain(h), EveryDay, EveryWeekday)
    BY <2>1 DEF ToCron, At
  <2> DEFINE e == Five(Plain(m), Plain(h), EveryDay, EveryWeekday)
  <2>4. /\ e.fields = 5 /\ e.month = Star(Months) /\ e.minute = Plain(m)
        /\ e.hour = Plain(h) /\ e.dom = EveryDay /\ e.dow = EveryWeekday
    BY FieldsOfFive
  <2>5. ValidateCronExpr(e)
    BY <2>2, <2>4, Written DEF ValidateCronExpr
  <2>6. FromCron(e) = Daily(h, m)
    BY <2>4, Written DEF FromCron, FromDaily, Structured
  <2> QED
    BY <1>3, <2>3, <2>5, <2>6
<1>4. ASSUME NEW w, NEW h, NEW m, s = Weekly(w, h, m)
      PROVE  ValidateCronExpr(ToCron(s)) /\ FromCron(ToCron(s)) = s
  <2>1. s.every = "week" /\ s.weekdays = w /\ s.hour = h /\ s.minute = m
    BY <1>4 DEF Weekly, Blank
  <2>2. h \in Hours /\ m \in Minutes /\ w \in (SUBSET Weekdays) \ {{}}
    <3>1. h \in Hours /\ m \in Minutes
      BY <2>1 DEF Accepts, requireInt, Minutes, Hours
    <3>2. w # {} /\ w \subseteq Weekdays
      BY <2>1 DEF Accepts
    <3> QED
      BY <3>1, <3>2
  <2>3. ToCron(s) = Five(Plain(m), Plain(h), EveryDay, Listed(w))
    BY <2>1 DEF ToCron, At
  <2> DEFINE e == Five(Plain(m), Plain(h), EveryDay, Listed(w))
  <2>4. /\ e.fields = 5 /\ e.month = Star(Months) /\ e.minute = Plain(m)
        /\ e.hour = Plain(h) /\ e.dom = EveryDay /\ e.dow = Listed(w)
    BY FieldsOfFive
  <2>5. ValidateCronExpr(e)
    BY <2>2, <2>4, Written DEF ValidateCronExpr
  <2>6. FromCron(e) = Weekly(w, h, m)
    BY <2>4, Written DEF FromCron, FromDays, Structured
  <2> QED
    BY <1>4, <2>3, <2>5, <2>6
<1>5. ASSUME NEW d, NEW h, NEW m, s = Monthly(d, h, m)
      PROVE  ValidateCronExpr(ToCron(s)) /\ FromCron(ToCron(s)) = s
  <2>1. s.every = "month" /\ s.day = d /\ s.hour = h /\ s.minute = m
    BY <1>5 DEF Monthly, Blank
  <2>2. h \in Hours /\ m \in Minutes /\ d \in MonthDays
    BY <2>1 DEF Accepts, requireInt, MaxInterval, Minutes, Hours, MonthDays
  <2>3. ToCron(s) = Five(Plain(m), Plain(h), Plain(d), EveryWeekday)
    BY <2>1 DEF ToCron, At
  <2> DEFINE e == Five(Plain(m), Plain(h), Plain(d), EveryWeekday)
  <2>4. /\ e.fields = 5 /\ e.month = Star(Months) /\ e.minute = Plain(m)
        /\ e.hour = Plain(h) /\ e.dom = Plain(d) /\ e.dow = EveryWeekday
    BY FieldsOfFive
  <2>5. ValidateCronExpr(e)
    BY <2>2, <2>4, Written DEF ValidateCronExpr
  <2>6. FromCron(e) = Monthly(d, h, m)
    BY <2>4, Written DEF FromCron, FromDays, Structured
  <2> QED
    BY <1>5, <2>3, <2>5, <2>6
<1> QED
  BY <1>1, <1>2, <1>3, <1>4, <1>5

-------------------------------------------------------------------------------
(* The form *)

\* Opened on an expression, the form holds the schedule it was opened with, and can be
\* saved as it is unless it holds a step wider than the builder's interval.
LEMMA Spread ==
  ASSUME NEW e, ValidateCronExpr(e), NEW f, f = toScheduleFields(FromCron(e))
  PROVE  /\ f \in Fields({e, Unwritten})
         /\ toSchedule(f) = FromCron(e)
         /\ Accepts(FromCron(e)) \/ f.interval > MaxInterval(f.frequency)
<1>1. ASSUME FromCron(e) = Custom(e)
      PROVE  /\ f \in Fields({e, Unwritten})
             /\ toSchedule(f) = FromCron(e)
             /\ Accepts(FromCron(e)) \/ f.interval > MaxInterval(f.frequency)
  <2> DEFINE s == Custom(e)
  <2>1. s.every = "custom" /\ s.cron = e
    BY DEF Custom, Blank
  <2> HIDE DEF s
  <2>2. f.frequency = "custom" /\ f.customCron = e
    BY <1>1, <2>1 DEF toScheduleFields, s
  <2>3. f \in Fields({e, Unwritten})
    BY <1>1, <2>1 DEF toScheduleFields, s, Fields, Frequencies, Weekdays, Hours, Minutes
  <2>4. toSchedule(f) = s
    BY <2>2 DEF toSchedule, s
  <2>5. Accepts(s)
    BY <2>1, <2>2 DEF Accepts, requireInt, acceptsCron, MaxInterval, Minutes, Hours, MonthDays
  <2> QED
    BY <1>1, <2>3, <2>4, <2>5 DEF s
<1>2. ASSUME NEW n \in Nat \ {0}, FromCron(e) = EveryMinutes(n)
      PROVE  /\ f \in Fields({e, Unwritten})
             /\ toSchedule(f) = FromCron(e)
             /\ Accepts(FromCron(e)) \/ f.interval > MaxInterval(f.frequency)
  <2> DEFINE s == EveryMinutes(n)
  <2>1. s.every = "minutes" /\ s.interval = n
    BY DEF EveryMinutes, Blank
  <2> HIDE DEF s
  <2>2. f.frequency = "minutes" /\ f.interval = n
    BY <1>2, <2>1 DEF toScheduleFields, s
  <2>3. f \in Fields({e, Unwritten})
    BY <1>2, <2>1 DEF toScheduleFields, s, Fields, Frequencies, Weekdays, Hours, Minutes
  <2>4. toSchedule(f) = s
    BY <2>2 DEF toSchedule, s
  <2>5. Accepts(s) \/ f.interval > MaxInterval(f.frequency)
    BY <2>1, <2>2 DEF Accepts, requireInt, acceptsCron, MaxInterval, Minutes, Hours, MonthDays
  <2> QED
    BY <1>2, <2>3, <2>4, <2>5 DEF s
<1>3. ASSUME NEW n \in Nat \ {0}, NEW m \in Minutes, FromCron(e) = EveryHours(n, m)
      PROVE  /\ f \in Fields({e, Unwritten})
             /\ toSchedule(f) = FromCron(e)
             /\ Accepts(FromCron(e)) \/ f.interval > MaxInterval(f.frequency)
  <2> DEFINE s == EveryHours(n, m)
  <2>1. s.every = "hours" /\ s.interval = n /\ s.minute = m
    BY DEF EveryHours, Blank
  <2> HIDE DEF s
  <2>2. f.frequency = "hours" /\ f.interval = n /\ f.minuteOfHour = m
    BY <1>3, <2>1 DEF toScheduleFields, s
  <2>3. f \in Fields({e, Unwritten})
    <3> DEFINE base == [frequency |-> "hours", interval |-> 15, minuteOfHour |-> 0, time |-> <<9, 0>>,
                        weekdays |-> {1}, monthDay |-> 1, customCron |-> Unwritten]
               first == [base EXCEPT !.interval = n]
    <3>1. base \in Fields({e, Unwritten})
      BY DEF Fields, Frequencies, Weekdays, Hours, Minutes
    <3>2. f = [first EXCEPT !.minuteOfHour = m]
      BY <1>3, <2>1 DEF toScheduleFields, s
    <3> HIDE DEF base
    <3>3. first \in Fields({e, Unwritten})
      BY <3>1 DEF Fields, Hours, Minutes
    <3> HIDE DEF first
    <3> QED
      BY <3>2, <3>3 DEF Fields, MonthDays, Minutes
  <2>4. toSchedule(f) = s
    BY <2>2 DEF toSchedule, s
  <2>5. Accepts(s) \/ f.interval > MaxInterval(f.frequency)
    BY <2>1, <2>2 DEF Accepts, requireInt, acceptsCron, MaxInterval, Minutes, Hours, MonthDays
  <2> QED
    BY <1>3, <2>3, <2>4, <2>5 DEF s
<1>4. ASSUME NEW h \in Hours, NEW m \in Minutes, FromCron(e) = Daily(h, m)
      PROVE  /\ f \in Fields({e, Unwritten})
             /\ toSchedule(f) = FromCron(e)
             /\ Accepts(FromCron(e)) \/ f.interval > MaxInterval(f.frequency)
  <2> DEFINE s == Daily(h, m)
  <2>1. s.every = "day" /\ s.hour = h /\ s.minute = m
    BY DEF Daily, Blank
  <2> HIDE DEF s
  <2>2. f.frequency = "day" /\ f.time = <<h, m>>
    BY <1>4, <2>1 DEF toScheduleFields, s
  <2>3. f \in Fields({e, Unwritten})
    BY <1>4, <2>1 DEF toScheduleFields, s, Fields, Frequencies, Weekdays, Hours, Minutes
  <2>4. toSchedule(f) = s
    BY <2>2 DEF toSchedule, s
  <2>5. Accepts(s)
    BY <2>1, <2>2 DEF Accepts, requireInt, acceptsCron, MaxInterval, Minutes, Hours, MonthDays
  <2> QED
    BY <1>4, <2>3, <2>4, <2>5 DEF s
<1>5. ASSUME NEW w \in (SUBSET Weekdays) \ {{}}, NEW h \in Hours, NEW m \in Minutes, FromCron(e) = Weekly(w, h, m)
      PROVE  /\ f \in Fields({e, Unwritten})
             /\ toSchedule(f) = FromCron(e)
             /\ Accepts(FromCron(e)) \/ f.interval > MaxInterval(f.frequency)
  <2> DEFINE s == Weekly(w, h, m)
  <2>1. s.every = "week" /\ s.weekdays = w /\ s.hour = h /\ s.minute = m
    BY DEF Weekly, Blank
  <2> HIDE DEF s
  <2>2. f.frequency = "week" /\ f.weekdays = w /\ f.time = <<h, m>>
    BY <1>5, <2>1 DEF toScheduleFields, s
  <2>3. f \in Fields({e, Unwritten})
    <3> DEFINE base == [frequency |-> "week", interval |-> 15, minuteOfHour |-> 0, time |-> <<9, 0>>,
                        weekdays |-> {1}, monthDay |-> 1, customCron |-> Unwritten]
               first == [base EXCEPT !.time = <<h, m>>]
    <3>1. base \in Fields({e, Unwritten})
      BY DEF Fields, Frequencies, Weekdays, Hours, Minutes
    <3>2. f = [first EXCEPT !.weekdays = w]
      BY <1>5, <2>1 DEF toScheduleFields, s
    <3> HIDE DEF base
    <3>3. first \in Fields({e, Unwritten})
      BY <3>1 DEF Fields, Hours, Minutes
    <3> HIDE DEF first
    <3> QED
      BY <3>2, <3>3 DEF Fields, MonthDays, Minutes
  <2>4. toSchedule(f) = s
    BY <2>2 DEF toSchedule, s
  <2>5. Accepts(s)
    BY <2>1, <2>2 DEF Accepts, requireInt, acceptsCron, MaxInterval, Minutes, Hours, MonthDays
  <2> QED
    BY <1>5, <2>3, <2>4, <2>5 DEF s
<1>6. ASSUME NEW d \in MonthDays, NEW h \in Hours, NEW m \in Minutes, FromCron(e) = Monthly(d, h, m)
      PROVE  /\ f \in Fields({e, Unwritten})
             /\ toSchedule(f) = FromCron(e)
             /\ Accepts(FromCron(e)) \/ f.interval > MaxInterval(f.frequency)
  <2> DEFINE s == Monthly(d, h, m)
  <2>1. s.every = "month" /\ s.day = d /\ s.hour = h /\ s.minute = m
    BY DEF Monthly, Blank
  <2> HIDE DEF s
  <2>2. f.frequency = "month" /\ f.monthDay = d /\ f.time = <<h, m>>
    BY <1>6, <2>1 DEF toScheduleFields, s
  <2>3. f \in Fields({e, Unwritten})
    <3> DEFINE base == [frequency |-> "month", interval |-> 15, minuteOfHour |-> 0, time |-> <<9, 0>>,
                        weekdays |-> {1}, monthDay |-> 1, customCron |-> Unwritten]
               first == [base EXCEPT !.time = <<h, m>>]
    <3>1. base \in Fields({e, Unwritten})
      BY DEF Fields, Frequencies, Weekdays, Hours, Minutes
    <3>2. f = [first EXCEPT !.monthDay = d]
      BY <1>6, <2>1 DEF toScheduleFields, s
    <3> HIDE DEF base
    <3>3. first \in Fields({e, Unwritten})
      BY <3>1 DEF Fields, Hours, Minutes
    <3> HIDE DEF first
    <3> QED
      BY <3>2, <3>3 DEF Fields, MonthDays, Minutes
  <2>4. toSchedule(f) = s
    BY <2>2 DEF toSchedule, s
  <2>5. Accepts(s)
    BY <2>1, <2>2 DEF Accepts, requireInt, acceptsCron, MaxInterval, Minutes, Hours, MonthDays
  <2> QED
    BY <1>6, <2>3, <2>4, <2>5 DEF s
<1>7. 1 \in Nat \ {0}
  OBVIOUS
<1>8. \/ FromCron(e) = Custom(e)
      \/ \E n \in Nat \ {0} : FromCron(e) = EveryMinutes(n)
      \/ \E n \in Nat \ {0}, m \in Minutes : FromCron(e) = EveryHours(n, m)
      \/ \E h \in Hours, m \in Minutes : FromCron(e) = Daily(h, m)
      \/ \E w \in (SUBSET Weekdays) \ {{}}, h \in Hours, m \in Minutes : FromCron(e) = Weekly(w, h, m)
      \/ \E d \in MonthDays, h \in Hours, m \in Minutes : FromCron(e) = Monthly(d, h, m)
  BY <1>7, EveryShape, Zenon DEF Shape
<1> QED
  BY <1>1, <1>2, <1>3, <1>4, <1>5, <1>6, <1>8

\* What a save stores of a schedule that is accepted: an expression the parser takes,
\* that fires as the schedule says and opens as the schedule was.
LEMMA Stored ==
  ASSUME NEW texts, NEW f \in Fields(texts), Accepts(toSchedule(f))
  PROVE  LET s == toSchedule(f)
         IN /\ s.every \in Frequencies
            /\ ValidateCronExpr(ToCron(s))
            /\ Firing(ToCron(s)) = Meaning(s)
            /\ s.every # "custom" => FromCron(ToCron(s)) = s
<1> DEFINE s == toSchedule(f)
<1>1. CASE f.frequency = "custom"
  <2>1. s = Custom(f.customCron)
    BY <1>1 DEF toSchedule
  <2>2. s.every = "custom" /\ s.cron = f.customCron
    BY <2>1 DEF Custom, Blank
  <2>3. ValidateCronExpr(s.cron)
    BY <2>2 DEF Accepts, acceptsCron
  <2>4. ToCron(s) = s.cron
    BY <2>2 DEF ToCron
  <2>5. Meaning(s) = Firing(s.cron)
    BY <2>2 DEF Meaning
  <2> QED
    BY <2>2, <2>3, <2>4, <2>5 DEF Frequencies
<1>2. CASE f.frequency # "custom"
  <2>1. \/ \E i : s = EveryMinutes(i)
        \/ \E i, m : s = EveryHours(i, m)
        \/ \E h, m : s = Daily(h, m)
        \/ \E w, h, m : s = Weekly(w, h, m)
        \/ \E d, h, m : s = Monthly(d, h, m)
    <3>1. f.frequency \in Frequencies
      BY DEF Fields
    <3> QED
      BY <1>2, <3>1 DEF toSchedule, Frequencies
  <2>2. s.every \in Frequencies
    BY <2>1 DEF EveryMinutes, EveryHours, Daily, Weekly, Monthly, Blank, Frequencies
  <2> HIDE DEF s
  <2>3. ValidateCronExpr(ToCron(s)) /\ FromCron(ToCron(s)) = s
    BY <2>1, RoundTrip DEF s
  <2>4. Meaning(s) = Firing(ToCron(s))
    BY <2>3, ShownAsStored
  <2> QED
    BY <2>2, <2>3, <2>4 DEF s
<1> QED
  BY <1>1, <1>2

\* Two forms with the same fields are the same form.
LEMMA SameFields ==
  ASSUME NEW texts, NEW f \in Fields(texts), NEW g \in Fields(texts),
         f.frequency = g.frequency, f.interval = g.interval, f.minuteOfHour = g.minuteOfHour,
         f.time = g.time, f.weekdays = g.weekdays, f.monthDay = g.monthDay,
         f.customCron = g.customCron
  PROVE  f = g
BY DEF Fields

-------------------------------------------------------------------------------
(* The specification *)

\* What the form was opened with is still there until something is edited.
Untouched == IsOpen /\ edits = 0 => form = toScheduleFields(FromCron(opened))

FormInv == TypeOK /\ SavedIsShown /\ Reopens /\ FlipsKeep /\ Untouched

LEMMA FormInit == Init => FormInv
<1> SUFFICES ASSUME Init
             PROVE  FormInv
  OBVIOUS
<1>1. Blank.every = "custom"
  BY DEF Blank
<1>2. 0 \in 0 .. MaxEdits
  BY DEF FormAssumption
<1>3. TypeOK
  BY <1>1, <1>2 DEF Init, TypeOK, IsOpen, Frequencies
<1> QED
  BY <1>1, <1>3 DEF Init, FormInv, SavedIsShown, Reopens, FlipsKeep, Untouched, IsOpen

LEMMA FormOpen ==
  ASSUME FormInv, Open
  PROVE  FormInv'
<1> DEFINE shown == toScheduleFields(FromCron(stored))
<1>1. ValidateCronExpr(stored)
  BY DEF FormInv, TypeOK
<1>2. shown \in Fields({stored, Unwritten})
  BY <1>1, Spread
<1>3. shown \in Fields(Cron \cup {stored, Unwritten})
  BY <1>2 DEF Fields
<1>4. TypeOK'
  <2>1. form' = shown /\ opened' = stored /\ stored' = stored /\ submitted' = submitted
    BY DEF Open
  <2>2. edits' = 0 /\ typed' = FALSE
    BY DEF Open
  <2>3. 0 \in 0 .. MaxEdits
    BY DEF FormAssumption
  <2> HIDE DEF shown
  <2> QED
    BY <1>1, <1>3, <2>1, <2>2, <2>3 DEF FormInv, TypeOK
<1>5. SavedIsShown' /\ Reopens'
  BY DEF Open, FormInv, SavedIsShown, Reopens
<1>6. FlipsKeep'
  <2>1. shown = [shown EXCEPT !.frequency = shown.frequency]
    BY <1>2 DEF Fields
  <2> QED
    BY <2>1 DEF Open, FlipsKeep
<1>7. Untouched'
  BY DEF Open, Untouched
<1> QED
  BY <1>4, <1>5, <1>6, <1>7 DEF FormInv

\* An edit of a form leaves a form; what was saved, and that it was opened, are as before.
LEMMA FormEdit ==
  ASSUME FormInv, NEW f, Edit(f), f \in Fields(Cron \cup {opened, Unwritten}), typed' \in BOOLEAN
  PROVE  TypeOK' /\ SavedIsShown' /\ Reopens' /\ Untouched'
<1>1. edits \in 0 .. MaxEdits /\ edits' = edits + 1 /\ edits < MaxEdits
  BY DEF FormInv, TypeOK, Edit
<1>2. edits' \in 0 .. MaxEdits /\ edits' # 0
  BY <1>1 DEF FormAssumption
<1>3. TypeOK'
  BY <1>2 DEF Edit, FormInv, TypeOK, IsOpen
<1> QED
  BY <1>2, <1>3 DEF Edit, FormInv, SavedIsShown, Reopens, Untouched

LEMMA FormFrequency ==
  ASSUME FormInv, NEW next \in Frequencies, handleFrequency(next)
  PROVE  FormInv'
<1> DEFINE texts == Cron \cup {opened, Unwritten}
           interval == IF next \in {"minutes", "hours"} THEN Clamped(form.interval, next) ELSE form.interval
           f == [form EXCEPT !.frequency = next, !.interval = interval]
<1>1. IsOpen /\ form \in Fields(texts)
  BY DEF FormInv, TypeOK, handleFrequency, Edit
<1>2. Edit(f) /\ typed' = typed /\ typed' \in BOOLEAN
  BY DEF handleFrequency, FormInv, TypeOK
<1>3. interval \in Int \cup {Null}
  <2>1. form.interval \in Int \cup {Null}
    BY <1>1 DEF Fields
  <2>2. MaxInterval(next) \in Int
    BY DEF MaxInterval
  <2> QED
    BY <2>1, <2>2 DEF Clamped
<1>4. f \in Fields(texts)
  <2> HIDE DEF interval
  <2> QED
    BY <1>1, <1>3 DEF Fields
<1>5. TypeOK' /\ SavedIsShown' /\ Reopens' /\ Untouched'
  BY <1>2, <1>4, FormEdit
<1>6. FlipsKeep'
  <2> DEFINE shown == toScheduleFields(FromCron(opened))
  <2> SUFFICES ASSUME ~typed, shown.interval \in 1 .. 23
               PROVE  f = [shown EXCEPT !.frequency = f.frequency]
    BY <1>2 DEF FlipsKeep, Edit
  <2>1. form = [shown EXCEPT !.frequency = form.frequency]
    BY <1>1 DEF FormInv, FlipsKeep
  <2>2. shown \in Fields(texts)
    <3>1. shown \in Fields({opened, Unwritten})
      BY <1>1, Spread DEF FormInv, TypeOK
    <3> QED
      BY <3>1 DEF Fields
  <2> HIDE DEF shown
  <2>3. /\ form.interval = shown.interval /\ form.minuteOfHour = shown.minuteOfHour
        /\ form.time = shown.time /\ form.weekdays = shown.weekdays
        /\ form.monthDay = shown.monthDay /\ form.customCron = shown.customCron
    BY <2>1, <2>2 DEF Fields
  <2>4. interval = shown.interval
    BY <2>3 DEF Clamped, MaxInterval, FormAssumption
  <2> DEFINE g == [shown EXCEPT !.frequency = next]
  <2>5. g \in Fields(texts)
    BY <2>2 DEF Fields
  <2>6. /\ f.frequency = next /\ f.interval = interval /\ f.minuteOfHour = form.minuteOfHour
        /\ f.time = form.time /\ f.weekdays = form.weekdays
        /\ f.monthDay = form.monthDay /\ f.customCron = form.customCron
    <3> HIDE DEF interval
    <3> QED
      BY <1>1 DEF Fields
  <2>7. /\ g.frequency = next /\ g.interval = shown.interval /\ g.minuteOfHour = shown.minuteOfHour
        /\ g.time = shown.time /\ g.weekdays = shown.weekdays
        /\ g.monthDay = shown.monthDay /\ g.customCron = shown.customCron
    BY <2>2 DEF Fields
  <2> HIDE DEF f, g, interval
  <2>8. f = g
    BY <1>4, <2>3, <2>4, <2>5, <2>6, <2>7, SameFields
  <2> QED
    BY <2>6, <2>8 DEF g
<1> QED
  BY <1>5, <1>6 DEF FormInv

LEMMA FormTyped ==
  ASSUME FormInv, NEW f, Edit(f), f \in Fields(Cron \cup {opened, Unwritten}), typed' = TRUE
  PROVE  FormInv'
BY FormEdit DEF FormInv, FlipsKeep

LEMMA FormWeekday ==
  ASSUME FormInv, NEW day \in Clicked, toggleWeekday(day)
  PROVE  FormInv'
<1> DEFINE days == (form.weekdays \ {day}) \cup ({day} \ form.weekdays)
           f == [form EXCEPT !.weekdays = days]
<1>1. form \in Fields(Cron \cup {opened, Unwritten})
  BY DEF FormInv, TypeOK, toggleWeekday
<1>2. days \in (SUBSET Weekdays) \ {{}}
  <2>1. form.weekdays \in (SUBSET Weekdays) \ {{}} /\ form.weekdays # {day} /\ day \in Weekdays
    BY <1>1 DEF Fields, toggleWeekday, FormAssumption
  <2> QED
    BY <2>1
<1>3. f \in Fields(Cron \cup {opened, Unwritten})
  <2> HIDE DEF days
  <2> QED
    BY <1>1, <1>2 DEF Fields
<1>4. Edit(f) /\ typed' = TRUE
  BY DEF toggleWeekday
<1> HIDE DEF f
<1> QED
  BY <1>3, <1>4, FormTyped

LEMMA FormTyping ==
  ASSUME FormInv, Typing
  PROVE  FormInv'
<1> DEFINE texts == Cron \cup {opened, Unwritten}
<1>1. form \in Fields(texts)
  BY DEF FormInv, TypeOK, Typing, Type
<1>2. ASSUME NEW field \in {"interval", "minuteOfHour", "monthDay"}, NEW value \in Numbers \cup {Null}
      PROVE  [form EXCEPT ![field] = value] \in Fields(texts)
  <2>1. value \in Int \cup {Null}
    BY DEF FormAssumption
  <2>2. CASE field = "interval"
    BY <1>1, <2>1, <2>2 DEF Fields
  <2>3. CASE field = "minuteOfHour"
    BY <1>1, <2>1, <2>3 DEF Fields
  <2>4. CASE field = "monthDay"
    BY <1>1, <2>1, <2>4 DEF Fields
  <2> QED
    BY <2>2, <2>3, <2>4
<1>3. ASSUME NEW value \in Times \cup {<<Null, Null>>}
      PROVE  [form EXCEPT !.time = value] \in Fields(texts)
  <2>1. value \in (Hours \X Minutes) \cup {<<Null, Null>>}
    BY DEF FormAssumption
  <2> QED
    BY <1>1, <2>1 DEF Fields
<1>4. ASSUME NEW value \in Cron \cup {Unwritten}
      PROVE  [form EXCEPT !.customCron = value] \in Fields(texts)
  BY <1>1 DEF Fields
<1>5. \E f \in Fields(texts) : Edit(f) /\ typed' = TRUE
  BY <1>2, <1>3, <1>4 DEF Typing, Type
<1> QED
  BY <1>5, FormTyped

LEMMA FormClose ==
  ASSUME Close
  PROVE  /\ edits' = 0 /\ typed' = FALSE /\ ~IsOpen'
         /\ FlipsKeep' /\ Untouched'
BY DEF Close, IsOpen, FlipsKeep, Untouched

LEMMA FormSave ==
  ASSUME FormInv, Save
  PROVE  FormInv'
<1> DEFINE s == toSchedule(form)
<1>1. form \in Fields(Cron \cup {opened, Unwritten})
  BY DEF FormInv, TypeOK, Save
<1>2. Accepts(s) /\ stored' = ToCron(s) /\ submitted' = s /\ Close
  BY DEF Save
<1>3. /\ s.every \in Frequencies
      /\ ValidateCronExpr(stored')
      /\ Firing(stored') = Meaning(s)
      /\ s.every # "custom" => FromCron(stored') = s
  BY <1>1, <1>2, Stored
<1> HIDE DEF s
<1>4. TypeOK'
  BY <1>2, <1>3, FormClose DEF TypeOK, FormAssumption
<1> QED
  BY <1>2, <1>3, <1>4, FormClose DEF FormInv, SavedIsShown, Reopens

LEMMA FormByHand ==
  ASSUME FormInv, NEW e \in Cron, ByHand(e)
  PROVE  FormInv'
<1>1. Blank.every = "custom"
  BY DEF Blank
<1>2. TypeOK'
  BY <1>1 DEF ByHand, FormInv, TypeOK, IsOpen, Frequencies
<1> QED
  BY <1>1, <1>2 DEF ByHand, FormInv, SavedIsShown, Reopens, FlipsKeep, Untouched, IsOpen

LEMMA FormNext == FormInv /\ [Next]_vars => FormInv'
<1> SUFFICES ASSUME FormInv, [Next]_vars
             PROVE  FormInv'
  OBVIOUS
<1>1. CASE Cancel
  <2>1. TypeOK'
    BY <1>1, FormClose DEF Cancel, FormInv, TypeOK, FormAssumption
  <2> QED
    BY <1>1, <2>1, FormClose DEF Cancel, FormInv, SavedIsShown, Reopens
<1>2. CASE UNCHANGED vars
  BY <1>2 DEF vars, FormInv, TypeOK, SavedIsShown, Reopens, FlipsKeep, Untouched, IsOpen
<1> QED
  BY <1>1, <1>2, FormOpen, FormFrequency, FormWeekday, FormTyping, FormSave, FormByHand DEF Next

LEMMA FormInvariant == Spec => []FormInv
BY FormInit, FormNext, PTL DEF Spec

\* The row only ever holds an expression the scheduler accepts.
THEOREM FormTypeOK == Spec => []TypeOK
<1>1. FormInv => TypeOK
  BY DEF FormInv
<1> QED
  BY <1>1, FormInvariant, PTL

\* The form opens on any accepted expression and shows when it fires.
THEOREM FormShownIsStored == Spec => []ShownIsStored
<1>1. FormInv => ShownIsStored
  BY Spread, ShownAsStored DEF FormInv, TypeOK, Untouched, ShownIsStored
<1> QED
  BY <1>1, FormInvariant, PTL

\* A task saved from the form fires when the form said it would.
THEOREM FormSavedIsShown == Spec => []SavedIsShown
<1>1. FormInv => SavedIsShown
  BY DEF FormInv
<1> QED
  BY <1>1, FormInvariant, PTL

\* FromCron undoes ToCron: a structured schedule opens as it was saved.
THEOREM FormReopens == Spec => []Reopens
<1>1. FormInv => Reopens
  BY DEF FormInv
<1> QED
  BY <1>1, FormInvariant, PTL

\* Flipping through the frequencies wipes nothing of what the form was opened with.
THEOREM FormFlipsKeep == Spec => []FlipsKeep
<1>1. FormInv => FlipsKeep
  BY DEF FormInv
<1> QED
  BY <1>1, FormInvariant, PTL

\* An untouched form is refused for nothing but a step wider than the builder's interval.
THEOREM FormUntouchedSaves == Spec => []UntouchedSaves
<1>1. FormInv => UntouchedSaves
  BY Spread DEF FormInv, TypeOK, Untouched, UntouchedSaves
<1> QED
  BY <1>1, FormInvariant, PTL
===============================================================================
