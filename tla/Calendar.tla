------------------------------ MODULE Calendar ------------------------------
(***************************************************************************)
(* The calendar the reports, the budgets and the recurring rules reckon    *)
(* with. Months are counted from January 2023, days from its first day,    *)
(* which is a Sunday, instants in slots of half an hour of UTC from then   *)
(* on; a date is a day.                                                    *)
(***************************************************************************)
EXTENDS Integers

Slots == 48   \* of a day

\* The Gregorian calendar between 2023 and 2099.
Leap(month) == (month \div 12) % 4 = 1
LengthOfMonth(month) ==
  CASE month % 12 = 1 -> IF Leap(month) THEN 29 ELSE 28
    [] month % 12 \in {3, 5, 8, 10} -> 30
    [] OTHER -> 31
DaysBefore == <<0, 31, 59, 90, 120, 151, 181, 212, 243, 273, 304, 334>>
FirstDay(month) ==
  365 * (month \div 12) + (month \div 12 + 2) \div 4
    + DaysBefore[(month % 12) + 1] + (IF Leap(month) /\ month % 12 > 1 THEN 1 ELSE 0)

MonthOf(day) ==
  LET a == day \div 31  b == day \div 28
  IN CHOOSE m \in (a .. b) \cup (b .. a) : FirstDay(m) <= day /\ day < FirstDay(m + 1)
DayOfMonth(day) == day - FirstDay(MonthOf(day)) + 1

DayOf(t) == t \div Slots

\* at_utc_start.
StartOf(day) == day * Slots

\* next_month_start; December and the others are one case here.
NextMonthStart(day) == FirstDay(MonthOf(day) + 1)

\* days_since_sunday.
DaysSinceSunday(day) == day % 7
=============================================================================
