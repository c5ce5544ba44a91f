------------------------------ MODULE Schedule ------------------------------
(***************************************************************************)
(* The dates of a recurring rule (modules/recurring/schedule.py): when a   *)
(* rule that is resumed or edited runs next, and when a monthly rule is    *)
(* due. The code reckons with datetimes of the rule's zone: between two of *)
(* the same zone Python compares and subtracts what the clock on the wall  *)
(* shows, and the clock is put forward and back in the year.               *)
(*                                                                         *)
(* A local datetime is the wall clock, in slots, and fold: 1 for the later *)
(* of the two times a wall shows when the clock was put back.              *)
(***************************************************************************)
EXTENDS Calendar

CONSTANTS
  Schedules,  \* schedules of rules
  Moments    \* instants at which they are asked for

ZoneSet == [standard : Int, summer : Int, summers : SUBSET [from : Int, to : Int]]

ASSUME ScheduleAssumption ==
  /\ \A r \in Schedules :
       /\ r.frequency \in {"daily", "weekly", "monthly", "yearly"}
       /\ r.interval \in Nat \ {0} /\ r.start \in Int
       /\ r.zone.standard \in Int /\ r.zone.summer \in Int
       /\ r.zone.standard <= r.zone.summer
  /\ Moments \subseteq Int

VARIABLES
  schedule,  \* of a rule
  asked,     \* when it was asked for last
  nextRun,   \* its next_run_at as computed then
  wasDue     \* whether it was due then, apart from its status and what was paid

scheduleVars == <<schedule, asked, nextRun, wasDue>>

-----------------------------------------------------------------------------
\* Zones: summer time between two instants of every year, or never.
OffsetAt(zone, t) ==
  IF \E s \in zone.summers : s.from <= t /\ t < s.to THEN zone.summer ELSE zone.standard

\* value.astimezone(zone).
LocalTime(zone, t) ==
  LET earlier == t - (zone.summer - zone.standard)
  IN [wall |-> t + OffsetAt(zone, t),
      fold |-> IF OffsetAt(zone, earlier) > OffsetAt(zone, t) THEN 1 ELSE 0]

\* local.astimezone(UTC). Of a wall time shown twice fold tells which one; one never
\* shown is reckoned with the offset before the change.
Utc(zone, local) ==
  LET inSummer == local.wall - zone.summer
      inWinter == local.wall - zone.standard
      summer == OffsetAt(zone, inSummer) = zone.summer
      winter == OffsetAt(zone, inWinter) = zone.standard
  IN IF summer = winter
     THEN IF summer = (local.fold = 0) THEN inSummer ELSE inWinter
     ELSE IF summer THEN inSummer ELSE inWinter

Start(r) == LocalTime(r.zone, r.start)

\* Mutant of DayIn: the day of the month is not clamped to the month's length.
DayBeyond(day, month) == day

\* min(anchor.day, monthrange).
DayIn(day, month) == IF day <= LengthOfMonth(month) THEN day ELSE LengthOfMonth(month)

\* local.replace(year, month, day): the time of day and fold stay.
InMonth(local, month) ==
  [local EXCEPT !.wall =
     StartOf(FirstDay(month) + DayIn(DayOfMonth(DayOf(local.wall)), month) - 1)
       + (local.wall % Slots)]

\* Slots of the daily and weekly rules, months of the others.
Step(r) ==
  CASE r.frequency = "daily" -> r.interval * Slots
    [] r.frequency = "weekly" -> r.interval * 7 * Slots
    [] r.frequency = "monthly" -> r.interval
    [] r.frequency = "yearly" -> 12 * r.interval

\* _next_timedelta_occurrence; a sum with a timedelta has fold 0.
NextTimedeltaOccurrence(r, after) ==
  IF Start(r).wall > after.wall THEN Start(r)
  ELSE LET steps == (after.wall - Start(r).wall) \div Step(r) + 1
       IN [wall |-> Start(r).wall + steps * Step(r), fold |-> 0]

\* _add_months_from_anchor.
AddMonths(anchor, months) == InMonth(anchor, MonthOf(DayOf(anchor.wall)) + months)

\* _next_monthly_occurrence.
NextMonthlyOccurrence(r, after) ==
  LET Candidate(index) == AddMonths(Start(r), index * Step(r))
      months == MonthOf(DayOf(after.wall)) - MonthOf(DayOf(Start(r).wall))
      last == IF months < 0 THEN 0 ELSE months \div Step(r) + 1
      index == CHOOSE i \in 0 .. last :
                 /\ Candidate(i).wall > after.wall
                 /\ i > 0 => Candidate(i - 1).wall <= after.wall
  IN Candidate(index)

\* calculate_next_run_after.
NextRunAfter(r, t) ==
  LET after == LocalTime(r.zone, t)
  IN Utc(r.zone, IF r.frequency \in {"daily", "weekly"} THEN NextTimedeltaOccurrence(r, after)
                 ELSE NextMonthlyOccurrence(r, after))

\* calculate_next_run_on_or_after.
NextRunOnOrAfter(r, t) == IF r.start >= t THEN r.start ELSE NextRunAfter(r, t)

\* recurring_period_key, of which only the month matters.
MonthAt(zone, t) == MonthOf(DayOf(LocalTime(zone, t).wall))

\* calculate_monthly_due_at.
MonthlyDueAt(r, month) == Utc(r.zone, InMonth(Start(r), month))

\* is_monthly_due_window.
MonthlyDueWindow(r, t) ==
  LET month == MonthAt(r.zone, t)
  IN month >= MonthAt(r.zone, r.start) /\ t >= MonthlyDueAt(r, month)

\* Mutant of MonthlyDue: due in every month from the first on.
MonthlyDueEveryMonth(r, t) == r.frequency = "monthly" /\ MonthlyDueWindow(r, t)

\* is_monthly_recurring_due of an active rule.
MonthlyDue(r, t) ==
  LET elapsed == MonthAt(r.zone, t) - MonthAt(r.zone, r.start)
  IN /\ r.frequency = "monthly"
     /\ elapsed >= 0 /\ elapsed % r.interval = 0
     /\ MonthlyDueWindow(r, t)

InitSchedule ==
  /\ schedule \in Schedules
  /\ asked = schedule.start /\ nextRun = schedule.start /\ wasDue = FALSE

\* resume_rule or update_rule at t, and the reminders asked for at t.
Look(t) ==
  /\ t > asked
  /\ asked' = t
  /\ nextRun' = NextRunOnOrAfter(schedule, t)
  /\ wasDue' = MonthlyDue(schedule, t)
  /\ UNCHANGED schedule

NextSchedule == \E t \in Moments : Look(t)

ScheduleSpec == InitSchedule /\ [][NextSchedule]_scheduleVars

-----------------------------------------------------------------------------
\* What a schedule means, said without the code's arithmetic: the days it names, and
\* the same time of the day on each.
Clock(r) == Start(r).wall % Slots
FirstOf(r) == DayOf(Start(r).wall)
SameDayOfMonth(day, first) ==
  DayOfMonth(day) = IF DayOfMonth(first) <= LengthOfMonth(MonthOf(day)) THEN DayOfMonth(first)
                    ELSE LengthOfMonth(MonthOf(day))
Names(r, day) ==
  /\ day >= FirstOf(r)
  /\ CASE r.frequency = "daily" -> (day - FirstOf(r)) % r.interval = 0
       [] r.frequency = "weekly" -> (day - FirstOf(r)) % (7 * r.interval) = 0
       [] r.frequency = "monthly" ->
            /\ (MonthOf(day) - MonthOf(FirstOf(r))) % r.interval = 0
            /\ SameDayOfMonth(day, FirstOf(r))
       [] r.frequency = "yearly" ->
            /\ (MonthOf(day) - MonthOf(FirstOf(r))) % (12 * r.interval) = 0
            /\ SameDayOfMonth(day, FirstOf(r))
\* The run of a day; the first is the start itself. Of a time of the day that is shown
\* twice a monthly or yearly rule means the one it started at, the others the first.
RunFold(r) == IF r.frequency \in {"daily", "weekly"} THEN 0 ELSE Start(r).fold
RunOn(r, day) ==
  IF day = FirstOf(r) THEN r.start
  ELSE Utc(r.zone, [wall |-> day * Slots + Clock(r), fold |-> RunFold(r)])

\* The clock of the zone shows that time.
Shown(zone, wall) ==
  \E offset \in {zone.summer, zone.standard} : OffsetAt(zone, wall - offset) = offset

\* No clock was changed within the hour before t, nor is within the hour after it if the
\* rule runs at the second of two times that look the same.
ClockSteady(r, t) ==
  LET hour == r.zone.summer - r.zone.standard
  IN \A u \in t - hour .. t + (hour * RunFold(r)) : OffsetAt(r.zone, u) = OffsetAt(r.zone, t)

\* A rule that is resumed or edited next runs on a day it names, and at the first of its
\* runs that is later than now, or at its start when that is not over, whatever the
\* lengths of the months and the changes of the clock between; only in the hour after a
\* change of the clock, or before one, does the comparison of wall times
\* (_next_timedelta_occurrence, _next_monthly_occurrence) err, and only a time of the day
\* that the clock leaves out is made up for on another day.
NextRunIsNext ==
  \E day \in {DayOf(nextRun + schedule.zone.standard), DayOf(nextRun + schedule.zone.summer)} :
    /\ Names(schedule, day) /\ nextRun = RunOn(schedule, day)
    /\ Shown(schedule.zone, day * Slots + Clock(schedule)) =>
         DayOf(LocalTime(schedule.zone, nextRun).wall) = day
    /\ ClockSteady(schedule, asked) =>
         /\ nextRun > asked \/ (nextRun = schedule.start /\ asked = nextRun)
         /\ \A d \in DayOf(LocalTime(schedule.zone, asked).wall) .. day - 1 :
              Names(schedule, d) => RunOn(schedule, d) <= asked

\* The reminders and the schedule agree on the runs, which they compute apart: a monthly
\* rule is due from its run in a month until the month's end, local time, and not in the
\* months it leaves out (is_monthly_recurring_due, calculate_monthly_due_at).
RemindersMatchRuns ==
  asked > schedule.start =>
    LET today == DayOf(LocalTime(schedule.zone, asked).wall)
        month == FirstDay(MonthOf(today)) .. FirstDay(MonthOf(today) + 1) - 1
    IN wasDue <=> /\ schedule.frequency = "monthly"
                  /\ \E d \in month : Names(schedule, d) /\ RunOn(schedule, d) <= asked

\* What was computed is what is computed at the instant asked for; the inductive invariant.
ScheduleInv ==
  /\ schedule \in Schedules /\ asked \in Int /\ asked >= schedule.start
  /\ nextRun = NextRunOnOrAfter(schedule, asked)
  /\ asked > schedule.start => (wasDue <=> MonthlyDue(schedule, asked))
=============================================================================
