------------------------------- MODULE Reports -------------------------------
(***************************************************************************)
(* The reports of one user (modules/reports): ranges of UTC cut into       *)
(* buckets, and one query after another over them. Every query sees what   *)
(* is committed when it runs, so transactions that are written meanwhile   *)
(* may be in one answer and not in another.                                *)
(*                                                                         *)
(* An answer is the set of rows its sums add; amounts, percentages, labels *)
(* and the order of categories are left out.                               *)
(***************************************************************************)
EXTENDS Calendar, Sequences, FiniteSets, SequencesExt

CONSTANTS
  Ids,            \* rows of transactions and of savings_contributions
  RowValues,      \* what they may be
  Queries,        \* reports that may be asked for
  BudgetPeriods,  \* of the user's budgets, [from, to] in days, by budget
  None            \* no row

RowTypes == {"income", "expense", "transfer", "loan_balance_adjustment", "contribution"}
RowSet == [type : RowTypes, at : Int, voided : BOOLEAN, archived : BOOLEAN]

\* Query parameters; dates are days, ranges instants.
ReportSet ==
  [kind : {"dashboard"}, period : {"week", "month", "year"}, type : {"income", "expense"},
   day : Int]
  \cup [kind : {"monthly"}, month : Int]
  \cup [kind : {"cash_flow"}, from : Int, to : Int, interval : {"day", "week", "month"}]
  \cup [kind : {"spending"}, from : Int, to : Int]

ASSUME ReportsAssumption ==
  /\ Queries \subseteq ReportSet
  /\ \A q \in Queries : q.kind \in {"cash_flow", "spending"} => q.from < q.to
  /\ IsFiniteSet(DOMAIN BudgetPeriods)
  /\ \A b \in DOMAIN BudgetPeriods :
       /\ BudgetPeriods[b].from \in Int /\ BudgetPeriods[b].to \in Int
       /\ BudgetPeriods[b].from < BudgetPeriods[b].to
  /\ RowValues \subseteq RowSet /\ None \notin RowValues
  /\ \A r \in RowValues : r.type = "contribution" => ~ r.voided

VARIABLES
  table,    \* the rows; archived is the state of a row's account
  report,   \* the report that is made
  pending,  \* its queries that did not run yet
  answers,  \* the others, each with the rows it added up
  touched   \* rows that were written meanwhile

reportVars == <<table, report, pending, answers, touched>>

-----------------------------------------------------------------------------
Smaller(a, b) == IF a < b THEN a ELSE b

\* Mutant of DaysUntilNextSunday: a Sunday is not followed by a whole week.
DaysUntilMonday(day) == 7 - ((day + 6) % 7)

\* days_until_next_sunday.
DaysUntilNextSunday(day) == IF DaysSinceSunday(day) = 0 THEN 7 ELSE 7 - DaysSinceSunday(day)

\* next_report_boundary.
NextBoundary(t, interval) ==
  StartOf(CASE interval = "day" -> DayOf(t) + 1
            [] interval = "week" -> DayOf(t) + DaysUntilNextSunday(DayOf(t))
            [] interval = "month" -> NextMonthStart(DayOf(t)))

\* report_buckets.
ReportBuckets(from, to, interval) ==
  LET buckets[t \in Int] ==
        IF t >= to THEN <<>>
        ELSE LET next == Smaller(NextBoundary(t, interval), to)
             IN  <<[from |-> t, to |-> next]>> \o buckets[next]
  IN buckets[from]

\* month_key_range, previous_month_range.
MonthRange(month) == [from |-> StartOf(FirstDay(month)), to |-> StartOf(FirstDay(month + 1))]

\* dashboard_period_range.
DashboardRange(period, day) ==
  LET start == CASE period = "week" -> day - DaysSinceSunday(day)
                 [] period = "month" -> FirstDay(MonthOf(day))
                 [] period = "year" -> FirstDay(MonthOf(day) - (MonthOf(day) % 12))
      end == CASE period = "week" -> start + 7
               [] period = "month" -> NextMonthStart(start)
               [] period = "year" -> FirstDay(MonthOf(start) + 12)
  IN [from |-> StartOf(start), to |-> StartOf(end)]

\* is_current: of days the date itself, of months the one with its number.
Current(period, bucket, day) ==
  IF period = "year" THEN MonthOf(DayOf(bucket.from)) % 12 = MonthOf(day) % 12
  ELSE DayOf(bucket.from) = day

\* dashboard_buckets.
DashboardBuckets(period, range) ==
  ReportBuckets(range.from, range.to, IF period = "year" THEN "month" ELSE "day")

Buckets(q) ==
  CASE q.kind = "dashboard" -> DashboardBuckets(q.period, DashboardRange(q.period, q.day))
    [] q.kind = "monthly" -> ReportBuckets(MonthRange(q.month).from, MonthRange(q.month).to, "day")
    [] q.kind = "cash_flow" -> ReportBuckets(q.from, q.to, q.interval)
    [] q.kind = "spending" -> <<>>

Span(q) ==
  CASE q.kind = "dashboard" -> DashboardRange(q.period, q.day)
    [] q.kind = "monthly" -> MonthRange(q.month)
    [] q.kind \in {"cash_flow", "spending"} -> [from |-> q.from, to |-> q.to]

-----------------------------------------------------------------------------
Select(what, types, range) ==
  [what |-> what, types |-> types, from |-> range.from, to |-> range.to]
Balance ==
  Select("balance", {"income", "expense", "transfer"}, [from |-> 0, to |-> 0])

\* What the buckets of a report add up.
BucketTypes(q) ==
  CASE q.kind = "dashboard" -> {q.type}
    [] q.kind = "cash_flow" -> {"income", "expense"}
    [] q.kind \in {"monthly", "spending"} -> {"expense"}

\* list_budget_aggregates_for_month: every budget that overlaps the month, over its own
\* period, in whatever order the budgets are found.
BudgetSums(month) ==
  LET overlapping == {b \in DOMAIN BudgetPeriods : /\ BudgetPeriods[b].from < FirstDay(month + 1)
                                                  /\ BudgetPeriods[b].to > FirstDay(month)}
      order == SetToSeq(overlapping)
      Sum(period) == Select("budget", {"expense"},
                            [from |-> StartOf(period.from), to |-> StartOf(period.to)])
  IN [n \in DOMAIN order |-> Sum(BudgetPeriods[order[n]])]

\* The queries before those of the buckets. The count of active goals is left out.
Totals(q) ==
  CASE q.kind = "dashboard" -> <<Balance, Select("total", {"income", "expense"}, Span(q))>>
    [] q.kind = "monthly" ->
         <<Select("total", {"income", "expense"}, Span(q)),
           Select("savings", {"contribution"}, Span(q)),
           Select("savings", {"contribution"}, MonthRange(q.month - 1))>>
         \o BudgetSums(q.month) \o <<Select("categories", {"expense"}, Span(q))>>
    [] q.kind = "cash_flow" -> <<>>
    [] q.kind = "spending" -> <<Select("categories", {"expense"}, Span(q))>>

Plan(q) ==
  Totals(q) \o [n \in DOMAIN Buckets(q) |-> Select("bucket", BucketTypes(q), Buckets(q)[n])]

\* Mutant of Counts: a row at the end of a range counts in it.
CountsToTheEnd(row, s) ==
  /\ row # None /\ row.type \in s.types /\ ~ row.voided
  /\ IF s.what = "balance" THEN ~ row.archived ELSE s.from <= row.at /\ row.at <= s.to

\* The sums of ReportRepository: half-open ranges, no voided rows; the balance is of all
\* time and of accounts that are not archived.
Counts(row, s) ==
  /\ row # None /\ row.type \in s.types /\ ~ row.voided
  /\ IF s.what = "balance" THEN ~ row.archived ELSE s.from <= row.at /\ row.at < s.to

ReportsInit ==
  /\ table \in [Ids -> RowValues \cup {None}]
  /\ report \in Queries
  /\ pending = Plan(report)
  /\ answers = <<>>
  /\ touched = {}

\* The next query runs.
RunQuery ==
  /\ pending # <<>>
  /\ pending' = Tail(pending)
  /\ answers' = Append(answers, [query |-> Head(pending),
                                rows |-> {i \in Ids : Counts(table[i], Head(pending))}])
  /\ UNCHANGED <<table, report, touched>>

\* Another request inserts, moves or voids a row or archives its account.
Write(i, row) ==
  /\ answers # <<>> /\ pending # <<>>
  /\ i \notin touched /\ row # table[i]
  /\ table' = [table EXCEPT ![i] = row]
  /\ touched' = touched \cup {i}
  /\ UNCHANGED <<report, pending, answers>>

ReportsNext == RunQuery \/ \E i \in Ids, row \in RowValues : Write(i, row)

ReportsSpec == ReportsInit /\ [][ReportsNext]_reportVars

-----------------------------------------------------------------------------
CountedBy(i, what) ==
  {n \in DOMAIN answers : answers[n].query.what = what /\ i \in answers[n].rows}

\* The figures of a report agree: every income and expense of its range that is not
\* voided counts in the total and in exactly one bucket, every expense in the categories,
\* and nothing else does (report_buckets, dashboard_buckets and the half-open ranges of
\* ReportRepository); only a row that was written while the report was made may be in
\* one figure and not in another.
FiguresAgree ==
  pending = <<>> =>
    \A i \in Ids \ touched :
      LET row == table[i]
          Inside(types) == /\ row # None /\ row.type \in types /\ ~ row.voided
                           /\ Span(report).from <= row.at /\ row.at < Span(report).to
      IN /\ report.kind # "spending" =>
              Cardinality(CountedBy(i, "bucket")) = IF Inside(BucketTypes(report)) THEN 1 ELSE 0
         /\ report.kind \in {"dashboard", "monthly"} =>
              (CountedBy(i, "total") # {} <=> Inside({"income", "expense"}))
         /\ report.kind \in {"monthly", "spending"} =>
              (CountedBy(i, "categories") # {} <=> Inside({"expense"}))

\* The unit of the buckets of a report, and the number of the unit an instant is in.
BucketUnit(q) ==
  CASE q.kind = "cash_flow" -> q.interval
    [] q.kind = "dashboard" -> IF q.period = "year" THEN "month" ELSE "day"
    [] OTHER -> "day"
UnitAt(unit, t) ==
  CASE unit = "day" -> t \div Slots
    [] unit = "week" -> (t \div Slots) \div 7
    [] unit = "month" -> MonthOf(t \div Slots)

\* The buckets of a report are the days, the weeks from Sunday or the months of its range,
\* cut off at its ends; of a dashboard's exactly one is current, the one with the date
\* asked for (next_report_boundary, is_current).
BucketsFollowCalendar ==
  answers = <<>> =>
  LET buckets == Buckets(report)
      Unit(t) == UnitAt(BucketUnit(report), t)
  IN  /\ report.kind # "spending" =>
           /\ buckets[1].from = Span(report).from
           /\ buckets[Len(buckets)].to = Span(report).to
      /\ \A n \in DOMAIN buckets :
           /\ buckets[n].from < buckets[n].to
           /\ Unit(buckets[n].from) = Unit(buckets[n].to - 1)
           /\ n > 1 => /\ buckets[n].from = buckets[n - 1].to
                       /\ Unit(buckets[n].from) = Unit(buckets[n - 1].from) + 1
      /\ report.kind = "dashboard" =>
           {n \in DOMAIN buckets : Current(report.period, buckets[n], report.day)}
             = {n \in DOMAIN buckets : Unit(buckets[n].from) = Unit(StartOf(report.day))}

-----------------------------------------------------------------------------
\* The inductive invariant: the queries that were answered and those that were not are the
\* plan's, and an answer still has the right of every row that was not written.
Selects ==
  [what : {"balance", "total", "savings", "budget", "categories", "bucket"},
   types : SUBSET RowTypes, from : Int, to : Int]
ReportsTypeOK ==
  /\ table \in [Ids -> RowValues \cup {None}]
  /\ report \in Queries
  /\ pending \in Seq(Selects)
  /\ answers \in Seq([query : Selects, rows : SUBSET Ids])
Progress ==
  /\ Len(answers) + Len(pending) = Len(Plan(report))
  /\ \A n \in 1 .. Len(answers) : answers[n].query = Plan(report)[n]
  /\ \A n \in 1 .. Len(pending) : pending[n] = Plan(report)[Len(answers) + n]
AnswersStand ==
  \A n \in 1 .. Len(answers) : \A i \in Ids \ touched :
    i \in answers[n].rows <=> Counts(table[i], answers[n].query)
ReportsInv == ReportsTypeOK /\ Progress /\ AnswersStand
=============================================================================
