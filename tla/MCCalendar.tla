----------------------------- MODULE MCCalendar -----------------------------
(***************************************************************************)
(* Instance of the reports and of the schedules: what a run explores is    *)
(* one report or one rule.                                                 *)
(***************************************************************************)
EXTENDS Reports, Schedule

Day(month, day) == FirstDay(month) + day - 1
At(month, day, slot) == Day(month, day) * Slots + slot

\* 28 February and 1 March 2024, the turn of the year 2023, a Sunday and a Saturday.
DatesOfInterest ==
  {Day(11, 31), Day(12, 1), Day(13, 29), Day(14, 1), Day(14, 3), Day(14, 9)}
MCQueries ==
  [kind : {"dashboard"}, period : {"week", "month", "year"}, type : {"income", "expense"},
   day : DatesOfInterest]
  \cup [kind : {"monthly"}, month : {12, 13}]
  \cup [kind : {"cash_flow"}, from : {At(11, 30, 5)},
        to : {At(12, 1, 0), At(12, 9, 1), At(14, 2, 3)}, interval : {"day", "week", "month"}]
  \cup [kind : {"spending"}, from : {At(11, 30, 5)}, to : {At(12, 1, 0)}]
Row(type, at) == [type |-> type, at |-> at, voided |-> FALSE, archived |-> FALSE]
MCRowValues ==
  {Row(type, at) : type \in {"income", "expense"},
                   at \in {At(11, 30, 5), At(12, 1, 0), At(12, 31, 47), At(14, 3, 0)}}
    \cup {Row(type, At(12, 1, 0)) :
            type \in {"transfer", "loan_balance_adjustment", "contribution"}}
    \cup {[Row("expense", At(12, 1, 0)) EXCEPT !.voided = TRUE],
          [Row("expense", At(12, 1, 0)) EXCEPT !.archived = TRUE]}
MCPeriods == <<[from |-> Day(12, 1), to |-> Day(13, 1)],
               [from |-> Day(13, 15), to |-> Day(14, 15)]>>

\* New York, whose clock is put forward at 2 in March and back at 2 in November, and Kolkata.
NewYork ==
  [standard |-> -10, summer |-> -8,
   summers |-> {[from |-> At(2, 12, 14), to |-> At(10, 5, 12)],
                [from |-> At(14, 10, 14), to |-> At(22, 3, 12)],
                [from |-> At(26, 9, 14), to |-> At(34, 2, 12)]}]
Kolkata == [standard |-> 11, summer |-> 11, summers |-> {}]
Rule(frequency, interval, start, zone) ==
  [frequency |-> frequency, interval |-> interval, start |-> start, zone |-> zone]
MCSchedules ==
  {Rule("daily", 1, At(1, 20, 15), NewYork),     \* at 2:30, which 12 March leaves out
   Rule("daily", 3, At(9, 20, 11), NewYork),     \* at 1:30, which 5 November shows twice
   Rule("daily", 1, At(9, 29, 11), NewYork),
   Rule("weekly", 2, At(1, 25, 40), NewYork),
   Rule("monthly", 1, At(0, 31, 28), NewYork),   \* the 31st
   Rule("monthly", 2, At(10, 30, 10), NewYork),
   Rule("monthly", 1, At(0, 12, 15), NewYork),   \* the 12th at 2:30
   Rule("monthly", 1, At(10, 5, 13), NewYork),   \* at the second 1:30 of 5 November
   Rule("monthly", 3, At(0, 31, 38), Kolkata),   \* the 1st of February there
   Rule("yearly", 1, At(13, 29, 20), Kolkata)}   \* 29 February
MCMoments ==
  {At(2, 12, s) : s \in 8 .. 22} \cup {At(10, 5, s) : s \in 6 .. 20}
    \cup {At(m, d, s) : m \in {1, 2, 3, 4, 10, 12, 13, 14, 25, 26}, d \in {1, 28},
                        s \in {0, 9, 10, 11, 28, 29, 38}}
    \cup {At(m, 31, s) : m \in {0, 2, 11, 12}, s \in {0, 28, 29, 37, 38, 47}}
    \cup {At(13, 29, 20), At(13, 29, 21)}

IdleReport ==
  /\ table = [i \in Ids |-> None] /\ report = CHOOSE q \in Queries : q.kind = "spending"
  /\ pending = <<>> /\ answers = <<>> /\ touched = {}
IdleSchedule == schedule = CHOOSE r \in Schedules : TRUE
MCInit ==
  \/ ReportsInit /\ IdleSchedule /\ asked = schedule.start /\ nextRun = schedule.start
     /\ wasDue = FALSE
  \/ InitSchedule /\ IdleReport
MCNext ==
  \/ ReportsNext /\ UNCHANGED scheduleVars
  \/ IdleReport /\ NextSchedule /\ UNCHANGED reportVars
MCSpec == MCInit /\ [][MCNext]_<<reportVars, scheduleVars>>
=============================================================================
