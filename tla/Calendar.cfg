CONSTANTS
  Ids = {t1}
  RowValues <- MCRowValues
  Queries <- MCQueries
  BudgetPeriods <- MCPeriods
  None = None
  Schedules <- MCSchedules
  Moments <- MCMoments
SPECIFICATION MCSpec
CHECK_DEADLOCK FALSE
INVARIANTS
  FiguresAgree
  BucketsFollowCalendar
  NextRunIsNext
  RemindersMatchRuns
