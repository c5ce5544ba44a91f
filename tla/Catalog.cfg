SPECIFICATION Spec
CONSTANTS
  r1 = r1
  r2 = r2
  r3 = r3
  Requests = {r1, r2, r3}
  Names = {"salary", "refund", "food", "other"}
  Defaults <- MCDefaults
  Required <- MCRequired
  Dates = {0, 1, 2, 3, 4}
  MonthStarts = {0, 2, 4}
  Start <- MCStart
  Ask <- MCAsk
  None = None
CHECK_DEADLOCK FALSE
INVARIANTS
  BudgetsSound
  ListsFailInRacesOnly
PROPERTIES
  ListLeavesDefaults
  EveryRequestAnswered
