SPECIFICATION Spec
CONSTANTS
  a1 = a1
  a2 = a2
  a3 = a3
  cash = cash
  r1 = r1
  r2 = r2
  page = page
  usd = usd
  eur = eur
  Requests = {r1, r2, page}
  Lister = page
  Accounts = {a1, a2, a3, cash}
  Currencies = {usd, eur}
  Start <- MCStart
  None = None
  Ask <- MCAny
CHECK_DEADLOCK FALSE
INVARIANTS
  ErrorsAreRaces
  ArchivedIsUnused
PROPERTIES
  LoneLeavesOrder
  EventuallyRepaired
