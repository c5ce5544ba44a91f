SPECIFICATION Spec
CONSTANTS
  r1 = r1
  r2 = r2
  r3 = r3
  r4 = r4
  r5 = r5
  c1 = c1
  Requests = {r1, r2, r3, r4, r5}
  Codes = {c1}
  Ask <- MCReturns
  NoRequest = NoRequest
  NoRow = NoRow
CHECK_DEADLOCK FALSE
INVARIANTS
  OneActivePerFamily
  RedeemedOnce
PROPERTIES
  ReuseRevokes
  EveryRequestAnswered
