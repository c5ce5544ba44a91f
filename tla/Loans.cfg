SPECIFICATION Spec
CONSTANTS
  r1 = r1
  r2 = r2
  r3 = r3
  r4 = r4
  old = old
  a = a
  b = b
  Requests = {r1, r2, r3, r4}
  Legacy = {old}
  Ask <- MCAsk
  Accounts = {a, b}
  NoAccount = NoAccount
  MaxAmount = 3
  Keep = Keep
  NoRequest = NoRequest
  NoRow = NoRow
SYMMETRY MCSymmetry
CHECK_DEADLOCK FALSE
INVARIANTS
  SettledWithinPrincipal
  StatusFollowsSettlements
PROPERTIES
  AdjustmentsAddUp
