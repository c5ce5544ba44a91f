SPECIFICATION Spec
CONSTANTS
  r1 = r1
  r2 = r2
  r3 = r3
  usd = usd
  eur = eur
  g = g
  k = k
  Requests = {r1, r2, r3}
  Accounts = {usd, eur}
  Goals = {g}
  Keys = {k}
  NoKey = NoKey
  NoRequest = NoRequest
  NoRow = NoRow
  Keep = Keep
  MaxAmount = 2
  Currency <- MCCurrency
  GoalCurrency <- MCGoalCurrency
  Opening <- MCOpening
  Targets <- MCTargets
  Commands <- MCCommands
CHECK_DEADLOCK FALSE
INVARIANTS
  KeyOnce
  ReplaySame
  MoneyConserved
  CompletedWasEarned
PROPERTIES
  VoidSticks
SYMMETRY MCSymmetry
