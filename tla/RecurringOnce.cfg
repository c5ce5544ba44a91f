SPECIFICATION Spec
CONSTANTS
  r1 = r1
  r2 = r2
  r3 = r3
  rent = rent
  cheap = cheap
  dear = dear
  utc = utc
  ahead = ahead
  early = early
  late = late
  Requests = {r1, r2, r3}
  Rules = {rent}
  Terms = {cheap, dear}
  Zones = {utc, ahead}
  Stamps = {early, late}
  Commands <- MCCommands
  Changes <- MCChanges
  NewRule <- MCNewRule
  Offset <- MCOffset
  NoRequest = NoRequest
  NoRow = NoRow
  NoEntry = NoEntry
  Never = Never
  MonthLength = 2
  LastInstant = 3
SYMMETRY MCSymmetry
CHECK_DEADLOCK FALSE
INVARIANTS
  OncePerOccurrence
  MarkerHasEntry
  ArchivedNeverReminded
PROPERTIES
  EntryFollowsRule
