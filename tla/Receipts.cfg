SPECIFICATION ReceiptsSpec
CONSTANTS
  u1 = u1
  u2 = u2
  d1 = d1
  d2 = d2
  Uploads = {u1, u2}
  Deletes = {d1, d2}
  None = None
CHECK_DEADLOCK FALSE
INVARIANTS
  ActiveIsStored
  OrphansExplained
