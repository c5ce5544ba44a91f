SPECIFICATION Spec
CONSTANTS
  Events = {e1}
  Workers = {w1, w2}
  Nobody = Nobody
  NoEvent = NoEvent
  MaxAttempts = 2
  LockTicks = 1
  MaxBackoff = 1
  BatchSize <- MCOneByOne
  MaxCrashes = 1
INVARIANT ExpiredLeaseIsReclaimable
