SPECIFICATION FairSpec
CONSTANTS
  Events = {e1, e2}
  Workers = {w1, w2}
  Nobody = Nobody
  NoEvent = NoEvent
  MaxAttempts = 3
  LockTicks = 1
  MaxBackoff = 1
  BatchSize <- MCBatchSize
  MaxCrashes = 1
INVARIANTS
  HandlerExclusive
PROPERTIES
  ImplementsPromise
  EventuallySettled
