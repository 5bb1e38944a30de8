CONSTANTS
  t1 = t1
  t2 = t2
  None = None
  Tasks <- TwoTasks
  Policies <- SingleOnly
  Delays <- DelaySet
  Horizon = 2
  MaxDay = 1
  EntryCap = 2
  MaxRetries = 1
  Base = 1
  MaxBackoff = 1
  Jitter = 0
  QuotaCooldown = 2
  RetryAfters <- ShortAndTooLong
SPECIFICATION CallSpec
INVARIANTS
  ArrivalsBounded
PROPERTIES
  EveryCallEnds
  UsesLimiter
