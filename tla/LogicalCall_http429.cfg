CONSTANTS
  t1 = t1
  t2 = t2
  None = None
  Tasks <- TwoTasks
  Policies <- AloneOnly
  Delays <- DelaySet
  Horizon = 2
  MaxDay = 0
  EntryCap = 2
  MaxRetries = 1
  Base = 1
  MaxBackoff = 1
  Jitter = 0
  QuotaCooldown = 2
  RetryAfters <- ShortAndTooLong
SPECIFICATION CallSpec
PROPERTIES
  Http429StartsCooldown
