CONSTANTS
  t1 = t1
  t2 = t2
  None = None
  Tasks <- TwoTasks
  Policies <- PairedAndAlone
  Delays <- DelaySet
  Horizon = 2
  MaxDay = 0
  EntryCap = 3
  MaxRetries = 2
  Base = 1
  MaxBackoff = 2
  Jitter = 1
  QuotaCooldown = 2
  RetryAfters <- ShortAndTooLong
SYMMETRY TasksAlike
SPECIFICATION CallSpec
INVARIANTS
  CallTypeOK
  BoundedSends
  RetriesAccounted
  FewInPause
PROPERTIES
  QuietHonoured
