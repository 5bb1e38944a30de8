CONSTANTS
  t1 = t1
  t2 = t2
  t3 = t3
  None = None
  Tasks <- ThreeTasks
  Policies <- OnePolicy
  Delays <- OneDelay
  Horizon = 3
  MaxDay = 1
  EntryCap = 3
SPECIFICATION Spec
PROPERTIES
  EveryCallerSettles
