CONSTANTS
  t1 = t1
  t2 = t2
  t3 = t3
  None = None
  Tasks <- ThreeTasks
  Policies <- TwoPolicies
  Delays <- ShortAndLong
  Horizon = 4
  MaxDay = 1
  EntryCap = 3
SYMMETRY TasksAlike
SPECIFICATION Spec
INVARIANTS
  TypeOK
  PermitsConserved
  QueueDiscipline
  DailyBudgetHeld
  LimiterInvariant
PROPERTIES
  NoStartInCooldown
  NoFalseRefusal
  ImplementsContract
