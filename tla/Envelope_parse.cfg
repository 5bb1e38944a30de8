CONSTANTS
  None = None
  Documents <- EveryDocument
  Calls <- AllCalls
  MaxPage = 1000
  SamplePage = 5
  MaxItems = 5000
SPECIFICATION Spec
CHECK_DEADLOCK FALSE
INVARIANTS
  CodeDecides
  ErrorNeverData
  ProviderLimitsKept
