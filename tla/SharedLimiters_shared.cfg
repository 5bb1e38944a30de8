CONSTANTS
  a = a
  b = b
  r1 = r1
  r2 = r2
  r3 = r3
  None = None
  Clients <- TwoClients
  Requests <- TwoRequests
  Services <- SubwayPair
  Environment <- OneKeySet
  Openings <- FromEnvironment
  Assignable <- Mixed
  Urls <- Spellings
SPECIFICATION Spec
SYMMETRY Interchangeable
INVARIANTS
  SharedTypeOK
  OneLimiterPerSender
  ConcurrencyShared
  PolicyFitsLimiter
  CanonicalIdentifies
PROPERTIES
  PauseHonoured
