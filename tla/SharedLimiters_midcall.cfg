CONSTANTS
  a = a
  b = b
  r1 = r1
  r2 = r2
  r3 = r3
  None = None
  Clients <- OneClient
  Requests <- TwoRequests
  Services <- SubwayPair
  Environment <- OneKeySet
  Openings <- FromEnvironment
  Assignable <- Rotated
  Urls <- NoUrls
SPECIFICATION Spec
PROPERTIES
  PauseHonouredMidCall
