CONSTANTS
  a = a
  b = b
  r1 = r1
  r2 = r2
  r3 = r3
  None = None
  Clients <- OneClient
  Requests <- OneRequest
  Services <- SubwayPair
  Environment <- OneKeySet
  Openings <- WithKey
  Assignable <- Rotated
  Urls <- NoUrls
SPECIFICATION Spec
PROPERTIES
  ExplicitKeyUsed
