CONSTANTS
  None = None
  MaxPage = 1000
  SamplePage = 5
  MaxItems = 5000
  Values <- EveryValue
  Depth <- EveryDepth
  Markup <- EveryElement
  Nesting <- EveryNesting
  ParsedAs <- Decoded
  Synonyms <- SameNames
  Numeral <- Numerals
  Moment <- Moments
  Truths <- Yes
  Redacted = "<redacted>"
  QuotaWords <- Quota
  Calls <- EveryCall
  Contents <- Everything
  MaxRetries = 1
  MaxPieces = 2
  Key = "key"
SPECIFICATION Spec
CHECK_DEADLOCK FALSE
INVARIANTS
  BodyWhole
  ItemsAgree
  NothingEchoed
PROPERTIES
  ImplementsEnvelope
