CONSTANTS
  None = None
  MaxPage = 1000
  SamplePage = 5
  MaxItems = 5000
  Values <- CityValues
  Depth <- CityDepth
  Markup <- CityMarkup
  Nesting <- CityLevels
  ParsedAs <- Decoded
  Synonyms <- SameNames
  Numeral <- Numerals
  Moment <- Moments
  Truths <- Yes
  Redacted = "<redacted>"
  QuotaWords <- Quota
  Calls <- CityCall
  Contents <- CityRooted
  MaxRetries = 1
  MaxPieces = 2
  Key = "key"
SPECIFICATION Spec
CHECK_DEADLOCK FALSE
INVARIANTS
  FormatsAgree
