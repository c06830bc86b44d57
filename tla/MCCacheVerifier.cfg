SPECIFICATION VerifierSpec
CONSTANTS
  a = a
  b = b
  Items = {a, b}
  MaxVersion = 4
  MaxRemovals = 1
PROPERTIES ReportedAfterTwoDiffs StuckCacheIsReported
CHECK_DEADLOCK FALSE
