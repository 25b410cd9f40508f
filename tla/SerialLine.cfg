SPECIFICATION FairSpec
CONSTANTS
  Lines <- LinesGood
  Size = 6
  MaxLines = 3
  HostPaces = TRUE
  HostBreaks = TRUE

INVARIANTS LineTypeOK AsAsked
PROPERTIES ReadStable AllHandled
CHECK_DEADLOCK FALSE
