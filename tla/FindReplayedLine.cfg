SPECIFICATION Spec
CONSTANTS
  Lines <- LinesHelp
  Size = 6
  MaxLines = 4
  HostPaces = TRUE
  HostBreaks = FALSE
INVARIANTS AsAsked
CHECK_DEADLOCK FALSE
