SPECIFICATION Spec
CONSTANTS
  MaxBits = 8
  Sources <- SomeSources
  Series <- SomeSeries
  Jitters <- SomeJitters
  Gaps <- SomeGaps
  MaxSent = 4
  CountModulus <- Half32
INVARIANTS BitsTypeOK FitsTransmitter DecodesAsSent
PROPERTIES MeasuredAsAsked TwiceFlag
CHECK_DEADLOCK FALSE
