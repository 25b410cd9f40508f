SPECIFICATION TxSpec
CONSTANTS
  Ticks <- MCTicks
  TxFrames <- MCTxFrames
  CountArraySize = 5
  SeqPeriods = {1, 2}
  StrayCounts = {0, 2}
INVARIANTS TxTypeOK BusReleased IdleIsSilent PhasePolarity PlaysWhatWasLoaded
