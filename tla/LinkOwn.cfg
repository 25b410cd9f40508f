SPECIFICATION FairSpec
CONSTANTS
  Ticks <- MCTicks
  TxFrames <- FramesOwn
  CountArraySize = 7
  SeqPeriods = {1}
  StrayCounts = {0}
  RxQueueSize = 2
  ExtLows = {1}
  BootLows = {}
  ExtGaps = {5, 8, 15}
  ExtPulses = 0
  MaxCommands = 3
  MaxSequence = 0
  QueueLength = 2
  HostWaits = TRUE
  Preemptible <- SteadyWait
  WrapIns <- AllWraps
  McrAtomic = FALSE
  RxPrompt = TRUE
INVARIANTS RestOwesNothing EchoedOnce
PROPERTIES AdapterSpec AllSent
