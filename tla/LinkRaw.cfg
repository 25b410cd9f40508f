SPECIFICATION Spec
CONSTANTS
  Ticks <- MCTicks
  TxFrames <- FramesRaw
  CountArraySize = 7
  SeqPeriods = {1}
  StrayCounts = {0}
  RxQueueSize = 2
  ExtLows = {1, 2}
  BootLows = {}
  ExtGaps = {5, 8, 15}
  ExtPulses = 1
  MaxCommands = 2
  MaxSequence = 3
  QueueLength = 2
  HostWaits = TRUE
  Preemptible <- SteadyStart
  WrapIns <- NoWrap
  McrAtomic = TRUE
  RxPrompt = TRUE
INVARIANTS LinkTypeOK IdleIsSilent BusReleased
PROPERTIES TxSpec LoopbackMeansOwn TimeoutOnlyForQuery
