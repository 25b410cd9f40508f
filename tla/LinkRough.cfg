SPECIFICATION Spec
CONSTANTS
  Ticks <- MCTicks
  TxFrames <- FramesRough
  CountArraySize = 7
  SeqPeriods = {1}
  StrayCounts = {0}
  RxQueueSize = 2
  ExtLows = {1, 5, 15}
  BootLows = {15}
  ExtGaps = {1, 8, 15}
  ExtPulses = 2
  MaxCommands = 2
  MaxSequence = 0
  QueueLength = 1
  HostWaits = FALSE
  Preemptible <- SteadyGaps
  WrapIns <- NoWrap
  McrAtomic = TRUE
  RxPrompt = FALSE
INVARIANTS LinkTypeOK InFrameWatched CleanFrame
