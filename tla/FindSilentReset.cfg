SPECIFICATION Spec
CONSTANTS
  Ticks <- MCTicks
  TxFrames <- FrameOnce
  CountArraySize = 3
  SeqPeriods = {1, 2}
  StrayCounts = {0}
  RxQueueSize = 2
  ExtLows = {1}
  BootLows = {}
  ExtGaps = {5, 8, 15}
  ExtPulses = 0
  MaxCommands = 1
  MaxSequence = 3
  QueueLength = 2
  HostWaits = FALSE
  Preemptible <- AnyPlace
  WrapIns <- NoWrap
  McrAtomic = TRUE
  RxPrompt = FALSE
INVARIANTS IdleIsSilent
