SPECIFICATION Spec
CONSTANTS
  Ticks <- MCTicks
  TxFrames <- QueryAndSlow
  CountArraySize = 7
  SeqPeriods = {1}
  StrayCounts = {0}
  RxQueueSize = 2
  ExtLows = {1}
  BootLows = {}
  ExtGaps = {5, 8, 15}
  ExtPulses = 0
  MaxCommands = 2
  MaxSequence = 0
  QueueLength = 2
  HostWaits = TRUE
  Preemptible <- NoPlace
  WrapIns <- NoWrap
  McrAtomic = TRUE
  RxPrompt = TRUE
PROPERTIES SettlingRespected
