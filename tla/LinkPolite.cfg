SPECIFICATION FairSpec
CONSTANTS
  Ticks <- MCTicks
  TxFrames <- FramesPolite
  CountArraySize = 7
  SeqPeriods = {1}
  StrayCounts = {0}
  RxQueueSize = 1
  ExtLows = {1}
  BootLows = {}
  ExtGaps = {5, 6, 8, 15}
  ExtPulses = 2
  MaxCommands = 2
  MaxSequence = 0
  QueueLength = 2
  HostWaits = TRUE
  Preemptible <- SteadyGaps
  WrapIns <- NoWrap
  McrAtomic = TRUE
  RxPrompt = TRUE
INVARIANTS PendingWatched RestOwesNothing 
PROPERTIES AdapterSpec TxSpec SettlingRespected LoopbackMeansOwn AllSent QueryAnswered
