SPECIFICATION Spec
CONSTANTS
  Lo4 <- Half4a
  Hi4 <- Half4b
  Lo6 <- Half6a
  Hi6 <- Half6b
  Literals = {"e1", "e2", "e3"}
  Hostnames = {"h1"}
  MaxFanout = 4
  Files <- AllFiles
  Driven <- Lives
  Good <- GoodLives
  ToolSets <- Tools
  Watched = {"rtt"}
  Resolutions <- Answers
  Nics <- Interfaces
  MaxFaults = 2
  MaxSignals = 2
  MaxEdits = 1
CHECK_DEADLOCK FALSE
 
 
INVARIANT GaugeExact
PROPERTY ReloadSpeaks
PROPERTY ComesUp
PROPERTY TermObeyed
