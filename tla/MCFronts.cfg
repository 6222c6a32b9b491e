CONSTANTS
  MaxRuns = 2
  MaxEvents = 1
  MaxCalls = 2
  Buffer = 1
  i1 = i1
  ImChats = {i1, i2}
  MaxMessages = 2
  MaxTaskSeq = 2
  MaxSessions = 2
  Retries = 2
  Chunks = 2
  InboundCap = 1
  MaxStops = 1
  NoTask = NoTask  Untracked = Untracked
SPECIFICATION MCSpec
PROPERTIES TerminalSafe QuestionsLive 
CHECK_DEADLOCK FALSE
