CONSTANTS
  Tasks = {a, b}
  Ids = {"c1", "c1#2", "c1#3"}
  Answers <- MCAnswers
  MaxRounds = 1
  MaxRuns = 2
  MaxFaults = 1
  MaxCrashes = 2
  MaxLoads = 2
  i1 = i1
  ImChats = {i1, i2}
  MaxMessages = 2
  MaxTaskSeq = 2
  MaxSessions = 2
  Retries = 1
  Chunks = 2
  InboundCap = 1
  MaxStops = 2
  NoTask = NoTask  Untracked = Untracked
  Nodes <- MCNodes
  Width = 2
  Kind <- MCKind
  Holds <- MCHolds
  CollectAll = {}
  Quorum <- MCQuorum
  Rounds <- MCRounds
  Timed <- MCTimed
  PerRound <- MCPerRound
  Awaits <- MCAwaits
  Requests = {1, 2}
  MaxEvents = 1
  MaxFailures = 1
  MaxEnds = 1
SPECIFICATION MCSpec
SYMMETRY MCSymmetry
INVARIANT NeverStuck
PROPERTIES RecorderSafe GatewaySafe WorkflowSafe
CHECK_DEADLOCK FALSE
