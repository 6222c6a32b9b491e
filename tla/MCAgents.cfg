SPECIFICATION MCSpec
PROPERTIES ScopesSafe ConversationSafe 
CONSTANTS
  DefaultTools = {"read", "write", "search"}
  WorkerTools = {"read", "write"}
  Agents <- MCAgentsOf
  RootDenied = {"search"}
  MaxSpawnDepth = 2
  Batches <- MCBatches
  MaxNodes = 4
  MaxCalls = 3
  Asks <- MCAsks
  HistorySet <- MCHistory
  PluginCalls = {"read"}
  Known = {"c1", "c2", "c3"}
  MaxLoaded = 2
  WarnStreak = 2 AbortStreak = 4 WarnCount = 2 AbortCount = 3 ToolLoopCap = 5 FailWarn = 2
  PreserveTail = 2 MaxCompactions = 1 MaxToolRounds = 4 MaxSuspends = 1
  Packages <- MCPackages Dirs <- MCDirs Sources <- MCSources Index <- MCIndex OwnSkills <- MCOwnSkills Handlers = {h1, h2, t1} Scanning = {h1, h2}
  MaxSkills = 1 StaleAfter = 1 ArchiveAfter = 2 MaxNow = 3 MaxOps = 3
CHECK_DEADLOCK FALSE
