CONSTANTS
  t1 = t1  b1 = b1  b2 = b2  g1 = g1
  Legs = {t1, b1, b2, g1}
  KindOf <- MCKindOf
  ParentOf <- MCParentOf
  Agents = {a1}
  Letters = {}
  MaxConcurrent = 1
  MaxApplies = 1
  MaxCrashes = 1
  Faults = TRUE
  Streams = {s1}
  Publishers = {p1, p2, p3}
  FeedBuffer = 2
  MaxRotations = 1
  MaxLog = 3
  PageLimit = 2
  CallTool <- MCCallTool
  Wrapped = {2}
  Modes = {"auto", "manual", "plan"}
  DisabledSets <- MCDisabledSets
  MaxReloads = 1
SPECIFICATION MCSpec
PROPERTIES DelegationSafe FeedSafe ToolCallsSafe ResultArrives RevokedEnds
CHECK_DEADLOCK FALSE
