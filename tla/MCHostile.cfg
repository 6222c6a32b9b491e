CONSTANTS
  t1 = t1  t2 = t2
  Nil = Nil
  Sweeper = Sweeper
  Tasks = {t1}
  SessionOf <- MCOwnSessions
  Workers = {w1, w2}
  Humans = {h1}
  Calls = {c1}
  MaxResponses = 1
  MaxCrashes = 0
  IdsAreFresh = TRUE
  Faults = TRUE
  Interrupts = TRUE
  Refusals = TRUE
  Distrust = TRUE
  HardLoops = TRUE
  ShortLeases = TRUE
SPECIFICATION Spec
INVARIANT DispatchSafe
