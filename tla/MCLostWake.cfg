CONSTANTS
  t1 = t1  t2 = t2
  Nil = Nil
  Sweeper = Sweeper
  Tasks = {t1}
  SessionOf <- MCOwnSessions
  Workers = {w1}
  Humans = {h1}
  Calls = {c1}
  MaxResponses = 1
  MaxCrashes = 0
  IdsAreFresh = TRUE
  Faults = FALSE
  Interrupts = FALSE
  Refusals = FALSE
  Distrust = FALSE
  HardLoops = FALSE
  ShortLeases = FALSE
SPECIFICATION FairSpec
PROPERTY DecidedTaskWakes
