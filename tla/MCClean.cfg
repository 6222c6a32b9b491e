CONSTANTS
  t1 = t1  t2 = t2
  Nil = Nil
  Sweeper = Sweeper
  Tasks = {t1}
  SessionOf <- MCOwnSessions
  Workers = {w1, w2}
  Humans = {h1}
  Calls = {c1, c2}
  MaxResponses = 2
  MaxCrashes = 1
  IdsAreFresh = TRUE
  Faults = FALSE
  Interrupts = FALSE
  Refusals = FALSE
  Distrust = FALSE
  HardLoops = FALSE
  ShortLeases = FALSE
SPECIFICATION Spec
INVARIANT RunsSafe
PROPERTIES DoneIsDone ImplementsPromise
SYMMETRY MCCallsAlike
