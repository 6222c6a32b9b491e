CONSTANTS
  t1 = t1  t2 = t2
  Nil = Nil
  Sweeper = Sweeper
  Tasks = {t1, t2}
  SessionOf <- MCOneSession
  Workers = {w1}
  Humans = {}
  Calls = {c1}
  MaxResponses = 1
  MaxCrashes = 0
  IdsAreFresh = TRUE
  Faults = FALSE
  Interrupts = FALSE
  Refusals = FALSE
  Distrust = FALSE
  HardLoops = FALSE
  ShortLeases = TRUE
SPECIFICATION FairSpec
INVARIANT NobodyForgotten
PROPERTIES SlotsServe TicketsAnswered
