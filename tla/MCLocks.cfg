CONSTANTS
  Workers = {w1, w2, w3}
  Appliers = {a1, a2}
  r1 = r1  r2 = r2  r3 = r3  c1 = c1
  shared = shared  own = own
  Nil = Nil
  Entries = {e1, e2, e3}
  Runs <- MCRuns
  Sessions <- MCSessions
  SessionOf <- MCSessionOf
  NestedIn <- MCNestedIn
  ServeTasks = {t1}
  Handlers = {h1}
  MaxAssemblies = 2
SPECIFICATION MCSpec
PROPERTIES GateSafe LockSafe ServeSafe GateReopens ImplementsBoundary WaitersServed ComesDown
