CONSTANTS
  v1 = v1  v2 = v2  a1 = a1  a2 = a2
  Plugins = {p, q}
  Versions = {v1, v2}
  Capabilities = {a1, a2}
  Declares <- MCDeclares
  Endorsed = {v1}
  Commands = {c1}
  Consoles = {r1, r2}
  Reloads = {l1}
  requireSignature = TRUE
  NoEntry = NoEntry  NoBytes = NoBytes  Down = Down  NoOne = NoOne
  MaxCalls = 3  MaxEdits = 1  MaxStarts = 1
  Agents = {g1, g2}
  Chats = {h1}
  MaxSeq = 2
  MaxProcesses = 1
  MaxContexts = 1
  MaxLogins = 1
  MaxToolCalls = 2
  MaxTakeovers = 1
  MaxRestarts = 1
  NoRow = NoRow  NoChat = NoChat
  Viewers = {w1, w2}
  RingCap = 1  ChanCap = 1
  MaxEvents = 2
  MaxPages = 2
  Buttons = {b1}
  Keys = {k1, ctrl}
  Modifiers = {ctrl}
  MaxInputs = 3
  MaxBatches = 1
SPECIFICATION MCSpec
PROPERTIES ConsentSafe BrowserSafe  
SYMMETRY MCSymmetry
CHECK_DEADLOCK FALSE
