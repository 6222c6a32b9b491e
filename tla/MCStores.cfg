CONSTANTS
  d1 = d1  d2 = d2  k1 = k1  k2 = k2  m1 = m1  o1 = o1  o2 = o2
  Procs = {p1, p2}
  Keys = {k1, k2}
  Docs = {d1, d2}
  Serial <- MCSerial
  RevokedIn <- MCRevokedIn
  KeysIn <- MCKeysIn
  LocalKeys = {k1}
  Missing = Missing  Damaged = Damaged  Unknown = Unknown
  Free = Free  Left = Left
  Users = {p1, p2, u3}
  Open = Open  Abandoned = Abandoned
  Writers = {p1, p2}
  Claimants = {o1, o2}
  NoOwner = NoOwner  Unlocked = Unlocked  Lost = Lost
  LedgerEvents <- MCLedgerEvents
  OldLogs <- MCOldLogs
  MaxLines = 3
  MaxMishaps = 1
  Sessions = {s1}
  Clients = {c1}
  Tui = Tui
  Modes = {m1, m2}
  AutoMode = m1
  Dirs = {e1}
  Root = Root  NoRow = NoRow
  MaxTurns = 1
SPECIFICATION MCSpec
SYMMETRY MCSymmetry
PROPERTIES TrustSafe CacheSafe LedgerSafe RowsSafe
CHECK_DEADLOCK FALSE
