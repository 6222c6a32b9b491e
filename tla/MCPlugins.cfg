CONSTANTS
  Calls = {q1, q2, q3}
  Size = 2
  MaxFaults = 2
  DepthCap = 2
  MaxBroken = 1
  Empty = Empty
  NoSlot = NoSlot
  a = a  b = b  c = c  a1 = a1  a2 = a2  b1 = b1  c1 = c1  q1 = q1  q2 = q2  q3 = q3
  Order <- MCOrder
  Packages = {a1, a2, b1, c1}
  NameOf <- MCNameOf
  ToolsOf <- MCToolsOf
  ServicesOf <- MCServicesOf
  Requires <- MCRequires
  KeyOf <- MCKeyOf
  HostTools = {"host"}
  Tasks = {t1}
  Absent = Absent
  Host = Host
SPECIFICATION MCSpec
PROPERTIES PoolSafe LoaderSafe CallsEnd
CHECK_DEADLOCK FALSE
