SPECIFICATION Spec
CONSTANTS
  Sessions = {s1}
  Warmer = Warmer
  Texts = {a, b}
  Empty = Empty
  Missing = Missing
  NoEntry = NoEntry
  Anomalies = {"lateUpdate"}
  Faults = {}
  MaxEdits = 2
  s1 = s1
  s2 = s2
  a = a
  b = b
INVARIANT TrustedRowFresh
CHECK_DEADLOCK FALSE
