SPECIFICATION Spec
CONSTANTS
  Sessions = {s1, s2}
  Warmer = Warmer
  Texts = {a, Empty}
  Empty = Empty
  Missing = Missing
  NoEntry = NoEntry
  Anomalies = {}
  Faults = {}
  MaxEdits = 1
  s1 = s1
  s2 = s2
  a = a
  b = b
PROPERTY CacheSettles
CHECK_DEADLOCK FALSE
