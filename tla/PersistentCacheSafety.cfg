SPECIFICATION Spec
CONSTANTS
  Sessions = {s1, s2}
  Warmer = Warmer
  Texts = {a, b}
  Empty = Empty
  Missing = Missing
  NoEntry = NoEntry
  Anomalies = {}
  Faults = {"busy", "crash"}
  MaxEdits = 2
  s1 = s1
  s2 = s2
  a = a
  b = b
SYMMETRY SessionSymmetry
INVARIANTS TypeOK TrustedRowFresh AnswerWasCurrent
CHECK_DEADLOCK FALSE
