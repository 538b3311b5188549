SPECIFICATION Spec
CONSTANTS
  Files = {f1, f2}
  Orphans = {o1}
  Workers = {w1}
  UnreliableReaders = {}
  FileQueueCap = 1
  WriteQueueCap = 1
  BatchSize = 2
  Faults = {"writer"}
  MaxRuns = 1
  NoFile = NoFile
  f1 = f1
  f2 = f2
  o1 = o1
  w1 = w1
CHECK_DEADLOCK FALSE
PROPERTY WarmReturns
