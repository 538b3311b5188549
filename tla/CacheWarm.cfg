SPECIFICATION Spec
CONSTANTS
  Files = {f1, f2}
  Orphans = {o1}
  Workers = {w1, w2}
  UnreliableReaders = {w1}
  FileQueueCap = 1
  WriteQueueCap = 1
  BatchSize = 2
  Faults <- RunFaults
  MaxRuns = 2
  NoFile = NoFile
  f1 = f1
  f2 = f2
  o1 = o1
  w1 = w1
  w2 = w2
CHECK_DEADLOCK FALSE
INVARIANTS
  TypeOK
  FilesAccounted
  NoPushRefused
  SuccessMeansProcessed
  RequestsSurvive
  WarmedEntries
  OnlyWorkspaceCached
PROPERTIES
  ValidEntriesKept
  WarmReturns
