SPECIFICATION CommandSpec
CONSTANTS
  Files = {1, 2, 3}
  Lists <- SomeLists
  Position <- Positions
  Cores = 2
  QueueCapacity = 2
  Fates <- AllFates
  Faults = {"scan"}
  SymbolLists <- SomeSymbols
  SiteSets <- OneCall
  Questions <- SomeQuestions
  Programs <- SomeCalls
  Depth = 2
  Identities = {i1, i2}
  Properties = {p1, p2}
  Snapshots <- SomeSnapshots
  i1 = i1
  i2 = i2
  p1 = p1
  p2 = p2
  e1 = e1
  e2 = e2
  c1 = c1
  c2 = c2
  own = own
  esc = esc
  lit = lit
  left = left
  Exes = {e1, e2}
  UserCommands = {c1, c2, own, esc, lit, left}
  JsonFiles <- SomeJson
  TomlFiles <- SomeToml
  Recognised = {e1, e2, own}
  Escaped <- SomeEscapes
  Garbled = left
  Literal = {lit}
  Anomalies = {"unreadable", "malformed", "flush"}
  MaxRuns = 2
  NoFile = NoFile
INVARIANTS
  AnalysisTypeOK IndexConsistent ResultIsReference
  NoBodyLost  
  NearestScopeDecides ChangesArePatch
  ReportsTruthful
PROPERTIES SettledOnce AnalysisReturns HooksKept
CHECK_DEADLOCK FALSE
