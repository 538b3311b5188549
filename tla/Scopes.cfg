SPECIFICATION Spec
CONSTANTS
  Names <- MCNames
  Inputs <- MCInputs
  Foreign <- MCForeign
  MaxNodes = 4
  MaxSymbols = 3
  a = a
  b = b
INVARIANTS TypeOK ParentsFirst InnermostScope DeclaredWhereVisible OnlyEnclosingVisible VisibilityAgreesWithLookup AnswerFollowsShadowing
PROPERTY Terminates
CHECK_DEADLOCK FALSE
