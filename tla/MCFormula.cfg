SPECIFICATION CalculationSpec
CONSTANTS
  Token = {"a", "b", "2", "avg", "min", "-", "*", "/", "(", ")", ","}
  Literal <- MCLiteral
  Field <- MCField
  Reading <- MCReading
  Precision = 1
  DivisionPrecision = 2
  MaxLength = 7
CONSTRAINT Explored
CHECK_DEADLOCK FALSE
INVARIANTS
  ReadsWellFormed
  ParsesGrammar
  CalculatedIfDefined
  RoundedOnce
  RequiredSuffice
