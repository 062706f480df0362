SPECIFICATION Spec
CONSTANTS
  not_null = not_null
  population = population
  error = error
  Assertions = {not_null, population}
  Error = error
  Results <- MCResults
  Corpora <- MCCorpora
INVARIANTS
  TypeOK
  SuitesShareDenominator
  StrongerSuiteNeverLoses
CHECK_DEADLOCK FALSE
