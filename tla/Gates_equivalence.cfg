SPECIFICATION Spec
CONSTANTS
  NoClause = NoClause
  Equivalent <- ArePredicatesEquivalent
  OccursIn <- OccursWithin
  ConjunctsOf <- PlainConjuncts
  LosingConjunct <- WithoutConjunct
  ShiftingBoundary <- Shifted
  Unparseable = Unparseable
  Bases <- MCBases
  Contracts <- MCContracts
  Edits <- MCEdits
  Similar <- MCSimilar
  MarksOf <- MarksWithin
  Lower <- MCLower
  EndsIn <- MCEndsIn
  BeginsWith <- MCBeginsWith
  MarksIn <- MCMarksIn
  Policies <- MCPolicies
  Estimates = {0, 5, 6, 21}
  SimulatedBytes = 10
  SuiteSizes = {0, 1, 3}
CHECK_DEADLOCK FALSE
INVARIANTS
  EquivalentMeansSameRows
