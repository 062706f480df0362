SPECIFICATION Spec
CONSTANTS
  revenue = revenue  churn = churn
  finance = finance  growth = growth
  p1 = p1  p2 = p2
  out1 = out1  out2 = out2
  none = none
  Metrics = {revenue, churn}
  Families = {finance, growth}
  AssignSplit <- MCAssignSplit
  Paths = {p1, p2}
  Contents <- MCContents
  Outputs = {out1, out2}
  None = none
  MaxExports = 2
  MaxEdits = 1
INVARIANTS
  TypeOK
  FamiliesStaySeparate
  EvidenceIsBacked
  NamedSplitsAreClean
  FilesAreWhole
CHECK_DEADLOCK FALSE
