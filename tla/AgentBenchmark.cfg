SPECIFICATION FairSpec
CONSTANTS
  good = good  flawed = flawed
  today = today  tomorrow = tomorrow
  none = none
  Scenarios <- MCScenarios
  Sqls = {good, flawed}
  FlawedSql = flawed
  GoldenSql <- MCGoldenSql
  Contracts = {today, tomorrow}
  Grade <- MCGrade
  Configs <- MCConfigs
  Rollouts = 1
  None = none
  MaxRuns = 2
  MaxReplays = 1
  MaxChanges = 1
INVARIANTS
  TypeOK
  ConditionsArePaired
  ArtifactsPrecedeLines
  ReplayAdmitsStaleGrades
PROPERTY
  CommandEnds
CHECK_DEADLOCK FALSE
