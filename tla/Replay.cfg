SPECIFICATION FairSpec
CONSTANTS
  revenue = revenue  ghost = ghost
  loose = loose  tight = tight
  filtered = filtered  bare = bare
  v1 = v1  v2 = v2  none = none
  Metrics = {revenue}
  Unregistered = ghost
  Contracts = {loose, tight}
  Malformed = {}
  Sqls = {filtered, bare}
  Parses = {filtered, bare}
  Violations <- MCViolations
  Versions = {v1, v2}
  NotText = {}
  Opaque = {}
  Hash <- MCHash
  Dirs <- MCDirs
  StrictMode = TRUE
  None = none
  Fixtures = TRUE
  Replay <- MCReplay
  SendsSql = TRUE
  MaxRequests = 2
  MaxRegisters = 1
  MaxBoots = 1
  MaxLines = 2
  MaxCrashes = 1
  MaxDeploys = 1
INVARIANTS PTypeOK CycleCoversLog SurvivorsWereAllowed
PROPERTY ReplayableLinesAreReported
CHECK_DEADLOCK FALSE
