SPECIFICATION PSpec
CONSTANTS
  revenue = revenue  ghost = ghost
  loose = loose  tight = tight
  filtered = filtered  bare = bare
  v1 = v1  v2 = v2  none = none
  Metrics = {revenue}
  Unregistered = ghost
  Contracts = {loose, tight}
  Malformed = {}
  Sqls = {filtered, bare}
  Parses = {filtered, bare}
  Violations <- MCViolations
  Versions = {v1, v2}
  NotText = {}
  Opaque = {}
  Hash <- MCHash
  Dirs <- MCDirs
  StrictMode = TRUE
  None = none
  Fixtures = TRUE
  Replay <- MCReplay
  SendsSql = FALSE
  MaxRequests = 1
  MaxRegisters = 0
  MaxBoots = 1
  MaxLines = 1
  MaxCrashes = 0
  MaxDeploys = 0
INVARIANTS FirewallTracesAreReplayed
CHECK_DEADLOCK FALSE
