SPECIFICATION Spec
CONSTANTS
  revenue = revenue  ghost = ghost
  loose = loose  tight = tight  broken = broken
  filtered = filtered  bare = bare  garbled = garbled
  v1 = v1  v2 = v2  date = date  float = float  none = none
  Metrics = {revenue}
  Unregistered = ghost
  Contracts = {loose, tight, broken}
  Malformed = {broken}
  Sqls = {filtered, bare, garbled}
  Parses = {filtered, bare}
  Violations <- MCViolations
  Versions = {v1, v2, date, float}
  NotText = {date, float}
  Opaque = {date}
  Hash <- MCHash
  Dirs <- MCDirs
  StrictMode = FALSE
  None = none
  MaxRequests = 3
  MaxRegisters = 1
  MaxBoots = 2
INVARIANTS TypeOK CountersBalance TracesAreReproducible
CHECK_DEADLOCK FALSE
