SPECIFICATION Spec
CONSTANTS
  acme = acme  fork = fork  models = models
  schema = schema  marts = marts  docs = docs  notes = notes
  status = status  status_code = status_code  amount = amount
  none = none
  a1 = a1  a2 = a2
  Auditors = {a1, a2}
  Repos = {acme, fork}
  DirName <- MCDirName
  Paths = {schema, marts, docs}
  Outside = {notes}
  Folders = {docs}
  Machines <- MCMachines
  Searchable = {schema}
  Words = {status, status_code, amount}
  History <- MCHistory
  Symbols = {status, amount}
  Inside <- MCInside
  Directories <- MCDirectories
  Bibliography <- MCBibliography
  None = none
  MaxAudits = 2
  MaxClears = 1
INVARIANTS TypeOK PassedWasThere WholeCommitsDecide
CHECK_DEADLOCK FALSE
SYMMETRY Symmetry
