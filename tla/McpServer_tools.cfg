SPECIFICATION Spec
CONSTANTS
  revenue = revenue  dated = dated  vitals = vitals  ghost = ghost  num = num  list = list
  ok_sql = ok_sql  bad_sql = bad_sql  huge_sql = huge_sql
  finance = finance  health = health  general = general
  client = client  none = none
  Metrics = {revenue, dated, vitals}
  MetaDomain <- MCMetaDomain
  TagDomain <- MCTagDomain
  Domains <- MCDomains
  General = general
  AllowedDomains <- MCAllowedDomains
  Unregistered = ghost
  NotAString = num
  Unhashable = list
  Texts = {ok_sql, bad_sql, huge_sql}
  TooLong <- MCTooLong
  Verdict <- MCVerdict
  OpaqueVersion <- MCOpaqueVersion
  OpaqueProbes <- MCOpaqueProbes
  Callers = {client}
  None = none
  MaxEvents = 2
  MaxCheckpoints = 1
  MaxBoots = 1
  MaxCalls = 2
  MaxIds = 3
  MaxAlterations = 0
CONSTRAINT MCBrief
INVARIANTS TypeOK OneEventPerAnswer VerdictsAreOnRecord
PROPERTY LedgerSpec
CHECK_DEADLOCK FALSE
