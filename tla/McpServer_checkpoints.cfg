SPECIFICATION SpecAltering
CONSTANTS
  revenue = revenue  dated = dated  vitals = vitals  ghost = ghost  num = num  list = list
  ok_sql = ok_sql  bad_sql = bad_sql  huge_sql = huge_sql
  finance = finance  health = health  general = general
  client = client  none = none
  Metrics = {}
  MetaDomain <- MCMetaDomain
  TagDomain <- MCTagDomain
  Domains <- MCDomains
  General = general
  AllowedDomains <- MCAllowedDomains
  Unregistered = ghost
  NotAString = num
  Unhashable = list
  Texts = {}
  TooLong <- MCTooLong
  Verdict <- MCVerdict
  OpaqueVersion <- MCOpaqueVersion
  OpaqueProbes <- MCOpaqueProbes
  Callers = {client}
  None = none
  MaxEvents = 2
  MaxCheckpoints = 1
  MaxBoots = 2
  MaxCalls = 2
  MaxIds = 4
  MaxAlterations = 3
VIEW MCWithoutAnswer
CONSTRAINT MCOneCall
ACTION_CONSTRAINT MCCounts
INVARIANTS DigestsPinHistory CheckpointPinsHistory CheckpointsStayValid
CHECK_DEADLOCK FALSE
