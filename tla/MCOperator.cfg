SPECIFICATION OperatorSpec
CONSTANTS
  Requests = {r1, r2, r3}
  k1 = k1
  m1 = m1
  m2 = m2
  KeyIds <- OneKey
  Models = {m1, m2}
  Scopes <- AnyModel
  Anonymous = Anonymous
  Unknown = Unknown
  NoKey = NoKey
  Limits = {0, 1, 2}
  RequireKey = FALSE
  Window = 4
  Second = 2
  MaxClock = 4
  MaxEdits = 1
  Dashboards = {t1}
  Scripts = {s1}
  Ids = {1}
  Names = {"authorization"}
  Secrets = {"sk-a-1", "sk-b-1"}
  Prefix <- MCPrefix
  Configured <- MCConfigured
  Nothing = Nothing
  MaxWrites = 2
  MaxDraftEdits = 1
  Pages = {p1, p2}
  Editing = {p1}
  ApiKeyIds = {a1}
  KeyNames = {"app"}
  Rpms = {60}
  NoApiKey = NoApiKey
  Providers = {1, 2}
  Upstreams = {1}
  Priorities = {0, 1}
  RouteTabs = {g1, g2}
  MaxRows = 2
  MaxChanges = 2
  Ranks <- MCRanks
  Founding <- MCOrdered
SYMMETRY Swappable
INVARIANTS
  LimitHolds
PROPERTIES
  RefusalIsRight
  CredentialsAreKept
  KeysAreKept
  PagesTellTheRoute
CHECK_DEADLOCK FALSE
