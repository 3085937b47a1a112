SPECIFICATION UpkeepSpec
CONSTANTS
  Starters = {p1, p2}
  NoOwner = NoOwner
  Sites <- MCSites
  MaxCrashes = 1
  MaxEdits = 1
  Pools = {q1}
  Others = {o1}
  Maintenance = maintenance
  Clicks = {c1}
  Accounts <- MCAccounts
  NoSnapshot = NoSnapshot
  NoPool = NoPool
  MaxHours = 1
  Documents <- MCDocuments
  Offers <- MCOffers
  Bare <- MCBare
  Unsaid = Unsaid
  INDEX_TTL_MS = 1
  Discoveries = {d1, d2}
  MaxTime = 2
  MaxRestarts = 1
  Keys = {k1, k2, k3}
  Providers = {p1, p2}
  NoProvider = NoProvider
  TtlMs = 2
  MaxEntries = 2
  MaxClock = 4
  Calls = {g1, g2, m1}
  Queries = {g1, g2}
  Tokens = {good, bad}
  Accepted = good
  NoToken = NoToken
  MaxOpens = 2
INVARIANTS
  BlankMeansUnset
  SnapshotsAreTrue
PROPERTIES
  MigrationsHappenOnce
  ServesAndGoesOn
  CapabilitiesAreKept
  StoreIsAHint
  CallsAreHeard
CHECK_DEADLOCK FALSE
