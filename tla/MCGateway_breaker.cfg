SPECIFICATION Spec
CONSTANTS
  Requests = {r1, r2, r3}
  Providers = {p1}
  Sessions = {s1}
  p1 = p1
  p2 = p2
  s1 = s1
  NoSession = NoSession
  NoProvider = NoProvider
  Route <- Doubled
  Strategy = "priority"
  Shapes <- Anonymous
  Kinds = {"upstream", "not_found"}
  Threshold = 2
  BaseMs = 1
  MaxMs = 3
  MaxClock = 3
SYMMETRY Interchangeable
INVARIANTS
  FailuresAreEarned
  BreakerIsSound
PROPERTIES
  BackoffNeverShrinks
CHECK_DEADLOCK FALSE
