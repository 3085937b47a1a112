SPECIFICATION Spec
CONSTANTS
  Requests = {r1, r2}
  Providers = {p1, p2}
  Sessions = {s1}
  p1 = p1
  p2 = p2
  s1 = s1
  NoSession = NoSession
  NoProvider = NoProvider
  Route <- Twins
  Strategy = "weighted"
  Shapes <- EveryEndpoint
  Kinds = {"upstream", "invalid_request"}
  Threshold = 1
  BaseMs = 1
  MaxMs = 1
  MaxClock = 0
SYMMETRY Interchangeable
INVARIANTS
  RowTellsTheTrail
PROPERTIES
  ImplementsLedger
CHECK_DEADLOCK FALSE
