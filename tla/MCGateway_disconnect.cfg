SPECIFICATION Spec
CONSTANTS
  Requests = {r1}
  Providers = {p1, p2}
  Sessions = {s1}
  p1 = p1
  p2 = p2
  s1 = s1
  NoSession = NoSession
  NoProvider = NoProvider
  Route <- Pair
  Strategy = "priority"
  Shapes <- EveryEndpoint
  Kinds = {"upstream", "invalid_request"}
  Threshold = 1
  BaseMs = 1
  MaxMs = 1
  MaxClock = 1
INVARIANTS
  EveryExitIsLogged
CHECK_DEADLOCK FALSE
