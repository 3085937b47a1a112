SPECIFICATION FairSpec
CONSTANTS
  Providers = {p1, p2}
  Founders = {p1}
  Ids = {a, b}
  Passes = {maintenance, admin}
  Maintenance = maintenance
  p1 = p1
  p2 = p2
  a = a
  b = b
  Configurations <- PlainOrSifting
  Listings <- Patchy
  HandTargets <- NoHand
  NoModel = NoModel
  NoRoute = NoRoute
  Unreadable = Unreadable
  Unreachable = Unreachable
  CallsSync = FALSE
  MaxEdits = 2
PROPERTIES
  ModelsLeaveForAReason
  CatalogueConverges
