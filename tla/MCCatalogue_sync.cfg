SPECIFICATION Spec
CONSTANTS
  Providers = {p1, p2}
  Founders = {p1, p2}
  Ids = {a, b}
  Passes = {maintenance}
  Maintenance = maintenance
  p1 = p1
  p2 = p2
  a = a
  b = b
  Configurations <- OnlyPlain
  Listings <- Moving
  HandTargets <- ByHand
  NoModel = NoModel
  NoRoute = NoRoute
  Unreadable = Unreadable
  Unreachable = Unreachable
  CallsSync = TRUE
  MaxEdits = 2
INVARIANTS
  TypeOK
  ReferencesHold
PROPERTIES
  SyncReconciles
  SyncRespectsOwners
  SyncKeepsTheSwitch
