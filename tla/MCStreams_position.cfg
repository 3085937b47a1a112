SPECIFICATION Spec
CONSTANTS
  Calls = {0, 1}
  Finishes = {"tool_calls"}
  Usages = {1}
  MaxPieces = 2
INVARIANT FragmentsReachTheirCall
CHECK_DEADLOCK FALSE
