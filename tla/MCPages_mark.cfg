SPECIFICATION PagesSpec
CONSTANTS
  Providers = {1, 2}
  Upstreams = {1}
  Priorities = {0, 1}
  RouteTabs = {g1, g2}
  MaxRows = 2
  MaxChanges = 2
  Ranks <- MCRanks
  Founding <- MCFounding
INVARIANT MarkTellsWhoServes

SYMMETRY Symmetry
CHECK_DEADLOCK FALSE
