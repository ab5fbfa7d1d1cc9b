SPECIFICATION DashboardSpec
CONSTANTS
  None = None
  Other = Other
  Foreign <- NoForeign
  a = a
  b = b
  c = c
  Runs <- MCRuns
  Posts <- MCRuns
  Sizes = {1, 2}
  PerSecond = 2
  MaxNow = 3
INVARIANT QuietStoreIsReadable
