SPECIFICATION DashboardSpec
CONSTANTS
  None = None
  Other = Other
  Foreign <- MCForeign
  a = a
  b = b
  c = c
  Runs <- MCRuns
  Posts <- MCRuns
  Sizes = {1, 2}
  PerSecond = 1
  MaxNow = 1
SYMMETRY Symmetry
INVARIANTS
  TypeOK
  SavedStaysUnlessShared
  ListHoldsWhatWasSaved
  ListIsNewestFirst
  LinksLead
  PagesAreWhole
PROPERTIES
  ListFailsForCause
