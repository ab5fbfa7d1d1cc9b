SPECIFICATION FairDeployment
CONSTANTS
  j1 = j1
  j2 = j2
  q1 = q1
  None = None
  Unreadable = Unreadable
  Jobs <- MCJobs
  Requests <- MCRequests
  Schedules <- MCSchedules
  Lines <- MCLines
INVARIANTS
  TypeOK
  JobsAreWaitedFor
  ExitCodeTellsWhy
  ConfiguredPlaces
  BrokenTargetsSaveNothing
PROPERTIES
  ImplementsService
  StopsOnSignal
  ServerFailureEnds
