SPECIFICATION Spec
CONSTANTS
  None = None
  MaxRuns = 2
  MaxEdits = 1
  Backends = {"s3"}
  FieldOrder <- MCFieldOrder
  KeyOrder <- MCKeyOrder
  StateFiles <- MCStateFiles
  Fixtures <- MCFixtures
  Invocations <- MCInvocations
INVARIANTS
  TypeOK
  DriftGateIsRight
  SuccessIsDone
  NoTraceWithoutScan
PROPERTIES
  SavedBeforeOutput
