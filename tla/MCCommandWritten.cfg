SPECIFICATION Spec
CONSTANTS
  None = None
  MaxRuns = 1
  MaxEdits = 0
  Backends = {"s3"}
  FieldOrder <- MCFieldOrder
  KeyOrder <- MCKeyOrder
  StateFiles <- MCStateFiles
  Fixtures <- MCFixtures
  Invocations <- MCInvocations
INVARIANTS
  SuccessIsWritten
