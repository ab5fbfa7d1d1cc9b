SPECIFICATION Spec
CONSTANTS
  None = None
  Concurrencies = {2}
  MaxEdits = 1
  FieldOrder <- MCFieldOrder
  KeyOrder <- MCKeyOrder
  Instances <- MCInstances
  States <- FullStates
  MappedTypes <- MCMappedTypes
  FromState <- MCFromState
  Answers <- MCAnswers
INVARIANTS
  TypeOK
  BoundedLookups
  NoWorkerOutlivesScan
  NoPartialReport
  CompletionOrderHidden
PROPERTIES
  FirstErrorSticks
  ImplementsContract
