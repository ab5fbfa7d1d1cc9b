SPECIFICATION FairSpec
CONSTANTS
  None = None
  Concurrencies = {0, 1}
  MaxEdits = 0
  FieldOrder <- MCFieldOrder
  KeyOrder <- MCKeyOrder
  Instances <- MCInstances
  States <- PairStates
  MappedTypes <- MCMappedTypes
  FromState <- MCFromState
  Answers <- MCAnswers
PROPERTIES
  CancelStops
  Terminates
