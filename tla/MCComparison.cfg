SPECIFICATION Spec
CONSTANTS
  FieldOrder <- MCFieldOrder
  KeyOrder <- MCKeyOrder
  Resources <- MCResources
  Answers <- MCAnswers
INVARIANTS
  TypeOK
  PinpointsDrift
  FindingsRebuildTags
  TagDriftIsSymmetric
  SummaryAddsUp
PROPERTIES
  FindingsAreLocal
