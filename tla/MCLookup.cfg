SPECIFICATION Spec
CONSTANTS
  Nil = Nil
  MaxEdits = 2
  FieldOrder <- MCFieldOrder
  KeyOrder <- MCKeyOrder
  Segments <- MCSegments
  Upper <- MCUpper
  Texts <- MCTexts
  Objects <- MCObjects
INVARIANTS
  TypeOK
  DriftIsWhatMoved
  FailsForCause
