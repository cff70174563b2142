SPECIFICATION Spec
CONSTANTS
  Entry = {1, 2, 3, 4}
  Reader = {r1}
  MaxRows = 3
  Word = 16
  MaxEdits = 3
INVARIANTS
  TypeOK
  NoBlankPage
  ReviewMissesLittle
PROPERTIES
  PageAsAsked
CHECK_DEADLOCK FALSE
