SPECIFICATION Spec
CONSTANTS
  Request = {r1, r2}
  Note = {n1, n2}
  Key = {k1, k2, k3, k4}
  Place = {p1, p2}
  Serves <- AnyHandler
  Fault = {"db", "dbAck", "r2", "r2Ack", "crash"}
  MaxImages = 2
  Unborn = Unborn
  Gone = Gone
  Nothing = Nothing
SYMMETRY Interchangeable
INVARIANTS
  TypeOK
  EveryNoteHasItsFile
  OrphansExplained
  AnswersHonest
  AuditTruthful
PROPERTIES
  ImplementsCatalog
