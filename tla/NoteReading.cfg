SPECIFICATION ReadingSpec
CONSTANTS
  Request = {r1}
  Note = {n1}
  Key = {k1, k2, k3}
  Place = {p1}
  Serves <- Writers
  Fault = {"db", "dbAck", "r2", "crash"}
  MaxImages = 1
  Unborn = Unborn
  Gone = Gone
  Nothing = Nothing
  Viewer = {v1, v2}
  LinkTTL = 1
  WriteTimeout = 1
  Horizon = 3
SYMMETRY Interchangeable
INVARIANTS
  ReadingTypeOK
PROPERTIES
  LinksDie
  LinksServe
