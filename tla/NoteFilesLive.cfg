SPECIFICATION FairSpec
CONSTANTS
  Request = {r1, r2}
  Note = {n1, n2}
  Key = {k1, k2, k3, k4}
  Place = {p1}
  Serves <- AnyHandler
  Fault = {"r2", "crash"}
  MaxImages = 2
  Unborn = Unborn
  Gone = Gone
  Nothing = Nothing
PROPERTIES
  Answered
  UnusedFilesGo
