SPECIFICATION Spec
CONSTANTS
  IP = {i1, i2}
  Burst = 2
  Interval = 2
  TTL = 4
  Absent = Absent
  Horizon = 8
SYMMETRY Addresses
INVARIANTS
  TypeOK
  WindowBound
PROPERTIES
  WaitingHelps
  ImplementsQuota
CHECK_DEADLOCK FALSE
