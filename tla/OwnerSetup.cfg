SPECIFICATION FairSetupSpec
CONSTANTS
  j1 = j1
  j2 = j2
  j3 = j3
  e1 = e1
  e2 = e2
  Job = {j1, j2, j3}
  Bootstrap = {j1, j2}
  Email = {e1, e2}
  EmailOf <- Addresses
  Fault = {"db", "dbAck", "crash"}
  MaxRuns = 2
INVARIANTS
  SetupTypeOK
  OneOwner
PROPERTIES
  JobsEnd
CHECK_DEADLOCK FALSE
