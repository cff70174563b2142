SPECIFICATION Spec
CONSTANTS
  a1 = a1
  b1 = b1
  a2 = a2
  p1 = p1
  p2 = p2
  r1 = r1
  r2 = r2
  Browser = {b1}
  Admin = {a1, a2}
  Password = {p1, p2}
  FirstHash <- Created
  Slot = {r1, r2}
  Fault = {"db", "dbAck", "lost", "crash", "expiry"}
  MaxTokens = 3
  MaxRequests = 4
  None = None
SYMMETRY Alike
INVARIANTS
  TypeOK
  StoredSessionsSound
  SignedInAsTold
  PasswordAsTold
CHECK_DEADLOCK FALSE
