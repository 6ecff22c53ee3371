SPECIFICATION Spec
CONSTANTS
  Session = {c1, c2, c3}
  None = None
  MaxRequests = 1
  SockCap = 1
INVARIANTS
  LeaverRemoved
