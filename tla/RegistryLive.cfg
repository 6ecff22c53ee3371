SPECIFICATION FairSpec
CONSTANTS
  Session = {c1, c2}
  None = None
  MaxRequests = 2
  SockCap = 1
PROPERTIES
  LeaveCompletes
