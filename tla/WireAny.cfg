SPECIFICATION FairSpec
CONSTANTS
  MaxCalls = 3
  RequestLens = {1, 3, 4}
  ReplyLens = {2}
  ServerBuf = 3
  ClientBuf = 4
  Segments = TRUE
PROPERTIES
  CallReturns
