SPECIFICATION FairSpec
CONSTANTS
  MaxCalls = 6
  RequestLens = {1, 2}
  ReplyLens = {1, 2, 4}
  ServerBuf = 3
  ClientBuf = 4
  Segments = FALSE
INVARIANTS
  TypeOK
  InSync
PROPERTIES
  ImplementsRpc
