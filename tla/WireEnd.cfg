SPECIFICATION Spec
CONSTANTS
  MaxCalls = 2
  RequestLens = {1}
  ReplyLens = {1}
  ServerBuf = 3
  ClientBuf = 4
  Segments = FALSE
INVARIANTS
  ReportsFailure
