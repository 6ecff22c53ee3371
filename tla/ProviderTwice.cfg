SPECIFICATION Spec
CONSTANTS
  Thread = {t1, t2}
  None = None
  MaxCalls = 2
INVARIANTS
  OneClassNodeAlways
