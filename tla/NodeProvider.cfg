SPECIFICATION Spec
CONSTANTS
  Thread = {t1, t2, t3}
  None = None
  MaxCalls = 4
INVARIANTS
  TypeOK
  RegisteredBelowElem
  OneClassNode
