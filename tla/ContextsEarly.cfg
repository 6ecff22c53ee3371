SPECIFICATION Spec
CONSTANTS
  Session = {c1, c2}
  Uid = {u1}
  None = None
  MaxRequests = 3
INVARIANTS
  ProviderReady
