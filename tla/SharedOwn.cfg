SPECIFICATION Spec
CONSTANTS
  Thread = {t1, t2}
  Text = {x, y}
  MaxCalls = 3
INVARIANTS
  CallGetsOwn
