SPECIFICATION Spec
CONSTANTS
  Name = {a, b}
  AnyName = any
  None = None
  MaxChilds = 3
INVARIANTS
  StaysInRange
