SPECIFICATION Spec
CONSTANTS
  Uri = {h1, h2}
  Node = {root, n1}
  RootNode = root
  Uid = {u1, u2, u3}
  None = None
  MaxSpec = 2
  MaxChromo = 2
  MaxDepth = 3
INVARIANTS
  ConnectedWhenAccepted
