SPECIFICATION FairSpec
CONSTANTS
  Thread = {t1, t2}
  Text = {x, y}
  MaxCalls = 3
PROPERTIES
  CallReturns
