SPECIFICATION FairSpec
CONSTANTS
  Thread = {t1, t2}
  Text = {x, y}
  MaxCalls = 4
INVARIANTS
  TypeOK
  AnswersForCallers
  SomeAnswerComes
  LoneCallGetsOwn
PROPERTIES
  ProxiesKept
  AgentGoesOn
