SPECIFICATION Spec
CONSTANTS
  AsyncJob = {a1, a2}
  Tokens = 1
CHECK_DEADLOCK FALSE
INVARIANTS
  TypeOK
  Routed
  OneEnding
  NobodyForgotten
  NoLostWakeup
PROPERTIES
  EveryoneReturns
