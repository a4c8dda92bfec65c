SPECIFICATION Spec
CONSTANTS
  Backends <- MCAll
  Retries = 2
  Tries = 2
  CtrMax = 2
  MaxCalls = 2
  MaxRestarts = 2
INVARIANTS
  SeHalTypeOK
  OkMeansDone
PROPERTIES
  CounterNeverWraps
  CallReturns
CHECK_DEADLOCK FALSE
