SPECIFICATION FairSpec
CONSTANTS
  Jobs = {j1}
  NoJob = NoJob
  Calls = {c1, c2}
  Keys = {k1}
  NoKey = NoKey
  Types <- MCTypes
  MaxAttempts = 2
  AttemptBound = 2
  MaxRestarts = 1
INVARIANTS
  TypeOK
  FlagsBelongToARun
  RunningHasRunner
PROPERTIES
  CallsSettle
CHECK_DEADLOCK FALSE
