CONSTANTS
  MaxTid = 3
  Codes = {0}
  Uninit = Uninit
SPECIFICATION FairSpec
INVARIANTS SharesConsistent WaitReturnsStatus
PROPERTIES ExecReportsLoad WaitReturns
CHECK_DEADLOCK FALSE
