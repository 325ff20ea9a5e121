CONSTANTS
  MaxTid = 2
  Codes = {0}
  Uninit = Uninit
SPECIFICATION FairSpec
PROPERTY ExecuteReturns
CHECK_DEADLOCK FALSE
