SPECIFICATION LoopSpec
CONSTANTS
  s1 = s1  s2 = s2  s3 = s3  NoCs = NoCs
  Users = {1}
  Cs = {s1, s2}
  PageSize = 1
  Adversity = {"again", "restart"}
  Sweeping = FALSE
  MaxConn = 2
  MaxCrash = 1
  MaxKvFail = 1
PROPERTIES ClosedLeavesTable
CHECK_DEADLOCK FALSE
