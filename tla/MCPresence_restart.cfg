SPECIFICATION GhostSpec
CONSTANTS
  s1 = s1  s2 = s2  s3 = s3  NoCs = NoCs
  Users = {1}
  Cs = {s1, s2}
  PageSize = 1
  Adversity = {"restart"}
  Sweeping = TRUE
  MaxConn = 1
  MaxCrash = 1
  MaxKvFail = 0
PROPERTIES CutConnectionsGo
CHECK_DEADLOCK FALSE
