SPECIFICATION GhostSpec
CONSTANTS
  s1 = s1  s2 = s2  s3 = s3  NoCs = NoCs
  Users = {1, 2}
  Cs = {s1, s2}
  PageSize = 1
  Adversity = {}
  Sweeping = TRUE
  MaxConn = 2
  MaxCrash = 1
  MaxKvFail = 1
PROPERTIES GhostsGo
CHECK_DEADLOCK FALSE
