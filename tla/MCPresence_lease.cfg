SPECIFICATION Spec
CONSTANTS
  s1 = s1  s2 = s2  s3 = s3  NoCs = NoCs
  Users = {1}
  Cs = {s1, s2}
  PageSize = 1
  Adversity = {"lease"}
  Sweeping = TRUE
  MaxConn = 2
  MaxCrash = 0
  MaxKvFail = 0
PROPERTIES OnlyOwnerRemoves
CHECK_DEADLOCK FALSE
