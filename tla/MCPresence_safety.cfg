SPECIFICATION Spec
CONSTANTS
  s1 = s1  s2 = s2  s3 = s3  NoCs = NoCs
  Users = {1}
  Cs = {s1, s2}
  PageSize = 2
  Adversity = {"again", "late"}
  Sweeping = TRUE
  MaxConn = 3
  MaxCrash = 0
  MaxKvFail = 0
INVARIANTS TablesAgree OnlineFollowsNewest
PROPERTIES OnlyOwnerRemoves
SYMMETRY ServerSymmetry
CHECK_DEADLOCK FALSE
