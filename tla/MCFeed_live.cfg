CONSTANTS
  r = r  a = a  b = b
  User <- MCUser  Reader = r  Acquainted <- MCAcquainted
  BigV = 1  Batch = 1  Sec = 2
  MaxPost = 2  MaxPage = 1  MaxFriend = 1  MaxFail = 1  Limit = 1
SPECIFICATION FairSpec
INVARIANT TypeOK
PROPERTIES MissesNothing ReachesFriends
CHECK_DEADLOCK FALSE
