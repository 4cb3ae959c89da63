CONSTANTS
  r = r  a = a  b = b
  User <- MCUser  Reader = r  Acquainted <- MCAcquainted
  BigV = 1  Batch = 1  Sec = 2
  MaxPost = 2  MaxPage = 2  MaxFriend = 0  MaxFail = 0  Limit = 1
SPECIFICATION FairSpec
INVARIANT PagesDoNotOverlap
CHECK_DEADLOCK FALSE
