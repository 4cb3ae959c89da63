SPECIFICATION FromS1
CONSTANTS
  s1 = s1  s2 = s2  u1 = u1  NoCs = NoCs  Unknown = Unknown
  Uid = {u1}
  Cs = {s1, s2}
  ToUid <- TwoPushes
  BatchMax = 2
  SendMax = 1
  Attempts = 2
  MaxMove = 1
  MaxRpc = 1
  MaxDown = 1
  MaxRoute = 1
  MaxCrash = 1
PROPERTIES EventuallyCommitted
CHECK_DEADLOCK FALSE
