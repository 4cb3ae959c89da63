SPECIFICATION Spec
CONSTANTS
  s1 = s1  s2 = s2  u1 = u1  NoCs = NoCs  Unknown = Unknown
  Uid = {u1}
  Cs = {s1, s2}
  ToUid <- TwoPushes
  BatchMax = 2
  SendMax = 2
  Attempts = 3
  MaxMove = 1
  MaxRpc = 0
  MaxDown = 0
  MaxRoute = 0
  MaxCrash = 0
INVARIANTS CorrectedAtOnce
CHECK_DEADLOCK FALSE
