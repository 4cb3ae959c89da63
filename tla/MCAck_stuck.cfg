SPECIFICATION FairSpec
CONSTANTS
  s1 = s1  s2 = s2  u1 = u1  u2 = u2  NoCs = NoCs
  Uid = {u1, u2}
  Cs = {s1, s2}
  Log <- TwoSenders
  BatchMax = 2
  SendMax = 1
  MaxMove = 0
  MaxCall = 1
  MaxLook = 0
  MaxCrash = 0
PROPERTIES AcksGoOn
CHECK_DEADLOCK FALSE
