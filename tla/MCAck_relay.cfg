SPECIFICATION FromS1
CONSTANTS
  s1 = s1  s2 = s2  u1 = u1  u2 = u2  NoCs = NoCs
  Uid = {u1}
  Cs = {s1, s2}
  Log <- OneSender
  BatchMax = 1
  SendMax = 1
  MaxMove = 2
  MaxCall = 1
  MaxLook = 1
  MaxCrash = 1
INVARIANTS AcksComeOnce CommittedIsHandled
PROPERTIES ConsumedOrStuck
CHECK_DEADLOCK FALSE
