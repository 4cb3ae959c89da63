SPECIFICATION Spec
CONSTANTS
  s1 = s1  s2 = s2  u1 = u1  NoCs = NoCs  Unknown = Unknown
  Uid = {u1}
  Cs = {s1, s2}
  ToUid <- TwoPushes
  BatchMax = 2
  SendMax = 1
  Attempts = 3
  MaxMove = 2
  MaxRpc = 1
  MaxDown = 0
  MaxRoute = 1
  MaxCrash = 1
INVARIANTS CommittedIsAnswered AnswersAreTrue SteadySeenInOrder
CHECK_DEADLOCK FALSE
