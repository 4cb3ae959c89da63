SPECIFICATION Spec
CHECK_DEADLOCK FALSE
CONSTANTS
  Device = {"d", "e"}
  Notify <- TwoDevices
  Window = 2
  HourMax = 1
  MaxVendor = 1
  MaxStop = 1
  Reader = {u1, u2}
  Recent = 2
  NoRow = NoRow
  MaxAct = 4
  MaxMissed = 1
  Req = {"q1", "q2", "q3", "q4"}
  NoReq = "none"
  Kind <- Kinds
  Generator = {g1}
  SeqSize = 2
  Patience = 1
  MaxMs = 4
  MaxIds = 5
  MaxBack = 1
  MaxLife = 1
  Service = {s1, s2}
  MaxEtcd = 1
  Caller = {"g", "w", "x"}
  Worker = {"w"}
  From <- Asks
  To <- Asked
  MaxFail = 1
  Writer = {me, other}
  Me = me
  Page = 1
  MaxSeq = 3
  MaxPulls = 2
  MaxLost = 1
  Msg = {"m"}
  Capacity = 1
  Reconnects = TRUE
  MaxFrame = 2
  MaxPush = 1
  MaxProduceFail = 1
  Turns = {"push", "likes", "friends", "ids", "registry", "conversations", "history", "connection"}
INVARIANTS Bounded CopiesAgree AcceptedIsProduced IdsInOrder
PROPERTIES
  MergedIsTold ActionsAreCounted SinkConverges CallsEnd GapsAreFilled DeliveredIsWritten BrokenEnds
