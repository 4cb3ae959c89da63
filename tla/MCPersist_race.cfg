SPECIFICATION FairSpec
CONSTANTS
  p1 = p1  p2 = p2  c1 = c1  c2 = c2  g = g  u1 = u1  u2 = u2
  ma = ma  mb = mb  mx = mx  mz = mz  ms = ms  mn = mn  me = me  mh = mh
  NoWorker = NoWorker
  Worker = {w1, w2}
  Partition = {p1, p2}
  Conv = {c1}
  Msg = {ma, mb}
  Uid = {u1}
  ConvOf <- MCConvOf
  KindOf <- MCKindOf
  FaultOf <- MCFaultOf
  Dest <- MCDest
  Route <- SplitRoute
  BatchMax = 2
  MaxLog = 1
  MaxCrash = 1
  MaxRebalance = 1
  LookupsFail = {}
INVARIANTS UniqueSeq CommittedIsStored
PROPERTIES EventuallyCommitted
CHECK_DEADLOCK FALSE
