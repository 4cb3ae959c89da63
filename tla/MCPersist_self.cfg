SPECIFICATION FairSpec
CONSTANTS
  p1 = p1  p2 = p2  c1 = c1  c2 = c2  g = g  u1 = u1  u2 = u2
  ma = ma  mb = mb  mx = mx  mz = mz  ms = ms  mn = mn  me = me  mh = mh
  NoWorker = NoWorker
  Worker = {w1}
  Partition = {p1}
  Conv = {c1, c2}
  Msg = {ma, ms}
  Uid = {u1}
  ConvOf <- MCConvOf
  KindOf <- MCKindOf
  FaultOf <- MCFaultOf
  Dest <- MCDest
  Route <- OneRoute
  BatchMax = 1
  MaxLog = 2
  MaxCrash = 0
  MaxRebalance = 0
  LookupsFail = {}
PROPERTIES EventuallyCommitted
CHECK_DEADLOCK FALSE
