SPECIFICATION Spec
CONSTANTS
  p1 = p1  p2 = p2  c1 = c1  c2 = c2  g = g  u1 = u1  u2 = u2
  ma = ma  mb = mb  mx = mx  mz = mz  ms = ms  mn = mn  me = me  mh = mh
  NoWorker = NoWorker
  Worker = {w1}
  Partition = {p1}
  Conv = {c1}
  Msg = {ma, mn}
  Uid = {u1}
  ConvOf <- MCConvOf
  KindOf <- MCKindOf
  FaultOf <- MCFaultOf
  Dest <- MCDest
  Route <- OneRoute
  BatchMax = 2
  MaxLog = 2
  MaxCrash = 0
  MaxRebalance = 0
  LookupsFail = {}
INVARIANTS OnlyMembersStored
CHECK_DEADLOCK FALSE
