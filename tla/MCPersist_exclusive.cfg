SPECIFICATION Spec
CONSTANTS
  p1 = p1  p2 = p2  c1 = c1  c2 = c2  g = g  u1 = u1  u2 = u2
  ma = ma  mb = mb  mx = mx  mz = mz  ms = ms  mn = mn  me = me  mh = mh
  NoWorker = NoWorker
  Worker = {w1}
  Partition = {p1}
  Conv = {c1, c2, g}
  Msg = {ma, mb, mx, mz, ms, mh, me}
  Uid = {u1}
  ConvOf <- MCConvOf
  KindOf <- MCKindOf
  FaultOf <- MCFaultOf
  Dest <- MCDest
  Route <- OneRoute
  BatchMax = 3
  MaxLog = 3
  MaxCrash = 1
  MaxRebalance = 0
  LookupsFail = {mb}
CONSTRAINT SinglesOrGroup
INVARIANTS TypeOK HistoryIsSound PushedAsStored CommittedHistory
PROPERTIES ImplementsMessageLog
CHECK_DEADLOCK FALSE
