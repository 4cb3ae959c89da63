SPECIFICATION FairSpec
CONSTANTS
  o = o  a = a  b = b  c = c
  User = {o, a, b, c}
  Owner = o
  Req = {r1, r2}
  Online = {a}
  Limit = 3
  Ask <- Asks
  Text <- Texts
  MaxOps = 2
  MaxText = 1
  MaxFail = 1
INVARIANTS MembershipAgrees StoredWasAllowed LeaversAreSpared
PROPERTIES LimitHolds EndIsTold RequestsEnd
CHECK_DEADLOCK FALSE
