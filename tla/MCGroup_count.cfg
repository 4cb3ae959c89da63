SPECIFICATION Spec
CONSTANTS
  o = o  a = a  b = b  c = c
  User = {o, a, b, c}
  Owner = o
  Req = {r1, r2}
  Online = {a}
  Limit = 3
  Ask <- OldMembers
  Text <- Texts
  MaxOps = 2
  MaxText = 1
  MaxFail = 1
INVARIANTS CountIsRight
CHECK_DEADLOCK FALSE
