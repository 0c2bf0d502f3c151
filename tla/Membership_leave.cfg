SPECIFICATION Spec
CONSTANTS
  a = a
  b = b
  n1 = n1
  n2 = n2
  r1 = r1
  Sockets = {a, b}
  Nodes = {n1, n2}
  Rooms = {r1}
  autoJoin = {a}
  Leavers = {a}
  nodeOf <- TwoNodes
  right <- AllRights
  plain <- PlainR1
CHECK_DEADLOCK FALSE
INVARIANT LeaveTakesEffect
