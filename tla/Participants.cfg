SPECIFICATION FairSpec
CONSTANTS
  r1 = r1
  r2 = r2
  k1 = k1
  u1 = u1
  w1 = w1
  Rooms = {r1, r2}
  Keys = {k1}
  Users = {u1}
  JoinIds = {1, 2, 3}
  CleanPeriod = 2
  Waiters = {w1}
  uidOf <- MCUidOf
  waitRoom <- MCWaitRoom
  waitUid <- MCWaitUid
INVARIANTS ViewIsLastWriter NoLostWakeup
PROPERTIES NeverResurrects WaitEnds
