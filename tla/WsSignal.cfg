SPECIFICATION FairSpec
CONSTANTS
  s1 = s1
  c1 = c1
  c2 = c2
  Calls = {s1, c1, c2}
  needAck = {s1, c1, c2}
  Deadline = {c2}
  Early = {c2}
  mute = {}
  slow = {c1}
  Retries = 1
  endOf <- MCEndOf
INVARIANTS AnswerIsOwn EntriesAreAwaited CloseReportedOnce 
PROPERTIES CallsReturn
CHECK_DEADLOCK FALSE
