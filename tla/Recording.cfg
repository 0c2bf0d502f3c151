SPECIFICATION FairSpec
CONSTANTS
  a = a
  b = b
  f = f
  g = g
  Tracks = {a, b}
  Forwarders <- MCForwarders
  ChanCap = 1
  MaxReports = 1
  MaxGens = 1
INVARIANTS EndIsLast 
PROPERTIES RecordEnds ReaderProgress
CHECK_DEADLOCK FALSE
