SPECIFICATION Spec
CONSTANTS
  Stream <- Frames
  FirstSeq = 30
  SeqMod = 32
  maxLate = 2
  Twice = {0, 5}
INVARIANTS Check HeldNotReleased 
PROPERTIES InOrder
CHECK_DEADLOCK FALSE
