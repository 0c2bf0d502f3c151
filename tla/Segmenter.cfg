SPECIFICATION Spec
CONSTANTS
  Tracks = {a, b}
  SegmentDuration = 2
  MaxDts = 3
  MaxVersion = 2
  MaxElapsed = 2
  MaxReports = 4
SYMMETRY Perms
INVARIANTS SegmentsDecodable NothingLost Timeline
CHECK_DEADLOCK FALSE
