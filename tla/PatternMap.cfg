SPECIFICATION Spec
CONSTANTS
  Patterns <- MCPatterns
  Rooms <- MCRooms
  Funs = {f}
  MaxPatterns = 2
INVARIANTS RawDataExact CollectMatches
