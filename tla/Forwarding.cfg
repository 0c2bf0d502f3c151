SPECIFICATION Spec
CONSTANTS
  s1 = s1
  s2 = s2
  p1 = p1
  p2 = p2
  v1 = v1
  a1 = a1
  v2 = v2
  local = local
  remote = remote
  Subs = {s1, s2}
  Tracks = {v1, a1}
  Pubs = {p1}
  Readers = {local, remote}
  MaxRefs = 2
  pubOf <- MCPubOf
  typeOf <- MCTypeOf
  readerOf <- MCReaderOf
  Patterns <- MCPatterns
  Described <- MCDescribed
  Queries <- MCQueries
  Raw <- MCRaw
SYMMETRY Sym
INVARIANTS NotClosedInUse EOFWillReach SubsDoNotWait ClosedIsEmpty PatternsMean
CHECK_DEADLOCK FALSE
