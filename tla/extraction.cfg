SPECIFICATION FairSpec
CONSTANTS
  None = None
  Sessions = {s}
  MaxSpans = 2
  BatchSizes = {1,2}
  Tries = 2
  MaxAttempts = 2
  Runners = {r1}
  Workers = {g1, g2}
INVARIANTS
  NothingIsSkipped
PROPERTIES
  TranscriptsAreExtracted
CHECK_DEADLOCK FALSE
