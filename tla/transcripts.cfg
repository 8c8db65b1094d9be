SPECIFICATION FairSpec
CONSTANTS
  None = None
  Sessions = {s}
  Notes = {n1, n2}
  Jobs = {j1, j2, j3}
INVARIANTS
  SourcesOutliveNotes
  SweptNotesCameTooLate
PROPERTIES
  OrphansAreSwept
CHECK_DEADLOCK FALSE
