SPECIFICATION MergeSpec
CONSTANTS
  f = f
  g = g
  Transcripts <- MCTranscripts
  Names <- MCNames
  Facts = {f, g}
  MaxChars = 2
  MinPrefix = 1
  MaxCandidates = 3
INVARIANTS
  WindowsCoverTheTranscript
  NotesAreTheComponents
  OnlyRepeatedLinesAreLost
  TrustSurvivesOnlyIfEarnedByAll
CHECK_DEADLOCK FALSE
