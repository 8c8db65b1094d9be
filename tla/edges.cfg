SPECIFICATION FairSpec
CONSTANTS
  None = None
  a = a
  b = b
  c = c
  Notes = {a, b}
  Pairs <- OnePair
  AutoTypes = {"supersedes"}
  ReviewTypes = {"depends_on"}
  InfraTypes = {"depends_on"}
  ReviewMode = TRUE

  
PROPERTIES
  ReviewTypesWereReviewed
  RejectionsOutliveExamination
  EdgesAreExamined
CHECK_DEADLOCK FALSE
