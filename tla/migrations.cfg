SPECIFICATION FairSpec
CONSTANTS
  None = None
  policy = policy
  column = column
  Latest = 2
  Objects = {policy, column}
  Defines <- MCDefines
  Digests = {old, new}
  Runners = {r1, r2}
INVARIANTS
  RunnersDoNotCollide
  SchemaIsAsRecorded
PROPERTIES
  OnlyLateDriftIsBuiltOn
  EveryUpEnds
