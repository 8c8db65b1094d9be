SPECIFICATION FairSpec
CONSTANTS
  ada = ada
  max = max
  kim = kim
  rev = rev
  None = None
  Role <- MCRole
  GroupsOf <- MCGroupsOf
  Agents = {ada, rev}
  SeeAll = {rev}
  PersonalOnly = {}
  RLS = TRUE
  Notes = {n1, n2}
  Names = {a, b}
  Bodies = {x, y, z}
  EmptyBody = z
  Unembeddable = {y}
  Batch = 1
  Sessions = {}
  Tables = {}
  Workers = {g1}
  Handlers <- EmbeddingHandlers
  SensChoices <- Normal
  ReaderChoices = {}
  TagChoices = {}
PROPERTIES
  NullEmbeddingsAreRepaired
  BacklogIsWorkedOff
CHECK_DEADLOCK FALSE
