SPECIFICATION Spec
CONSTANTS
  ada = ada
  max = max
  kim = kim
  rev = rev
  None = None
  Role <- MCRole
  GroupsOf <- MCGroupsOf
  Agents = {ada, max, kim, rev}
  SeeAll = {max, rev}
  PersonalOnly = {}
  RLS = TRUE
  Notes = {n1}
  Names = {a}
  Bodies = {x}
  EmptyBody = empty
  Unembeddable = {}
  Batch = 1
  Sessions = {s}
  Tables = {t}
  Workers = {g1, g2}
  Handlers <- GovernanceHandlers
  SensChoices <- Normal
  ReaderChoices <- Common
  TagChoices = {}
INVARIANTS
  TypeOK
  SharedNotesWereReviewed
  OthersReadReviewedNotes
  TrustIsEarned
  GovernedTablesWereApproved
PROPERTIES
  WorkersNeverAlterSharedNotes
  GovernanceSpec
SYMMETRY WorkerSymmetry
