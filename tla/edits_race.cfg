SPECIFICATION Spec
CONSTANTS
  ada = ada
  max = max
  kim = kim
  rev = rev
  None = None
  Role <- MCRole
  GroupsOf <- MCGroupsOf
  Agents = {max}
  SeeAll = {max}
  PersonalOnly = {}
  RLS = TRUE
  Notes = {n1}
  Names = {a, b}
  Bodies = {x, y}
  EmptyBody = y
  Unembeddable = {}
  Batch = 1
  Sessions = {}
  Tables = {}
  Workers = {g1, g2}
  Handlers <- EditHandlers
  SensChoices <- Normal
  ReaderChoices = {}
  TagChoices = {}
PROPERTIES
  OnlyOvertakenRequestsMissign
  OnlyTheJobLeavesStaleVectors
SYMMETRY WorkerSymmetry
