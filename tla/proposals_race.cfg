SPECIFICATION Spec
CONSTANTS
  None = None
  ada = ada
  max = max
  rev = rev
  note = note
  Agents = {ada, max}
  Role <- MCRole
  GroupsOf <- MCGroupsOf
  SeeAll = {max}
  PersonalOnly = {ada}
  RLS = TRUE
  LandQuarantined = TRUE
  LandSensitive = FALSE
  Notes = {n1, n2}
  Proposals = {p1}
  Names = {note}
  NamesGiven = {note}
  Bodies = {b1, b2}
  DerivedName <- MCDerivedName
  Captures <- MCCaptures
  Workers = {g1, g2}
  Severities = {"normal"}
  PatternsGiven = {None}
  MaxVerdicts = 1
  ReadersGiven = {}
  SensGiven = {}
SYMMETRY Symmetry
VIEW LiveView
INVARIANTS
  SharedNotesWereDecided
  LandedNotesPassTheGate
PROPERTIES
  ReviewSpec
  OnlyOvertakenLandingsReplaceOthers
