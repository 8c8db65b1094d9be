SPECIFICATION Spec
CONSTANTS
  None = None
  ada = ada
  max = max
  rev = rev
  Agents = {ada, max}
  Role <- MCRole
  GroupsOf <- MCGroupsOf
  SeeAll = {max}
  PersonalOnly = {}
  RLS = TRUE
  Rows = {r1, r2, r3}
  Slugs = {s}
  MaxHandle = 2
  Sections = {plan}
  Tiers = {3}
  Clearance <- MCClearance
  ReadersGiven <- MCReaders
  Workers = {g1, g2}
SYMMETRY Symmetry
INVARIANTS
  OnlyReusedKeysSkipTheReview
  AllocatedHandlesAreFree
