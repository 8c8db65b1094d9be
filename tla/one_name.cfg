SPECIFICATION FairSpec
CONSTANTS
  None = None
  Names = {ada, max}
  Founders = {max}
  Applications = {e1, e2}
  Workers = {g1, g2}
  Quorum = 1
  Asked <- Worker
  Reassigned <- NoRoles
PROPERTIES
  ApprovalsAreAnswered
INVARIANTS
  ProvisionedHaveTheirAgent
