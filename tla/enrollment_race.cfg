SPECIFICATION Spec
CONSTANTS
  None = None
  Names = {ada, max, rev}
  Founders = {max, rev}
  Applications = {e1}
  Workers = {g1, g2}
  Quorum = 2
  Asked <- Worker
  Reassigned <- Worker
INVARIANTS
  TypeOK
  AgentsWereApproved
PROPERTIES
  OnlyFormerManagersTakeTheLast
  OnlyOvertakenVotesMissTheQuorum
SYMMETRY WorkerSymmetry
CHECK_DEADLOCK FALSE
