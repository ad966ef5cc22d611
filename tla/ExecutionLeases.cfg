SPECIFICATION Spec
CONSTANTS
  Execution = {e1}
  Slot = {s1, s2}
  Required = {s1, s2}
  Key = {k1, k2}
  Revision = {r1}
  AttemptBudget = 2
  MaxFence = 3
  None = None
SYMMETRY LeaseSymmetry
VIEW RelativeVersions
CONSTRAINT Reportable
INVARIANT TypeOK
INVARIANT LeaseSlotCoupling
INVARIANT HolderIsNewest
INVARIANT AttemptsWithinBudget
INVARIANT ArtifactMatchesEvidence
PROPERTY VersionsMove
CHECK_DEADLOCK FALSE
