SPECIFICATION Spec
CONSTANTS
  Execution = {e1, e2, e3}
  Slot = {s1}
  Required = {s1}
  Key = {k1}
  Revision = {r1, r2}
  AttemptBudget = 1
  MaxFence = 0
  None = None
SYMMETRY ExecutionSymmetry
VIEW RelativeVersions
CONSTRAINT OnTime
INVARIANT PointersAgree
PROPERTY OnlyNewestAdmitted
PROPERTY PermitNeverRevives
CHECK_DEADLOCK FALSE
