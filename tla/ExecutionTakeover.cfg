SPECIFICATION Spec
CONSTANTS
  Execution = {e1, e2}
  Slot = {s1}
  Required = {s1}
  Key = {k1}
  Revision = {r1}
  AttemptBudget = 1
  MaxFence = 2
  None = None
SYMMETRY ExecutionSymmetry
VIEW RelativeVersions
INVARIANT LeaseSlotCoupling
INVARIANT ReferencesResolve
PROPERTY TerminalFrozen
PROPERTY AcceptedStays
CHECK_DEADLOCK FALSE
