SPECIFICATION LiveSpec
CONSTANTS
  Execution = {e1}
  Slot = {s1}
  Required = {s1}
  Key = {k1}
  Revision = {r1}
  AttemptBudget = 1
  MaxFence = 0
  None = None
PROPERTY PlannedEnds
CHECK_DEADLOCK FALSE
