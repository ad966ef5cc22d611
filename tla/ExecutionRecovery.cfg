SPECIFICATION LiveSpec
CONSTANTS
  Execution = {e1, e2}
  Slot = {s1}
  Required = {s1}
  Key = {k1}
  Revision = {r1}
  AttemptBudget = 1
  MaxFence = 0
  None = None
PROPERTY RunningEnds
CHECK_DEADLOCK FALSE
