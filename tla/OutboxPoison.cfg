SPECIFICATION Spec
CONSTANTS
  w1 = w1
  w2 = w2
  Event = {1}
  Worker = {w1, w2}
  Available <- Uniform
  Unsupported <- Nothing
  Reconciles = {}
  MaxAttempts = 2
  BatchLimit = 1
  Takeover = TRUE
  MaxTrouble = 2
  MaxClaim = 4
INVARIANT AttemptsWithinMax
CHECK_DEADLOCK FALSE
