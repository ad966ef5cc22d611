SPECIFICATION LiveSpec
CONSTANTS
  w1 = w1
  w2 = w2
  Event = {1, 2}
  Worker = {w1, w2}
  Available <- Newest
  Unsupported <- Unknown
  Reconciles = {1}
  MaxAttempts = 2
  BatchLimit = 1
  Takeover = TRUE
  MaxTrouble = 2
  MaxClaim = 8
PROPERTY EventSettles
CHECK_DEADLOCK FALSE
