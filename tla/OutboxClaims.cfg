SPECIFICATION Spec
CONSTANTS
  w1 = w1
  w2 = w2
  Event = {1, 2}
  Worker = {w1, w2}
  Available <- Newest
  Unsupported <- Unknown
  Reconciles = {1}
  MaxAttempts = 2
  BatchLimit = 2
  Takeover = TRUE
  MaxTrouble = 2
  MaxClaim = 8
INVARIANT TypeOK
INVARIANT ClaimsExclusive
INVARIANT ProcessedWasHandled
INVARIANT AttemptsAccounted
PROPERTY LiveClaimUndisturbed
PROPERTY SettledStays
CHECK_DEADLOCK FALSE
