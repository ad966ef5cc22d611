SPECIFICATION Spec
CONSTANTS
  w1 = w1
  w2 = w2
  Worker = {w1, w2}
  Op = {1, 2}
  Required = {1, 2}
  DependsOn <- Submitted
  MaxClaim = 2
  MaxMutation <- Retried
SYMMETRY WorkerSymmetry
VIEW Relative
INVARIANT TypeOK
INVARIANT TriesFollowTheClaim
INVARIANT NoEffectIsTrue
INVARIANT SucceededIsVisible
PROPERTY ImplementsLifecycle
CHECK_DEADLOCK FALSE
