SPECIFICATION Spec
CONSTANTS
  r1 = r1
  r2 = r2
  r3 = r3
  d1 = d1
  d2 = d2
  d3 = d3
  Request = {r1, r2, r3}
  Driver = {d1, d2, d3}
  MaxRequests = 3
  MaxConcurrent = 2
  MaxTrouble = 2
SYMMETRY GrantSymmetry
INVARIANT TypeOK
INVARIANT BudgetHeld
INVARIANT NoEffectIsTrue
INVARIANT SentAgainOnlyIfRefused
INVARIANT SuccessIsReal
PROPERTY NothingAfterUnknown
CHECK_DEADLOCK FALSE
