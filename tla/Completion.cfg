SPECIFICATION LiveSpec
CONSTANTS
  w1 = w1
  w2 = w2
  Worker = {w1, w2}
  Execution = {1, 2}
  Outcomes = {"succeeded", "failed_no_effect", "stale_visible", "terminal_unknown"}
  MaxTrouble = 1
INVARIANT TypeOK
INVARIANT ProcessTellsOutcome
INVARIANT SnapshotIsEarned
PROPERTY SnapshotMovesForward
PROPERTY OnePublication
PROPERTY EveryReviewEnds
CHECK_DEADLOCK FALSE
