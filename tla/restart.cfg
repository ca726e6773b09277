SPECIFICATION FairSpec
CONSTANTS
  Signals = {"e1"}
  Exits = {}
  Plans = {"p1"}
  MaxAttempts = 1
  Size = 2
  Cash = 4
  Reconcilers = {"r1"}
  MaxCrashes = 1
  MaxAge = 2
  Replies = {"live", "filled", "uncertain", "rejected"}
  CancelErrors = {"other"}
  Lags = {"nothing", "orders","trades"}
  SlowReplies = FALSE
INVARIANTS TypeOK FullFillNotCanceled
PROPERTIES CanceledOnlyAfterEnd RecoveredMeansFlat RowSettles
CHECK_DEADLOCK FALSE
