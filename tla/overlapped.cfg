SPECIFICATION Spec
CONSTANTS
  Signals = {"e1"}
  Exits = {}
  Plans = {"p1"}
  MaxAttempts = 1
  Size = 1
  Cash = 4
  Reconcilers = {"r1", "r2"}
  MaxCrashes = 0
  MaxAge = 2
  Replies = {"live", "filled", "uncertain", "rejected"}
  CancelErrors = {"other"}
  Lags = {"nothing", "orders","trades"}
  SlowReplies = FALSE
INVARIANTS FullFillNotCanceled
CHECK_DEADLOCK FALSE
