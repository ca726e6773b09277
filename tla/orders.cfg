SPECIFICATION Spec
CONSTANTS
  Signals = {e1, e2, x1}
  Exits = {x1}
  Plans = {p1}
  MaxAttempts = 2
  Size = 1
  Cash = 4
  Reconcilers = {"r1"}
  MaxCrashes = 0
  MaxAge = 1
  Replies = {"live", "uncertain"}
  CancelErrors = {"other"}
  Lags = {"nothing", "orders"}
  SlowReplies = FALSE
INVARIANTS NoDoubleExposure NeverOversold
SYMMETRY Interchangeable
CHECK_DEADLOCK FALSE
