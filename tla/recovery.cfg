SPECIFICATION Spec
CONSTANTS
  Clients = {c1}
  Loops = {"reconcile"}
  MaxCommands = 1
  MaxCrashes = 1
  MaxSignals = 1
  MaxSwitches = 0
  MaxOrders = 0
  MaxInFlight = 1
  Faults = TRUE
  c1 = c1
INVARIANT NoSilentRecovery
