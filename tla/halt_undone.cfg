SPECIFICATION Spec
CONSTANTS
  Clients = {c1}
  Loops = {"evaluation"}
  MaxCommands = 1
  MaxCrashes = 1
  MaxSignals = 0
  MaxSwitches = 1
  MaxOrders = 0
  MaxInFlight = 1
  Faults = FALSE
  c1 = c1
INVARIANT NoSilentRecovery
