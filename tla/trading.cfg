SPECIFICATION Spec
CONSTANTS
  Clients = {c1}
  Loops = {"evaluation"}
  MaxCommands = 2
  MaxCrashes = 0
  MaxSignals = 0
  MaxSwitches = 0
  MaxOrders = 2
  MaxInFlight = 1
  Faults = FALSE
  c1 = c1
INVARIANT LateOrderBound
INVARIANT AcknowledgedTruth
