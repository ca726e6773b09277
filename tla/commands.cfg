SPECIFICATION Spec
CONSTANTS
  Clients = {c1, c2}
  Loops = {}
  MaxCommands = 2
  MaxCrashes = 1
  MaxSignals = 0
  MaxSwitches = 0
  MaxOrders = 0
  MaxInFlight = 1
  Faults = FALSE
  c1 = c1
  c2 = c2
SYMMETRY ClientSymmetry
INVARIANT TypeOK
INVARIANT SingleActive
PROPERTY LedgerRefined
