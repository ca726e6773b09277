SPECIFICATION LiveSpec
CONSTANTS
  Clients = {c1}
  Loops = {}
  MaxCommands = 2
  MaxCrashes = 0
  MaxSignals = 0
  MaxSwitches = 1
  MaxOrders = 0
  MaxInFlight = 1
  Faults = FALSE
  c1 = c1
PROPERTY EveryCommandAnswered
 
