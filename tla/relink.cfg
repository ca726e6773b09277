SPECIFICATION FairSpec
CONSTANTS
  Services = {"user", "heartbeat"}
  MaxFaults = 1
  MaxCommands = 0
  MaxStops = 1
  Faults = {"drop", "silence", "refuse", "timeout"}
  Overlap = TRUE
  LateClose = FALSE
  AwaitStop = FALSE
  Syncers = {"reconcile"}
PROPERTIES
  
  HeartbeatFollows
CHECK_DEADLOCK FALSE
