SPECIFICATION RepairSpec
CONSTANTS
  Services = {"user", "market", "heartbeat", "account"}
  MaxFaults = 1
  MaxCommands = 1
  MaxStops = 1
  Faults = {"drop", "silence", "refuse", "timeout", "rest"}
  Overlap = FALSE
  LateClose = FALSE
  AwaitStop = FALSE
  Syncers = {"reconcile"}
INVARIANTS
  TypeOK
  TrustedMeansCurrent
  
  
  
  
  EscalatedOnce
  EntriesMeanTruth
PROPERTIES
  Repaired
CHECK_DEADLOCK FALSE
