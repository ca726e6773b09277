SPECIFICATION Spec
CONSTANTS
  Parts = {"startup", "safety", "admission", "execution", "flow"}
  MaxClock = 7
  MaxTroubles = 2
  LongTroubles = 1
  Signals = {1, 2, 3}
  Batch = 2
  MaxOpen = 2
  MaxNew = 1
  MaxInterruptions = 1
  Configs <- Environments
  Probes <- Answers
  Ledgers <- Histories
  MaxAge = 0
  MaxStops = 1
INVARIANTS TypeOK  NothingLeftBehind
PROPERTIES CooldownKept WorseNeverMilder  RefusalIsFinal Decided
CHECK_DEADLOCK FALSE
