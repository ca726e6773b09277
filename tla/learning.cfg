SPECIFICATION Spec
CONSTANTS
  Parts = {"store", "shared", "rollout", "cycles", "execution", "document"}
  Callers = {1, 2}
  Decisions = {"a", "b", "c"}
  MaxCrashes = 2
  MaxCorruptions = 1
  MaxCalls = 5
  Variants = {1, 2}
  Processes = {"bot", "cli"}
  Day = 2
  MaxTime = 5
  MaxCycles = 2
  MaxFailures = 1
  MaxChanges = 1
  Evidence = {"untraded"}
  Contexts = {"ctx"}
  MaxUpdates = 5
  Damages = 1
  Ids = {1, 2}
  MaxLoads = 2
INVARIANTS TypeOK  LearnedOnce 
PROPERTIES LadderKept 
CHECK_DEADLOCK FALSE
