SPECIFICATION FairSpec
CONSTANTS
  Controllers = {c1}
  Kinds = {"now", "once", "none"}
  InitStates = {""}
  EditStates = {}
  Deletions = {}
  CreationTimestamp = 0
  MaxTime = 3
  MaxEdits = 0
  MaxReaps = 1
  MaxStops = 0
  StartTime <- Never
  EndTime <- Never
  ExecutionTime = 2
  CronTicks <- EverySecond
  WorkDays <- AnyTime
  WorkHours <- AnyTime
  MinChaosInterval = 2
  Attempts = 2
  SyncPeriod = 0
  PromptWatch = FALSE
  OverridesLabels = TRUE
  MaxCrashes = 1
  MaxErrors = 1
INVARIANTS RunsOnce
PROPERTIES RunThenCompleted
CHECK_DEADLOCK FALSE
