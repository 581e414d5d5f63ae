SPECIFICATION FairSpec
CONSTANTS
  Controllers = {c1}
  Kinds = {"repeat"}
  InitStates = {""}
  EditStates = {}
  Deletions = {}
  CreationTimestamp = 0
  MaxTime = 6
  MaxEdits = 0
  MaxReaps = 0
  MaxStops = 1
  StartTime <- Never
  EndTime <- Never
  ExecutionTime = 2
  CronTicks <- EverySecond
  WorkDays <- AnyTime
  WorkHours <- AnyTime
  MinChaosInterval = 2
  Attempts = 2
  SyncPeriod = 0
  PromptWatch = TRUE
  OverridesLabels = FALSE
  MaxCrashes = 0
  MaxErrors = 0
PROPERTIES TicksAreServed
CHECK_DEADLOCK FALSE
