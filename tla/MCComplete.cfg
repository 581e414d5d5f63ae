SPECIFICATION FairSpec
CONSTANTS
  Controllers = {c1}
  Kinds = {"repeat"}
  InitStates = {""}
  EditStates = {"complete"}
  Deletions = {}
  CreationTimestamp = 0
  MaxTime = 2
  MaxEdits = 1
  MaxReaps = 0
  MaxStops = 0
  StartTime <- Never
  EndTime <- Never
  ExecutionTime = 2
  CronTicks <- EverySecond
  WorkDays <- AnyTime
  WorkHours <- AnyTime
  MinChaosInterval = 2
  Attempts = 2
  SyncPeriod = 0
  PromptWatch = FALSE
  OverridesLabels = FALSE
  MaxCrashes = 0
  MaxErrors = 0
PROPERTIES CompleteIsReported
CHECK_DEADLOCK FALSE
