SPECIFICATION FairSpec
CONSTANTS
  Controllers = {c1}
  Kinds = {"repeat", "badrepeat", "baddays", "badhours"}
  InitStates = {""}
  EditStates = {"active", "halt", "stop", "complete"}
  Deletions = {"background", "foreground"}
  CreationTimestamp = 0
  MaxTime = 3
  MaxEdits = 1
  MaxReaps = 0
  MaxStops = 0
  StartTime <- Never
  EndTime = 2
  ExecutionTime = 2
  CronTicks <- EverySecond
  WorkDays <- AnyTime
  WorkHours <- AnyTime
  MinChaosInterval = 2
  Attempts = 2
  SyncPeriod = 3
  PromptWatch = FALSE
  OverridesLabels = FALSE
  MaxCrashes = 0
  MaxErrors = 0
PROPERTIES HaltIsReported EndTimeCompletes DeletionCollectsEngines
CHECK_DEADLOCK FALSE
