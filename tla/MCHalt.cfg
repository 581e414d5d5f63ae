SPECIFICATION Spec
CONSTANTS
  Controllers = {c1}
  Kinds = {"repeat"}
  InitStates = {""}
  EditStates = {"active", "halt"}
  Deletions = {}
  CreationTimestamp = 0
  MaxTime = 8
  MaxEdits = 2
  MaxReaps = 0
  MaxStops = 0
  StartTime = 2
  EndTime = 6
  ExecutionTime = 2
  CronTicks <- InHourOne
  WorkDays <- AnyTime
  WorkHours <- HourOne
  MinChaosInterval = 2
  Attempts = 2
  SyncPeriod = 0
  PromptWatch = FALSE
  OverridesLabels = FALSE
  MaxCrashes = 1
  MaxErrors = 0
INVARIANTS Inv TypeOK AtMostOneLateEngine EnginesInTimeRange ActiveIsLastRun
PROPERTIES OnlyUserActivates
CHECK_DEADLOCK FALSE
