SPECIFICATION Spec
CONSTANTS
  Controllers = {c1}
  Kinds = {"repeat"}
  InitStates = {""}
  EditStates = {}
  Deletions = {}
  CreationTimestamp = 0
  MaxTime = 4
  MaxEdits = 0
  MaxReaps = 0
  MaxStops = 0
  StartTime <- Never
  EndTime <- Never
  ExecutionTime = 2
  CronTicks <- InHourZero
  WorkDays <- AnyTime
  WorkHours <- HourZero
  MinChaosInterval = 2
  Attempts = 2
  SyncPeriod = 0
  PromptWatch = FALSE
  OverridesLabels = FALSE
  MaxCrashes = 0
  MaxErrors = 0
INVARIANTS ScheduledInWorkTimes
CHECK_DEADLOCK FALSE
