SPECIFICATION FairSpec
CONSTANTS
  Controllers = {c1}
  Kinds = {"repeat"}
  InitStates = {""}
  EditStates = {}
  Deletions = {}
  CreationTimestamp = 0
  MaxTime = 6
  MaxEdits = 0
  MaxReaps = 1
  MaxStops = 0
  StartTime <- Never
  EndTime <- Never
  ExecutionTime = 2
  CronTicks <- EveryTwoSeconds
  WorkDays <- AnyTime
  WorkHours <- AnyTime
  MinChaosInterval = 4
  Attempts = 2
  SyncPeriod = 0
  PromptWatch = TRUE
  OverridesLabels = FALSE
  MaxCrashes = 1
  MaxErrors = 0
INVARIANTS OverlapsAreLostRecords LossesPay
PROPERTIES TicksAreServed
CHECK_DEADLOCK FALSE
