SPECIFICATION Spec
CONSTANTS
  Controllers = {c1, c2}
  Kinds = {"now", "repeat"}
  InitStates = {""}
  EditStates = {}
  Deletions = {}
  CreationTimestamp = 0
  MaxTime = 2
  MaxEdits = 0
  MaxReaps = 0
  MaxStops = 1
  StartTime <- Never
  EndTime <- Never
  ExecutionTime = 2
  CronTicks <- EveryTwoSeconds
  WorkDays <- AnyTime
  WorkHours <- AnyTime
  MinChaosInterval = 4
  Attempts = 2
  SyncPeriod = 3
  PromptWatch = FALSE
  OverridesLabels = FALSE
  MaxCrashes = 0
  MaxErrors = 0
INVARIANTS RunsOnce
PROPERTIES EachRunIsNew ImplementsLifecycle
CHECK_DEADLOCK FALSE
SYMMETRY ControllerSymmetry
