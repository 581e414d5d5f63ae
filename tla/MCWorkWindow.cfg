SPECIFICATION Spec
CONSTANTS
  MinutesPerHour = 4
  HoursPerDay = 4
  Repeats <- SomeRepeats
INVARIANTS DocumentedFormsAgree ArraysInBounds TicksInWorkWindow
  IntervalKept
