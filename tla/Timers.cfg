SPECIFICATION FairSpec
CONSTANTS
  MaxTimers = 3
  MaxTime = 2
  Delays <- MCDelays
  Repeats <- MCRepeats
  CallbackOps = {"schedule", "cancel", "fail"}
INVARIANTS
  ScheduleAgrees
  UntouchedKept
  OnPlan
PROPERTIES
  FiresRightly
  DueFires
