SPECIFICATION Spec
CONSTANTS
  MaxTimers = 3
  MaxTime = 3
  Delays <- MCDelays
  Repeats <- MCRepeats
  CallbackOps = {"schedule"}
INVARIANT NoneLost
