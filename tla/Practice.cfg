SPECIFICATION Spec
CONSTANTS
  MaxCommands = 2
  MaxSends = 4
  MaxTimers = 2
INVARIANTS
  TimerWhileAsleep
PROPERTIES
  WakesOrStops
