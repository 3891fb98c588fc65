SPECIFICATION Spec
CONSTANTS
  N = 2
  Delays = {0, 2, 4}
  TickInterval = 3
  Second = 6
  MaxTime = 11
  MaxCalls = 3
  MaxLag = 2
INVARIANTS TypeOK SleepIsShort PeriodicHooksOnTime
PROPERTIES RequestsAreServed
\* The bounded clock stops.
CHECK_DEADLOCK FALSE
