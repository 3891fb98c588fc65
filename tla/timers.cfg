SPECIFICATION Spec
CONSTANTS
  Tasks = {1, 2}
  Wrap = 4
  Timeouts = {1, 5}
  MaxTime = 12
  MaxLatency = 2
INVARIANTS TypeOK GetTimeIsCurrent NoTimerIsMissed
PROPERTIES NoTimerIsEarly TimersEnd
\* The bounded clock stops.
CHECK_DEADLOCK FALSE
