SPECIFICATION Spec
CONSTANTS
  Blocks = {0, 1}
  RW <- Image
  Commands <- Asked
  Builds = {TRUE, FALSE}
  MaxEvents = 3
INVARIANT TypeOK
INVARIANT DoneIsCurrent
PROPERTY HashEnds
CHECK_DEADLOCK FALSE
