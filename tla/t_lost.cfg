SPECIFICATION Spec
CONSTANTS
  TASK_ID_COUNT = 3
  HOOKS = 1
  Mutexes = {"m1"}
  UserEvents = {}
  Calls = {"lock", "wait"}
INVARIANT EveryWaiterIsWoken
\* With no driver event the tasks may all wait without a timeout.
CHECK_DEADLOCK FALSE
