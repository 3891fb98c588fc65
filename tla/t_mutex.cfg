SPECIFICATION Spec
CONSTANTS
  TASK_ID_COUNT = 4
  HOOKS = 1
  Mutexes = {"m1"}
  UserEvents = {"WAKE"}
  Calls = {"lock", "set_wait"}
INVARIANTS MutualExclusion LowestWaiterIsWoken
\* With no driver event the tasks may all wait without a timeout.
CHECK_DEADLOCK FALSE
