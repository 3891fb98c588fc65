SPECIFICATION Spec
CONSTANTS
  TASK_ID_COUNT = 3
  HOOKS = 1
  Mutexes = {"m1"}
  UserEvents = {"WAKE"}
  Calls = {"wait", "mask", "usleep", "set", "lock"}
INVARIANTS TypeOK PendingEventsKeepTaskReady UrgentTaskRuns TimerNotBusy
PROPERTIES OnlyAClientConsumesItsEvent
