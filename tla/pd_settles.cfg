SPECIFICATION Spec
CONSTANTS
  Ports = {"A", "B"}
  TrySrc = {"A"}
  T <- TwoTicks
  PD_CAPS_COUNT = 2
  PD_HARD_RESET_COUNT = 2
  PD_SNK_CAP_RETRIES = 1
  Calls = {"plug"}
  MaxCalls = 1
  MaxFaults = 1
INVARIANT SinkIsOff
PROPERTY EventuallySettled
