SPECIFICATION Spec
CONSTANTS
  Ports = {"A", "B"}
  TrySrc = {}
  T <- TwoTicks
  PD_CAPS_COUNT = 2
  PD_HARD_RESET_COUNT = 2
  PD_SNK_CAP_RETRIES = 1
  Calls = {"power_swap", "data_swap", "soft_reset", "dual_role", "plug"}
  MaxCalls = 1
  MaxFaults = 1
INVARIANT TypeOK
INVARIANT OneSource
INVARIANT RolesAgree
