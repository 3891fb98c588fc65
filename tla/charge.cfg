SPECIFICATION Spec
CONSTANTS
  NPorts = 2
  NSuppliers = 2
  supplier_priority <- Ranked
  Currents = {0, 1, 2}
  Ceilings = {1}
  Calls = {"charge", "dualrole", "ceil", "override", "role"}
  MaxCalls = 4
INVARIANTS TypeOK BestPortIsActive BoardFollows PdFollows
PROPERTIES ActivePortKept RefreshSettles
