SPECIFICATION Spec
CONSTANTS
  Calls = {k1, k2, k3}
  Jobs = {monitor, knowledge}
  None = None
  Lifespan = FALSE
  Redis = TRUE
  Sqlite = TRUE
  MaxFaults = 2
CHECK_DEADLOCK FALSE
INVARIANTS
  OneRuntime
