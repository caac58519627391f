SPECIFICATION FairSpec
CONSTANTS
  Calls = {k1, k2, k3}
  Jobs = {monitor, knowledge}
  None = None
  Lifespan = TRUE
  Redis = TRUE
  Sqlite = TRUE
  MaxFaults = 2
INVARIANTS
  TypeOK
  OneRuntime
  CyclesRunOnOpenRuntimes
  ShutdownReleasesAll
PROPERTIES
  ShutdownCompletes
\* the server is shut down once
CHECK_DEADLOCK FALSE
