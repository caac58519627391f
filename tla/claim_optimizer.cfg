SPECIFICATION Spec
CONSTANTS
  Cycles = {c1}
  Requests <- PlainRequest
  Readings <- ShippedReadings
  RecursionLimit = 25
  ApprovalTTL = 2
  RemoteBus = FALSE
  ValidatesNodeInput = FALSE
  MaxClock = 0
  MaxFaults = 0
INVARIANTS
  OptimizerFollowsTrigger
