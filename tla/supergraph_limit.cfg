SPECIFICATION FairSpec
CONSTANTS
  Cycles = {c1}
  Requests <- ShortRequests
  Readings <- ShippedReadings
  RecursionLimit = 7
  ApprovalTTL = 1
  RemoteBus = FALSE
  ValidatesNodeInput = FALSE
  MaxClock = 1
  MaxFaults = 8
INVARIANTS
  RerunsAreOrchestratorFailures
  LimitNeedsOrchestratorFailures
  FailuresReachLaterAudits
  CommandsOverlapOnlyAfterTwoFailures
PROPERTIES
  KeepsContract
  CyclesEnd
