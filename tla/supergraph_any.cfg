SPECIFICATION Spec
CONSTANTS
  Cycles = {c1}
  Requests <- AnyRequest
  Readings <- Reading
  RecursionLimit = 25
  ApprovalTTL = 1
  RemoteBus = TRUE
  ValidatesNodeInput = TRUE
  MaxClock = 1
  MaxFaults = 1
INVARIANTS
  TypeOK
  IInv
  UnheldTokensWereInterrupted
  EndNeedsSummaryOrNoRoute
  MonitorsSeeNoAudit
  CommandsOutliveOnlyBrokenRuns
PROPERTIES
  KeepsContract
