SPECIFICATION Spec
CONSTANTS
  Cycles = {c1, c2}
  Requests <- PairRequests
  Readings <- ShippedReadings
  RecursionLimit = 25
  ApprovalTTL = 1
  RemoteBus = TRUE
  ValidatesNodeInput = FALSE
  MaxClock = 1
  MaxFaults = 1
INVARIANTS
  StateRowsAreDurable
  OrphansComeFromBrokenRuns
  LinksNameStoredMemories
  SpecialistsAreApproved
