SPECIFICATION Spec
CONSTANTS
  Readings <- SomeReadings
  MediumLatency = 800
  HighLatency = 2000
  CriticalLatency = 5000
  DegradedError = 5
  CriticalError = 15
  QueueLow = 5
  QueueMedium = 20
  QueueHigh = 50
  QueueCritical = 100
  ModelRisks = {0, 100}
  ModelRoutes = {0, 4}
  OptimizerDelta = 10
  AuditWindow = 2
  MaxReports = 5
INVARIANTS
  TypeOK
  MonitorNeverIntervenes
  SummaryReflectsAudits
  ProposalsNeedAMonitor
PROPERTIES
  RepeatsAreQuiet
  FirstRunsDrift
  WorseTelemetryNeverHelps
