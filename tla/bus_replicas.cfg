SPECIFICATION Spec
CONSTANTS
  Replicas = {r1, r2}
  Tokens = {t1}
  Agents = {monitor, optimizer}
  OnRedis = {r1, r2}
  Sqlite = TRUE
  Lifetimes <- ShortLifetimes
  KeyTTL = 2
  MaxEvents = 1
  MaxLives = 1
  MaxClock = 3
  MaxFaults = 2
SYMMETRY Interchangeable
CHECK_DEADLOCK FALSE
INVARIANTS
  TypeOK
  SignalsWereApproved
  LocalSignalsStayInScope
  KeysCoverTokens
  KnownTokensWereIssued
