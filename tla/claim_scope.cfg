SPECIFICATION Spec
CONSTANTS
  Replicas = {r1}
  Tokens = {t1}
  Agents = {monitor, optimizer}
  OnRedis = {r1}
  Sqlite = FALSE
  Lifetimes <- FullLifetimes
  KeyTTL = 2
  MaxEvents = 1
  MaxLives = 1
  MaxClock = 1
  MaxFaults = 0
CHECK_DEADLOCK FALSE
INVARIANTS
  SignalsStayInScope
