SPECIFICATION Spec
CONSTANTS
  Runs = {r1, r2}
  Readers = {reader}
  Texts <- SomeTexts
  Queries <- SomeQueries
  History <- SomeHistory
  Driver = TRUE
  AuditWindow = 1
  CommandWindow = 1
  Instants = {1, 2}
SYMMETRY Interchangeable
INVARIANTS
  TypeOK
  AnswersAreTheBest
  LineageIsComplete
  LineageFollowsCommits
  AuditsComeWithCommands
PROPERTIES
  LatestNeverGoesBack
\* every client is one use of the blackboard, and may be over
CHECK_DEADLOCK FALSE
