\* Two jobs of one set of credentials share a single worker of the queue.
SPECIFICATION FairSpec
CONSTANTS
  Creds = {c1}
  Jobs = {j1, j2}
  Answers = {a1}
  Statements = {}
  Outcomes <- NoOutcome
  MaxVersion = 1
  Workers = 1
PROPERTIES
  QueueDrains
CHECK_DEADLOCK FALSE
